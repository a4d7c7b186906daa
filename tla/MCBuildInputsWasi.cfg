SPECIFICATION Spec
CONSTANTS
  Targets = {"wasm"}
  Generators = {"make"}
  MaxEdits = 0
  Missing = Missing
INVARIANT SeenAlike
CHECK_DEADLOCK FALSE
