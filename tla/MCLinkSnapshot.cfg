SPECIFICATION Spec
CONSTANTS
  s1 = s1
  s2 = s2
  Players <- MCPlayers
  Primary = 0
  Keys <- MCKeys
  Unsavable = {0}
  Slots <- MCSlots
  Tick = 2
  MaxTime = 3
  Torn = Torn
  Empty = Empty
  NoBytes = NoBytes
SYMMETRY Interchangeable
INVARIANTS
  TypeOK
  InStep
PROPERTY ImplementsRewind
