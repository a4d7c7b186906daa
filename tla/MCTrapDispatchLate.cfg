SPECIFICATION Spec
CONSTANTS
  Program <- MCProgram
  Cell <- MCCell
  CopyOf <- MCCopyOf
  Code <- MCCode
  Targets <- MCTargets
  ResetVec = 0
  HookLists <- MCHookLists
  Timings = {"after"}
  LateHooks = TRUE
  MaxDepth = 2
PROPERTY TrapsFire
CHECK_DEADLOCK FALSE
