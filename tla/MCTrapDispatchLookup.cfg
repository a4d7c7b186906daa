SPECIFICATION Spec
CONSTANTS
  Program <- MCProgram
  Cell <- MCCell
  CopyOf <- MCCopyOf
  Code <- MCCode
  Targets <- MCTargets
  ResetVec = 0
  HookLists <- MCHookLists
  Timings = {"first", "after"}
  LateHooks = FALSE
  MaxDepth = 2
INVARIANT LookupSucceeds
