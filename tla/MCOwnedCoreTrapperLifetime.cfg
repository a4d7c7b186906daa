SPECIFICATION Spec
CONSTANTS
  a1 = a1
  a2 = a2
  Addrs <- MCAddrs
  TrapLists <- MCTrapLists
  NameKinds = {"plain"}
  MaxAllocs = 4
  MaxMoves = 2
INVARIANT TrapperLifetime
CHECK_DEADLOCK FALSE
