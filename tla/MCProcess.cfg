SPECIFICATION ProcessSpec
CONSTANTS
  a1 = a1
  a2 = a2
  t1 = t1
  t2 = t2
  Addrs <- MCAddrs
  TrapLists <- MCTrapLists
  NameKinds = {"plain", "nul"}
  MaxAllocs = 4
  MaxMoves = 2
  Threads <- MCThreads
  Stub = Stub
  NoLine = NoLine
  Moved = Moved
INVARIANTS
  NoDangling
  Survives
  BuffersAlive
  ReleasedOnDrop
  LinesRouted
PROPERTIES
  TrapperForLife
  LoggerForGood
  InstallReturns
CHECK_DEADLOCK FALSE
