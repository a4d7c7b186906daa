SPECIFICATION WirelessSpec
CONSTANTS
  d1 = d1
  d2 = d2
  d3 = d3
  c1 = c1
  c2 = c2
  Drivers <- MCDrivers
  Cores <- MCCores
  Requests <- MCRequests
  NoDriver = NoDriver
  NumSeats = 3
  Tick = 2
INVARIANTS
  Survives
  PlayersInstalled
  WirelessTypeOK
  SomebodyAwake
  SeatsDistinct
  IdentityKept
PROPERTIES
  TickAdvances
  ParkedIsWoken
CHECK_DEADLOCK FALSE
