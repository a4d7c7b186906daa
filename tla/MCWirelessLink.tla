---------------------------- MODULE MCWirelessLink ----------------------------
(* Three adapters on two cores: takeovers, moves from core to core, an     *)
(* adapter in both; seats asked for twice, or not at all.                  *)
EXTENDS WirelessLink

CONSTANTS d1, d2, d3, c1, c2

MCDrivers == {d1, d2, d3}
MCCores == {c1, c2}
MCRequests == {Any, 0, 1}
=============================================================================
