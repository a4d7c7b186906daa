----------------------------- MODULE MCOwnedCore -----------------------------
(* Instances of OwnedCore for TLC: two code addresses, and lists with and   *)
(* without a repeated one.                                                  *)
EXTENDS OwnedCore

CONSTANTS a1, a2

MCAddrs == {a1, a2}

MCTrapLists == {<<>>, <<a1>>, <<a1, a2>>, <<a1, a1>>, <<a1, a2, a1>>}
=============================================================================
