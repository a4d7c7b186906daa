---------------------------- MODULE MCLinkSnapshot ----------------------------
(* Two players, one of whom may press a key, so that the timelines before  *)
(* and after a restore differ; two slots; ticks of two slices, the second  *)
(* of which is entered.  Slots are interchangeable.                        *)
EXTENDS LinkSnapshot, TLC

CONSTANTS s1, s2

MCPlayers == {0, 1}
MCKeys == [p \in MCPlayers |-> IF p = 0 THEN {"none", "A"} ELSE {"none"}]
MCSlots == {s1, s2}
Interchangeable == Permutations(MCSlots)
=============================================================================
