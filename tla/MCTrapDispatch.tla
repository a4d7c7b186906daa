--------------------------- MODULE MCTrapDispatch ---------------------------
(* Instances of TrapDispatch for TLC: a cartridge of six instructions, a    *)
(* loop and a conditional branch, a breakpoint of its own and one with the  *)
(* trapper's immediate, and two cells of RAM it copies its jumps to.        *)
EXTENDS TrapDispatch

MCProgram ==
  (0 :> "copy") @@ (1 :> "branch") @@ (2 :> "plain") @@ (3 :> "bkpt")
    @@ (4 :> Trap) @@ (5 :> "jump")
    @@ (6 :> "branch") @@ (7 :> "jump")

MCCopyOf == (6 :> 1) @@ (7 :> 5)

(* The cartridge at addresses 0..5 and again at 6..11, then the RAM; what   *)
(* is fetched past its end is never executed.                               *)
MCCode == 0 .. 13
MCCell == [a \in 0 .. 15 |-> IF a < 12 THEN a % 6 ELSE 6 + (a % 2)]
MCTargets == {0, 2, 7, 12}

(* Some lists hook a mirror, two addresses of one cell, or the game's own   *)
(* breakpoint.                                                              *)
MCHookLists == {<<>>, <<1>>, <<3>>, <<4>>, <<2, 5>>, <<0, 1, 2>>, <<1, 7>>, <<8, 2, 3>>}
=============================================================================
