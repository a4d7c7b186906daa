------------------------------ MODULE RewindLink ------------------------------
(***************************************************************************)
(* What rollback needs of a link: several machines that advance in step,   *)
(* whose state is a function of the keys pressed and of nothing else, and  *)
(* that can be put back, all of them at once, to a moment kept earlier.    *)
(* A restore may fail; then the link is torn until another one succeeds.   *)
(***************************************************************************)
EXTENDS Naturals, Sequences

CONSTANTS
  Players,
  Keys,        (* of each player: the keys it may press in a slice         *)
  Slots,       (* where the frontend keeps moments                         *)
  Tick,        (* slices from one barrier to the next                      *)
  MaxTime,     (* bound on the slices of a machine                         *)
  Torn, Empty

VARIABLES
  link,        (* of each player: the keys pressed so far; or Torn         *)
  saved        (* of each slot: a moment of the link, or Empty             *)

Start == [p \in Players |-> <<>>]

Init == link = Start /\ saved = [s \in Slots |-> Empty]

(* Nobody leaves a tick before everybody has reached it. *)
Advance(p, k) ==
  /\ link # Torn
  /\ Len(link[p]) < MaxTime
  /\ link' = [link EXCEPT ![p] = Append(@, k)]
  /\ \A q \in Players, n \in 0 .. MaxTime :
       n * Tick <= Len(link[p]) => n * Tick <= Len(link[q])
  /\ UNCHANGED saved

Save(s) ==
  /\ link # Torn
  /\ saved' = [saved EXCEPT ![s] = link]
  /\ UNCHANGED link

Forget(s) == saved' = [saved EXCEPT ![s] = Empty] /\ UNCHANGED link

Copy(s, t) ==
  /\ saved[s] # Empty
  /\ saved' = [saved EXCEPT ![t] = saved[s]]
  /\ UNCHANGED link

Restore(s) ==
  /\ saved[s] # Empty
  /\ link' = saved[s]
  /\ UNCHANGED saved

Fail == link' = Torn /\ UNCHANGED saved

Next ==
  \/ \E p \in Players : \E k \in Keys[p] : Advance(p, k)
  \/ \E s \in Slots : Save(s) \/ Forget(s) \/ Restore(s)
  \/ \E s, t \in Slots : Copy(s, t)
  \/ Fail

Spec == Init /\ [][Next]_<<link, saved>>
=============================================================================
