---------------------------- MODULE ResamplerProofs ----------------------------
(***************************************************************************)
(* For any number of rings: what the comments of set_source and            *)
(* set_destination ask of callers keeps the resampler from pointers to     *)
(* freed rings, read the one way; read the other, it does so until the     *)
(* first process.                                                          *)
(***************************************************************************)
EXTENDS Resampler, TLAPS

(* A ring is where its box is. *)
Pinned == \A r \in Rings : place[r] = 0

(* The pointers a call of process will follow: the destination always, the *)
(* source unless callers may take it to be done with.                      *)
PointersKept == resampler = "live" =>
  /\ Valid(destination)
  /\ Valid(source) \/ (UntilProcess /\ processed)

IInv == TypeOK /\ Pinned /\ PointersKept

LEMMA Initially == Init => IInv
<1> SUFFICES ASSUME Init PROVE IInv
  OBVIOUS
<1>1. TypeOK
  BY DEF Init, TypeOK, Rings, Nothing
<1>2. Pinned
  BY DEF Init, Pinned
<1>3. Valid(source) /\ Valid(destination)
  BY DEF Init, Valid
<1>4. QED
  BY <1>1, <1>2, <1>3 DEF IInv, PointersKept

(* Rings stay where they are, so that a pointer is valid as long as its    *)
(* ring is not freed; and a ring freed was one nothing may follow.         *)
LEMMA FreeKeeps ==
  ASSUME IInv, NEW r \in Rings, FreeRing(r)
  PROVE  PointersKept'
<1>1. /\ live' = live \ {r} /\ UNCHANGED <<place, source, destination, processed, resampler>>
      /\ resampler = "live" => Unused(r)
  BY DEF FreeRing
<1>2. SUFFICES ASSUME resampler = "live"
      PROVE  Valid(destination)' /\ (Valid(source)' \/ (UntilProcess /\ processed))
  BY <1>1 DEF PointersKept
<1>3. \A x \in live : x # r => x \in live' /\ Address(x)' = Address(x)
  BY <1>1 DEF Address
<1>4. Valid(destination) => Valid(destination)'
  BY <1>1, <1>2, <1>3 DEF Valid, Unused
<1>5. Valid(source) => Valid(source)' \/ (UntilProcess /\ processed)
  BY <1>1, <1>2, <1>3 DEF Valid, Unused
<1>6. QED
  BY <1>2, <1>4, <1>5 DEF IInv, PointersKept

(* A step that frees nothing, moves nothing and leaves the pointers alone. *)
LEMMA OthersKeep ==
  ASSUME IInv, live \subseteq live', UNCHANGED <<place, source, destination>>,
         processed => processed', resampler' = "live" => resampler = "live"
  PROVE  PointersKept'
<1>1. \A p : Valid(p) => p = Nothing \/ p \in {Address(r)' : r \in live'}
  BY DEF Valid, Address
<1>2. Valid(source) => Valid(source)'
  BY <1>1 DEF Valid
<1>3. Valid(destination) => Valid(destination)'
  BY <1>1 DEF Valid
<1>4. QED
  BY <1>2, <1>3 DEF IInv, PointersKept

LEMMA StepKeeps == ASSUME IInv, [Next]_vars PROVE IInv'
<1>1. ASSUME NEW r \in Owned, NewRing(r) PROVE IInv'
  <2>1. TypeOK' /\ Pinned'
    BY <1>1 DEF IInv, TypeOK, Pinned, NewRing, Rings
  <2>2. PointersKept'
    BY <1>1, OthersKeep DEF NewRing
  <2>3. QED
    BY <2>1, <2>2 DEF IInv
<1>2. ASSUME NEW r \in Owned, MoveRing(r) PROVE IInv'
  <2>1. place' = place
    BY <1>2 DEF MoveRing, Boxed, IInv, TypeOK, Pinned, Rings
  <2>2. PointersKept'
    BY <1>2, <2>1, OthersKeep DEF MoveRing
  <2>3. QED
    BY <1>2, <2>1, <2>2 DEF IInv, TypeOK, Pinned, MoveRing
<1>3. ASSUME NEW r \in Rings, SetSource(r) PROVE IInv'
  <2>1. TypeOK' /\ Pinned'
    BY <1>3 DEF IInv, TypeOK, Pinned, SetSource, Address
  <2>2. Valid(source)' /\ (Valid(destination) => Valid(destination)')
    BY <1>3 DEF SetSource, Valid, Address
  <2>3. QED
    BY <1>3, <2>1, <2>2 DEF IInv, PointersKept, SetSource
<1>4. ASSUME NEW r \in Rings, SetDestination(r) PROVE IInv'
  <2>1. TypeOK' /\ Pinned'
    BY <1>4 DEF IInv, TypeOK, Pinned, SetDestination, Address
  <2>2. Valid(destination)' /\ (Valid(source) => Valid(source)')
    BY <1>4 DEF SetDestination, Valid, Address
  <2>3. QED
    BY <1>4, <2>1, <2>2 DEF IInv, PointersKept, SetDestination
<1>5. ASSUME NEW r \in Rings, FreeRing(r) PROVE IInv'
  BY <1>5, FreeKeeps DEF IInv, TypeOK, Pinned, FreeRing
<1>6. CASE Process
  <2>1. PointersKept'
    BY <1>6, OthersKeep DEF Process
  <2>2. QED
    BY <1>6, <2>1 DEF IInv, TypeOK, Pinned, Process
<1>7. CASE DropResampler
  <2>1. PointersKept'
    BY <1>7 DEF PointersKept, DropResampler
  <2>2. QED
    BY <1>7, <2>1 DEF IInv, TypeOK, Pinned, DropResampler
<1>8. CASE UNCHANGED vars
  <2>1. PointersKept'
    BY <1>8, OthersKeep DEF vars
  <2>2. QED
    BY <1>8, <2>1 DEF IInv, TypeOK, Pinned, vars
<1>9. QED
  BY <1>1, <1>2, <1>3, <1>4, <1>5, <1>6, <1>7, <1>8 DEF Next

LEMMA RingsInductive == Spec => []IInv
BY Initially, StepKeeps, PTL DEF Spec

-----------------------------------------------------------------------------
(* Callers who keep a source, and a destination, as long as the resampler  *)
(* may process leave it no pointer to a freed ring, wherever the rings     *)
(* have been moved meanwhile.                                              *)
THEOREM PointersStayValid ==
  ASSUME ~UntilProcess
  PROVE  Spec => []PointersValid
<1>1. IInv => PointersValid
  BY DEF IInv, PointersKept, PointersValid
<1>2. QED
  BY <1>1, RingsInductive, PTL

(* How far the comment of set_source carries those who free a source once  *)
(* process has run.                                                        *)
FirstProcessSafe ==
  resampler = "live" => Valid(destination) /\ (~processed => Valid(source))

(* Of every caller who keeps to the comments: the first process after a    *)
(* set_source reads a ring that is there, and no process ever writes to    *)
(* one that is not.                                                        *)
THEOREM SourceUntilProcess == Spec => []FirstProcessSafe
<1>1. IInv => FirstProcessSafe
  BY DEF IInv, PointersKept, FirstProcessSafe
<1>2. QED
  BY <1>1, RingsInductive, PTL
=============================================================================
