-------------------------- MODULE LinkSnapshotProofs --------------------------
(***************************************************************************)
(* For any number of players, slots, keys and slices to a tick: a link     *)
(* saved and loaded call by call, with any of the calls failing, is one    *)
(* that goes back to whole moments.                                        *)
(***************************************************************************)
EXTENDS LinkSnapshot, SequenceTheorems, TLAPS

(* Ticks, counted in slices. *)
LEMMA TicksAreSlices ==
  ASSUME NEW n \in Nat
  PROVE  n * Tick \in Nat /\ n <= n * Tick /\ (n + 1) * Tick = n * Tick + Tick
<1>1. Tick \in Nat /\ Tick >= 1
  BY SnapshotAssumption
<1>2. n * Tick \in Nat /\ (n + 1) * Tick = n * Tick + Tick
  BY <1>1
<1>3. n * Tick = n + n * (Tick - 1) /\ n * (Tick - 1) \in Nat
  BY <1>1
<1>4. QED
  BY <1>2, <1>3

(* Who is short of the tick after the n-th is not past a later one. *)
LEMMA ShortOfNext ==
  ASSUME NEW n \in Nat, NEW m \in Nat, NEW c \in Nat, c < Tick,
         m * Tick <= n * Tick + c
  PROVE  m * Tick <= n * Tick
<1>1. Tick \in Nat
  BY SnapshotAssumption
<1>2. CASE m <= n
  <2>1. PICK d \in Nat : n = m + d
    BY <1>2
  <2>2. n * Tick = m * Tick + d * Tick /\ d * Tick \in Nat /\ m * Tick \in Nat
    BY <1>1, <2>1
  <2>3. QED
    BY <2>2
<1>3. CASE n < m
  <2>1. PICK d \in Nat : m = n + 1 + d
    BY <1>3
  <2>2. m * Tick = n * Tick + Tick + d * Tick /\ d * Tick \in Nat /\ n * Tick \in Nat
    BY <1>1, <2>1
  <2>3. QED
    BY <1>1, <2>2
<1>4. QED
  BY <1>2, <1>3

(* Another key leaves the history before it as it was. *)
LEMMA AppendKeepsPast ==
  ASSUME NEW h \in History, NEW k \in UNION {Keys[p] : p \in Players},
         NEW n \in Nat, n <= Len(h)
  PROVE  /\ Append(h, k) \in History /\ Len(Append(h, k)) = Len(h) + 1
         /\ SubSeq(Append(h, k), 1, n) = SubSeq(h, 1, n)
         /\ SubSeq(h, 1, n) \in History
<1> DEFINE S == UNION {Keys[p] : p \in Players}
<1>1. h \in Seq(S)
  BY DEF History
<1>2. /\ Append(h, k) \in Seq(S) /\ Len(Append(h, k)) = Len(h) + 1
      /\ \A i \in 1 .. Len(h) : Append(h, k)[i] = h[i]
  BY <1>1, AppendProperties
<1>3. /\ \A i \in 1 .. n : i \in 1 .. Len(h)
      /\ \A i \in 1 .. Len(h) : h[i] \in S
  BY <1>1
<1>4. \A i \in 1 .. n : h[i] \in S /\ Append(h, k)[i] = h[i]
  BY <1>2, <1>3
<1>5. /\ SubSeq(h, 1, n) \in Seq(S) /\ Len(SubSeq(h, 1, n)) = n
      /\ \A i \in 1 .. n : SubSeq(h, 1, n)[i] = h[i]
  <2>1. /\ SubSeq(h, 1, n) \in Seq(S) /\ Len(SubSeq(h, 1, n)) = IF 1 <= n THEN n - 1 + 1 ELSE 0
        /\ \A i \in 1 .. n - 1 + 1 : SubSeq(h, 1, n)[i] = h[1 + i - 1]
    BY <1>4, SubSeqProperties
  <2>2. QED
    BY <2>1
<1>6. /\ SubSeq(Append(h, k), 1, n) \in Seq(S) /\ Len(SubSeq(Append(h, k), 1, n)) = n
      /\ \A i \in 1 .. n : SubSeq(Append(h, k), 1, n)[i] = h[i]
  <2>1. \A i \in 1 .. n : Append(h, k)[i] \in S
    BY <1>4
  <2>2. /\ SubSeq(Append(h, k), 1, n) \in Seq(S)
        /\ Len(SubSeq(Append(h, k), 1, n)) = IF 1 <= n THEN n - 1 + 1 ELSE 0
        /\ \A i \in 1 .. n - 1 + 1 : SubSeq(Append(h, k), 1, n)[i] = Append(h, k)[1 + i - 1]
    BY <2>1, SubSeqProperties
  <2>3. QED
    BY <1>4, <2>2
<1>7. SubSeq(Append(h, k), 1, n) = SubSeq(h, 1, n)
  BY <1>5, <1>6, SeqEqual
<1>8. QED
  BY <1>2, <1>5, <1>7 DEF History

LEMMA HistoriesEmpty == <<>> \in History /\ Len(<<>>) = 0
BY DEF History

LEMMA Initially == Init => IInv
<1> SUFFICES ASSUME Init PROVE IInv
  OBVIOUS
<1> USE SnapshotAssumption
<1>1. TypeOK
  BY HistoriesEmpty DEF Init, TypeOK, Start, NoneOf, Moment, Calls
<1>2. InStep
  <2>1. \A p \in Players : /\ Len(core[p]) = 0 * Tick + clock[p]
                            /\ shared[p] = SubSeq(core[p], 1, 0 * Tick)
    <3> TAKE p \in Players
    <3>1. core[p] = <<>> /\ shared[p] = <<>> /\ clock[p] = 0
      BY DEF Init, Start
    <3>2. 0 * Tick = 0 /\ 0 * Tick + 0 = 0
      OBVIOUS
    <3>3. SubSeq(core[p], 1, 0 * Tick) = <<>>
      BY <3>2, SubSeqEmpty
    <3>4. Len(core[p]) = 0
      BY <3>1, HistoriesEmpty
    <3>5. QED
      BY <3>1, <3>2, <3>3, <3>4
  <2>2. 0 \in 0 .. MaxTime
    OBVIOUS
  <2>3. QED
    BY <2>1, <2>2 DEF Init, InStep, OneMoment
<1>3. \A s \in Slots : ~Complete(s)
  BY DEF Init, Complete, NoneOf
<1>4. QED
  BY <1>1, <1>2, <1>3 DEF IInv, Init, KeptMoments, SavedSoFar, LoadedSoFar

-----------------------------------------------------------------------------
(* What a running link's moment is. *)
LEMMA Running ==
  ASSUME IInv, doing \in {"run", "save"}
  PROVE  /\ \E n \in 0 .. MaxTime : \A p \in Players :
              /\ Len(core[p]) = n * Tick + clock[p]
              /\ shared[p] = SubSeq(core[p], 1, n * Tick)
         /\ \A p \in Players : scheduled[p]
BY DEF IInv, InStep, OneMoment

(* A slice of a link that runs: it is still in one moment, perhaps that    *)
(* after another tick.                                                     *)
LEMMA SliceInStep ==
  ASSUME IInv, NEW p \in Players, NEW k \in Keys[p], Slice(p, k)
  PROVE  TypeOK' /\ InStep'
<1>1. PICK n \in 0 .. MaxTime : \A q \in Players :
        /\ Len(core[q]) = n * Tick + clock[q]
        /\ shared[q] = SubSeq(core[q], 1, n * Tick)
  BY Running DEF Slice
<1> DEFINE at == [clock EXCEPT ![p] = @ + 1]
<1>2. /\ scheduled[p] /\ Event(p) /\ clock[p] # Tick
      /\ core' = [core EXCEPT ![p] = Append(@, k)] /\ Len(core[p]) < MaxTime
      /\ doing = "run"
      /\ UNCHANGED <<scheduled, doing, slot, left, states, blobs>>
  BY Running DEF Slice, Parked, kept
<1>3. /\ Tick \in Nat \ {0} /\ MaxTime \in Nat /\ n \in Nat
      /\ n * Tick \in Nat /\ n <= n * Tick /\ (n + 1) * Tick = n * Tick + Tick
  <2>1. Tick \in Nat \ {0} /\ MaxTime \in Nat
    BY SnapshotAssumption
  <2>2. n \in Nat
    BY <2>1
  <2>3. QED
    BY <2>1, <2>2, TicksAreSlices
<1>4. /\ core \in Moment /\ shared \in Moment /\ clock \in [Players -> 0 .. Tick]
      /\ \A q \in Players : core[q] \in History /\ Len(core[q]) <= MaxTime
  BY DEF IInv, TypeOK, Moment
<1>5. \A q \in Players : /\ core'[q] \in History /\ Len(core'[q]) <= MaxTime
                         /\ Len(core'[q]) = n * Tick + at[q]
                         /\ SubSeq(core'[q], 1, n * Tick) = SubSeq(core[q], 1, n * Tick)
  <2> TAKE q \in Players
  <2>1. CASE q = p
    <3>1. k \in UNION {Keys[r] : r \in Players} /\ n * Tick <= Len(core[p])
      BY <1>1, <1>3, <1>4
    <3>2. core'[p] = Append(core[p], k) /\ at[p] = clock[p] + 1
      BY <1>2, <1>4 DEF Moment
    <3>3. clock[p] \in Nat /\ Len(core[p]) \in Nat
      <4>1. clock[p] \in Nat
        BY <1>3, <1>4
      <4>2. QED
        BY <1>1, <1>3, <4>1
    <3>4. /\ Append(core[p], k) \in History /\ Len(Append(core[p], k)) = Len(core[p]) + 1
          /\ SubSeq(Append(core[p], k), 1, n * Tick) = SubSeq(core[p], 1, n * Tick)
      BY <1>3, <1>4, <3>1, AppendKeepsPast
    <3>5. QED
      BY <1>1, <1>2, <1>3, <2>1, <3>2, <3>3, <3>4
  <2>2. CASE q # p
    BY <1>1, <1>2, <1>4, <2>2 DEF Moment
  <2>3. QED
    BY <2>1, <2>2
<1>6. core' \in Moment /\ at \in [Players -> 0 .. Tick]
  <2>1. at \in [Players -> 0 .. Tick]
    BY <1>2, <1>3, <1>4
  <2>2. QED
    BY <1>2, <1>4, <1>5, <2>1 DEF Moment
<1>7. CASE TickOver(at)
  <2>1. clock' = [q \in Players |-> 0] /\ shared' = core'
    BY <1>2, <1>7 DEF Event
  <2>2. \A q \in Players : /\ Len(core'[q]) = (n + 1) * Tick + clock'[q]
                           /\ shared'[q] = SubSeq(core'[q], 1, (n + 1) * Tick)
    <3> TAKE q \in Players
    <3>1. Len(core'[q]) = (n + 1) * Tick
      BY <1>3, <1>5, <1>7 DEF TickOver
    <3>2. SubSeq(core'[q], 1, Len(core'[q])) = core'[q]
      BY <1>5, SubSeqFull DEF History
    <3>3. QED
      BY <1>3, <2>1, <3>1, <3>2
  <2>3. n + 1 \in 0 .. MaxTime
    <3>1. Len(core'[p]) = n * Tick + Tick /\ Len(core'[p]) <= MaxTime
      BY <1>5, <1>7 DEF TickOver
    <3>2. QED
      BY <1>3, <3>1
  <2>4. OneMoment(core, clock, shared)'
    BY <2>2, <2>3 DEF OneMoment
  <2>5. TypeOK'
    BY <1>2, <1>3, <1>5, <1>6, <2>1 DEF IInv, TypeOK
  <2>6. InStep'
    BY <1>2, <2>4, Running DEF InStep
  <2>7. QED
    BY <2>5, <2>6
<1>8. CASE ~TickOver(at)
  <2>1. clock' = at /\ shared' = shared
    BY <1>2, <1>8 DEF Event
  <2>2. OneMoment(core, clock, shared)'
    BY <1>1, <1>5, <2>1 DEF OneMoment
  <2>3. TypeOK'
    BY <1>2, <1>4, <1>5, <1>6, <2>1 DEF IInv, TypeOK
  <2>4. InStep'
    BY <1>2, <2>2, Running DEF InStep
  <2>5. QED
    BY <2>3, <2>4
<1>9. QED
  BY <1>7, <1>8

-----------------------------------------------------------------------------
(* A slot nobody touched keeps its moment. *)
LEMMA KeptStay ==
  ASSUME IInv, NEW s \in Slots, Complete(s), UNCHANGED <<states[s], blobs[s]>>
  PROVE  MomentIn(s)'
BY DEF IInv, KeptMoments, MomentIn, OneMoment, Clocks, Whole

LEMMA SliceKeeps ==
  ASSUME IInv, NEW p \in Players, NEW k \in Keys[p], Slice(p, k)
  PROVE  IInv'
<1>1. doing = "run" /\ doing' = "run" /\ UNCHANGED <<slot, left, states, blobs>>
  BY DEF Slice, kept
<1>2. \A s \in Slots : Complete(s)' => Complete(s)
  BY <1>1 DEF Complete
<1>3. KeptMoments'
  BY <1>1, <1>2, KeptStay DEF KeptMoments
<1>4. QED
  BY <1>1, <1>3, SliceInStep DEF IInv, SavedSoFar, LoadedSoFar

(* Nothing has changed for a running link that was not touched. *)
LEMMA StillRunning ==
  ASSUME IInv, UNCHANGED machine, doing \in {"run", "save"}
  PROVE  InStep'
BY DEF machine, IInv, InStep, OneMoment

LEMMA CallsForAll ==
  /\ \A p \in Players : <<"core", p>> \in Calls /\ <<"driver", p>> \in Calls
  /\ Calls # {}
<1>1. \A p \in Players : <<"core", p>> \in Calls /\ <<"driver", p>> \in Calls
  BY DEF Calls
<1>2. Primary \in Players
  BY SnapshotAssumption
<1>3. QED
  BY <1>1, <1>2

LEMMA BeginSaveKeeps == ASSUME IInv, NEW s \in Slots, BeginSave(s) PROVE IInv'
<1>1. /\ doing = "run" /\ doing' = "save" /\ slot' = s /\ left' = Calls
      /\ states' = [states EXCEPT ![s] = NoneOf]
      /\ blobs' = [blobs EXCEPT ![s] = NoneOf]
      /\ UNCHANGED <<core, scheduled, clock, shared>>
  BY DEF BeginSave, Idle, Demote, machine
<1>2. states' \in [Slots -> [Players -> History \union {Empty}]]
      /\ blobs' \in [Slots -> [Players -> DriverState \union {NoBytes, Empty}]]
  BY <1>1 DEF IInv, TypeOK, NoneOf
<1>3. Calls # {} /\ \A p \in Players : <<"core", p>> \in Calls /\ <<"driver", p>> \in Calls
  BY CallsForAll
<1>4. TypeOK'
  BY <1>1, <1>2, <1>3 DEF IInv, TypeOK
<1>5. InStep'
  BY <1>1, StillRunning DEF BeginSave
<1>6. KeptMoments'
  <2>1. \A t \in Slots : Complete(t)' =>
          Complete(t) /\ UNCHANGED <<states[t], blobs[t]>>
    BY <1>1 DEF Complete, IInv, TypeOK
  <2>2. QED
    BY <2>1, KeptStay DEF KeptMoments
<1>7. SavedSoFar'
  BY <1>1, <1>3 DEF SavedSoFar, NoneOf, IInv, TypeOK
<1>8. QED
  BY <1>1, <1>4, <1>5, <1>6, <1>7 DEF IInv, LoadedSoFar

LEMMA CopyKeeps ==
  ASSUME IInv, NEW s \in Slots, NEW t \in Slots, CopySlot(s, t) PROVE IInv'
<1>1. /\ doing = "run" /\ Complete(s)
      /\ states' = [states EXCEPT ![t] = states[s]]
      /\ blobs' = [blobs EXCEPT ![t] = blobs[s]]
      /\ UNCHANGED <<core, scheduled, clock, shared, doing, slot, left>>
  BY DEF CopySlot, Idle, machine
<1>2. TypeOK'
  BY <1>1 DEF IInv, TypeOK
<1>3. InStep'
  BY <1>1, StillRunning DEF CopySlot
<1>4. KeptMoments'
  <2>1. \A u \in Slots : u # t => states'[u] = states[u] /\ blobs'[u] = blobs[u]
    BY <1>1 DEF IInv, TypeOK
  <2>2. states'[t] = states[s] /\ blobs'[t] = blobs[s]
    BY <1>1 DEF IInv, TypeOK
  <2>3. ASSUME NEW u \in Slots, u # t, Complete(u)' PROVE Complete(u)
    BY <1>1, <2>1, <2>3 DEF Complete
  <2>4. MomentIn(t)'
    BY <1>1, <2>2 DEF IInv, KeptMoments, MomentIn, OneMoment, Clocks, Whole
  <2>5. QED
    BY <2>1, <2>3, <2>4, KeptStay DEF KeptMoments
<1>5. QED
  BY <1>1, <1>2, <1>3, <1>4 DEF IInv, SavedSoFar, LoadedSoFar

LEMMA SaveCoreFailsKeeps ==
  ASSUME IInv, NEW p \in Players, SaveCoreFails(p) PROVE IInv'
<1>1. /\ doing = "save" /\ doing' = "run" /\ slot \in Slots /\ left' = {}
      /\ states' = [states EXCEPT ![slot] = NoneOf]
      /\ blobs' = [blobs EXCEPT ![slot] = NoneOf]
      /\ UNCHANGED <<core, scheduled, clock, shared>>
  BY DEF SaveCoreFails, machine, IInv, TypeOK
<1>2. states' \in [Slots -> [Players -> History \union {Empty}]]
      /\ blobs' \in [Slots -> [Players -> DriverState \union {NoBytes, Empty}]]
  BY <1>1 DEF IInv, TypeOK, NoneOf
<1>3. TypeOK'
  BY <1>1, <1>2 DEF IInv, TypeOK
<1>4. InStep'
  BY <1>1, StillRunning DEF SaveCoreFails
<1>5. KeptMoments'
  <2>1. \A t \in Slots : Complete(t)' =>
          Complete(t) /\ UNCHANGED <<states[t], blobs[t]>>
    <3> TAKE t \in Slots
    <3>1. CASE t = slot
      <4>1. states'[t][Primary] = Empty
        BY <1>1, <3>1, SnapshotAssumption DEF NoneOf, IInv, TypeOK
      <4>2. QED
        BY <4>1, SnapshotAssumption DEF Complete
    <3>2. CASE t # slot
      BY <1>1, <3>2 DEF Complete, IInv, TypeOK
    <3>3. QED
      BY <3>1, <3>2
  <2>2. QED
    BY <2>1, KeptStay DEF KeptMoments
<1>6. QED
  BY <1>1, <1>3, <1>4, <1>5 DEF IInv, SavedSoFar, LoadedSoFar

(* One more call of a save made: the slot has the present of those asked,  *)
(* and with the last of them it has the link's moment.                     *)
LEMMA SaveStepKeeps ==
  ASSUME IInv, doing = "save", UNCHANGED machine,
         NEW call \in left, Made(call),
         NEW s \in Slots, s = slot,
         states' \in [Slots -> [Players -> History \union {Empty}]],
         blobs' \in [Slots -> [Players -> DriverState \union {NoBytes, Empty}]],
         \A t \in Slots : t # s => UNCHANGED <<states[t], blobs[t]>>,
         \A p \in Players :
           /\ states'[s][p] = IF <<"core", p>> \in left' THEN Empty ELSE core[p]
           /\ blobs'[s][p] \in IF <<"driver", p>> \in left' THEN {Empty} ELSE Bytes(p)
  PROVE  IInv' /\ (left' = {} => states'[s] = core /\ Complete(s)')
<1> USE SnapshotAssumption
<1>1. /\ left' = left \ {call} /\ left' \subseteq Calls
      /\ UNCHANGED <<core, scheduled, clock, shared>>
      /\ core \in Moment /\ shared \in Moment /\ clock \in [Players -> 0 .. Tick]
      /\ \A p \in Players : core[p] \in History
  BY DEF Made, machine, IInv, TypeOK, Moment
<1>2. InStep'
  BY StillRunning
<1>3. CASE left' = {}
  <2>1. doing' = "run"
    BY <1>3 DEF Made
  <2>2. TypeOK'
    BY <1>1, <1>3, <2>1 DEF IInv, TypeOK
  <2>3. \A p \in Players : states'[s][p] = core[p] /\ blobs'[s][p] \in {Blob(p), NoBytes}
    BY <1>3 DEF Bytes
  <2>4. states'[s] = core
    <3>1. states'[s] \in [Players -> History \union {Empty}]
      BY <1>1
    <3>2. QED
      BY <1>1, <2>3, <3>1 DEF Moment
  <2>5. \A p \in Players : Blob(p) \in DriverState /\ Blob(p).clock = clock[p]
                           /\ (Blob(p).shared = Empty <=> p # Primary)
    BY <1>1 DEF Blob, DriverState
  <2>6. Complete(s)'
    <3>1. \A p \in Players : states'[s][p] # Empty /\ blobs'[s][p] # Empty
      BY <1>1, <2>3, <2>5
    <3>2. QED
      BY <2>1, <3>1 DEF Complete
  <2>7. PICK n \in 0 .. MaxTime : \A p \in Players :
          /\ Len(core[p]) = n * Tick + clock[p]
          /\ shared[p] = SubSeq(core[p], 1, n * Tick)
    BY Running
  <2>8. \A p \in Players :
          /\ Len(states'[s][p]) <= MaxTime
          /\ blobs'[s][p] # NoBytes => (blobs'[s][p].shared = Empty <=> p # Primary)
    BY <2>3, <2>5 DEF IInv, TypeOK
  <2>9. ASSUME Whole(s)' PROVE OneMoment(states[s], Clocks(s), blobs[s][Primary].shared)'
    <3>1. \A p \in Players : blobs'[s][p] = Blob(p)
      BY <2>3, <2>9 DEF Whole
    <3>2. \A p \in Players : Clocks(s)'[p] = clock[p]
      BY <2>5, <3>1 DEF Clocks
    <3>3. blobs'[s][Primary].shared = shared
      <4>1. Blob(Primary).shared = shared
        BY DEF Blob
      <4>2. QED
        BY <3>1, <4>1
    <3>4. QED
      BY <2>3, <2>7, <3>2, <3>3 DEF OneMoment
  <2>10. MomentIn(s)'
    BY <2>8, <2>9 DEF MomentIn
  <2>11. KeptMoments'
    <3>1. ASSUME NEW t \in Slots, t # s, Complete(t)' PROVE Complete(t)
      BY <2>1, <3>1 DEF Complete
    <3>2. QED
      BY <2>10, <3>1, KeptStay DEF KeptMoments
  <2>12. QED
    BY <1>2, <2>1, <2>2, <2>4, <2>6, <2>11 DEF IInv, SavedSoFar, LoadedSoFar
<1>4. CASE left' # {}
  <2>1. doing' = "save" /\ slot' = slot
    BY <1>4 DEF Made
  <2>2. TypeOK'
    BY <1>1, <1>4, <2>1 DEF IInv, TypeOK
  <2>3. SavedSoFar'
    BY <1>1, <2>1 DEF SavedSoFar, Bytes, Blob
  <2>4. KeptMoments'
    <3>1. \A t \in Slots : Complete(t)' => t # s /\ Complete(t)
      BY <2>1 DEF Complete
    <3>2. QED
      BY <3>1, KeptStay DEF KeptMoments
  <2>5. QED
    BY <1>2, <1>4, <2>1, <2>2, <2>3, <2>4 DEF IInv, LoadedSoFar
<1>5. QED
  BY <1>3, <1>4

LEMMA SaveCoreKeeps ==
  ASSUME IInv, NEW p \in Players, SaveCore(p), NEW s \in Slots, s = slot
  PROVE  /\ IInv' /\ UNCHANGED <<core, blobs>>
         /\ \A t \in Slots : t # s => UNCHANGED states[t]
         /\ left' = {} => states'[s] = core /\ Complete(s)'
<1>1. /\ doing = "save" /\ <<"core", p>> \in left /\ Made(<<"core", p>>)
      /\ states' = [states EXCEPT ![s][p] = core[p]]
      /\ UNCHANGED <<machine, blobs>> /\ left' = left \ {<<"core", p>>}
  BY DEF SaveCore, Made
<1>2. /\ states \in [Slots -> [Players -> History \union {Empty}]]
      /\ blobs \in [Slots -> [Players -> DriverState \union {NoBytes, Empty}]]
      /\ core[p] \in History
  BY DEF IInv, TypeOK, Moment
<1>3. \A q \in Players :
        /\ states[s][q] = IF <<"core", q>> \in left THEN Empty ELSE core[q]
        /\ blobs[s][q] \in IF <<"driver", q>> \in left THEN {Empty} ELSE Bytes(q)
  BY <1>1 DEF IInv, SavedSoFar
<1>4. \A q \in Players : states'[s][q] = IF q = p THEN core[p] ELSE states[s][q]
  BY <1>1, <1>2
<1>5. \A q \in Players :
        /\ states'[s][q] = IF <<"core", q>> \in left' THEN Empty ELSE core[q]
        /\ blobs'[s][q] \in IF <<"driver", q>> \in left' THEN {Empty} ELSE Bytes(q)
  BY <1>1, <1>3, <1>4
<1>6. \A t \in Slots : t # s => UNCHANGED <<states[t], blobs[t]>>
  BY <1>1, <1>2
<1>7. states' \in [Slots -> [Players -> History \union {Empty}]]
  BY <1>1, <1>2
<1>8. QED
  BY <1>1, <1>2, <1>5, <1>6, <1>7, SaveStepKeeps DEF machine

LEMMA SaveDriverKeeps ==
  ASSUME IInv, NEW p \in Players, SaveDriver(p), NEW s \in Slots, s = slot
  PROVE  /\ IInv' /\ UNCHANGED <<core, states>>
         /\ \A t \in Slots : t # s => UNCHANGED blobs[t]
         /\ left' = {} => states'[s] = core /\ Complete(s)'
<1> PICK bytes \in Bytes(p) : blobs' = [blobs EXCEPT ![s][p] = bytes]
  BY DEF SaveDriver
<1>1. /\ doing = "save" /\ <<"driver", p>> \in left /\ Made(<<"driver", p>>)
      /\ UNCHANGED <<machine, states>> /\ left' = left \ {<<"driver", p>>}
  BY DEF SaveDriver, Made
<1>2. /\ states \in [Slots -> [Players -> History \union {Empty}]]
      /\ blobs \in [Slots -> [Players -> DriverState \union {NoBytes, Empty}]]
      /\ bytes \in DriverState \union {NoBytes}
  BY DEF IInv, TypeOK, Bytes, Blob, DriverState
<1>3. \A q \in Players :
        /\ states[s][q] = IF <<"core", q>> \in left THEN Empty ELSE core[q]
        /\ blobs[s][q] \in IF <<"driver", q>> \in left THEN {Empty} ELSE Bytes(q)
  BY <1>1 DEF IInv, SavedSoFar
<1>4. \A q \in Players : blobs'[s][q] = IF q = p THEN bytes ELSE blobs[s][q]
  BY <1>1, <1>2
<1>5. \A q \in Players :
        /\ states'[s][q] = IF <<"core", q>> \in left' THEN Empty ELSE core[q]
        /\ blobs'[s][q] \in IF <<"driver", q>> \in left' THEN {Empty} ELSE Bytes(q)
  BY <1>1, <1>3, <1>4
<1>6. \A t \in Slots : t # s => UNCHANGED <<states[t], blobs[t]>>
  BY <1>1, <1>2
<1>7. blobs' \in [Slots -> [Players -> DriverState \union {NoBytes, Empty}]]
  BY <1>1, <1>2
<1>8. QED
  BY <1>1, <1>2, <1>5, <1>6, <1>7, SaveStepKeeps DEF machine

-----------------------------------------------------------------------------
LEMMA BeginLoadKeeps == ASSUME IInv, NEW s \in Slots, BeginLoad(s) PROVE IInv'
<1>1. /\ doing \in {"run", "torn"} /\ doing' = "load" /\ slot' = s /\ left' = Calls
      /\ Complete(s) /\ UNCHANGED <<core, scheduled, clock, shared, states, blobs>>
  BY DEF BeginLoad, Idle, machine, kept
<1>2. Calls # {} /\ \A p \in Players : <<"core", p>> \in Calls /\ <<"driver", p>> \in Calls
  BY CallsForAll
<1>3. TypeOK'
  BY <1>1, <1>2 DEF IInv, TypeOK
<1>4. \A t \in Slots : Complete(t)' <=> Complete(t)
  BY <1>1 DEF Complete
<1>5. KeptMoments'
  BY <1>1, <1>4, KeptStay DEF KeptMoments
<1>6. LoadedSoFar'
  BY <1>1, <1>2, <1>4, SnapshotAssumption DEF LoadedSoFar
<1>7. QED
  BY <1>1, <1>3, <1>5, <1>6 DEF IInv, InStep, SavedSoFar

LEMMA LoadFailsKeeps == ASSUME IInv, LoadFails PROVE IInv'
<1>1. /\ doing = "load" /\ doing' = "torn" /\ left' = {}
      /\ UNCHANGED <<core, scheduled, clock, shared, states, blobs>>
  BY DEF LoadFails, machine, kept
<1>2. TypeOK'
  BY <1>1 DEF IInv, TypeOK
<1>3. \A t \in Slots : Complete(t)' <=> Complete(t)
  BY <1>1 DEF Complete
<1>4. KeptMoments'
  BY <1>1, <1>3, KeptStay DEF KeptMoments
<1>5. QED
  BY <1>1, <1>2, <1>4 DEF IInv, InStep, SavedSoFar, LoadedSoFar

(* One more call of a load made: the link is the slot's as far as it got,  *)
(* and with the last of them it runs as the slot's moment.                 *)
LEMMA LoadStepKeeps ==
  ASSUME IInv, doing = "load", UNCHANGED kept,
         NEW call \in left, Made(call),
         NEW s \in Slots, s = slot,
         core' \in Moment, \A p \in Players : Len(core'[p]) <= MaxTime,
         shared' \in Moment, scheduled' \in [Players -> BOOLEAN],
         clock' \in [Players -> 0 .. Tick],
         \A p \in Players :
           /\ <<"core", p>> \in left' => <<"driver", p>> \in left'
           /\ <<"core", p>> \notin left' => core'[p] = states[s][p]
           /\ <<"driver", p>> \notin left' =>
                blobs[s][p] # NoBytes /\ clock'[p] = Clocks(s)[p] /\ scheduled'[p],
         <<"driver", Primary>> \notin left' => shared' = blobs[s][Primary].shared
  PROVE  IInv' /\ Complete(s) /\ (left' = {} => core' = states[s])
<1> USE SnapshotAssumption
<1>1. /\ left' = left \ {call} /\ left' \subseteq Calls /\ UNCHANGED <<states, blobs>>
      /\ states[s] \in [Players -> History \union {Empty}]
  BY DEF Made, kept, IInv, TypeOK
<1>2. Complete(s) /\ doing' \in {"run", "load"}
  BY DEF Made, IInv, LoadedSoFar
<1>3. \A t \in Slots : Complete(t)' <=> Complete(t)
  BY <1>1, <1>2 DEF Complete
<1>4. KeptMoments'
  BY <1>1, <1>3, KeptStay DEF KeptMoments
<1>5. CASE left' = {}
  <2>1. doing' = "run"
    BY <1>5 DEF Made
  <2>2. TypeOK'
    BY <1>1, <1>5, <2>1 DEF IInv, TypeOK
  <2>3. /\ Whole(s)
        /\ \A p \in Players : /\ core'[p] = states[s][p] /\ clock'[p] = Clocks(s)[p]
                              /\ scheduled'[p]
    BY <1>5 DEF Whole
  <2>4. shared' = blobs[s][Primary].shared
    BY <1>5
  <2>5. OneMoment(states[s], Clocks(s), blobs[s][Primary].shared)
    BY <1>2, <2>3 DEF IInv, KeptMoments, MomentIn
  <2>6. OneMoment(core, clock, shared)'
    <3>1. PICK n \in 0 .. MaxTime : \A p \in Players :
            /\ Len(states[s][p]) = n * Tick + Clocks(s)[p]
            /\ blobs[s][Primary].shared[p] = SubSeq(states[s][p], 1, n * Tick)
      BY <2>5 DEF OneMoment
    <3>2. \A p \in Players : /\ Len(core'[p]) = n * Tick + clock'[p]
                             /\ shared'[p] = SubSeq(core'[p], 1, n * Tick)
      BY <2>3, <2>4, <3>1
    <3>3. QED
      BY <3>2 DEF OneMoment
  <2>7. InStep'
    BY <2>3, <2>6 DEF InStep
  <2>8. core' = states[s]
    BY <1>1, <2>3 DEF Moment
  <2>9. QED
    BY <1>2, <1>4, <2>1, <2>2, <2>7, <2>8 DEF IInv, SavedSoFar, LoadedSoFar
<1>6. CASE left' # {}
  <2>1. doing' = "load" /\ slot' = slot
    BY <1>6 DEF Made
  <2>2. TypeOK'
    BY <1>1, <1>6, <2>1 DEF IInv, TypeOK
  <2>3. LoadedSoFar'
    BY <1>1, <1>2, <1>3, <2>1 DEF LoadedSoFar, Clocks
  <2>4. QED
    BY <1>2, <1>4, <1>6, <2>1, <2>2, <2>3 DEF IInv, InStep, SavedSoFar
<1>7. QED
  BY <1>5, <1>6

LEMMA LoadCoreKeeps ==
  ASSUME IInv, NEW p \in Players, LoadCore(p), NEW s \in Slots, s = slot
  PROVE  IInv' /\ Complete(s) /\ (left' = {} => core' = states[s])
<1>1. /\ doing = "load" /\ <<"core", p>> \in left /\ Made(<<"core", p>>)
      /\ core' = [core EXCEPT ![p] = states[s][p]]
      /\ scheduled' = [scheduled EXCEPT ![p] = FALSE]
      /\ UNCHANGED <<clock, shared>> /\ UNCHANGED kept
      /\ left' = left \ {<<"core", p>>}
  BY DEF LoadCore, Made
<1>2. /\ core \in Moment /\ shared \in Moment /\ scheduled \in [Players -> BOOLEAN]
      /\ clock \in [Players -> 0 .. Tick]
      /\ \A q \in Players : Len(core[q]) <= MaxTime
      /\ states[s] \in [Players -> History \union {Empty}]
  BY DEF IInv, TypeOK
<1>3. /\ Complete(s)
      /\ \A q \in Players :
           /\ <<"core", q>> \in left => <<"driver", q>> \in left
           /\ <<"core", q>> \notin left => core[q] = states[s][q]
           /\ <<"driver", q>> \notin left =>
                blobs[s][q] # NoBytes /\ clock[q] = Clocks(s)[q] /\ scheduled[q]
      /\ <<"driver", Primary>> \notin left => shared = blobs[s][Primary].shared
  BY <1>1 DEF IInv, LoadedSoFar
<1>4. states[s][p] \in History /\ Len(states[s][p]) <= MaxTime
  BY <1>2, <1>3 DEF Complete, IInv, KeptMoments, MomentIn
<1>5. core' \in Moment /\ \A q \in Players : Len(core'[q]) <= MaxTime
  BY <1>1, <1>2, <1>4 DEF Moment
<1>6. scheduled' \in [Players -> BOOLEAN]
  BY <1>1, <1>2
<1>7. \A q \in Players :
        /\ <<"core", q>> \in left' => <<"driver", q>> \in left'
        /\ <<"core", q>> \notin left' => core'[q] = states[s][q]
        /\ <<"driver", q>> \notin left' =>
             blobs[s][q] # NoBytes /\ clock'[q] = Clocks(s)[q] /\ scheduled'[q]
  <2> TAKE q \in Players
  <2>1. CASE q = p
    BY <1>1, <1>2, <1>3, <2>1 DEF Moment
  <2>2. CASE q # p
    BY <1>1, <1>2, <1>3, <2>2 DEF Moment
  <2>3. QED
    BY <2>1, <2>2
<1>8. <<"driver", Primary>> \notin left' => shared' = blobs[s][Primary].shared
  BY <1>1, <1>3
<1>9. QED
  BY <1>1, <1>2, <1>5, <1>6, <1>7, <1>8, LoadStepKeeps

LEMMA LoadDriverKeeps ==
  ASSUME IInv, NEW p \in Players, LoadDriver(p), NEW s \in Slots, s = slot
  PROVE  IInv' /\ Complete(s) /\ (left' = {} => core' = states[s])
<1>1. /\ doing = "load" /\ <<"driver", p>> \in left /\ Made(<<"driver", p>>)
      /\ <<"core", p>> \notin left /\ blobs[s][p] # NoBytes
      /\ clock' = [clock EXCEPT ![p] = blobs[s][p].clock]
      /\ shared' = IF blobs[s][p].shared = Empty THEN shared ELSE blobs[s][p].shared
      /\ scheduled' = [scheduled EXCEPT ![p] = TRUE]
      /\ UNCHANGED core /\ UNCHANGED kept /\ left' = left \ {<<"driver", p>>}
  BY DEF LoadDriver, CoreLoaded, Made
<1>2. /\ core \in Moment /\ shared \in Moment /\ scheduled \in [Players -> BOOLEAN]
      /\ clock \in [Players -> 0 .. Tick]
      /\ \A q \in Players : Len(core[q]) <= MaxTime
      /\ blobs[s] \in [Players -> DriverState \union {NoBytes, Empty}]
  BY DEF IInv, TypeOK
<1>3. /\ Complete(s)
      /\ \A q \in Players :
           /\ <<"core", q>> \in left => <<"driver", q>> \in left
           /\ <<"core", q>> \notin left => core[q] = states[s][q]
           /\ <<"driver", q>> \notin left =>
                blobs[s][q] # NoBytes /\ clock[q] = Clocks(s)[q] /\ scheduled[q]
      /\ <<"driver", Primary>> \notin left => shared = blobs[s][Primary].shared
  BY <1>1 DEF IInv, LoadedSoFar
<1>4. /\ blobs[s][p] \in DriverState /\ blobs[s][p].clock \in 0 .. Tick
      /\ blobs[s][p].shared \in Moment \union {Empty}
      /\ blobs[s][p].shared = Empty <=> p # Primary
  BY <1>1, <1>2, <1>3 DEF Complete, IInv, KeptMoments, MomentIn, DriverState
<1>5. /\ clock' \in [Players -> 0 .. Tick] /\ shared' \in Moment
      /\ scheduled' \in [Players -> BOOLEAN]
  BY <1>1, <1>2, <1>4
<1>6. \A q \in Players :
        /\ <<"core", q>> \in left' => <<"driver", q>> \in left'
        /\ <<"core", q>> \notin left' => core'[q] = states[s][q]
        /\ <<"driver", q>> \notin left' =>
             blobs[s][q] # NoBytes /\ clock'[q] = Clocks(s)[q] /\ scheduled'[q]
  <2> TAKE q \in Players
  <2>1. CASE q = p
    BY <1>1, <1>2, <1>3, <2>1 DEF Clocks
  <2>2. CASE q # p
    BY <1>1, <1>2, <1>3, <2>2
  <2>3. QED
    BY <2>1, <2>2
<1>7. <<"driver", Primary>> \notin left' => shared' = blobs[s][Primary].shared
  <2>1. CASE p = Primary
    BY <1>1, <1>4, <2>1
  <2>2. CASE p # Primary
    BY <1>1, <1>3, <1>4, <2>2
  <2>3. QED
    BY <2>1, <2>2
<1>8. QED
  BY <1>1, <1>2, <1>5, <1>6, <1>7, LoadStepKeeps

-----------------------------------------------------------------------------
LEMMA StepKeeps == ASSUME IInv, [Next]_vars PROVE IInv'
<1>1. ASSUME NEW p \in Players, NEW k \in Keys[p], Slice(p, k) PROVE IInv'
  BY <1>1, SliceKeeps
<1>2. ASSUME NEW s \in Slots, BeginSave(s) PROVE IInv'
  BY <1>2, BeginSaveKeeps
<1>3. ASSUME NEW s \in Slots, BeginLoad(s) PROVE IInv'
  BY <1>3, BeginLoadKeeps
<1>4. ASSUME NEW s \in Slots, NEW t \in Slots, CopySlot(s, t) PROVE IInv'
  BY <1>4, CopyKeeps
<1>5. ASSUME NEW p \in Players, SaveCore(p) PROVE IInv'
  <2>1. slot \in Slots
    BY <1>5 DEF SaveCore, IInv, TypeOK
  <2>2. QED
    BY <1>5, <2>1, SaveCoreKeeps
<1>6. ASSUME NEW p \in Players, SaveCoreFails(p) PROVE IInv'
  BY <1>6, SaveCoreFailsKeeps
<1>7. ASSUME NEW p \in Players, SaveDriver(p) PROVE IInv'
  <2>1. slot \in Slots
    BY <1>7 DEF SaveDriver, IInv, TypeOK
  <2>2. QED
    BY <1>7, <2>1, SaveDriverKeeps
<1>8. ASSUME NEW p \in Players, LoadCore(p) PROVE IInv'
  <2>1. slot \in Slots
    BY <1>8 DEF LoadCore, IInv, TypeOK
  <2>2. QED
    BY <1>8, <2>1, LoadCoreKeeps
<1>9. ASSUME NEW p \in Players, LoadDriver(p) PROVE IInv'
  <2>1. slot \in Slots
    BY <1>9 DEF LoadDriver, IInv, TypeOK
  <2>2. QED
    BY <1>9, <2>1, LoadDriverKeeps
<1>10. CASE LoadFails
  BY <1>10, LoadFailsKeeps
<1>11. CASE UNCHANGED vars
  <2>1. UNCHANGED <<core, scheduled, clock, shared, doing, slot, left, states, blobs>>
    BY <1>11 DEF vars, machine, kept
  <2>2. \A s \in Slots : Complete(s)' <=> Complete(s)
    BY <2>1 DEF Complete
  <2>3. KeptMoments'
    BY <2>1, <2>2, KeptStay DEF KeptMoments
  <2>4. TypeOK' /\ InStep'
    BY <2>1 DEF IInv, TypeOK, InStep, OneMoment
  <2>5. SavedSoFar'
    BY <2>1 DEF IInv, SavedSoFar, Bytes, Blob
  <2>6. LoadedSoFar'
    <3>1. slot' \in Slots => (Complete(slot)' <=> Complete(slot))
      BY <2>1 DEF Complete
    <3>2. QED
      BY <2>1, <3>1 DEF IInv, TypeOK, LoadedSoFar, Clocks, Complete
  <2>7. QED
    BY <2>3, <2>4, <2>5, <2>6 DEF IInv
<1>12. QED
  BY <1>1, <1>2, <1>3, <1>4, <1>5, <1>6, <1>7, <1>8, <1>9, <1>10, <1>11 DEF Next

LEMMA SnapshotInductive == Spec => []IInv
BY Initially, StepKeeps, PTL DEF Spec

(* A slot has states, blobs and gaps in it; a save or a load under way has *)
(* a slot and a call left to make; no clock is past the tick.              *)
THEOREM SnapshotsWellTyped == Spec => []TypeOK
<1>1. IInv => TypeOK
  BY DEF IInv
<1>2. QED
  BY <1>1, SnapshotInductive, PTL

(* Whatever the frontend saves, copies and goes back to, and whichever of  *)
(* its calls are refused, a link that runs is in one moment of one         *)
(* timeline and gets its driver events.                                    *)
THEOREM SnapshotsSafe == Spec => []InStep
<1>1. IInv => InStep
  BY DEF IInv
<1>2. QED
  BY <1>1, SnapshotInductive, PTL

-----------------------------------------------------------------------------
(* Nobody runs ahead: a tick the player who runs is past, all are past. *)
LEMMA NobodyAhead ==
  ASSUME IInv, NEW p \in Players, NEW k \in Keys[p], Slice(p, k)
  PROVE  \A q \in Players, m \in 0 .. MaxTime :
           m * Tick <= Len(core[p]) => m * Tick <= Len(core[q])
<1>1. PICK n \in 0 .. MaxTime : \A q \in Players : Len(core[q]) = n * Tick + clock[q]
  BY Running DEF Slice
<1>2. /\ clock \in [Players -> 0 .. Tick] /\ clock[p] # Tick
      /\ Tick \in Nat /\ MaxTime \in Nat /\ n \in Nat /\ n * Tick \in Nat
  <2>1. Tick \in Nat /\ MaxTime \in Nat
    BY SnapshotAssumption
  <2>2. n \in Nat
    BY <2>1
  <2>3. n * Tick \in Nat
    BY <2>2, TicksAreSlices
  <2>4. QED
    BY <2>1, <2>2, <2>3 DEF IInv, TypeOK, Slice, Parked
<1>3. ASSUME NEW q \in Players, NEW m \in 0 .. MaxTime, m * Tick <= Len(core[p])
      PROVE  m * Tick <= Len(core[q])
  <2>1. m \in Nat /\ m * Tick \in Nat /\ clock[p] \in Nat /\ clock[p] < Tick /\ clock[q] \in Nat
    <3>1. clock[p] \in 0 .. Tick /\ clock[q] \in 0 .. Tick
      BY <1>2
    <3>2. m \in Nat
      BY <1>2
    <3>3. m * Tick \in Nat
      BY <3>2, TicksAreSlices
    <3>4. QED
      BY <1>2, <3>1, <3>2, <3>3
  <2>2. m * Tick <= n * Tick + clock[p]
    BY <1>1, <1>3
  <2>3. m * Tick <= n * Tick
    BY <1>2, <2>1, <2>2, ShortOfNext
  <2>4. Len(core[q]) = n * Tick + clock[q]
    BY <1>1
  <2>5. QED
    BY <1>2, <2>1, <2>3, <2>4
<1>4. QED
  BY <1>3

(* A running link, and a slot that may be used, are moments. *)
LEMMA LinkIsWhole ==
  ASSUME IInv
  PROVE  /\ doing \in {"run", "save"} => Link = core /\ Link # Torn
         /\ \A s \in Slots : Complete(s) => states[s] \in Moment /\ states[s] # Empty
<1> USE SnapshotAssumption
<1>1. core \in Moment /\ core # Torn
  BY DEF IInv, TypeOK
<1>2. ASSUME NEW s \in Slots, Complete(s) PROVE states[s] \in Moment
  BY <1>2 DEF Complete, IInv, TypeOK, Moment
<1>3. QED
  BY <1>1, <1>2 DEF Link

LEMMA RewindInitially == Init => Rewind!Init
<1> SUFFICES ASSUME Init PROVE Rewind!Init
  OBVIOUS
<1>1. Link = Start /\ Rewind!Start = Start
  BY DEF Init, Link, Start, Rewind!Start
<1>2. \A s \in Slots : ~Complete(s)
  BY SnapshotAssumption DEF Init, Complete, NoneOf
<1>3. Saved = [s \in Slots |-> Empty]
  BY <1>2 DEF Saved
<1>4. QED
  BY <1>1, <1>3 DEF Rewind!Init

LEMMA SliceAdvances ==
  ASSUME IInv, NEW p \in Players, NEW k \in Keys[p], Slice(p, k)
  PROVE  Rewind!Advance(p, k)
<1>1. /\ doing = "run" /\ doing' = "run" /\ Len(core[p]) < MaxTime
      /\ core' = [core EXCEPT ![p] = Append(@, k)] /\ UNCHANGED <<states, blobs>>
  BY DEF Slice, kept
<1>2. Link = core /\ Link' = core' /\ Link # Torn
  BY <1>1, LinkIsWhole DEF Link
<1>3. \A t \in Slots : Complete(t)' <=> Complete(t)
  BY <1>1 DEF Complete
<1>4. Saved' = Saved
  BY <1>1, <1>3 DEF Saved
<1>5. QED
  BY <1>1, <1>2, <1>4, NobodyAhead DEF Rewind!Advance

LEMMA BeginSaveForgets ==
  ASSUME IInv, NEW s \in Slots, BeginSave(s)
  PROVE  Rewind!Forget(s)
<1>1. /\ doing = "run" /\ doing' = "save" /\ slot' = s /\ UNCHANGED core
      /\ states' = [states EXCEPT ![s] = NoneOf]
      /\ blobs' = [blobs EXCEPT ![s] = NoneOf]
  BY DEF BeginSave, Idle, Demote, machine
<1>2. UNCHANGED Link
  BY <1>1 DEF Link
<1>3. \A t \in Slots : t # s => states'[t] = states[t] /\ blobs'[t] = blobs[t]
  BY <1>1 DEF IInv, TypeOK
<1>4. \A t \in Slots : Complete(t)' <=> Complete(t) /\ t # s
  BY <1>1, <1>3 DEF Complete
<1>5. Saved' = [Saved EXCEPT ![s] = Empty]
  BY <1>3, <1>4 DEF Saved
<1>6. QED
  BY <1>2, <1>5 DEF Rewind!Forget

LEMMA CopyCopies ==
  ASSUME IInv, NEW s \in Slots, NEW t \in Slots, CopySlot(s, t)
  PROVE  Rewind!Copy(s, t)
<1>1. /\ doing = "run" /\ doing' = "run" /\ Complete(s) /\ UNCHANGED core
      /\ states' = [states EXCEPT ![t] = states[s]]
      /\ blobs' = [blobs EXCEPT ![t] = blobs[s]]
  BY DEF CopySlot, Idle, machine
<1>2. UNCHANGED Link
  BY <1>1 DEF Link
<1>3. /\ \A u \in Slots : u # t => states'[u] = states[u] /\ blobs'[u] = blobs[u]
      /\ states'[t] = states[s] /\ blobs'[t] = blobs[s]
  BY <1>1 DEF IInv, TypeOK
<1>4. \A u \in Slots : Complete(u)' <=> Complete(u) \/ u = t
  BY <1>1, <1>3 DEF Complete
<1>5. Saved' = [Saved EXCEPT ![t] = Saved[s]]
  BY <1>1, <1>3, <1>4 DEF Saved
<1>6. Saved[s] # Empty
  BY <1>1, LinkIsWhole DEF Saved
<1>7. QED
  BY <1>2, <1>5, <1>6 DEF Rewind!Copy

LEMMA SaveFailsStutters ==
  ASSUME IInv, NEW p \in Players, SaveCoreFails(p)
  PROVE  UNCHANGED <<Link, Saved>>
<1>1. /\ doing = "save" /\ doing' = "run" /\ slot \in Slots /\ UNCHANGED core
      /\ states' = [states EXCEPT ![slot] = NoneOf]
      /\ blobs' = [blobs EXCEPT ![slot] = NoneOf]
  BY DEF SaveCoreFails, machine, IInv, TypeOK
<1>2. UNCHANGED Link
  BY <1>1 DEF Link
<1>3. \A t \in Slots : t # slot => states'[t] = states[t] /\ blobs'[t] = blobs[t]
  BY <1>1 DEF IInv, TypeOK
<1>4. states'[slot][Primary] = Empty
  BY <1>1, SnapshotAssumption DEF NoneOf, IInv, TypeOK
<1>5. \A t \in Slots : Complete(t)' <=> Complete(t)
  <2> TAKE t \in Slots
  <2>1. CASE t = slot
    BY <1>1, <1>4, <2>1, SnapshotAssumption DEF Complete
  <2>2. CASE t # slot
    BY <1>1, <1>3, <2>2 DEF Complete
  <2>3. QED
    BY <2>1, <2>2
<1>6. \A t \in Slots : Complete(t) => states'[t] = states[t]
  BY <1>1, <1>3 DEF Complete
<1>7. UNCHANGED Saved
  BY <1>5, <1>6 DEF Saved
<1>8. QED
  BY <1>2, <1>7

(* The last call of a save is the one that keeps the moment. *)
LEMMA SaveStepSaves ==
  ASSUME IInv, doing = "save", UNCHANGED core,
         NEW call, Made(call), NEW s \in Slots, s = slot,
         \A t \in Slots : t # s => UNCHANGED <<states[t], blobs[t]>>,
         left' = {} => states'[s] = core /\ Complete(s)'
  PROVE  Rewind!Save(s) \/ UNCHANGED <<Link, Saved>>
<1>1. doing' \in {"run", "save"} /\ ~Complete(s)
  BY DEF Made, Complete
<1>2. Link = core /\ Link' = core /\ Link # Torn
  <2>1. Link = core /\ Link # Torn
    BY LinkIsWhole
  <2>2. QED
    BY <1>1, <2>1 DEF Link
<1>3. CASE left' = {}
  <2>1. doing' = "run"
    BY <1>3 DEF Made
  <2>2. \A t \in Slots : t # s => (Complete(t)' <=> Complete(t))
    BY <2>1 DEF Complete
  <2>3. Saved' = [Saved EXCEPT ![s] = core]
    BY <1>3, <2>2 DEF Saved
  <2>4. QED
    BY <1>2, <2>3 DEF Rewind!Save
<1>4. CASE left' # {}
  <2>1. doing' = "save" /\ slot' = slot
    BY <1>4 DEF Made
  <2>2. \A t \in Slots : Complete(t)' <=> Complete(t)
    BY <2>1 DEF Complete
  <2>3. Saved' = Saved
    BY <1>1, <2>2 DEF Saved
  <2>4. QED
    BY <1>2, <2>3
<1>5. QED
  BY <1>3, <1>4

LEMMA BeginLoadRestores ==
  ASSUME IInv, NEW s \in Slots, BeginLoad(s)
  PROVE  Rewind!Restore(s)
<1>1. /\ doing \in {"run", "torn"} /\ doing' = "load" /\ slot' = s
      /\ Complete(s) /\ UNCHANGED <<states, blobs>>
  BY DEF BeginLoad, Idle, kept
<1>2. \A t \in Slots : Complete(t)' <=> Complete(t)
  BY <1>1 DEF Complete
<1>3. Saved' = Saved
  BY <1>1, <1>2 DEF Saved
<1>4. Link' = states[s] /\ Saved[s] = states[s] /\ Saved[s] # Empty
  BY <1>1, LinkIsWhole DEF Link, Saved
<1>5. QED
  BY <1>3, <1>4 DEF Rewind!Restore

(* The calls of a load change nothing more: the link was the slot's before *)
(* the last of them, and runs as the slot's after it.                      *)
LEMMA LoadStepStutters ==
  ASSUME doing = "load", UNCHANGED kept, NEW call, Made(call),
         NEW s \in Slots, s = slot, left' = {} => core' = states[s]
  PROVE  UNCHANGED <<Link, Saved>>
<1>1. doing' \in {"run", "load"} /\ UNCHANGED <<states, blobs>>
  BY DEF Made, kept
<1>2. \A t \in Slots : Complete(t)' <=> Complete(t)
  BY <1>1 DEF Complete
<1>3. Saved' = Saved
  BY <1>1, <1>2 DEF Saved
<1>4. Link = states[s] /\ Link' = states[s]
  BY <1>1 DEF Link, Made
<1>5. QED
  BY <1>3, <1>4

LEMMA LoadFailsTears == ASSUME LoadFails PROVE Rewind!Fail
<1>1. doing = "load" /\ doing' = "torn" /\ UNCHANGED <<states, blobs>>
  BY DEF LoadFails, kept
<1>2. \A t \in Slots : Complete(t)' <=> Complete(t)
  BY <1>1 DEF Complete
<1>3. QED
  BY <1>1, <1>2 DEF Saved, Link, Rewind!Fail

LEMMA StepRewinds ==
  ASSUME IInv, [Next]_vars
  PROVE  [Rewind!Next]_<<Link, Saved>>
<1>1. ASSUME NEW p \in Players, NEW k \in Keys[p], Slice(p, k) PROVE Rewind!Next
  BY <1>1, SliceAdvances DEF Rewind!Next
<1>2. ASSUME NEW s \in Slots, BeginSave(s) PROVE Rewind!Next
  BY <1>2, BeginSaveForgets DEF Rewind!Next
<1>3. ASSUME NEW s \in Slots, BeginLoad(s) PROVE Rewind!Next
  BY <1>3, BeginLoadRestores DEF Rewind!Next
<1>4. ASSUME NEW s \in Slots, NEW t \in Slots, CopySlot(s, t) PROVE Rewind!Next
  BY <1>4, CopyCopies DEF Rewind!Next
<1>5. ASSUME NEW p \in Players, SaveCoreFails(p) PROVE UNCHANGED <<Link, Saved>>
  BY <1>5, SaveFailsStutters
<1>6. ASSUME NEW p \in Players, SaveCore(p) \/ SaveDriver(p)
      PROVE  Rewind!Next \/ UNCHANGED <<Link, Saved>>
  <2>1. doing = "save" /\ \E call : Made(call)
    BY <1>6 DEF SaveCore, SaveDriver
  <2>2. PICK s \in Slots : s = slot
    BY <2>1 DEF IInv, TypeOK
  <2>3. /\ UNCHANGED core
        /\ \A t \in Slots : t # s => UNCHANGED <<states[t], blobs[t]>>
        /\ left' = {} => states'[s] = core /\ Complete(s)'
    BY <1>6, <2>2, SaveCoreKeeps, SaveDriverKeeps
  <2>4. Rewind!Save(s) \/ UNCHANGED <<Link, Saved>>
    BY <2>1, <2>2, <2>3, SaveStepSaves
  <2>5. QED
    BY <2>4 DEF Rewind!Next
<1>7. ASSUME NEW p \in Players, LoadCore(p) \/ LoadDriver(p)
      PROVE  UNCHANGED <<Link, Saved>>
  <2>1. doing = "load" /\ UNCHANGED kept /\ \E call : Made(call)
    BY <1>7 DEF LoadCore, LoadDriver
  <2>2. PICK s \in Slots : s = slot
    BY <2>1 DEF IInv, TypeOK
  <2>3. left' = {} => core' = states[s]
    BY <1>7, <2>2, LoadCoreKeeps, LoadDriverKeeps
  <2>4. QED
    BY <2>1, <2>2, <2>3, LoadStepStutters
<1>8. CASE LoadFails
  BY <1>8, LoadFailsTears DEF Rewind!Next
<1>9. CASE UNCHANGED vars
  <2>1. UNCHANGED <<core, doing, slot, states, blobs>>
    BY <1>9 DEF vars, machine, kept
  <2>2. \A t \in Slots : Complete(t)' <=> Complete(t)
    BY <2>1 DEF Complete
  <2>3. QED
    BY <2>1, <2>2 DEF Saved, Link
<1>10. QED
  BY <1>1, <1>2, <1>3, <1>4, <1>5, <1>6, <1>7, <1>8, <1>9 DEF Next

(* Call by call, and whichever calls fail, the frontend's moments are what *)
(* rollback needs: the link is put back as a whole, its machines depend on *)
(* the keys pressed since and on nothing else, and a failed load leaves it *)
(* torn until another succeeds.                                            *)
THEOREM SnapshotsRewind == Spec => ImplementsRewind
<1>1. QED
  BY Initially, StepKeeps, RewindInitially, StepRewinds, PTL
     DEF Spec, ImplementsRewind, Rewind!Spec
=============================================================================
