--------------------------- MODULE OwnedCoreProofs ---------------------------
(***************************************************************************)
(* Proofs about OwnedCore, for any addresses, lists and bounds.            *)
(***************************************************************************)
EXTENDS OwnedCore, TLAPS

(* A fresh allocation put in a slot, in place of what the slot owned,      *)
(* leaves every box owned by exactly one field.                            *)
LEMMA Allocation ==
  ASSUME NEW slot \in Slots, TypeOK, Ownership,
         phase = "live", phase' = "live",
         next' = next + 1,
         heap' = (heap \ {own[slot]}) \union {next},
         own' = [own EXCEPT ![slot] = next]
  PROVE  Ownership' /\ next' \in Nat \ {0} /\ heap' \subseteq Nat
                    /\ own' \in [Slots -> Nat]
<1>1. /\ next \in Nat \ {0} /\ heap \subseteq Nat
      /\ own \in [Slots -> Nat]
  BY DEF TypeOK
<1>2. own' \in [Slots -> Nat] /\ next' \in Nat \ {0}
  BY <1>1
<1>3. \A n : n \in heap' <=> (n \in heap /\ n # own[slot]) \/ n = next
  OBVIOUS
<1>4. heap' \subseteq Nat
  BY <1>1, <1>3
<1>5. \A s \in Slots : own'[s] = IF s = slot THEN next ELSE own[s]
  BY <1>1
<1>6. /\ \A n \in heap : n > 0 /\ n < next
      /\ \A s, t \in Slots : own[s] = own[t] /\ own[s] # Null => s = t
      /\ \A n : n \in heap <=> n # Null /\ \E s \in Slots : n = own[s]
  BY DEF Ownership, Fields
<1>7. next # Null /\ next \notin heap
  BY <1>1, <1>6 DEF Null
<1>8. heap' = Fields' \ {Null}
  <2>1. \A n : n \in heap' <=> n # Null /\ \E s \in Slots : n = own'[s]
    BY <1>3, <1>5, <1>6, <1>7
  <2>2. QED
    BY <2>1 DEF Fields
<1>9. \A n \in heap' : n > 0 /\ n < next'
  <2>1. TAKE n \in heap'
  <2>2. n \in heap \/ n = next
    BY <1>3
  <2>3. QED
    BY <1>1, <1>4, <1>6, <2>2
<1>10. \A s, t \in Slots : own'[s] = own'[t] /\ own'[s] # Null => s = t
  BY <1>5, <1>6, <1>7
<1>11. QED
  BY <1>2, <1>4, <1>8, <1>9, <1>10 DEF Ownership

(* The initial state satisfies the inductive invariant. *)
LEMMA Initially == Init => IInv
<1> SUFFICES ASSUME Init PROVE IInv
  OBVIOUS
<1>1. TypeOK
  <2>1. Empty \in [Slots -> Nat] /\ Empty \in [Slots -> Int]
    BY DEF Empty, Null
  <2>2. place \in Nat /\ next \in Nat \ {0}
    BY DEF Init
  <2>3. QED
    BY <2>1, <2>2, Zenon DEF Init, TypeOK, Fates
<1>2. \A slot \in Slots : own[slot] = Null
  BY DEF Init, Empty
<1>3. Ownership
  BY <1>2 DEF Init, Ownership, Fields
<1>4. HeldIsOwned /\ BuffersOwned
  BY DEF Init, HeldIsOwned, BuffersOwned
<1>5. OneTrapper
  BY <1>2 DEF Init, OneTrapper, Slots
<1>6. QED
  BY <1>1, <1>3, <1>4, <1>5 DEF Init, IInv

(* A step that touches neither the allocations nor their owner. *)
LEMMA SameOwner ==
  ASSUME Ownership, UNCHANGED <<next, heap, own>>, phase' = "live" \/ phase # "live"
  PROVE  Ownership'
<1>1. Fields' = Fields
  BY DEF Fields
<1>2. phase' # "live" => own' = Empty
  BY DEF Ownership
<1>3. QED
  BY <1>1, <1>2 DEF Ownership

(* Lending the C core a new allocation. *)
LEMMA Lending ==
  ASSUME NEW slot \in Slots, held \in [Slots -> Int], next \in Nat,
         held' = [held EXCEPT ![slot] = next]
  PROVE  held' \in [Slots -> Int]
OBVIOUS

(* Dropping the OwnedCore frees all it owned. *)
LEMMA DropOwns ==
  ASSUME TypeOK, Ownership, Drop
  PROVE  TypeOK' /\ Ownership' /\ heap' = {}
<1>1. Empty \in [Slots -> Nat] /\ Empty \in [Slots -> Int]
      /\ \A slot \in Slots : Empty[slot] = Null
  BY DEF Empty, Null
<1>2. heap' = {}
  BY DEF Drop, Ownership
<1>3. TypeOK'
  BY <1>1, <1>2 DEF TypeOK, Drop, Fates
<1>4. Fields' \ {Null} = {}
  BY <1>1 DEF Drop, Fields
<1>5. Ownership'
  BY <1>1, <1>2, <1>4 DEF Drop, Ownership
<1>6. QED
  BY <1>2, <1>3, <1>5

(* PatchedBy is of addresses of the list, and of all of them when none is  *)
(* met twice.                                                              *)
LEMMA PatchedAddresses ==
  ASSUME NEW list \in TrapLists
  PROVE  PatchedBy(list) \subseteq Addrs
BY TrapListsAssumption DEF PatchedBy

(* Every step keeps the types and the owner's books, whatever the callers  *)
(* do.                                                                     *)
LEMMA BooksStep ==
  ASSUME TypeOK, Ownership, [Next]_vars
  PROVE  TypeOK' /\ Ownership'
<1>1. ASSUME NEW kind \in NameKinds, NewGba(kind) PROVE TypeOK' /\ Ownership'
  <2>1. TypeOK'
    BY <1>1 DEF NewGba, TypeOK
  <2>2. own = Empty
    BY <1>1 DEF NewGba, Ownership
  <2>3. Fields' = Fields
    BY <1>1 DEF NewGba, Fields
  <2>4. Ownership'
    BY <1>1, <2>2, <2>3 DEF NewGba, Ownership
  <2>5. QED
    BY <2>1, <2>4
<1>2. ASSUME NEW slot \in {"video", "rtc"}, Replace(slot)
      PROVE TypeOK' /\ Ownership'
  <2>1. Ownership' /\ next' \in Nat \ {0} /\ heap' \subseteq Nat
        /\ own' \in [Slots -> Nat]
    BY <1>2, Allocation DEF Replace, Usable, Dropped, Slots
  <2>2. held' \in [Slots -> Int]
    BY <1>2, Lending DEF Replace, FreshAddress, TypeOK, Slots
  <2>3. TypeOK'
    BY <1>2, <2>1, <2>2 DEF Replace, TypeOK
  <2>4. QED
    BY <2>1, <2>3
<1>3. ASSUME NEW list \in TrapLists, SetTraps(list)
      PROVE TypeOK' /\ Ownership'
  <2>1. Ownership' /\ next' \in Nat \ {0} /\ heap' \subseteq Nat
        /\ own' \in [Slots -> Nat]
    BY <1>3, Allocation DEF SetTraps, TrapperNew, Usable, Dropped, Slots
  <2>2. held' \in [Slots -> Int]
    BY <1>3, Lending DEF SetTraps, TrapperNew, TypeOK, Slots
  <2>3. armed' \subseteq Addrs /\ keyed' \subseteq Addrs
    BY <1>3, PatchedAddresses DEF SetTraps, TrapperNew, TypeOK
  <2>4. hook' \in {"default", "trapper"} /\ real' \in {"none", "default", "trapper"}
    BY <1>3 DEF SetTraps, TrapperNew, TypeOK
  <2>5. TypeOK'
    BY <1>3, <2>1, <2>2, <2>3, <2>4 DEF SetTraps, TypeOK
  <2>6. QED
    BY <2>1, <2>5
<1>4. ASSUME NEW list \in TrapLists, SetTrapsPanics(list)
      PROVE TypeOK' /\ Ownership'
  <2>1. held' \in [Slots -> Int]
    BY <1>4, Lending DEF SetTrapsPanics, TrapperNew, TypeOK, Slots
  <2>2. armed' \subseteq Addrs /\ keyed' \subseteq Addrs
    BY <1>4, PatchedAddresses DEF SetTrapsPanics, TrapperNew, TypeOK
  <2>3. hook' \in {"default", "trapper"} /\ real' \in {"none", "default", "trapper"}
    BY <1>4 DEF SetTrapsPanics, TrapperNew, TypeOK
  <2>4. next' \in Nat \ {0}
    BY <1>4 DEF SetTrapsPanics, TrapperNew, TypeOK
  <2>5. TypeOK'
    BY <1>4, <2>1, <2>2, <2>3, <2>4 DEF SetTrapsPanics, TypeOK
  <2>6. Fields' = Fields
    BY <1>4 DEF SetTrapsPanics, Fields
  <2>7. next' = next + 1 /\ next \in Nat /\ heap \subseteq Nat
    BY <1>4 DEF SetTrapsPanics, TrapperNew, TypeOK
  <2>8. \A n \in heap : n > 0 /\ n < next'
    BY <2>7 DEF Ownership
  <2>9. Ownership'
    BY <1>4, <2>6, <2>8 DEF SetTrapsPanics, Ownership
  <2>10. QED
    BY <2>5, <2>9
<1>5. CASE Move
  <2>1. TypeOK'
    BY <1>5 DEF Move, TypeOK
  <2>2. QED
    BY <1>5, <2>1, SameOwner DEF Move, Usable
<1>6. ASSUME NEW slot \in Slots, Follow(slot) PROVE TypeOK' /\ Ownership'
  <2>1. TypeOK'
    BY <1>6 DEF Follow, Deref, TypeOK, Fates
  <2>2. QED
    BY <1>6, <2>1, SameOwner DEF Follow, Usable
<1>7. ASSUME NEW a \in Addrs, HitTrap(a) PROVE TypeOK' /\ Ownership'
  <2>1. TypeOK'
    BY <1>7 DEF HitTrap, TypeOK, Fates
  <2>2. QED
    BY <1>7, <2>1, SameOwner DEF HitTrap, Usable
<1>8. CASE HitGameBreakpoint
  <2>1. TypeOK'
    BY <1>8 DEF HitGameBreakpoint, TypeOK, Fates
  <2>2. QED
    BY <1>8, <2>1, SameOwner DEF HitGameBreakpoint, Usable
<1>9. CASE Drop
  BY <1>9, DropOwns
<1>10. CASE UNCHANGED vars
  <2>1. TypeOK'
    BY <1>10 DEF vars, TypeOK
  <2>2. Fields' = Fields
    BY <1>10 DEF vars, Fields
  <2>3. Ownership'
    BY <1>10, <2>2 DEF vars, Ownership
  <2>4. QED
    BY <2>1, <2>3
<1>11. QED
  BY <1>1, <1>2, <1>3, <1>4, <1>5, <1>6, <1>7, <1>8, <1>9, <1>10
     DEF Next, SetRtcFixed, EnableVideoBuffer, DrawScanline, ReadRtc, Slots

(* Every step leaves the C core with the buffers the OwnedCore owns.       *)
LEMMA BuffersStep ==
  ASSUME TypeOK, BuffersOwned, [Next]_vars
  PROVE  BuffersOwned'
<1>1. own \in [Slots -> Nat] /\ held \in [Slots -> Int]
  BY DEF TypeOK
<1>2. ASSUME NEW slot \in {"video", "rtc"}, Replace(slot) PROVE BuffersOwned'
  BY <1>1, <1>2 DEF BuffersOwned, Replace, FreshAddress, Slots
<1>3. ASSUME NEW list \in TrapLists, SetTraps(list) PROVE BuffersOwned'
  BY <1>1, <1>3 DEF BuffersOwned, SetTraps, TrapperNew, Slots
<1>4. ASSUME NEW list \in TrapLists, SetTrapsPanics(list) PROVE BuffersOwned'
  BY <1>1, <1>4 DEF BuffersOwned, SetTrapsPanics, NoTrapsYet, TrapperNew, Slots
<1>5. ASSUME Drop PROVE BuffersOwned'
  BY <1>5 DEF BuffersOwned, Drop, Empty, Slots
<1>6. ASSUME UNCHANGED <<own, held>> PROVE BuffersOwned'
  BY <1>6 DEF BuffersOwned
<1>7. QED
  BY <1>2, <1>3, <1>4, <1>5, <1>6
     DEF Next, SetRtcFixed, EnableVideoBuffer, DrawScanline, ReadRtc, NewGba,
         Move, Follow, HitTrap, HitGameBreakpoint, vars

-----------------------------------------------------------------------------
(* The pointers an OwnedCore lends stay valid under the full invariant. *)
LEMMA LentValid ==
  ASSUME Ownership, HeldIsOwned, NEW slot \in Slots, held[slot] # Null
  PROVE  Valid(held[slot])
BY DEF Ownership, HeldIsOwned, Valid, Fields

(* Until a set_traps panics, the C core holds what the OwnedCore owns.     *)
LEMMA UnpanickedStep ==
  ASSUME IInv, ~panicked, ~panicked', [Next]_vars
  PROVE  HeldIsOwned' /\ OneTrapper' /\ fate' = "ok"
<1>1. own \in [Slots -> Nat] /\ held = own /\ OneTrapper /\ fate = "ok"
  BY DEF IInv, TypeOK, HeldIsOwned
<1>2. ASSUME NEW kind \in NameKinds, NewGba(kind)
      PROVE  HeldIsOwned' /\ OneTrapper' /\ fate' = "ok"
  <2>1. own["trapper"] = Null
    BY <1>2 DEF NewGba, IInv, Ownership, Empty, Slots
  <2>2. QED
    BY <1>1, <1>2, <2>1 DEF NewGba, HeldIsOwned, OneTrapper
<1>3. ASSUME NEW slot \in {"video", "rtc"}, Replace(slot)
      PROVE  HeldIsOwned' /\ OneTrapper' /\ fate' = "ok"
  <2>1. own'["trapper"] = own["trapper"] /\ held' = own'
    BY <1>1, <1>3 DEF Replace, FreshAddress, Slots
  <2>2. QED
    BY <1>1, <1>3, <2>1 DEF Replace, HeldIsOwned, OneTrapper
<1>4. ASSUME NEW list \in TrapLists, SetTraps(list)
      PROVE  HeldIsOwned' /\ OneTrapper' /\ fate' = "ok"
  <2>1. /\ own["trapper"] = Null /\ phase = "live" /\ phase' = "live"
        /\ real' = hook /\ hook' = "trapper" /\ fate' = fate
        /\ armed' = armed \union PatchedBy(list) /\ keyed' = PatchedBy(list)
        /\ own' = [own EXCEPT !["trapper"] = next]
        /\ held' = [held EXCEPT !["trapper"] = next]
    BY <1>4 DEF SetTraps, TrapperNew, Usable, NoTrapsYet
  <2>2. armed = {} /\ hook = "default"
    BY <1>1, <2>1 DEF OneTrapper, IInv, TypeOK
  <2>3. own'["trapper"] # Null
    BY <1>1, <2>1 DEF IInv, TypeOK, Slots, Null
  <2>4. QED
    BY <1>1, <2>1, <2>2, <2>3 DEF HeldIsOwned, OneTrapper
<1>5. ASSUME NEW list \in TrapLists, SetTrapsPanics(list) PROVE FALSE
  BY <1>5 DEF SetTrapsPanics
<1>6. ASSUME Move
      PROVE  HeldIsOwned' /\ OneTrapper' /\ fate' = "ok"
  BY <1>1, <1>6 DEF Move, HeldIsOwned, OneTrapper
<1>7. ASSUME NEW slot \in Slots, Follow(slot)
      PROVE  HeldIsOwned' /\ OneTrapper' /\ fate' = "ok"
  <2>1. Valid(held[slot])
    BY <1>7, LentValid DEF Follow, IInv
  <2>2. QED
    BY <1>1, <1>7, <2>1 DEF Follow, Deref, HeldIsOwned, OneTrapper
<1>8. ASSUME NEW a \in Addrs, HitTrap(a)
      PROVE  HeldIsOwned' /\ OneTrapper' /\ fate' = "ok"
  <2>1. own["trapper"] # Null /\ a \in keyed
    BY <1>1, <1>8 DEF HitTrap, Usable, OneTrapper
  <2>2. Valid(held["trapper"])
    BY <1>1, <2>1, LentValid DEF IInv, Slots
  <2>3. QED
    BY <1>1, <1>8, <2>1, <2>2 DEF HitTrap, HeldIsOwned, OneTrapper
<1>9. ASSUME HitGameBreakpoint
      PROVE  HeldIsOwned' /\ OneTrapper' /\ fate' = "ok"
  <2>1. own["trapper"] # Null /\ real = "default"
    BY <1>1, <1>9 DEF HitGameBreakpoint, Usable, OneTrapper
  <2>2. Valid(held["trapper"])
    BY <1>1, <2>1, LentValid DEF IInv, Slots
  <2>3. QED
    BY <1>1, <1>9, <2>1, <2>2
       DEF HitGameBreakpoint, HeldIsOwned, OneTrapper
<1>10. ASSUME Drop
      PROVE  HeldIsOwned' /\ OneTrapper' /\ fate' = "ok"
  <2>1. held["trapper"] = Null \/ Valid(held["trapper"])
    BY LentValid DEF IInv, Slots
  <2>2. own'["trapper"] = Null
    BY <1>10 DEF Drop, Empty, Slots
  <2>3. QED
    BY <1>10, <2>1, <2>2 DEF Drop, ValidAtDeinit, HeldIsOwned, OneTrapper
<1>11. ASSUME UNCHANGED vars
      PROVE  HeldIsOwned' /\ OneTrapper' /\ fate' = "ok"
  BY <1>1, <1>11 DEF vars, HeldIsOwned, OneTrapper
<1>12. QED
  BY <1>2, <1>3, <1>4, <1>5, <1>6, <1>7, <1>8, <1>9, <1>10, <1>11
     DEF Next, SetRtcFixed, EnableVideoBuffer, DrawScanline, ReadRtc, Slots

LEMMA IInvStep == IInv /\ [Next]_vars => IInv'
<1> SUFFICES ASSUME IInv, [Next]_vars PROVE IInv'
  OBVIOUS
<1>1. TypeOK' /\ Ownership' /\ BuffersOwned'
  BY BooksStep, BuffersStep DEF IInv
<1>2. panicked => panicked'
  BY DEF Next, SetRtcFixed, EnableVideoBuffer, DrawScanline, ReadRtc, NewGba, Replace,
         SetTraps, SetTrapsPanics, Move, Follow, HitTrap, HitGameBreakpoint, Drop, vars
<1>3. ~panicked' => HeldIsOwned' /\ OneTrapper' /\ fate' = "ok"
  BY <1>2, UnpanickedStep
<1>4. QED
  BY <1>1, <1>3 DEF IInv

LEMMA CoreInductive == Spec => []IInv
BY Initially, IInvStep, PTL DEF Spec

(* What IInv comes to. *)
LEMMA CoreIsSafe ==
  ASSUME IInv PROVE TypeOK /\ NoDangling /\ Survives /\ BuffersAlive /\ ReleasedOnDrop
<1>1. TypeOK /\ NoDangling /\ Survives
  BY LentValid DEF IInv, NoDangling, Dangles, Survives
<1>2. \A slot \in Slots : own[slot] # Null => own[slot] \in heap
  BY DEF IInv, Ownership, Fields
<1>3. BuffersAlive
  BY <1>2 DEF IInv, BuffersAlive, BuffersOwned, Dangles, Valid, Slots
<1>4. phase = "dropped" => \A slot \in Slots : own[slot] = Null
  BY DEF IInv, Ownership, Empty
<1>5. ReleasedOnDrop
  BY <1>4 DEF IInv, ReleasedOnDrop, Ownership, Fields
<1>6. QED
  BY <1>1, <1>3, <1>5

-----------------------------------------------------------------------------
(* Until a set_traps panics, every pointer the C core retains is valid for *)
(* as long as the core lives.                                              *)
THEOREM NothingDangles == Spec => []NoDangling
<1>1. IInv => NoDangling
  BY CoreIsSafe
<1>2. QED
  BY <1>1, CoreInductive, PTL

(* ... and no run of the guest and no teardown ends in freed memory, a     *)
(* missing table entry or a hook chained into itself.                      *)
THEOREM CoreSafe == Spec => []Survives
<1>1. IInv => Survives
  BY CoreIsSafe
<1>2. QED
  BY <1>1, CoreInductive, PTL

(* Of every caller: the RTC source and the video buffer outlive every use  *)
(* the C core makes of them (the Box of src/core.rs and the assignment     *)
(* after the hand-over).                                                   *)
THEOREM BuffersOutliveUse == Spec => []BuffersAlive
<1>1. IInv => BuffersAlive
  BY CoreIsSafe
<1>2. QED
  BY <1>1, CoreInductive, PTL

(* A dropped core leaves nothing allocated, panics or no panics.           *)
THEOREM DropReleases == Spec => []ReleasedOnDrop
<1>1. IInv => ReleasedOnDrop
  BY CoreIsSafe
<1>2. QED
  BY <1>1, CoreInductive, PTL

(* "Gives the trapper exactly the core's lifetime" (src/lib.rs): so it     *)
(* does, but for a panic half way through set_traps.                       *)
THEOREM OnlyPanicsCutTrapper == Spec => [](panicked \/ TrapperLifetime)
<1>1. IInv => panicked \/ TrapperLifetime
  BY CoreIsSafe DEF NoDangling, TrapperLifetime, Slots
<1>2. QED
  BY <1>1, CoreInductive, PTL

(* The assert of set_traps keeps the first trapper in place: no call       *)
(* replaces it while the core lives, which is what has the component table *)
(* and the field free the same box (src/core.rs, set_traps and Drop).      *)
THEOREM TrapperStays == Spec => TrapperForLife
<1>1. IInv /\ [Next]_vars =>
        \/ UNCHANGED vars
        \/ own["trapper"] # Null =>
             \/ phase' = "dropped"
             \/ own'["trapper"] = own["trapper"] /\ held'["trapper"] = own["trapper"]
  <2> SUFFICES ASSUME IInv, Next, own["trapper"] # Null, phase' # "dropped"
               PROVE  own'["trapper"] = own["trapper"] /\ held'["trapper"] = own["trapper"]
    OBVIOUS
  <2>1. /\ own \in [Slots -> Nat] /\ held \in [Slots -> Int]
        /\ held["trapper"] = own["trapper"]
    BY DEF IInv, TypeOK, BuffersOwned
  <2>2. ASSUME NEW slot \in {"video", "rtc"}, Replace(slot)
        PROVE  own'["trapper"] = own["trapper"] /\ held'["trapper"] = held["trapper"]
    BY <2>1, <2>2 DEF Replace, Slots
  <2>3. ASSUME UNCHANGED <<own, held>>
        PROVE  own'["trapper"] = own["trapper"] /\ held'["trapper"] = held["trapper"]
    BY <2>3
  <2>4. QED
    BY <2>1, <2>2, <2>3
       DEF Next, SetRtcFixed, EnableVideoBuffer, DrawScanline, ReadRtc, NewGba,
           SetTraps, SetTrapsPanics, NoTrapsYet, Move, Follow, HitTrap,
           HitGameBreakpoint, Drop
<1>2. QED
  BY <1>1, CoreInductive, PTL DEF Spec, TrapperForLife
=============================================================================
