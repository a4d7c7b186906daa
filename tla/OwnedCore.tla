------------------------------ MODULE OwnedCore ------------------------------
(***************************************************************************)
(* The life of one OwnedCore (src/core.rs) and of the host allocations the *)
(* C core keeps raw pointers into: the video buffer, the pinned RTC source *)
(* and the trapper spliced into the CPU's component table                  *)
(* (src/trapper.rs).  The emulator itself is C code outside this tree; it  *)
(* appears only as the pointers it retains and the moments it follows one. *)
(*                                                                         *)
(* A pointer is a number: 0 is null, n > 0 is the n-th heap allocation,    *)
(* -k is the inline storage of the OwnedCore value after its k-th move.    *)
(***************************************************************************)
EXTENDS Integers, Sequences, Functions

CONSTANTS
  Addrs,      (* code addresses a trap can be put on                       *)
  TrapLists,  (* the lists of addresses callers hand to set_traps          *)
  NameKinds,  (* the kinds of config_name callers pass: "plain" or "nul",  *)
              (* the latter a string with an interior NUL                  *)
  MaxAllocs,  (* bound: heap allocations made                              *)
  MaxMoves    (* bound: moves of the OwnedCore value                       *)

ASSUME TrapListsAssumption == TrapLists \subseteq Seq(Addrs)
ASSUME NameKindsAssumption == NameKinds \subseteq {"plain", "nul"}
ASSUME BoundsAssumption == MaxAllocs \in Nat /\ MaxMoves \in Nat

VARIABLES
  phase,    (* of the C core: "none", "live" (an OwnedCore holds it),      *)
            (* "dropped" (deinitialized) or "leaked" (nobody holds it)     *)
  place,    (* moves of the OwnedCore value so far                         *)
  next,     (* the next heap allocation's number                           *)
  heap,     (* the heap allocations not freed yet                          *)
  own,      (* the Option fields of the OwnedCore, 0 for None              *)
  held,     (* the pointers the C core retains                             *)
  hook,     (* what irqh.bkpt16 points to                                  *)
  real,     (* real_bkpt16 of the trapper last spliced in                  *)
  armed,    (* the addresses that hold a trap's BKPT                       *)
  keyed,    (* the addresses in the spliced trapper's table                *)
  fate,     (* "ok", or how the process came to grief                      *)
  panicked  (* whether a set_traps has panicked half way (history)         *)

vars == <<phase, place, next, heap, own, held, hook, real, armed, keyed, fate, panicked>>

Null == 0
Slots == {"video", "rtc", "trapper"}
Empty == [s \in Slots |-> Null]

Fates == {"ok", "use_after_free", "abort", "recursion"}

Inline == -place - 1          \* where the OwnedCore value is now

Valid(p) == p \in heap \/ p = Inline

(* The allocations the OwnedCore's fields own. *)
Fields == {own[slot] : slot \in Slots}

(* What becomes of the process when C code follows the pointer p. *)
Deref(p) == IF Valid(p) THEN "ok" ELSE "use_after_free"

Usable == phase = "live" /\ fate = "ok"

-----------------------------------------------------------------------------
Init ==
  /\ phase = "none"
  /\ place = 0
  /\ next = 1
  /\ heap = {}
  /\ own = Empty
  /\ held = Empty
  /\ hook = "default"
  /\ real = "none"
  /\ armed = {}
  /\ keyed = {}
  /\ fate = "ok"
  /\ panicked = FALSE

(* new_gba: the C core exists and is initialized before the configuration  *)
(* name is converted, and the conversion panics on an interior NUL while   *)
(* no OwnedCore holds the core yet.  (A null GBACoreCreate is an early     *)
(* return that leaves no state behind.)                                    *)
NewGba(kind) ==
  /\ phase = "none"
  /\ phase' = IF kind = "nul" THEN "leaked" ELSE "live"
  /\ UNCHANGED <<place, next, heap, own, held, hook, real, armed, keyed, fate, panicked>>

(* Where the value about to be kept in a slot lives, and the allocation    *)
(* that the assignment to the slot's field drops.                          *)
InlineAddress(slot) == Inline      \* slip: no Box around it
FreshAddress(slot) == next
ForgetsOld(slot) == Null           \* slip: the old value is forgotten
Dropped(slot) == own[slot]

(* A fresh allocation replaces the one in a slot: the C core is given the  *)
(* new pointer, then the assignment to the field drops the old value.      *)
Replace(slot) ==
  /\ Usable
  /\ next <= MaxAllocs
  /\ next' = next + 1
  /\ heap' = (heap \ {Dropped(slot)}) \union {next}
  /\ own' = [own EXCEPT ![slot] = next]
  /\ held' = [held EXCEPT ![slot] = FreshAddress(slot)]
  /\ UNCHANGED <<phase, place, hook, real, armed, keyed, fate, panicked>>

SetRtcFixed == Replace("rtc")

EnableVideoBuffer == Replace("video")

(* The addresses patched when the loop over the handlers ends, or panics   *)
(* at the first address it meets again.                                    *)
PatchedBy(list) ==
  {list[i] : i \in {n \in DOMAIN list : IsInjective(SubSeq(list, 1, n))}}

(* Trapper::new: the splice into the component table and the hook come     *)
(* first, the patches after them, one by one.                              *)
TrapperNew(list) ==
  /\ next' = next + 1
  /\ real' = hook
  /\ held' = [held EXCEPT !["trapper"] = next]
  /\ hook' = "trapper"
  /\ armed' = armed \union PatchedBy(list)

(* The assert of set_traps; when it fails it panics with no state changed. *)
NotAsserted == TRUE                \* slip: the assert is gone
NoTrapsYet == own["trapper"] = Null

(* set_traps, every address met once. *)
SetTraps(list) ==
  /\ Usable
  /\ next <= MaxAllocs
  /\ NoTrapsYet
  /\ IsInjective(list)
  /\ TrapperNew(list)
  /\ heap' = (heap \ {Dropped("trapper")}) \union {next}
  /\ own' = [own EXCEPT !["trapper"] = next]
  /\ keyed' = PatchedBy(list)
  /\ UNCHANGED <<phase, place, fate, panicked>>

(* set_traps with a repeated address: Trapper::new panics, the unwinding   *)
(* frees the box just spliced in, and the field stays None.                *)
SetTrapsPanics(list) ==
  /\ Usable
  /\ next <= MaxAllocs
  /\ NoTrapsYet
  /\ ~IsInjective(list)
  /\ TrapperNew(list)
  /\ keyed' = {}
  /\ panicked' = TRUE
  /\ UNCHANGED <<phase, place, heap, own, fate>>

(* The OwnedCore value is moved, to another thread or into a container:    *)
(* its fields are elsewhere, its boxes are not.                            *)
Move ==
  /\ Usable
  /\ place < MaxMoves
  /\ place' = place + 1
  /\ UNCHANGED <<phase, next, heap, own, held, hook, real, armed, keyed, fate, panicked>>

(* The guest runs.  The renderer writes a line, the cartridge reads its    *)
(* clock: the C core follows the pointer it was last given.                *)
Follow(slot) ==
  /\ Usable
  /\ held[slot] # Null
  /\ fate' = Deref(held[slot])
  /\ UNCHANGED <<phase, place, next, heap, own, held, hook, real, armed, keyed, panicked>>

DrawScanline == Follow("video")

ReadRtc == Follow("rtc")

(* c_trapper_bkpt16 for a trap's immediate: follow the component table to  *)
(* the trapper and look the caller up.                                     *)
HitTrap(a) ==
  /\ Usable
  /\ a \in armed
  /\ fate' = IF Valid(held["trapper"])
             THEN IF a \in keyed THEN "ok" ELSE "abort"
             ELSE "use_after_free"
  /\ UNCHANGED <<phase, place, next, heap, own, held, hook, real, armed, keyed, panicked>>

(* c_trapper_bkpt16 for any other immediate: a breakpoint of the game's    *)
(* own is handed on to the hook found at installation.                     *)
HitGameBreakpoint ==
  /\ Usable
  /\ hook = "trapper"
  /\ fate' = IF Valid(held["trapper"])
             THEN IF real = "trapper" THEN "recursion" ELSE "ok"
             ELSE "use_after_free"
  /\ UNCHANGED <<phase, place, next, heap, own, held, hook, real, armed, keyed, panicked>>

(* What is still allocated when Drop::drop calls the core's deinit: the    *)
(* fields are dropped only after the body of drop.                         *)
FreedAtDeinit(p) == Valid(p) /\ p \notin Fields   \* slip: before it
ValidAtDeinit(p) == Valid(p)

(* Drop: deinit walks the component table, then the fields are freed. *)
Drop ==
  /\ Usable
  /\ phase' = "dropped"
  /\ fate' = IF held["trapper"] = Null \/ ValidAtDeinit(held["trapper"])
             THEN "ok" ELSE "use_after_free"
  /\ heap' = heap \ Fields
  /\ own' = Empty
  /\ held' = Empty
  /\ UNCHANGED <<place, next, hook, real, armed, keyed, panicked>>

Next ==
  \/ \E kind \in NameKinds : NewGba(kind)
  \/ SetRtcFixed
  \/ EnableVideoBuffer
  \/ \E list \in TrapLists : SetTraps(list)
  \/ \E list \in TrapLists : SetTrapsPanics(list)
  \/ Move
  \/ DrawScanline
  \/ ReadRtc
  \/ \E a \in Addrs : HitTrap(a)
  \/ HitGameBreakpoint
  \/ Drop

Spec == Init /\ [][Next]_vars

-----------------------------------------------------------------------------
(* The shape of every variable. *)
TypeOK ==
  /\ phase \in {"none", "live", "dropped", "leaked"}
  /\ place \in Nat
  /\ next \in Nat \ {0}
  /\ heap \subseteq Nat
  /\ own \in [Slots -> Nat]
  /\ held \in [Slots -> Int]
  /\ hook \in {"default", "trapper"}
  /\ real \in {"none", "default", "trapper"}
  /\ armed \subseteq Addrs
  /\ keyed \subseteq Addrs
  /\ fate \in Fates
  /\ panicked \in BOOLEAN

Dangles(slot) == held[slot] # Null /\ ~Valid(held[slot])

(* Whatever the order of calls, moves and replacements, no pointer the C   *)
(* core retains is to memory the host has freed or moved, until the core   *)
(* is deinitialized, unless a set_traps has panicked.                      *)
NoDangling == phase = "live" /\ ~panicked => \A slot \in Slots : ~Dangles(slot)

(* The same of the RTC source and the video buffer alone, which holds of   *)
(* every caller, one whose set_traps panicked half way included.           *)
BuffersAlive == phase = "live" => ~Dangles("rtc") /\ ~Dangles("video")

(* The same of the trapper alone: "gives the trapper exactly the core's    *)
(* lifetime" (src/lib.rs).                                                 *)
TrapperLifetime == phase = "live" => ~Dangles("trapper")

(* No guest run and no teardown reads freed memory, aborts in the extern   *)
(* "C" hook for want of a table entry, or recurses through a hook chained  *)
(* into itself, unless a set_traps has panicked.                           *)
Survives == ~panicked => fate = "ok"

(* Once the core is dropped nothing it was lent is still allocated. *)
ReleasedOnDrop == phase = "dropped" => heap = {}

(* A trapper once owned is the one in the component table until the core   *)
(* is gone: no later call of any kind replaces it.                         *)
TrapperForLife ==
  [][own["trapper"] # Null =>
       \/ phase' = "dropped"
       \/ own'["trapper"] = own["trapper"] /\ held'["trapper"] = own["trapper"]]_vars

-----------------------------------------------------------------------------
(* What the invariants above rest on. *)

(* Every box is owned by one field and was handed out before. *)
Ownership ==
  /\ heap = Fields \ {Null}
  /\ \A n \in heap : n > 0 /\ n < next
  /\ \A s, t \in Slots : own[s] = own[t] /\ own[s] # Null => s = t
  /\ phase # "live" => own = Empty

(* The C core holds exactly what the OwnedCore owns. *)
HeldIsOwned == held = own

(* Of every caller, it holds the buffers and the trapper the fields own.   *)
BuffersOwned ==
  /\ held["rtc"] = own["rtc"]
  /\ held["video"] = own["video"]
  /\ own["trapper"] # Null => held["trapper"] = own["trapper"]

(* One trapper at most was ever installed, in front of the core's own hook,*)
(* and its table is of the addresses patched.                              *)
OneTrapper ==
  /\ own["trapper"] # Null => real = "default" /\ keyed = armed
  /\ phase = "live" => (hook = "trapper" <=> own["trapper"] # Null)
  /\ phase = "live" /\ own["trapper"] = Null => armed = {}
  /\ phase = "none" => hook = "default" /\ armed = {}

IInv ==
  /\ TypeOK
  /\ Ownership
  /\ BuffersOwned
  /\ ~panicked => HeldIsOwned /\ OneTrapper /\ fate = "ok"

=============================================================================
