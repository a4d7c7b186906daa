----------------------------- MODULE LinkSnapshot -----------------------------
(***************************************************************************)
(* Snapshots of a link (src/sio.rs with src/core.rs, src/state.rs): a      *)
(* frontend that drives the awake cores keeps whole moments of the link    *)
(* and goes back to them.  A moment is one State per core and one blob per *)
(* driver; "core savestates do NOT cover any of" what is in the latter,    *)
(* and the flags the frontend goes by are in neither: load_state sets      *)
(* none, and nothing says whether the C side calls sleep or wake.  Here    *)
(* any core may be the next to run, and a parked one does not get far.     *)
(*                                                                         *)
(* The frontend does as the comments ask: it snapshots cores and drivers   *)
(* alongside each other, with no slice in between, loads a driver after    *)
(* its core, and uses no snapshot it was refused.  The coordinator is C    *)
(* code outside this tree, modelled as far as those comments promise it.   *)
(***************************************************************************)
EXTENDS Naturals, Sequences

CONSTANTS
  Players,
  Primary,     (* player 0, whose blob includes the shared state           *)
  Keys,        (* of each player: the keys it may press in a slice         *)
  Unsavable,   (* the players whose driver's saveState may fail            *)
  Slots,
  Tick,
  MaxTime,
  Torn, Empty,
  NoBytes      (* an empty Vec                                             *)

History == Seq(UNION {Keys[p] : p \in Players})
Moment == [Players -> History]
DriverState == [clock : 0 .. Tick, shared : Moment \union {Empty}]

ASSUME SnapshotAssumption ==
  /\ Primary \in Players
  /\ Tick \in Nat \ {0} /\ MaxTime \in Nat
  /\ Torn \notin Moment
  /\ Empty \notin Moment \union History \union DriverState \union {NoBytes}
  /\ NoBytes \notin DriverState

VARIABLES
  core,        (* of each machine: the keys pressed so far, its state      *)
  scheduled,   (* is the driver's event in the core's timing list?         *)
  clock,       (* of each driver: slices into the tick                     *)
  shared,      (* in the coordinator: what passed at the ticks now over    *)
  doing,       (* "run", "save", "load", or "torn" by a failed load        *)
  slot,        (* the one being saved to or loaded from, else Empty        *)
  left,        (* the calls still to be made for it                        *)
  states,      (* of each slot, by player: a Box<State>, or Empty          *)
  blobs        (* of each slot, by player: a driver's bytes, or Empty      *)

machine == <<core, scheduled, clock, shared>>
kept == <<states, blobs>>
vars == <<machine, doing, slot, left, kept>>

Start == [p \in Players |-> <<>>]
NoneOf == [p \in Players |-> Empty]

Init ==
  /\ core = Start /\ shared = Start
  /\ scheduled = [p \in Players |-> TRUE]
  /\ clock = [p \in Players |-> 0]
  /\ doing = "run" /\ slot = Empty /\ left = {}
  /\ states = [s \in Slots |-> NoneOf]
  /\ blobs = [s \in Slots |-> NoneOf]

Calls == {"core", "driver"} \X Players

-----------------------------------------------------------------------------
(* Running. *)

PastTick == {p \in Players : clock[p] > Tick}          \* slip: off by one
Parked == {p \in Players : clock[p] = Tick}

(* The event of p's driver: a slice nearer to the tick.  Once all are      *)
(* there the tick is over, and what the machines did has passed.           *)
TickOver(at) == \A p \in Players : at[p] = Tick

Event(p) ==
  LET at == [clock EXCEPT ![p] = @ + 1]
  IN  /\ clock' = IF TickOver(at) THEN [q \in Players |-> 0] ELSE at
      /\ shared' = IF TickOver(at) THEN core' ELSE shared

(* Core::run_loop, which on a parked core exits immediately.  Without its  *)
(* event in the timing list a core never gets to the tick.                 *)
Slice(p, k) ==
  /\ doing = "run"
  /\ p \notin Parked
  /\ Len(core[p]) < MaxTime
  /\ core' = [core EXCEPT ![p] = Append(@, k)]
  /\ IF scheduled[p] THEN Event(p) ELSE UNCHANGED <<clock, shared>>
  /\ UNCHANGED <<scheduled, doing, slot, left, kept>>

-----------------------------------------------------------------------------
(* Keeping a moment. *)

Idle == doing = "run"

Made(call) ==
  /\ left' = left \ {call}
  /\ doing' = IF left' = {} THEN "run" ELSE doing
  /\ slot' = IF left' = {} THEN Empty ELSE slot

(* The boxes of what the slot held are demoted by into_uninit and reused;  *)
(* on an empty slot they are new_uninit.  Either way no State is left.     *)
Demote(s) == states' = [states EXCEPT ![s] = NoneOf]

BeginSave(s) ==
  /\ Idle
  /\ doing' = "save" /\ slot' = s /\ left' = Calls
  /\ Demote(s)
  /\ blobs' = [blobs EXCEPT ![s] = NoneOf]
  /\ UNCHANGED machine

(* Core::save_state_reusing; Core::save_state is this with a fresh box. *)
SaveCore(p) ==
  /\ doing = "save" /\ <<"core", p>> \in left
  /\ states' = [states EXCEPT ![slot][p] = core[p]]
  /\ Made(<<"core", p>>)
  /\ UNCHANGED <<machine, blobs>>

(* ... which on a failure drops the box: nothing is left of this player,   *)
(* and the frontend drops what it has of the others.                       *)
SaveCoreFails(p) ==
  /\ doing = "save" /\ <<"core", p>> \in left
  /\ states' = [states EXCEPT ![slot] = NoneOf]
  /\ blobs' = [blobs EXCEPT ![slot] = NoneOf]
  /\ doing' = "run" /\ slot' = Empty /\ left' = {}
  /\ UNCHANGED machine

(* Driver::save_state.  It does not look at what the C call returns: when  *)
(* that failed there are no bytes, and the frontend is not told.           *)
OwnStateOnly(p) == [clock |-> clock[p], shared |-> Empty]    \* slip
Blob(p) == [clock |-> clock[p], shared |-> IF p = Primary THEN shared ELSE Empty]

Bytes(p) == {Blob(p)} \union (IF p \in Unsavable THEN {NoBytes} ELSE {})

SaveDriver(p) ==
  /\ doing = "save" /\ <<"driver", p>> \in left
  /\ \E bytes \in Bytes(p) : blobs' = [blobs EXCEPT ![slot][p] = bytes]
  /\ Made(<<"driver", p>>)
  /\ UNCHANGED <<machine, states>>

(* A slot the frontend takes to be usable: every call for it was made, and *)
(* none reported a failure.                                                *)
Complete(s) ==
  /\ doing = "save" => slot # s
  /\ \A p \in Players : states[s][p] # Empty /\ blobs[s][p] # Empty

(* State::from_slice(as_slice()), or Clone; the driver's bytes are a Vec. *)
CopySlot(s, t) ==
  /\ Idle /\ Complete(s)
  /\ states' = [states EXCEPT ![t] = states[s]]
  /\ blobs' = [blobs EXCEPT ![t] = blobs[s]]
  /\ UNCHANGED <<machine, doing, slot, left>>

-----------------------------------------------------------------------------
(* Going back to it, also once more after a load that failed. *)

BeginLoad(s) ==
  /\ Idle \/ doing = "torn"
  /\ Complete(s)
  /\ doing' = "load" /\ slot' = s /\ left' = Calls
  /\ UNCHANGED <<machine, kept>>

(* Core::load_state clears the timing list the driver scheduled into. *)
LoadCore(p) ==
  /\ doing = "load" /\ <<"core", p>> \in left
  /\ core' = [core EXCEPT ![p] = states[slot][p]]
  /\ scheduled' = [scheduled EXCEPT ![p] = FALSE]
  /\ Made(<<"core", p>>)
  /\ UNCHANGED <<clock, shared, kept>>

(* Driver::load_state must be called after the owning core's. *)
AnyOrder(p) == TRUE                           \* slip
CoreLoaded(p) == <<"core", p>> \notin left

(* Bytes that are none are refused. *)
LoadDriver(p) ==
  /\ doing = "load" /\ <<"driver", p>> \in left
  /\ CoreLoaded(p)
  /\ blobs[slot][p] # NoBytes
  /\ clock' = [clock EXCEPT ![p] = blobs[slot][p].clock]
  /\ shared' = IF blobs[slot][p].shared = Empty THEN shared ELSE blobs[slot][p].shared
  /\ scheduled' = [scheduled EXCEPT ![p] = TRUE]
  /\ Made(<<"driver", p>>)
  /\ UNCHANGED <<core, kept>>

(* Either load can be refused; those made before it stay made. *)
LoadFails ==
  /\ doing = "load"
  /\ \E p \in Players : <<"core", p>> \in left \/ CoreLoaded(p)
  /\ doing' = "torn"
  /\ slot' = Empty /\ left' = {}
  /\ UNCHANGED <<machine, kept>>

Next ==
  \/ \E p \in Players : \E k \in Keys[p] : Slice(p, k)
  \/ \E s \in Slots : BeginSave(s) \/ BeginLoad(s)
  \/ \E s, t \in Slots : CopySlot(s, t)
  \/ \E p \in Players : SaveCore(p) \/ SaveCoreFails(p) \/ SaveDriver(p)
  \/ \E p \in Players : LoadCore(p) \/ LoadDriver(p)
  \/ LoadFails

Spec == Init /\ [][Next]_vars

-----------------------------------------------------------------------------
TypeOK ==
  /\ core \in Moment /\ shared \in Moment
  /\ \A p \in Players : Len(core[p]) <= MaxTime
  /\ scheduled \in [Players -> BOOLEAN]
  /\ clock \in [Players -> 0 .. Tick]
  /\ doing \in {"run", "save", "load", "torn"}
  /\ left \subseteq Calls
  /\ doing \in {"save", "load"} => slot \in Slots /\ left # {}
  /\ states \in [Slots -> [Players -> History \union {Empty}]]
  /\ blobs \in [Slots -> [Players -> DriverState \union {NoBytes, Empty}]]

(* Of n ticks that are over everything has passed, and every machine is as *)
(* far into the next as its driver counts.                                 *)
OneMoment(machines, clocks, passed) ==
  \E n \in 0 .. MaxTime : \A p \in Players :
    /\ Len(machines[p]) = n * Tick + clocks[p]
    /\ passed[p] = SubSeq(machines[p], 1, n * Tick)

(* Whenever the link runs, cores, drivers and coordinator are of one       *)
(* timeline and one moment of it, and every driver gets its events.        *)
InStep ==
  doing \in {"run", "save"} =>
    OneMoment(core, clock, shared) /\ \A p \in Players : scheduled[p]

(* The link is one whose machines, together, can be put back to moments.   *)
(* A restore counts from its first call: till the last one succeeds the    *)
(* link only runs as the moment it is put back to.                         *)
Link == IF doing = "torn" THEN Torn ELSE IF doing = "load" THEN states[slot] ELSE core
Saved == [s \in Slots |-> IF Complete(s) THEN states[s] ELSE Empty]
Rewind == INSTANCE RewindLink WITH link <- Link, saved <- Saved

ImplementsRewind == Rewind!Spec

(* What these rest on: a slot whose calls all succeeded has one moment;    *)
(* one being saved to has the present of those already asked, or no bytes; *)
(* and a link being restored is the slot's as far as it got.               *)
Clocks(s) == [p \in Players |-> blobs[s][p].clock]

Whole(s) == \A p \in Players : blobs[s][p] # NoBytes

MomentIn(s) ==
  /\ \A p \in Players :
       /\ Len(states[s][p]) <= MaxTime
       /\ blobs[s][p] # NoBytes => (blobs[s][p].shared = Empty <=> p # Primary)
  /\ Whole(s) => OneMoment(states[s], Clocks(s), blobs[s][Primary].shared)

KeptMoments == \A s \in Slots : Complete(s) => MomentIn(s)

SavedSoFar == doing = "save" => \A p \in Players :
  /\ states[slot][p] = IF <<"core", p>> \in left THEN Empty ELSE core[p]
  /\ blobs[slot][p] \in IF <<"driver", p>> \in left THEN {Empty} ELSE Bytes(p)

LoadedSoFar == doing = "load" =>
  /\ Complete(slot)
  /\ \A p \in Players :
       /\ <<"core", p>> \in left => <<"driver", p>> \in left
       /\ <<"core", p>> \notin left => core[p] = states[slot][p]
       /\ <<"driver", p>> \notin left =>
            blobs[slot][p] # NoBytes /\ clock[p] = Clocks(slot)[p] /\ scheduled[p]
  /\ <<"driver", Primary>> \notin left => shared = blobs[slot][Primary].shared

IInv == TypeOK /\ InStep /\ KeptMoments /\ SavedSoFar /\ LoadedSoFar
=============================================================================
