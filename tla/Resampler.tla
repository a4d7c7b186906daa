------------------------------- MODULE Resampler -------------------------------
(***************************************************************************)
(* The audio rings of src/audio.rs and the two pointers an AudioResampler  *)
(* keeps to them between calls.  A ring is the host's own (an              *)
(* OwnedAudioBuffer) or a core's (Core::audio_buffer), which dies with it. *)
(* A pointer is a ring and the place the ring was in.                      *)
(***************************************************************************)
EXTENDS Naturals

CONSTANTS
  Owned,       (* rings the host allocates                                 *)
  Lent,        (* rings inside a core                                      *)
  NoRing,      (* a pointer never set                                      *)
  UntilProcess (* whether callers take a source to be needed only until    *)
               (* the next process, as set_source says, or for as long as  *)
               (* the resampler may process again                          *)

ASSUME RingsAssumption ==
  NoRing \notin Owned \union Lent /\ UntilProcess \in BOOLEAN

Rings == Owned \union Lent

Nothing == <<NoRing, 0>>

VARIABLES
  live,        (* the rings allocated                                      *)
  gone,        (* the rings freed                                          *)
  place,       (* where each ring is: 0 in its box, 1 moved out of it      *)
  source,      (* what the resampler's source points to                    *)
  destination, (* and its destination                                      *)
  processed,   (* whether process ran since the source was set             *)
  resampler,   (* "live" or "dropped"                                      *)
  fate         (* "ok", "null" or "use_after_free": where process ended up *)

vars == <<live, gone, place, source, destination, processed, resampler, fate>>

Running == resampler = "live" /\ fate = "ok"

Address(r) == <<r, place[r]>>

Valid(p) == p = Nothing \/ p \in {Address(r) : r \in live}

Init ==
  /\ live = Lent
  /\ gone = {}
  /\ place = [r \in Rings |-> 0]
  /\ source = Nothing
  /\ destination = Nothing
  /\ processed = FALSE
  /\ resampler = "live"
  /\ fate = "ok"

(* OwnedAudioBuffer::new *)
NewRing(r) ==
  /\ fate = "ok"
  /\ r \notin live \union gone
  /\ live' = live \union {r}
  /\ UNCHANGED <<gone, place, source, destination, processed, resampler, fate>>

(* An OwnedAudioBuffer is moved; the ring is pinned in its box. *)
Inline(r) == 1                             \* slip: there is no box
Boxed(r) == 0

MoveRing(r) ==
  /\ fate = "ok"
  /\ r \in live
  /\ place' = [place EXCEPT ![r] = Boxed(r)]
  /\ UNCHANGED <<live, gone, source, destination, processed, resampler, fate>>

SetSource(r) ==
  /\ Running
  /\ r \in live
  /\ source' = Address(r)
  /\ processed' = FALSE
  /\ UNCHANGED <<live, gone, place, destination, resampler, fate>>

SetDestination(r) ==
  /\ Running
  /\ r \in live
  /\ destination' = Address(r)
  /\ UNCHANGED <<live, gone, place, source, processed, resampler, fate>>

(* process goes through both pointers, and keeps them.  Nothing has it     *)
(* wait until both are set: through one that is not, it goes to address 0. *)
Process ==
  /\ Running
  /\ processed' = TRUE
  /\ fate' = CASE Nothing \in {source, destination}       -> "null"
               [] ~Valid(source) \/ ~Valid(destination) -> "use_after_free"
               [] OTHER                                 -> "ok"
  /\ UNCHANGED <<live, gone, place, source, destination, resampler>>

(* What the documentation of set_source and set_destination asks of those  *)
(* who free a ring, and what it takes.                                     *)
SourceOnly(r) == source # Address(r)       \* slip: destinations go unasked
Unused(r) ==
  /\ source # Address(r) \/ (UntilProcess /\ processed)
  /\ destination # Address(r)

FreeRing(r) ==
  /\ fate = "ok"
  /\ r \in live
  /\ resampler = "live" => Unused(r)
  /\ live' = live \ {r}
  /\ gone' = gone \union {r}
  /\ UNCHANGED <<place, source, destination, processed, resampler, fate>>

(* The resampler's own teardown follows no pointer to a ring. *)
DropResampler ==
  /\ Running
  /\ resampler' = "dropped"
  /\ UNCHANGED <<live, gone, place, source, destination, processed, fate>>

Next ==
  \/ \E r \in Owned : NewRing(r) \/ MoveRing(r)
  \/ \E r \in Rings : SetSource(r) \/ SetDestination(r) \/ FreeRing(r)
  \/ Process
  \/ DropResampler

Spec == Init /\ [][Next]_vars

-----------------------------------------------------------------------------
(* The shape of every variable. *)
TypeOK ==
  /\ live \subseteq Rings /\ gone \subseteq Rings
  /\ place \in [Rings -> {0, 1}]
  /\ source \in ((Rings \union {NoRing}) \X {0, 1})
  /\ destination \in ((Rings \union {NoRing}) \X {0, 1})
  /\ processed \in BOOLEAN
  /\ resampler \in {"live", "dropped"}
  /\ fate \in {"ok", "null", "use_after_free"}

(* "the caller must ensure source stays live until either process runs or  *)
(* a new source is set", "the destination must outlive any later process": *)
(* callers who do never have process read or write a ring that is gone.    *)
ProcessSafe == fate # "use_after_free"

(* A resampler's pointers lead to rings as long as it may process. *)
PointersValid == resampler = "live" => Valid(source) /\ Valid(destination)
=============================================================================
