----------------------------- MODULE WirelessLink -----------------------------
(***************************************************************************)
(* The wireless adapter stack (src/sio.rs, wireless) driven by one thread: *)
(* LinkLifetime's link with what a frontend sees of it, the seats of the   *)
(* adapters and which cores are asleep.  A frontend runs whichever cores   *)
(* are awake, and learns from the glue which those are: sleep, wake and    *)
(* playerIdChanged do nothing but set its fields.                          *)
(*                                                                         *)
(* The coordinator is C code outside this tree; it is modelled as far as   *)
(* the comments of sio.rs promise it: a core that has reached the RF tick  *)
(* is parked until every player has reached it, and a player's flag says   *)
(* whether it is.                                                          *)
(***************************************************************************)
EXTENDS LinkLifetime, Integers, FiniteSets

CONSTANTS
  Requests,    (* the requested_ids drivers are created with               *)
  NumSeats,    (* seats on the airwaves                                    *)
  Tick         (* run slices from one RF tick to the next                  *)

Any == -1      (* requested_id: no seat in particular                      *)
Unassigned == -1
Seats == 0 .. NumSeats - 1

ASSUME WirelessAssumption ==
  /\ Requests \subseteq Seats \union {Any}
  /\ NumSeats \in Nat /\ Tick \in Nat \ {0}
  /\ IsFiniteSet(Drivers) /\ Cardinality(Drivers) <= NumSeats

VARIABLES
  requested,   (* glue.requested_id                                        *)
  playerId,    (* glue.player_id                                           *)
  asleep,      (* glue.asleep                                              *)
  clock        (* slices into the current tick, 0 for those not playing    *)

glue == <<requested, playerId, asleep>>
linkVars == <<coordinator, driver, core, port, players, fate>>
allVars == <<linkVars, glue, clock>>

WirelessInit ==
  /\ Init
  /\ requested = [d \in Drivers |-> Any]
  /\ playerId = [d \in Drivers |-> Unassigned]
  /\ asleep = [d \in Drivers |-> FALSE]
  /\ clock = [d \in Drivers |-> 0]

-----------------------------------------------------------------------------
(* The players that have caught up with the tick. *)
Parked == {d \in players : clock[d] = Tick}

(* The tick is over once all of ps have reached it; their cores are woken. *)
OwnPace(ps, at) ==                            \* slip: nobody is waited for
  [d \in Drivers |-> IF d \in ps /\ at[d] # Tick THEN at[d] ELSE 0]
Barrier(ps, at) ==
  LET over == \A d \in ps : at[d] = Tick
  IN  [d \in Drivers |-> IF d \in ps /\ ~over THEN at[d] ELSE 0]

(* c_sleep and c_wake, called on the players as they are parked and        *)
(* released: the flag of a player is "whether the RF-tick barrier has      *)
(* parked this core".  Whether one that leaves is told is left open.       *)
NeverWoken ==                                 \* slip: wake is not called
  asleep' = [d \in Drivers |-> asleep[d] \/ d \in Parked']
Callbacks ==
  \E told \in SUBSET (players \ players') :
    asleep' = [d \in Drivers |->
      IF d \in players' THEN d \in Parked' ELSE asleep[d] /\ d \notin told]

(* "It gets exactly that id if the seat is free, else the lowest free one."*)
LowestOf(free) == CHOOSE s \in free : \A t \in free : s <= t
SeatTaken(d, others) ==                       \* slip: a taken seat is given
  IF requested[d] \in Seats THEN requested[d]
  ELSE LowestOf(Seats \ {playerId[e] : e \in others})
LowestSeat(d, others) ==                      \* slip: the wish is not heard
  LowestOf(Seats \ {playerId[e] : e \in others})
SeatFor(d, others) ==
  LET free == Seats \ {playerId[e] : e \in others}
  IN  IF requested[d] \in free THEN requested[d] ELSE LowestOf(free)

(* The drivers in "left" leave the players, those in "joined" register: a  *)
(* newcomer is seated, starts the current tick, and is told its id.  A     *)
(* tick the others waited in only for one that left is over.               *)
Seating(left, joined) ==
  LET stay == players \ left
  IN  playerId' = [d \in Drivers |->
        IF d \in joined \ stay THEN SeatFor(d, stay) ELSE playerId[d]]

Attendance(left, joined) ==
  LET came == joined \ (players \ left)
  IN  /\ Seating(left, joined)
      /\ clock' = Barrier(players', [d \in Drivers |-> IF d \in came THEN 0 ELSE clock[d]])
      /\ Callbacks
      /\ UNCHANGED requested

InPort(c) == {port[c]} \ {NoDriver}

-----------------------------------------------------------------------------
(* wireless::Driver::new *)
CreateDriver(d, r) ==
  /\ NewDriver(d)
  /\ requested' = [requested EXCEPT ![d] = r]
  /\ UNCHANGED <<playerId, asleep, clock>>

(* wireless::Driver::install, uninstall: the adapter plugs in and out. *)
PlugIn(d, c) == Install(d, c) /\ Attendance(InPort(c), {d})

Unplug(d, c) == Uninstall(d, c) /\ Attendance({d}, {})

(* Core::reset: the player re-registers, and keeps its seat if it has one. *)
ResetCore(c) == Reset(c) /\ Attendance({}, {port[c]})

(* Core::run_loop on a core the frontend finds awake. *)
RunsAll(c) == TRUE                            \* slip: sleepers are run too
FoundAwake(c) == ~asleep[port[c]]

Slice(c) ==
  /\ Run(c)
  /\ port[c] \in players
  /\ FoundAwake(c)
  /\ clock' = Barrier(players, [clock EXCEPT ![port[c]] = @ + 1])
  /\ Callbacks
  /\ UNCHANGED <<requested, playerId>>

LoseCore(c) == DropCore(c) /\ Attendance(InPort(c), {})

FreeSomething ==
  /\ DropCoordinator \/ \E d \in Drivers : DropDriver(d)
  /\ UNCHANGED <<glue, clock>>

WirelessNext ==
  \/ \E d \in Drivers, r \in Requests : CreateDriver(d, r)
  \/ \E d \in Drivers, c \in Cores : PlugIn(d, c) \/ Unplug(d, c)
  \/ \E c \in Cores : ResetCore(c) \/ Slice(c) \/ LoseCore(c)
  \/ FreeSomething

(* A frontend repeatedly runs whichever cores are awake.  Nothing else is  *)
(* sure to happen.                                                         *)
WirelessSpec ==
  /\ WirelessInit /\ [][WirelessNext]_allVars
  /\ \A c \in Cores : WF_allVars(Slice(c))

-----------------------------------------------------------------------------
WirelessTypeOK ==
  /\ TypeOK
  /\ requested \in [Drivers -> Seats \union {Any}]
  /\ playerId \in [Drivers -> Seats \union {Unassigned}]
  /\ asleep \in [Drivers -> BOOLEAN]
  /\ clock \in [Drivers -> 0 .. Tick]

(* Somebody can always be run: never is every player asleep. *)
SomebodyAwake == players # {} => \E d \in players : ~asleep[d]

(* A core that is parked is woken or unplugged, whoever else leaves, moves *)
(* or is freed: the others "wake this one" if they are driven, or leave.   *)
(* Only drivers installed over and over, at the start of the tick each     *)
(* time, can keep it waiting.                                              *)
InstalledForEver == []<><<\E d \in Drivers, c \in Cores : PlugIn(d, c)>>_allVars

ParkedIsWoken ==
  \/ InstalledForEver
  \/ \A d \in Drivers :
       d \in players /\ asleep[d] ~> d \notin players \/ ~asleep[d]

(* Each slice brings the tick nearer: until it is over for everybody, no   *)
(* player falls back, whoever else comes, goes, moves or resets, unless it *)
(* is itself installed anew, and the one that ran is further than before.  *)
Reinstalled(d) == \E c \in Cores : port[c] = d /\ PlugIn(d, c)

TickAdvances ==
  [][\/ \A d \in Drivers : clock'[d] = 0
     \/ /\ \A d \in players \intersect players' : Reinstalled(d) \/ clock[d] <= clock'[d]
        /\ (\E c \in Cores : Slice(c)) => \E d \in players : clock[d] < clock'[d]]_allVars

(* An airwaves identity belongs to one adapter. *)
SeatsDistinct ==
  /\ \A d \in players : playerId[d] \in Seats
  /\ \A d, e \in players : playerId[d] = playerId[e] => d = e

(* A link rebuilt from captures: if every driver asks for a seat of its    *)
(* own, as those captured on one link do, every adapter has the identity   *)
(* its connections refer to, in whatever order they are installed, moved,  *)
(* reset and unplugged.  Adapters without one may take another's seat.     *)
Created == {d \in Drivers : driver[d] # "none"}
Captured ==
  /\ \A d \in Created : requested[d] # Any
  /\ \A d, e \in Created : requested[d] = requested[e] => d = e

IdentityKept == Captured => \A d \in players : playerId[d] = requested[d]
=============================================================================
