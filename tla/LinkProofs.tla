------------------------------ MODULE LinkProofs ------------------------------
(***************************************************************************)
(* LinkLifetime and WirelessLink, for any number of drivers, cores, seats  *)
(* and slices to a tick: the lifecycle contract of src/sio.rs is enough,   *)
(* and a wireless link keeps its seats and its sleepers.                   *)
(***************************************************************************)
EXTENDS WirelessLink, FiniteSetTheorems, WellFoundedInduction, TLAPS


LEMMA Initially == Init => IInv
BY NoDriverAssumption
   DEF Init, IInv, TypeOK, Survives, PlayersInstalled, PortsLive, CoordinatorLive

(* A port changing hands between a live driver and the one before it.      *)
LEMMA SetDriverKeeps ==
  ASSUME IInv, NEW c \in Cores, NEW d \in Drivers \union {NoDriver},
         core[c] = "live", d # NoDriver => driver[d] = "live",
         SetDriver(c, d),
         UNCHANGED <<coordinator, driver>>,
         \/ core' = core
         \/ core' = [core EXCEPT ![c] = "dropped"] /\ d = NoDriver
  PROVE  IInv'
<1> USE NoDriverAssumption
<1>1. TypeOK'
  BY DEF IInv, TypeOK, SetDriver, After
<1>2. \A k \in Cores : port'[k] = IF k = c THEN d ELSE port[k]
  BY DEF IInv, TypeOK, SetDriver
<1>3. \A k \in Cores \ {c} : core'[k] = core[k]
  BY DEF IInv, TypeOK
<1>4. \A e \in {port[c], d} \ {NoDriver} : Callable(e)
  <2>1. port[c] # NoDriver => driver[port[c]] = "live" /\ port[c] \in Drivers
    BY DEF IInv, PortsLive, TypeOK
  <2>2. \A e \in Drivers : driver[e] = "live" => Callable(e)
    BY DEF IInv, CoordinatorLive, Callable
  <2>3. QED
    BY <2>1, <2>2
<1>5. Survives'
  BY <1>4 DEF SetDriver, After, Survives
<1>6. PlayersInstalled'
  <2> SUFFICES ASSUME NEW e \in players' PROVE \E k \in Cores : core'[k] = "live" /\ port'[k] = e
    BY DEF PlayersInstalled, InstalledOn
  <2>1. e \in Drivers
    BY <1>1 DEF TypeOK
  <2>2. CASE e = d
    BY <1>2, <2>1, <2>2
  <2>3. CASE e # d
    <3>1. e \in players /\ e # port[c]
      BY <2>3 DEF SetDriver
    <3>2. PICK k \in Cores : core[k] = "live" /\ port[k] = e
      BY <3>1 DEF IInv, PlayersInstalled, InstalledOn
    <3>3. k # c
      BY <3>1, <3>2
    <3>4. QED
      BY <1>2, <1>3, <3>2, <3>3
  <2>4. QED
    BY <2>2, <2>3
<1>7. PortsLive'
  BY <1>2, <1>3 DEF IInv, PortsLive, TypeOK
<1>8. CoordinatorLive'
  BY DEF IInv, CoordinatorLive
<1>9. QED
  BY <1>1, <1>5, <1>6, <1>7, <1>8 DEF IInv

LEMMA IInvStep == IInv /\ [Next]_vars => IInv'
<1> SUFFICES ASSUME IInv, [Next]_vars PROVE IInv'
  OBVIOUS
<1> USE NoDriverAssumption
<1>1. ASSUME NEW d \in Drivers, NewDriver(d) PROVE IInv'
  <2>1. TypeOK' /\ CoordinatorLive'
    BY <1>1 DEF NewDriver, IInv, TypeOK, CoordinatorLive
  <2>2. PortsLive'
    BY <1>1 DEF NewDriver, IInv, TypeOK, PortsLive
  <2>3. PlayersInstalled' /\ Survives'
    BY <1>1 DEF NewDriver, IInv, PlayersInstalled, InstalledOn, Survives
  <2>4. QED
    BY <2>1, <2>2, <2>3 DEF IInv
<1>2. ASSUME NEW d \in Drivers, DropDriver(d) PROVE IInv'
  <2>1. \A c \in Cores : core[c] = "live" => port[c] # d
    BY <1>2 DEF DropDriver, DriverMayGo, InstalledOn
  <2>2. TypeOK' /\ CoordinatorLive'
    BY <1>2 DEF DropDriver, IInv, TypeOK, CoordinatorLive
  <2>3. PortsLive'
    BY <1>2, <2>1 DEF DropDriver, IInv, TypeOK, PortsLive
  <2>4. PlayersInstalled' /\ Survives'
    BY <1>2 DEF DropDriver, IInv, PlayersInstalled, InstalledOn, Survives
  <2>5. QED
    BY <2>2, <2>3, <2>4 DEF IInv
<1>3. ASSUME NEW d \in Drivers, NEW c \in Cores, Install(d, c) PROVE IInv'
  BY <1>3, SetDriverKeeps DEF Install
<1>4. ASSUME NEW d \in Drivers, NEW c \in Cores, Uninstall(d, c) PROVE IInv'
  BY <1>4, SetDriverKeeps DEF Uninstall, EmptiesPort
<1>5. ASSUME NEW c \in Cores, Reset(c) PROVE IInv'
  <2>1. port[c] \in Drivers /\ Callable(port[c]) /\ core[c] = "live"
    BY <1>5 DEF Reset, IInv, TypeOK, PortsLive, CoordinatorLive, Callable
  <2>2. TypeOK' /\ Survives'
    BY <1>5, <2>1 DEF Reset, IInv, TypeOK, Survives, After
  <2>3. PlayersInstalled'
    BY <1>5, <2>1 DEF Reset, IInv, PlayersInstalled, InstalledOn
  <2>4. QED
    BY <1>5, <2>2, <2>3 DEF Reset, IInv, PortsLive, CoordinatorLive
<1>6. ASSUME NEW c \in Cores, Run(c) PROVE IInv'
  <2>1. Callable(port[c])
    BY <1>6 DEF Run, IInv, TypeOK, PortsLive, CoordinatorLive, Callable
  <2>2. \A d \in players : driver[d] = "live"
    BY DEF IInv, PlayersInstalled, InstalledOn, PortsLive, TypeOK
  <2>3. QED
    BY <1>6, <2>1, <2>2
       DEF Run, IInv, TypeOK, Survives, After, PlayersInstalled, InstalledOn,
           PortsLive, CoordinatorLive
<1>7. ASSUME NEW c \in Cores, DropCore(c) PROVE IInv'
  BY <1>7, SetDriverKeeps DEF DropCore
<1>8. ASSUME DropCoordinator PROVE IInv'
  BY <1>8
     DEF DropCoordinator, DriversGone, IInv, TypeOK, Survives, PlayersInstalled,
         InstalledOn, PortsLive, CoordinatorLive
<1>9. ASSUME UNCHANGED vars PROVE IInv'
  BY <1>9
     DEF vars, IInv, TypeOK, Survives, PlayersInstalled, InstalledOn, PortsLive,
         CoordinatorLive
<1>10. QED
  BY <1>1, <1>2, <1>3, <1>4, <1>5, <1>6, <1>7, <1>8, <1>9 DEF Next

LEMMA LinkInductive == Spec => []IInv
BY Initially, IInvStep, PTL DEF Spec

(* Callers who keep the lifecycle contract never have a core call into a   *)
(* driver or a coordinator that is gone.                                   *)
THEOREM ContractSuffices == Spec => []Survives
<1>1. IInv => Survives
  BY DEF IInv
<1>2. QED
  BY <1>1, LinkInductive, PTL

(* ... although Driver's drop tells nobody: whoever is still a player is   *)
(* in the port of a live core.                                             *)
THEOREM LinkSafe == Spec => []PlayersInstalled
<1>1. IInv => PlayersInstalled
  BY DEF IInv
<1>2. QED
  BY <1>1, LinkInductive, PTL

-----------------------------------------------------------------------------
(* What a player's flag says.  Somebody is awake because of it. *)
PlayersFlagged == \A d \in players : asleep[d] <=> d \in Parked

(* The wireless link, whose steps are the link's: IInv holds throughout.   *)
WInv ==
  /\ IInv
  /\ WirelessTypeOK /\ PlayersFlagged /\ SomebodyAwake
  /\ SeatsDistinct /\ IdentityKept

-----------------------------------------------------------------------------
(* A set of seats with a seat in it has a lowest one. *)
LEMMA LowestIn ==
  ASSUME NEW free \in SUBSET Nat, free # {}
  PROVE  LowestOf(free) \in free
<1> DEFINE below == {p \in Nat \X Nat : p[1] < p[2]}
<1>1. IsWellFoundedOn(below, Nat)
  BY NatLessThanWellFounded DEF OpToRel
<1>2. PICK s \in free : \A t \in free : <<t, s>> \notin below
  <2> HIDE DEF below
  <2> QED
    BY <1>1, WFMin
<1>3. ASSUME NEW t \in free PROVE s <= t
  <2>1. t \in Nat /\ s \in Nat
    OBVIOUS
  <2>2. t < s => <<t, s>> \in below
    BY <2>1
  <2>3. QED
    BY <1>2, <2>1, <2>2
<1>4. QED
  BY <1>3 DEF LowestOf

(* A newcomer gets a seat nobody holds, and its own if nobody holds that.  *)
LEMMA SeatForFree ==
  ASSUME WirelessTypeOK, NEW others \in SUBSET Drivers, NEW d \in Drivers \ others,
         \A e \in others : playerId[e] \in Seats
  PROVE  /\ SeatFor(d, others) \in Seats
         /\ \A e \in others : playerId[e] # SeatFor(d, others)
         /\ requested[d] \in Seats /\ (\A e \in others : playerId[e] # requested[d])
              => SeatFor(d, others) = requested[d]
<1> DEFINE taken == {playerId[e] : e \in others}
           free == Seats \ taken
<1>1. free # {}
  <2> SUFFICES ASSUME free = {} PROVE FALSE
    OBVIOUS
  <2> DEFINE held == [e \in others |-> playerId[e]]
  <2>1. held \in Surjection(others, Seats)
    BY DEF Surjection
  <2>2. IsFiniteSet(others) /\ IsFiniteSet(Drivers)
    BY WirelessAssumption, FS_Subset
  <2>3. Cardinality(Seats) <= Cardinality(others)
    <3> HIDE DEF held
    <3> QED
      BY <2>1, <2>2, FS_Surjection
  <2>4. Cardinality(Seats) = NumSeats
    BY WirelessAssumption, FS_Interval, 0 \in Int, NumSeats - 1 \in Int DEF Seats
  <2>5. Cardinality(others) < Cardinality(Drivers)
    BY <2>2, FS_Subset, FS_CardinalityType, d \notin others
  <2>6. QED
    BY <2>2, <2>3, <2>4, <2>5, WirelessAssumption, FS_CardinalityType
<1>2. LowestOf(free) \in free
  BY <1>1, LowestIn, WirelessAssumption DEF Seats
<1>3. SeatFor(d, others) = IF requested[d] \in free THEN requested[d] ELSE LowestOf(free)
  BY DEF SeatFor
<1>4. QED
  BY <1>2, <1>3

(* However the clocks moved, once the barrier has settled them somebody is *)
(* short of the tick, and the flags of the players say who is not.         *)
LEMMA BarrierSettles ==
  ASSUME WirelessTypeOK,
         players' \subseteq Drivers,
         NEW at \in [Drivers -> 0 .. Tick],
         clock' = Barrier(players', at),
         Callbacks
  PROVE  /\ clock' \in [Drivers -> 0 .. Tick]
         /\ asleep' \in [Drivers -> BOOLEAN]
         /\ PlayersFlagged' /\ SomebodyAwake'
<1>1. clock' \in [Drivers -> 0 .. Tick]
  BY WirelessAssumption DEF Barrier
<1>2. asleep' \in [Drivers -> BOOLEAN] /\ PlayersFlagged'
  <2>1. PICK told \in SUBSET (players \ players') :
          asleep' = [d \in Drivers |->
            IF d \in players' THEN d \in Parked' ELSE asleep[d] /\ d \notin told]
    BY DEF Callbacks
  <2>2. \A d \in Drivers :
          (IF d \in players' THEN d \in Parked' ELSE asleep[d] /\ d \notin told) \in BOOLEAN
    <3> TAKE d \in Drivers
    <3>1. (d \in Parked') \in BOOLEAN /\ (asleep[d] /\ d \notin told) \in BOOLEAN
      OBVIOUS
    <3>2. QED
      BY <3>1, Zenon
  <2>3. asleep' \in [Drivers -> BOOLEAN]
    BY <2>1, <2>2, Zenon
  <2>4. \A d \in players' : asleep'[d] = (d \in Parked')
    BY <2>1, Zenon
  <2>5. PlayersFlagged'
    BY <2>4, Zenon DEF PlayersFlagged
  <2>6. QED
    BY <2>3, <2>5
<1>3. ASSUME players' # {} PROVE \E d \in players' : clock'[d] # Tick
  <2>1. CASE \A d \in players' : at[d] = Tick
    <3>1. \A d \in players' : clock'[d] = 0
      BY <2>1 DEF Barrier
    <3>2. QED
      BY <1>3, <3>1, WirelessAssumption
  <2>2. CASE \E d \in players' : at[d] # Tick
    BY <2>2 DEF Barrier
  <2>3. QED
    BY <2>1, <2>2
<1>4. SomebodyAwake'
  <2>1. \A d \in players' : clock'[d] # Tick => ~asleep'[d]
    BY <1>2 DEF PlayersFlagged, Parked
  <2>2. QED
    BY <1>3, <2>1 DEF SomebodyAwake
<1>5. QED
  BY <1>1, <1>2, <1>4

(* Players, once created, stay created. *)
LEMMA PlayersCreated == ASSUME IInv PROVE players \subseteq Created
<1>1. \A d \in players : \E c \in Cores : core[c] = "live" /\ port[c] = d /\ d \in Drivers
  BY DEF IInv, TypeOK, PlayersInstalled, InstalledOn
<1>2. \A d \in players : d \in Drivers /\ driver[d] = "live"
  BY <1>1, NoDriverAssumption DEF IInv, PortsLive
<1>3. QED
  BY <1>2 DEF Created

(* Whoever leaves or registers, the rest keep their seats and the tick     *)
(* goes on.                                                                *)
LEMMA AttendanceKeeps ==
  ASSUME WInv, IInv',
         NEW left, NEW joined \in SUBSET Created,
         \A d, e \in joined : d = e,
         players' = (players \ left) \union joined,
         Created' = Created,
         Attendance(left, joined)
  PROVE  WInv'
<1> DEFINE stay == players \ left
           at == [d \in Drivers |-> IF d \in joined \ stay THEN 0 ELSE clock[d]]
<1> USE DEF WInv
<1>1. /\ stay \in SUBSET Drivers /\ joined \in SUBSET Drivers
      /\ players' = stay \union joined
  BY DEF IInv, TypeOK, Created
<1>2. at \in [Drivers -> 0 .. Tick]
  BY WirelessAssumption DEF WirelessTypeOK
<1>3. clock' = Barrier(players', at) /\ Callbacks /\ requested' = requested
  BY DEF Attendance
<1>4. /\ clock' \in [Drivers -> 0 .. Tick] /\ asleep' \in [Drivers -> BOOLEAN]
      /\ PlayersFlagged' /\ SomebodyAwake'
  <2> HIDE DEF at
  <2> QED
    BY <1>1, <1>2, <1>3, BarrierSettles
<1>5. /\ \A e \in stay : playerId[e] \in Seats /\ playerId'[e] = playerId[e]
      /\ \A e, f \in stay : playerId[e] = playerId[f] => e = f
  BY <1>1 DEF SeatsDistinct, Attendance, Seating
<1>6. \A d \in joined \ stay :
        /\ playerId'[d] = SeatFor(d, stay)
        /\ SeatFor(d, stay) \in Seats
        /\ \A e \in stay : playerId[e] # SeatFor(d, stay)
        /\ requested[d] \in Seats /\ (\A e \in stay : playerId[e] # requested[d])
             => SeatFor(d, stay) = requested[d]
  <2> HIDE DEF stay
  <2> TAKE d \in joined \ stay
  <2>1. playerId'[d] = SeatFor(d, stay)
    BY <1>1 DEF Attendance, Seating, stay
  <2>2. QED
    BY <1>1, <1>5, <2>1, SeatForFree
<1>7. playerId' \in [Drivers -> Seats \union {Unassigned}]
  <2>1. \A d \in Drivers : playerId'[d] \in Seats \union {Unassigned}
    BY <1>6 DEF Attendance, Seating, WirelessTypeOK
  <2>2. \E g : playerId' = [d \in Drivers |-> g[d]]
    <3>1. playerId' = [d \in Drivers |-> playerId'[d]]
      BY DEF Attendance, Seating
    <3>2. QED
      BY <3>1
  <2>3. QED
    BY <2>1, <2>2
<1>8. SeatsDistinct'
  <2>1. \A d \in players' : playerId'[d] \in Seats
    BY <1>1, <1>5, <1>6
  <2>2. \A d, e \in players' : playerId'[d] = playerId'[e] => d = e
    <3> HIDE DEF stay
    <3> QED
      BY <1>1, <1>5, <1>6
  <2>3. QED
    BY <2>1, <2>2 DEF SeatsDistinct
<1>9. IdentityKept'
  <2> SUFFICES ASSUME Captured', NEW d \in players' PROVE playerId'[d] = requested[d]
    BY <1>3 DEF IdentityKept
  <2>1. Captured
    BY <1>3 DEF Captured
  <2>2. \A e \in stay : playerId[e] = requested[e] /\ e \in Created
    BY <2>1, PlayersCreated DEF IdentityKept
  <2>3. CASE d \in stay
    BY <1>5, <2>2, <2>3
  <2>4. CASE d \in joined \ stay
    <3>1. d \in Created /\ d \in Drivers
      BY <2>4 DEF Created
    <3>2. requested[d] \in Seats
      BY <2>1, <3>1 DEF Captured, WirelessTypeOK
    <3>3. \A e \in stay : playerId[e] # requested[d]
      BY <2>1, <2>2, <2>4, <3>1 DEF Captured
    <3>4. QED
      BY <1>6, <2>4, <3>2, <3>3
  <2>5. QED
    BY <1>1, <2>3, <2>4
<1>10. WirelessTypeOK'
  BY <1>3, <1>4, <1>7 DEF WirelessTypeOK, IInv
<1>11. QED
  BY <1>4, <1>8, <1>9, <1>10

(* A slice brings a player one step nearer to the tick it has not reached. *)
LEMMA SliceKeeps ==
  ASSUME WInv, IInv', NEW c \in Cores, Slice(c)
  PROVE  WInv'
<1> DEFINE d == port[c]
           at == [clock EXCEPT ![d] = @ + 1]
<1> USE DEF WInv
<1>1. /\ d \in Drivers /\ d \in players /\ ~asleep[d]
      /\ players' = players /\ Created' = Created
  BY DEF Slice, FoundAwake, Run, IInv, TypeOK, Created
<1>2. at \in [Drivers -> 0 .. Tick]
  <2>1. clock[d] \in 0 .. Tick /\ clock[d] # Tick
    BY <1>1 DEF WirelessTypeOK, PlayersFlagged, Parked
  <2>2. QED
    BY <1>1, <2>1, WirelessAssumption DEF WirelessTypeOK
<1>3. clock' = Barrier(players', at) /\ Callbacks
  BY <1>1 DEF Slice
<1>4. /\ clock' \in [Drivers -> 0 .. Tick] /\ asleep' \in [Drivers -> BOOLEAN]
      /\ PlayersFlagged' /\ SomebodyAwake'
  <2>1. players' \subseteq Drivers
    BY <1>1 DEF IInv, TypeOK
  <2> HIDE DEF at
  <2>2. QED
    BY <2>1, <1>2, <1>3, BarrierSettles
<1>5. requested' = requested /\ playerId' = playerId
  BY DEF Slice
<1>6. SeatsDistinct' /\ IdentityKept'
  BY <1>1, <1>5 DEF SeatsDistinct, IdentityKept, Captured
<1>7. WirelessTypeOK'
  BY <1>4, <1>5 DEF WirelessTypeOK, IInv
<1>8. QED
  BY <1>4, <1>6, <1>7

(* What leaves glue, clocks and players alone keeps what is said of them.  *)
LEMMA ApartKeeps ==
  ASSUME WInv, IInv', UNCHANGED <<players, glue, clock>>, Created' = Created
  PROVE  WInv'
BY DEF WInv, WirelessTypeOK, IInv, glue, PlayersFlagged, Parked, SomebodyAwake,
       SeatsDistinct, IdentityKept, Captured

LEMMA WInvInit == WirelessInit => WInv
<1> SUFFICES ASSUME WirelessInit PROVE WInv
  OBVIOUS
<1>1. IInv
  BY Initially DEF WirelessInit
<1>2. players = {} /\ \A d \in Drivers : clock[d] = 0 /\ ~asleep[d]
  BY DEF WirelessInit, Init
<1>3. WirelessTypeOK
  BY <1>1, WirelessAssumption DEF WirelessInit, WirelessTypeOK, IInv
<1>4. QED
  BY <1>1, <1>2, <1>3
     DEF WInv, PlayersFlagged, Parked, SomebodyAwake, SeatsDistinct, IdentityKept

(* Every step of the wireless link is a step of the link. *)
LEMMA StepIsLinkStep == [WirelessNext]_allVars => [Next]_vars
BY DEF WirelessNext, allVars, linkVars, vars, Next, CreateDriver, PlugIn, Unplug, ResetCore,
       Slice, LoseCore, FreeSomething

LEMMA WInvStep == WInv /\ [WirelessNext]_allVars => WInv'
<1> SUFFICES ASSUME WInv, [WirelessNext]_allVars PROVE WInv'
  OBVIOUS
<1>1. IInv'
  BY StepIsLinkStep, IInvStep DEF WInv
<1>2. ASSUME NEW d \in Drivers, NEW r \in Requests, CreateDriver(d, r) PROVE WInv'
  <2>1. /\ UNCHANGED <<players, playerId, asleep, clock>>
        /\ Created' = Created \union {d} /\ d \notin Created
        /\ \A e \in Drivers : requested'[e] = IF e = d THEN r ELSE requested[e]
        /\ requested' \in [Drivers -> Seats \union {Any}]
    BY <1>2, WirelessAssumption
       DEF CreateDriver, NewDriver, Created, WInv, IInv, TypeOK, WirelessTypeOK
  <2>2. WirelessTypeOK'
    BY <1>1, <2>1 DEF WInv, WirelessTypeOK, IInv
  <2>3. PlayersFlagged' /\ SomebodyAwake' /\ SeatsDistinct'
    BY <2>1 DEF WInv, PlayersFlagged, Parked, SomebodyAwake, SeatsDistinct
  <2>4. IdentityKept'
    <3> SUFFICES ASSUME Captured', NEW e \in players PROVE playerId[e] = requested'[e]
      BY <2>1 DEF IdentityKept
    <3>1. players \subseteq Created /\ Created \subseteq Drivers
      BY PlayersCreated DEF WInv, Created
    <3>2. \A f \in Created : requested'[f] = requested[f]
      BY <2>1, <3>1
    <3>3. Captured
      BY <2>1, <3>2 DEF Captured
    <3>4. QED
      BY <3>1, <3>2, <3>3 DEF WInv, IdentityKept
  <2>5. QED
    BY <1>1, <2>2, <2>3, <2>4 DEF WInv
<1>3. ASSUME NEW d \in Drivers, NEW c \in Cores, PlugIn(d, c) PROVE WInv'
  <2>1. /\ players' = (players \ InPort(c)) \union {d} /\ Created' = Created
        /\ {d} \in SUBSET Created /\ Attendance(InPort(c), {d})
    <3>1. d # NoDriver
      BY NoDriverAssumption
    <3>2. players' = (players \ {port[c]}) \union {d}
      BY <1>3, <3>1 DEF PlugIn, Install, SetDriver
    <3>3. NoDriver \notin players
      BY NoDriverAssumption DEF WInv, IInv, TypeOK
    <3>4. QED
      BY <1>3, <3>2, <3>3 DEF PlugIn, Install, InPort, Created
  <2>2. QED
    BY <1>1, <2>1, AttendanceKeeps
<1>4. ASSUME NEW d \in Drivers, NEW c \in Cores, Unplug(d, c) PROVE WInv'
  <2>1. players' = (players \ {d}) \union {} /\ Created' = Created /\ Attendance({d}, {})
    BY <1>4 DEF Unplug, Uninstall, EmptiesPort, SetDriver, Created
  <2>2. QED
    BY <1>1, <2>1, AttendanceKeeps
<1>5. ASSUME NEW c \in Cores, ResetCore(c) PROVE WInv'
  <2>1. /\ players' = (players \ {}) \union {port[c]} /\ Created' = Created
        /\ Attendance({}, {port[c]})
    BY <1>5 DEF ResetCore, Reset, Created
  <2>2. {port[c]} \in SUBSET Created
    BY <1>5 DEF ResetCore, Reset, WInv, IInv, TypeOK, PortsLive, Created
  <2>3. QED
    BY <1>1, <2>1, <2>2, AttendanceKeeps
<1>6. ASSUME NEW c \in Cores, Slice(c) PROVE WInv'
  BY <1>1, <1>6, SliceKeeps
<1>7. ASSUME NEW c \in Cores, LoseCore(c) PROVE WInv'
  <2>1. /\ players' = (players \ InPort(c)) \union {} /\ Created' = Created
        /\ Attendance(InPort(c), {})
    <3>1. NoDriver \notin players
      BY NoDriverAssumption DEF WInv, IInv, TypeOK
    <3>2. QED
      BY <1>7, <3>1 DEF LoseCore, DropCore, SetDriver, InPort, Created
  <2>2. QED
    BY <1>1, <2>1, AttendanceKeeps
<1>8. ASSUME FreeSomething PROVE WInv'
  <2>1. UNCHANGED <<players, glue, clock>> /\ Created' = Created
    BY <1>8 DEF FreeSomething, DropCoordinator, DropDriver, Created, WInv, IInv, TypeOK
  <2>2. QED
    BY <1>1, <2>1, ApartKeeps
<1>9. ASSUME UNCHANGED allVars PROVE WInv'
  BY <1>1, <1>9, ApartKeeps DEF allVars, linkVars, Created
<1>10. QED
  BY <1>2, <1>3, <1>4, <1>5, <1>6, <1>7, <1>8, <1>9 DEF WirelessNext

LEMMA WirelessInductive == WirelessSpec => []WInv
BY WInvInit, WInvStep, PTL DEF WirelessSpec

-----------------------------------------------------------------------------
(* Seats and sleepers take no part in who follows which pointer: a wireless*)
(* link is a link.                                                         *)
THEOREM WirelessIsLink == WirelessSpec => Spec
<1>1. WirelessInit => Init
  BY DEF WirelessInit
<1>2. QED
  BY <1>1, StepIsLinkStep, PTL DEF WirelessSpec, Spec

(* ... so that the contract keeps its callers, too, from what is gone.     *)
THEOREM WirelessContract == WirelessSpec => [](Survives /\ PlayersInstalled)
BY WirelessIsLink, ContractSuffices, LinkSafe, PTL

(* An id given by the coordinator is a seat or none, and no clock passes   *)
(* the tick.                                                               *)
THEOREM AdaptersWellTyped == WirelessSpec => []WirelessTypeOK
<1>1. WInv => WirelessTypeOK
  BY DEF WInv
<1>2. QED
  BY <1>1, WirelessInductive, PTL

(* On any wireless link a frontend that runs the awake cores always has    *)
(* one to run.                                                             *)
THEOREM WirelessSafe == WirelessSpec => []SomebodyAwake
<1>1. WInv => SomebodyAwake
  BY DEF WInv
<1>2. QED
  BY <1>1, WirelessInductive, PTL

(* No two adapters share a seat, whatever seats they ask for and in        *)
(* whatever order they come and go.                                        *)
THEOREM SeatsApart == WirelessSpec => []SeatsDistinct
<1>1. WInv => SeatsDistinct
  BY DEF WInv
<1>2. QED
  BY <1>1, WirelessInductive, PTL

(* Adapters that each ask for a seat of their own all have it.             *)
THEOREM RebuildKeepsIdentity == WirelessSpec => []IdentityKept
<1>1. WInv => IdentityKept
  BY DEF WInv
<1>2. QED
  BY <1>1, WirelessInductive, PTL

-----------------------------------------------------------------------------
(* A barrier that is not over leaves the players where they are.           *)
LEMMA BarrierHolds ==
  ASSUME NEW ps \in SUBSET Drivers, NEW at, clock' = Barrier(ps, at)
  PROVE  \/ \A d \in Drivers : clock'[d] = 0
         \/ \A d \in ps : clock'[d] = at[d]
BY DEF Barrier

LEMMA AttendanceAdvances ==
  ASSUME WInv, IInv', NEW left, NEW joined, Attendance(left, joined)
  PROVE  \/ \A d \in Drivers : clock'[d] = 0
         \/ \A d \in players \intersect players' :
              (d \in left /\ d \in joined) \/ clock[d] <= clock'[d]
<1> DEFINE at == [d \in Drivers |-> IF d \in joined \ (players \ left) THEN 0 ELSE clock[d]]
<1>1. players \in SUBSET Drivers /\ players' \in SUBSET Drivers
  BY DEF WInv, IInv, TypeOK
<1>2. clock' = Barrier(players', at)
  BY DEF Attendance
<1>3. \A d \in players : (d \in left /\ d \in joined) \/ at[d] = clock[d]
  BY <1>1
<1>4. \A d \in players : clock[d] <= clock[d]
  BY <1>1, WirelessAssumption DEF WInv, WirelessTypeOK
<1>5. QED
  <2> HIDE DEF at
  <2> QED
    BY <1>1, <1>2, <1>3, <1>4, BarrierHolds

LEMMA SliceAdvances ==
  ASSUME WInv, NEW c \in Cores, Slice(c)
  PROVE  \/ \A d \in Drivers : clock'[d] = 0
         \/ /\ \A d \in players \intersect players' : clock[d] <= clock'[d]
            /\ \E d \in players : clock[d] < clock'[d]
<1> DEFINE at == [clock EXCEPT ![port[c]] = @ + 1]
<1>1. players \in SUBSET Drivers /\ port[c] \in players
  BY DEF WInv, IInv, TypeOK, Slice
<1>2. clock' = Barrier(players, at)
  BY DEF Slice
<1>3. \A d \in players : clock[d] \in Nat /\ clock[d] <= at[d]
  BY <1>1, WirelessAssumption DEF WInv, WirelessTypeOK
<1>4. clock[port[c]] < at[port[c]]
  BY <1>1, <1>3 DEF WInv, WirelessTypeOK
<1>5. QED
  <2> HIDE DEF at
  <2> QED
    BY <1>1, <1>2, <1>3, <1>4, BarrierHolds

(* No step of a wireless link, whoever comes and goes with it, sets a      *)
(* player back from the tick the others wait for, and every slice brings   *)
(* one of them nearer: what is left of waking the parked is that somebody  *)
(* is run.                                                                 *)
THEOREM SlicesBringTick == WirelessSpec => TickAdvances
<1> DEFINE Over == \A d \in Drivers : clock'[d] = 0
           Holds == \A d \in players \intersect players' :
                      Reinstalled(d) \/ clock[d] <= clock'[d]
           Nearer == (\E c \in Cores : Slice(c)) => \E d \in players : clock[d] < clock'[d]
<1>1. WInv /\ WInv' /\ [WirelessNext]_allVars => [Over \/ (Holds /\ Nearer)]_allVars
  <2> SUFFICES ASSUME WInv, WInv', WirelessNext, ~Over PROVE Holds /\ Nearer
    OBVIOUS
  <2>1. Nearer
    BY SliceAdvances
  <2>2. ASSUME UNCHANGED clock PROVE Holds
    BY <2>2, WirelessAssumption DEF WInv, IInv, TypeOK, WirelessTypeOK
  <2>3. ASSUME NEW left, NEW joined, Attendance(left, joined),
               \A d \in left \intersect joined : Reinstalled(d)
        PROVE  Holds
    BY <2>3, AttendanceAdvances DEF WInv
  <2>4. ASSUME NEW d \in Drivers, NEW c \in Cores, PlugIn(d, c) PROVE Holds
    BY <2>3, <2>4 DEF PlugIn, InPort, Reinstalled
  <2>5. ASSUME NEW d \in Drivers, NEW c \in Cores, Unplug(d, c) PROVE Holds
    BY <2>3, <2>5 DEF Unplug
  <2>6. ASSUME NEW c \in Cores, ResetCore(c) \/ LoseCore(c) PROVE Holds
    BY <2>3, <2>6 DEF ResetCore, LoseCore
  <2>7. ASSUME NEW c \in Cores, Slice(c) PROVE Holds
    BY <2>7, SliceAdvances
  <2>8. Holds
    BY <2>2, <2>4, <2>5, <2>6, <2>7 DEF WirelessNext, CreateDriver, FreeSomething
  <2>9. QED
    BY <2>1, <2>8
<1>2. QED
  BY <1>1, WirelessInductive, PTL DEF WirelessSpec, TickAdvances
=============================================================================
