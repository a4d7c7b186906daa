----------------------------- MODULE LinkLifetime -----------------------------
(***************************************************************************)
(* Who outlives whom on a link (src/sio.rs, cable and wireless alike): one *)
(* Coordinator, its Drivers, and the cores they are the link ports of.     *)
(* The C side keeps raw pointers all around: a core to its driver, a       *)
(* driver to its coordinator, the coordinator to its players' drivers.     *)
(* The contract on the callers is documented and not enforced; Driver has  *)
(* no Drop of its own.                                                     *)
(***************************************************************************)
EXTENDS Naturals

CONSTANTS
  Drivers,
  Cores,
  NoDriver     (* an empty link port *)

ASSUME NoDriverAssumption == NoDriver \notin Drivers

VARIABLES
  coordinator, (* "live" or "dropped"                                      *)
  driver,      (* of each driver: "none" yet, "live" or "dropped"          *)
  core,        (* of each core: "live" or "dropped"                        *)
  port,        (* of each core: sio.driver                                 *)
  players,     (* the drivers registered with the coordinator              *)
  fate         (* "ok" or "use_after_free"                                 *)

vars == <<coordinator, driver, core, port, players, fate>>

Init ==
  /\ coordinator = "live"
  /\ driver = [d \in Drivers |-> "none"]
  /\ core = [c \in Cores |-> "live"]
  /\ port = [c \in Cores |-> NoDriver]
  /\ players = {}
  /\ fate = "ok"

InstalledOn(d) == {c \in Cores : core[c] = "live" /\ port[c] = d}

(* A callback into driver d follows d's pointers to its coordinator.       *)
Callable(d) == driver[d] = "live" /\ coordinator = "live"

After(safe) == IF safe THEN "ok" ELSE "use_after_free"

-----------------------------------------------------------------------------
(* Driver::new attaches to a coordinator its borrow keeps alive. *)
NewDriver(d) ==
  /\ fate = "ok"
  /\ coordinator = "live"
  /\ driver[d] = "none"
  /\ driver' = [driver EXCEPT ![d] = "live"]
  /\ UNCHANGED <<coordinator, core, port, players, fate>>

(* GBASIOSetDriver: the driver in the port, if any, is deinitialized and   *)
(* leaves the players, then the new one is in the port and registers.      *)
SetDriver(c, d) ==
  /\ port' = [port EXCEPT ![c] = d]
  /\ players' = (players \ {port[c]}) \union ({d} \ {NoDriver})
  /\ fate' = After(\A e \in {port[c], d} \ {NoDriver} : Callable(e))

(* Driver::install; the borrows keep driver and core alive. *)
Install(d, c) ==
  /\ fate = "ok"
  /\ driver[d] = "live" /\ core[c] = "live"
  /\ SetDriver(c, d)
  /\ UNCHANGED <<coordinator, driver, core>>

(* Driver::uninstall: only from a port that still holds this driver. *)
PlainStore(c) ==             \* slip: the field is nulled behind the C side
  port' = [port EXCEPT ![c] = NoDriver] /\ UNCHANGED <<players, fate>>
EmptiesPort(c) == SetDriver(c, NoDriver)

Uninstall(d, c) ==
  /\ fate = "ok"
  /\ driver[d] = "live" /\ core[c] = "live"
  /\ port[c] = d
  /\ EmptiesPort(c)
  /\ UNCHANGED <<coordinator, driver, core>>

(* Core::reset registers the port's driver again. *)
Reset(c) ==
  /\ fate = "ok"
  /\ core[c] = "live" /\ port[c] # NoDriver
  /\ players' = players \union {port[c]}
  /\ fate' = After(Callable(port[c]))
  /\ UNCHANGED <<coordinator, driver, core, port>>

(* Core::run_loop: the port's driver goes through the coordinator, which   *)
(* sleeps and wakes any of its players.                                    *)
Run(c) ==
  /\ fate = "ok"
  /\ core[c] = "live" /\ port[c] # NoDriver
  /\ fate' = After(Callable(port[c]) /\ \A d \in players : driver[d] = "live")
  /\ UNCHANGED <<coordinator, driver, core, port, players>>

(* OwnedCore's drop: core deinit calls back into the driver, which leaves  *)
(* the players.                                                            *)
DropCore(c) ==
  /\ fate = "ok"
  /\ core[c] = "live"
  /\ core' = [core EXCEPT ![c] = "dropped"]
  /\ SetDriver(c, NoDriver)
  /\ UNCHANGED <<coordinator, driver>>

(* "A Driver must outlive the core it is installed on, or be uninstalled   *)
(* first".  Dropping it frees its boxes and tells nobody.                  *)
DriverMayGo(d) == InstalledOn(d) = {}

DropDriver(d) ==
  /\ fate = "ok"
  /\ driver[d] = "live"
  /\ DriverMayGo(d)
  /\ driver' = [driver EXCEPT ![d] = "dropped"]
  /\ UNCHANGED <<coordinator, core, port, players, fate>>

(* "The Coordinator must outlive every Driver attached to it". *)
InstalledGone == \A d \in Drivers : driver[d] = "live" => d \notin players  \* slip
DriversGone == \A d \in Drivers : driver[d] # "live"

DropCoordinator ==
  /\ fate = "ok"
  /\ coordinator = "live"
  /\ DriversGone
  /\ coordinator' = "dropped"
  /\ UNCHANGED <<driver, core, port, players, fate>>

Next ==
  \/ \E d \in Drivers : NewDriver(d) \/ DropDriver(d)
  \/ \E d \in Drivers, c \in Cores : Install(d, c) \/ Uninstall(d, c)
  \/ \E c \in Cores : Reset(c) \/ Run(c) \/ DropCore(c)
  \/ DropCoordinator

Spec == Init /\ [][Next]_vars

-----------------------------------------------------------------------------
(* The shape of every variable. *)
TypeOK ==
  /\ coordinator \in {"live", "dropped"}
  /\ driver \in [Drivers -> {"none", "live", "dropped"}]
  /\ core \in [Cores -> {"live", "dropped"}]
  /\ port \in [Cores -> Drivers \union {NoDriver}]
  /\ players \subseteq Drivers
  /\ fate \in {"ok", "use_after_free"}

(* The documented contract is enough: no core's run, reset or teardown     *)
(* calls into a driver or a coordinator that is gone.                      *)
Survives == fate = "ok"

(* No player outlives the port it stands for, which is all that lets a     *)
(* driver be dropped without telling the coordinator: Driver has no Drop.  *)
PlayersInstalled == \A d \in players : InstalledOn(d) # {}

(* Where the pointers lead: what the two invariants above rest on. *)
PortsLive ==
  /\ \A c \in Cores : core[c] = "live" /\ port[c] # NoDriver => driver[port[c]] = "live"
  /\ \A c \in Cores : core[c] = "dropped" => port[c] = NoDriver

CoordinatorLive == \A d \in Drivers : driver[d] = "live" => coordinator = "live"

IInv == TypeOK /\ Survives /\ PlayersInstalled /\ PortsLive /\ CoordinatorLive
=============================================================================
