---------------------------- MODULE DefaultLogger ----------------------------
(***************************************************************************)
(* install_default_logger (src/log.rs): "safe to call from any thread",    *)
(* any number of times, while cores log.  The C core keeps the default     *)
(* logger as a bare pointer, read without a lock by every log line; until  *)
(* there is one it prints lines with a stub of its own.  What keeps the    *)
(* pointer valid is a OnceLock and a leak.  A Logger is known by its       *)
(* number in the order they are leaked.                                    *)
(***************************************************************************)
EXTENDS Naturals

CONSTANTS
  Threads,
  Stub,        (* no default logger: the C core's printf                   *)
  NoLine,
  Moved        (* a Logger's place on the stack, from before it was boxed  *)

ASSUME LoggerAssumption ==
  /\ Stub \notin Nat /\ Moved \notin Nat /\ NoLine \notin Nat
  /\ NoLine # Stub

VARIABLES
  cell,        (* INSTALLED: "empty", "busy" (initializing) or "set"       *)
  inCell,      (* the logger it is set to, 0 before                        *)
  leaked,      (* the loggers leaked so far                                *)
  default,     (* what mLogSetDefaultLogger was last given                 *)
  at,          (* of each thread: where in install_default_logger it is,   *)
               (* "out" if nowhere                                         *)
  returned,    (* has a call returned? (history)                           *)
  line,        (* the logger a line being logged goes to, or NoLine        *)
  strayed      (* has a line gone to memory that is no logger? (history)   *)

loggerVars == <<cell, inCell, leaked, default, at, returned, line, strayed>>

LoggerInit ==
  /\ cell = "empty" /\ inCell = 0 /\ leaked = 0
  /\ default = Stub
  /\ at = [t \in Threads |-> "out"]
  /\ returned = FALSE
  /\ line = NoLine /\ strayed = FALSE

-----------------------------------------------------------------------------
CallInstall(t) ==
  /\ at[t] = "out"
  /\ at' = [at EXCEPT ![t] = "once"]
  /\ UNCHANGED <<cell, inCell, leaked, default, returned, line, strayed>>

(* OnceLock::get_or_init: one thread initializes, the others wait for it.  *)
Unlocked == cell \in {"empty", "busy"}        \* slip: nobody waits
MayInitialize == cell = "empty"

Initialize(t) ==
  /\ at[t] = "once" /\ MayInitialize
  /\ cell' = "busy"
  /\ at' = [at EXCEPT ![t] = "new"]
  /\ UNCHANGED <<inCell, leaked, default, returned, line, strayed>>

FoundInstalled(t) ==
  /\ at[t] = "once" /\ cell = "set"
  /\ at' = [at EXCEPT ![t] = "register"]
  /\ UNCHANGED <<cell, inCell, leaked, default, returned, line, strayed>>

(* Logger::new, boxed and leaked; the cell is set. *)
StaysBusy == "busy"                           \* slip: the others are not let in
Settled == "set"

Leak(t) ==
  /\ at[t] = "new"
  /\ leaked' = leaked + 1
  /\ inCell' = leaked' /\ cell' = Settled
  /\ at' = [at EXCEPT ![t] = "register"]
  /\ UNCHANGED <<default, returned, line, strayed>>

(* mLogSetDefaultLogger with the pointer as_mlogger_ptr gives, and return. *)
BeforeTheBox == Moved                         \* slip: taken before it was boxed
MLoggerPtr == inCell

Register(t) ==
  /\ at[t] = "register"
  /\ default' = MLoggerPtr
  /\ at' = [at EXCEPT ![t] = "out"]
  /\ returned' = TRUE
  /\ UNCHANGED <<cell, inCell, leaked, line, strayed>>

(* A core logs: the C side picks the logger, then calls it (c_log).        *)
PickLogger ==
  /\ line = NoLine
  /\ line' = default
  /\ UNCHANGED <<cell, inCell, leaked, default, at, returned, strayed>>

IsLogger(p) == p \in 1 .. leaked

CallLogger ==
  /\ line # NoLine
  /\ strayed' = (strayed \/ ~(line = Stub \/ IsLogger(line)))
  /\ line' = NoLine
  /\ UNCHANGED <<cell, inCell, leaked, default, at, returned>>

InstallStep(t) == Initialize(t) \/ FoundInstalled(t) \/ Leak(t) \/ Register(t)

LoggerNext == PickLogger \/ CallLogger \/ \E t \in Threads : CallInstall(t) \/ InstallStep(t)

-----------------------------------------------------------------------------
LoggerTypeOK ==
  /\ leaked \in Nat
  /\ cell \in {"empty", "busy", "set"} /\ inCell \in 0 .. leaked
  /\ default \in {Stub} \union 1 .. leaked
  /\ at \in [Threads -> {"out", "once", "new", "register"}]
  /\ returned \in BOOLEAN /\ strayed \in BOOLEAN
  /\ line \in {NoLine, Stub} \union 1 .. leaked

(* Once any call has returned, on any thread, no line is printed by the    *)
(* stub again, and no line ever went to memory that is not a Logger.       *)
LinesRouted == (returned => IsLogger(default)) /\ ~strayed

(* "Subsequent calls just re-register the same one": whoever else races    *)
(* through the call, the logger a line is on its way to stays registered.  *)
LoggerForGood == [][default # Stub => default' = default]_loggerVars

(* What these rest on: one logger at most is ever leaked, by the one thread *)
(* for which the others wait, and it is what everybody registers.          *)
OneLogger ==
  /\ cell = "set" => inCell = 1 /\ leaked = 1
  /\ cell # "set" => inCell = 0 /\ leaked = 0
  /\ \A t \in Threads :
       /\ at[t] = "new" => cell = "busy"
       /\ at[t] = "register" => cell = "set"
  /\ \A t, u \in Threads : at[t] = "new" /\ at[u] = "new" => t = u
  /\ returned => IsLogger(default)

LoggerInv == LoggerTypeOK /\ LinesRouted /\ OneLogger

(* A call returns, also one that finds the cell busy. *)
InstallReturns == \A t \in Threads : at[t] # "out" ~> at[t] = "out"
=============================================================================
