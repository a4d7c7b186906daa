------------------------------- MODULE Process -------------------------------
(***************************************************************************)
(* A process: an OwnedCore, and threads that install the default logger    *)
(* at any moment of its life.  A core logs from inside a call into it, so  *)
(* nothing is done with it until the line is out.                          *)
(***************************************************************************)
EXTENDS OwnedCore, DefaultLogger

processVars == <<vars, loggerVars>>

ProcessInit == Init /\ LoggerInit

CoreStep == Next /\ line = NoLine /\ UNCHANGED loggerVars

CoreLogs == Usable /\ (PickLogger \/ CallLogger) /\ UNCHANGED vars

ThreadStep(t) == (CallInstall(t) \/ InstallStep(t)) /\ UNCHANGED vars

ProcessNext == CoreStep \/ CoreLogs \/ \E t \in Threads : ThreadStep(t)

(* The operating system runs a thread that is inside the call. *)
ProcessSpec ==
  /\ ProcessInit /\ [][ProcessNext]_processVars
  /\ \A t \in Threads : WF_processVars(InstallStep(t) /\ UNCHANGED vars)
=============================================================================
