---------------------------- MODULE ProcessProofs ----------------------------
(***************************************************************************)
(* For any number of threads: the logger's safety, and that a process      *)
(* leaves an OwnedCore what it is on its own, so that what OwnedCoreProofs *)
(* proves of it holds here.                                                *)
(***************************************************************************)
EXTENDS Process, OwnedCoreProofs

(* No thread has half initialized a logger before the first call. *)
LEMMA LoggerStarts == LoggerInit => LoggerInv
<1> SUFFICES ASSUME LoggerInit PROVE LoggerInv
  OBVIOUS
<1>1. LoggerTypeOK
  <2>1. leaked \in Nat /\ inCell \in 0 .. leaked
    BY SMT DEF LoggerInit
  <2>2. cell \in {"empty", "busy", "set"} /\ default \in {Stub} \union 1 .. leaked
    BY DEF LoggerInit
  <2>3. at \in [Threads -> {"out", "once", "new", "register"}]
    BY DEF LoggerInit
  <2>4. returned \in BOOLEAN /\ strayed \in BOOLEAN
    BY DEF LoggerInit
  <2>5. line \in {NoLine, Stub} \union 1 .. leaked
    BY DEF LoggerInit
  <2>6. QED
    BY <2>1, <2>2, <2>3, <2>4, <2>5 DEF LoggerTypeOK
<1>2. LinesRouted
  BY DEF LoggerInit, LinesRouted
<1>3. OneLogger
  BY SMT DEF LoggerInit, OneLogger
<1>4. QED
  BY <1>1, <1>2, <1>3 DEF LoggerInv

(* Each step of the call, and each line, keeps what everybody rests on. *)
LEMMA LoggerKeeps == LoggerInv /\ [LoggerNext]_loggerVars => LoggerInv'
<1> SUFFICES ASSUME LoggerInv, [LoggerNext]_loggerVars PROVE LoggerInv'
  OBVIOUS
<1> USE LoggerAssumption DEF LoggerInv, LoggerTypeOK, LinesRouted, OneLogger, IsLogger
<1>1. CASE PickLogger
  BY <1>1, SMT DEF PickLogger
<1>2. CASE CallLogger
  BY <1>2, SMT DEF CallLogger
<1>3. ASSUME NEW t \in Threads, CallInstall(t) PROVE LoggerInv'
  BY <1>3, SMT DEF CallInstall
<1>4. ASSUME NEW t \in Threads, Initialize(t) PROVE LoggerInv'
  BY <1>4, SMT DEF Initialize, MayInitialize
<1>5. ASSUME NEW t \in Threads, FoundInstalled(t) PROVE LoggerInv'
  BY <1>5, SMT DEF FoundInstalled
<1>6. ASSUME NEW t \in Threads, Leak(t) PROVE LoggerInv'
  BY <1>6, SMT DEF Leak, Settled
<1>7. ASSUME NEW t \in Threads, Register(t) PROVE LoggerInv'
  BY <1>7, SMT DEF Register, MLoggerPtr
<1>8. CASE UNCHANGED loggerVars
  BY <1>8, SMT DEF loggerVars
<1>9. QED
  BY <1>1, <1>2, <1>3, <1>4, <1>5, <1>6, <1>7, <1>8 DEF LoggerNext, InstallStep

(* No step of the call replaces the logger that lines go to. *)
LEMMA LoggerStays ==
  LoggerInv /\ [LoggerNext]_loggerVars => [default # Stub => default' = default]_loggerVars
<1> SUFFICES ASSUME LoggerInv, LoggerNext, default # Stub PROVE default' = default
  OBVIOUS
<1>1. ASSUME NEW t \in Threads, Register(t) PROVE default' = default
  BY <1>1, LoggerAssumption, SMT DEF Register, MLoggerPtr, LoggerInv, LoggerTypeOK,
    OneLogger, IsLogger
<1>2. QED
  BY <1>1 DEF LoggerNext, InstallStep, PickLogger, CallLogger, CallInstall,
    Initialize, FoundInstalled, Leak

(* A process's steps are a core's or a logger's. *)
LEMMA ProcessSteps ==
  [ProcessNext]_processVars => [LoggerNext]_loggerVars /\ [Next]_vars
<1>1. CoreStep => UNCHANGED loggerVars /\ Next
  BY DEF CoreStep
<1>2. CoreLogs => LoggerNext /\ UNCHANGED vars
  BY DEF CoreLogs, LoggerNext
<1>3. (\E t \in Threads : ThreadStep(t)) => LoggerNext /\ UNCHANGED vars
  BY DEF ThreadStep, LoggerNext
<1>4. UNCHANGED processVars => UNCHANGED loggerVars /\ UNCHANGED vars
  BY DEF processVars
<1>5. QED
  BY <1>1, <1>2, <1>3, <1>4 DEF ProcessNext

(* install_default_logger, on any number of threads, beside a core that    *)
(* logs: after the first return every line goes to a live logger.          *)
THEOREM LoggerSafe == ProcessSpec => [](LoggerTypeOK /\ LinesRouted)
<1>1. ProcessInit => LoggerInv
  BY LoggerStarts DEF ProcessInit
<1>2. LoggerInv /\ [ProcessNext]_processVars => LoggerInv'
  BY LoggerKeeps, ProcessSteps
<1>3. LoggerInv => LoggerTypeOK /\ LinesRouted
  BY DEF LoggerInv
<1>4. QED
  BY <1>1, <1>2, <1>3, PTL DEF ProcessSpec

(* ... and it is the same logger for good. *)
THEOREM LoggerStaysRegistered == ProcessSpec => LoggerForGood
<1>1. ProcessInit => LoggerInv
  BY LoggerStarts DEF ProcessInit
<1>2. LoggerInv /\ [ProcessNext]_processVars => LoggerInv'
  BY LoggerKeeps, ProcessSteps
<1>3. LoggerInv /\ [ProcessNext]_processVars
        => [default # Stub => default' = default]_loggerVars
  BY LoggerStays, ProcessSteps
<1>4. QED
  BY <1>1, <1>2, <1>3, PTL DEF ProcessSpec, LoggerForGood

(* Nobody waits in vain for the OnceLock: whenever it is busy, one thread, *)
(* and no other, is making the logger; that step, like registering, waits  *)
(* for nothing.                                                            *)
THEOREM InstallerAtWork ==
  ProcessSpec => [](/\ cell = "busy" <=> \E t \in Threads : at[t] = "new"
                    /\ \A t, u \in Threads : at[t] = "new" /\ at[u] = "new" => t = u)
<1> DEFINE Busy == cell = "busy" <=> \E t \in Threads : at[t] = "new"
<1>1. ProcessInit => LoggerInv /\ Busy
  <2>1. ProcessInit => LoggerInv
    BY LoggerStarts DEF ProcessInit
  <2>2. ProcessInit => cell = "empty" /\ \A t \in Threads : at[t] = "out"
    BY DEF ProcessInit, LoggerInit
  <2>3. QED
    BY <2>1, <2>2
<1>2. LoggerInv /\ Busy /\ [ProcessNext]_processVars => (LoggerInv /\ Busy)'
  <2> SUFFICES ASSUME LoggerInv, Busy, [LoggerNext]_loggerVars PROVE LoggerInv' /\ Busy'
    BY ProcessSteps
  <2>1. LoggerInv'
    BY LoggerKeeps
  <2>2. /\ at \in [Threads -> {"out", "once", "new", "register"}]
        /\ \A t \in Threads : at[t] = "new" => cell = "busy"
        /\ \A t, u \in Threads : at[t] = "new" /\ at[u] = "new" => t = u
    BY DEF LoggerInv, LoggerTypeOK, OneLogger
  <2>3. ASSUME NEW t \in Threads, Initialize(t) PROVE Busy'
    BY <2>2, <2>3 DEF Initialize
  <2>4. ASSUME NEW t \in Threads, Leak(t) PROVE Busy'
    <3>1. at[t] = "new" /\ cell' = "set" /\ at' = [at EXCEPT ![t] = "register"]
      BY <2>4 DEF Leak, Settled
    <3>2. \A u \in Threads : at'[u] # "new"
      BY <2>2, <3>1
    <3>3. QED
      BY <3>1, <3>2
  <2>5. ASSUME NEW t \in Threads, CallInstall(t) \/ FoundInstalled(t) \/ Register(t)
        PROVE  Busy'
    <3>1. /\ cell' = cell /\ at[t] # "new"
          /\ \E where \in {"once", "register", "out"} : at' = [at EXCEPT ![t] = where]
      BY <2>5 DEF CallInstall, FoundInstalled, Register
    <3>2. \A u \in Threads : at'[u] = "new" <=> at[u] = "new"
      BY <2>2, <3>1
    <3>3. QED
      BY <3>1, <3>2
  <2>6. CASE PickLogger \/ CallLogger \/ UNCHANGED loggerVars
    <3>1. cell' = cell /\ at' = at
      BY <2>6 DEF PickLogger, CallLogger, loggerVars
    <3>2. QED
      BY <2>1, <3>1
  <2>7. QED
    BY <2>1, <2>3, <2>4, <2>5, <2>6 DEF LoggerNext, InstallStep
<1>3. LoggerInv => \A t, u \in Threads : at[t] = "new" /\ at[u] = "new" => t = u
  BY DEF LoggerInv, OneLogger
<1>4. QED
  BY <1>1, <1>2, <1>3, PTL DEF ProcessSpec

-----------------------------------------------------------------------------
(* Logging and installing leave the core alone: a process is a core with   *)
(* something beside it.                                                    *)
THEOREM ProcessHasCore == ProcessSpec => Spec
BY ProcessSteps, PTL DEF ProcessSpec, ProcessInit, Spec

(* No pointer it retains dangles and nothing it does with one comes to     *)
(* grief, beside threads that log and install.                             *)
THEOREM ProcessCoreSafe ==
  ProcessSpec => [](NoDangling /\ Survives /\ BuffersAlive /\ ReleasedOnDrop)
BY ProcessHasCore, NothingDangles, CoreSafe, BuffersOutliveUse, DropReleases, PTL

(* ... and no call replaces its trapper. *)
THEOREM ProcessTrapperStays == ProcessSpec => TrapperForLife
BY ProcessHasCore, TrapperStays, PTL
=============================================================================
