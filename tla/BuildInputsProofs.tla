-------------------------- MODULE BuildInputsProofs --------------------------
(***************************************************************************)
(* For any number of edits, at any moment of any number of runs: a build   *)
(* that cargo would not repeat is of one version of the headers and of the *)
(* defines meant for all compilers, and of every tracked input as it is    *)
(* now.                                                                    *)
(***************************************************************************)
EXTENDS BuildInputs, TLAPS

LEMMA MissingIsNoVersion == Missing \notin Nat
BY BuildAssumption

(* The last of the lines of flags.make that gives defines. *)
LEMMA LastOfFlagsMake ==
  ASSUME NEW v \in Nat PROVE LastGiven(<<Missing, v>>) = v
<1> DEFINE lines == <<Missing, v>>
           given == {i \in DOMAIN lines : lines[i] # Missing}
<1>1. given = {2}
  BY MissingIsNoVersion
<1>2. (CHOOSE i \in given : \A j \in given : j <= i) = 2
  BY <1>1
<1>3. QED
  BY <1>1, <1>2 DEF LastGiven

(* The first configuration of a vcxproj that gives them. *)
LEMMA FirstOfVcxproj ==
  ASSUME NEW v \in Nat PROVE FirstGiven(<<Missing, v, v>>) = v
<1> DEFINE elements == <<Missing, v, v>>
           given == {i \in DOMAIN elements : elements[i] # Missing}
<1>1. given = {2, 3}
  BY MissingIsNoVersion
<1>2. (CHOOSE i \in given : \A j \in given : i <= j) = 2
  BY <1>1
<1>3. QED
  BY <1>1, <1>2 DEF FirstGiven

(* Either way the script's flags are the defines the core was built with. *)
LEMMA ExtractsDefines ==
  ASSUME IInv, Extract PROVE flags' = coreLib.defines
<1>1. coreLib.defines \in Nat
  BY DEF IInv, Extract, CoreMade, Past, SinceStart
<1>2. CASE generator = "make"
  BY <1>1, <1>2, LastOfFlagsMake DEF Extract, FlagsMake
<1>3. CASE generator # "make"
  <2>1. FlagsMake = <<>> /\ Vcxproj = <<Missing, coreLib.defines, coreLib.defines>>
    BY <1>3 DEF Extract, FlagsMake, Vcxproj
  <2>2. QED
    BY <1>1, <2>1, FirstOfVcxproj DEF Extract
<1>4. QED
  BY <1>2, <1>3

-----------------------------------------------------------------------------
LEMMA Initially == Init => IInv
BY DEF Init, IInv, SinceStart, Past, FromBindgen, CoreMade, DefinesRead, CcMade,
       BindingsMade, SeeksAppended

(* An edit makes nothing built since the start older than the start. *)
LEMMA EditKeeps == ASSUME IInv, NEW i \in Inputs, Edit(i) PROVE IInv'
<1>1. /\ version' \in [Inputs -> Nat]
      /\ \A j \in Inputs : version[j] \in Nat /\ version[j] <= version'[j]
  BY DEF Edit, IInv
<1>2. UNCHANGED <<target, step, began, flags, result, coreLib, ccLib, bindings, seeks>>
  BY DEF Edit, outputs
<1>3. ASSUME NEW v, NEW j \in Inputs, SinceStart(v, j) PROVE SinceStart(v, j)'
  <2>1. v \in Nat /\ began[j] \in Nat /\ began[j] <= v /\ v <= version[j]
    BY <1>3 DEF IInv, SinceStart
  <2>2. QED
    BY <1>1, <1>2, <2>1 DEF SinceStart
<1>4. {"headers", "cmake", "sio", "shim"} \subseteq Inputs
  BY DEF Inputs
<1>5. CoreMade'
  BY <1>2, <1>3, <1>4 DEF IInv, CoreMade, Past, FromBindgen, Forced, Wasi, Wasm
<1>6. CcMade'
  BY <1>2, <1>3, <1>4 DEF IInv, CcMade, Past, FromBindgen, Forced, Wasi, Sdk, Wasm
<1>7. BindingsMade'
  BY <1>2, <1>3, <1>4 DEF IInv, BindingsMade, Past, Forced, Sdk, Wasm
<1>8. QED
  BY <1>1, <1>2, <1>3, <1>5, <1>6, <1>7
     DEF IInv, DefinesRead, SeeksAppended, Past, FromBindgen, Wasm

LEMMA StepKeeps == ASSUME IInv, [Next]_vars PROVE IInv'
<1>1. ASSUME NEW i \in Inputs, Edit(i) PROVE IInv'
  BY <1>1, EditKeeps
<1>extracted. Extract => flags' = coreLib.defines
  BY ExtractsDefines
<1> USE DEF IInv, SinceStart, Past, FromBindgen, CoreMade, DefinesRead, CcMade,
            BindingsMade, SeeksAppended, Inputs, Forced, Wasi, Sdk, Wasm
<1>2. CASE Start
  BY <1>2 DEF Start
<1>3. CASE CmakeBuild
  <2>1. PICK sdk \in SdkTaken :
          coreLib' = [forced |-> Forced, wasi |-> Wasi, defines |-> version["cmake"],
                      headers |-> version["headers"], code |-> version["core"], sdk |-> sdk]
    BY <1>3 DEF CmakeBuild
  <2>2. QED
    BY <1>3, <2>1 DEF CmakeBuild
<1>4. CASE Extract
  <2>1. /\ step = "extract" /\ step' \in {"shim", "sio"} /\ (step' = "sio" => ~Wasm)
        /\ flags' = coreLib.defines /\ result # "ok"
        /\ UNCHANGED <<target, version, began, result, coreLib, ccLib, bindings, seeks>>
    BY <1>4, <1>extracted DEF Extract, outputs
  <2>2. QED
    BY <2>1
<1>5. CASE CompileSio
  BY <1>5 DEF CompileSio
<1>6. CASE CompileShim
  BY <1>6 DEF CompileShim
<1>7. CASE SystemLibs
  <2>1. /\ step = "os" /\ step' = "bindgen" /\ result # "ok"
        /\ UNCHANGED <<target, version, began, flags, result, coreLib, ccLib, bindings, seeks>>
    BY <1>7 DEF SystemLibs, outputs
  <2>2. QED
    BY <2>1
<1>8. CASE Bindgen
  BY <1>8 DEF Bindgen, Parsed, Truncated
<1>9. CASE AppendSeeks
  BY <1>9 DEF AppendSeeks
<1>10. CASE Finish
  <2>1. /\ step = "finish" /\ step' = "idle" /\ result' = "ok"
        /\ UNCHANGED <<target, version, began, flags, coreLib, ccLib, bindings, seeks>>
    BY <1>10 DEF Finish, outputs
  <2>2. QED
    BY <2>1
<1>11. CASE Fail
  BY <1>11 DEF Fail, outputs
<1>12. CASE UNCHANGED vars
  BY <1>12 DEF vars, outputs
<1>13. QED
  BY <1>1, <1>2, <1>3, <1>4, <1>5, <1>6, <1>7, <1>8, <1>9, <1>10, <1>11, <1>12
     DEF Next, Script

(* The constants are appended to bindings just written, whichever run      *)
(* failed before, and an extracted define is a version.                    *)
LEMMA TypeKeeps == ASSUME IInv, TypeOK, [Next]_vars PROVE TypeOK'
<1>1. ASSUME NEW i \in Inputs, Edit(i) PROVE TypeOK'
  <2>1. version' \in [Inputs -> Nat]
    BY <1>1 DEF Edit, TypeOK
  <2>2. QED
    BY <1>1, <2>1 DEF Edit, TypeOK, outputs
<1>2. CASE Start
  BY <1>2 DEF Start, TypeOK, outputs
<1>3. CASE CmakeBuild
  BY <1>3 DEF CmakeBuild, TypeOK
<1>4. CASE Extract
  <2>1. flags' = coreLib.defines /\ coreLib.defines \in Nat
    BY <1>4, ExtractsDefines DEF IInv, Extract, CoreMade, Past, SinceStart
  <2>2. step' \in {"shim", "sio"} /\ UNCHANGED <<target, generator, version, began, result, seeks>>
    BY <1>4 DEF Extract, outputs
  <2>3. QED
    BY <2>1, <2>2 DEF TypeOK
<1>5. CASE CompileSio \/ CompileShim \/ SystemLibs
  BY <1>5 DEF CompileSio, CompileShim, SystemLibs, TypeOK, outputs
<1>6. CASE Bindgen
  BY <1>6 DEF Bindgen, Truncated, TypeOK
<1>7. CASE AppendSeeks
  BY <1>7 DEF AppendSeeks, TypeOK, IInv, SeeksAppended
<1>8. CASE Finish \/ Fail
  BY <1>8 DEF Finish, Fail, TypeOK, outputs
<1>9. CASE UNCHANGED vars
  BY <1>9 DEF vars, TypeOK, outputs
<1>10. QED
  BY <1>1, <1>2, <1>3, <1>4, <1>5, <1>6, <1>7, <1>8, <1>9 DEF Next, Script

(* What IInv comes to in a build that cargo would not repeat. *)
LEMMA UpToDateIsWhole ==
  ASSUME IInv PROVE DefinesShared /\ EditsTakeEffect /\ BindingsWhole
<1> SUFFICES ASSUME IInv, UpToDate
             PROVE  DefinesShared /\ EditsTakeEffect /\ BindingsWhole
  BY DEF DefinesShared, EditsTakeEffect, BindingsWhole
<1>1. result = "ok" /\ \A j \in Tracked : version[j] = began[j]
  BY DEF UpToDate, Dirty
<1>2. /\ {"headers", "build.rs", "sio"} \subseteq Tracked
      /\ Wasm => {"shim", "sdk"} \subseteq Tracked
  BY DEF Tracked, SioTracked, WasmTracked
<1>3. /\ version["headers"] = began["headers"] /\ version["build.rs"] = Forced
      /\ version["sio"] = began["sio"]
      /\ Wasm => version["shim"] = began["shim"] /\ version["sdk"] = began["sdk"]
  BY <1>1, <1>2 DEF Forced
<1>4. {"headers", "build.rs", "sio", "shim", "sdk"} \subseteq Inputs
  BY DEF Inputs
<1>5. \A j \in Inputs : version[j] \in Nat /\ began[j] \in Nat
  BY DEF IInv, SinceStart
<1>6. \A v, j : SinceStart(v, j) /\ j \in Inputs /\ version[j] = began[j] => v = version[j]
  BY <1>5 DEF SinceStart
<1>7. coreLib.forced = Forced /\ coreLib.wasi = Wasi /\ coreLib.headers = version["headers"]
  BY <1>1, <1>3, <1>4, <1>6 DEF IInv, CoreMade, Past
<1>8. /\ ccLib.forced = Forced /\ ccLib.wasi = Wasi /\ ccLib.defines = coreLib.defines
      /\ ccLib.headers = version["headers"] /\ ccLib.sio = version["sio"]
      /\ Wasm => ccLib.shim = version["shim"] /\ ccLib.sdk = version["sdk"]
  BY <1>1, <1>3, <1>4, <1>6 DEF IInv, DefinesRead, CcMade, Past, Sdk
<1>9. /\ bindings.forced = Forced /\ bindings.defines = coreLib.defines
      /\ bindings.headers = version["headers"]
      /\ Wasm => bindings.sdk = version["sdk"]
  BY <1>1, <1>3, <1>4, <1>6 DEF IInv, DefinesRead, BindingsMade, Past, Sdk
<1>10. DefinesShared
  BY <1>7, <1>8, <1>9 DEF DefinesShared
<1>11. EditsTakeEffect
  BY <1>3, <1>7, <1>8, <1>9 DEF EditsTakeEffect
<1>12. BindingsWhole
  BY <1>1 DEF IInv, SeeksAppended, Past, BindingsWhole
<1>13. QED
  BY <1>10, <1>11, <1>12

LEMMA Inductive == Spec => [](IInv /\ TypeOK)
<1>1. Init => IInv /\ TypeOK
  BY Initially, BuildAssumption DEF Init, TypeOK
<1>2. IInv /\ TypeOK /\ [Next]_vars => (IInv /\ TypeOK)'
  BY StepKeeps, TypeKeeps
<1>3. QED
  BY <1>1, <1>2, PTL DEF Spec

-----------------------------------------------------------------------------
(* However often the sources are edited and the script fails, the script   *)
(* is at one of its steps and the bindings have the constants once at most.*)
THEOREM StepsWellTyped == Spec => []TypeOK
BY Inductive, PTL

(* However often the sources are edited and the script fails (main, with   *)
(* cargo's reruns): a build that cargo would not repeat has the core, the  *)
(* second archive and the bindings from one version of the headers, of the *)
(* forced defines and of cmake's, and both archives the wasm defines of    *)
(* one build.rs.  The bindings are not given the latter.                   *)
THEOREM BuildSound == Spec => []DefinesShared
<1>1. IInv => DefinesShared
  BY UpToDateIsWhole
<1>2. QED
  BY <1>1, Inductive, PTL

(* ... and every tracked input as it is now. *)
THEOREM NoEditLost == Spec => []EditsTakeEffect
<1>1. IInv => EditsTakeEffect
  BY UpToDateIsWhole
<1>2. QED
  BY <1>1, Inductive, PTL

(* ... and the SEEK constants once, on wasm, and not at all elsewhere. *)
THEOREM SeeksOnce == Spec => []BindingsWhole
<1>1. IInv => BindingsWhole
  BY UpToDateIsWhole
<1>2. QED
  BY <1>1, Inductive, PTL
=============================================================================
