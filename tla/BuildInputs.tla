------------------------------ MODULE BuildInputs ------------------------------
(***************************************************************************)
(* The build script (mgba-sys/build.rs) as what cargo repeats while the    *)
(* sources are edited: cmake builds the core archive, the defines it used  *)
(* are read back from its output, cc builds a second archive with them     *)
(* (the SIO drivers; on wasm with the shims), bindgen reads the headers    *)
(* with them too.  Headers, FORCED_DEFINES and cmake's defines must reach  *)
(* all three, or layouts disagree across the FFI "silently"; the five      *)
(* defines build.rs has for wasm reach the two C compiles only.            *)
(*                                                                         *)
(* Inputs and outputs have versions: an output records which version of    *)
(* each input it was made from.  cargo, cmake, cc and bindgen are outside  *)
(* this tree: cmake and cc rebuild what their inputs call for, bindgen     *)
(* names every header it read, cargo reruns a script that failed or whose  *)
(* tracked inputs were touched since it was started.                       *)
(***************************************************************************)
EXTENDS Naturals, Sequences, Functions

CONSTANTS
  Targets,     (* of "native", "unknown" (its OS) and "wasm"               *)
  Generators,  (* cmake's: of "make", "vs" and "ninja"                     *)
  MaxEdits,    (* bound on the edits                                       *)
  Missing      (* an output never made, a define not given                 *)

ASSUME BuildAssumption ==
  /\ Targets \subseteq {"native", "unknown", "wasm"}
  /\ Generators \subseteq {"make", "vs", "ninja"}
  /\ MaxEdits \in Nat /\ Missing \notin Nat

(* "headers" stands for wrapper.h and all it includes, "cmake" for the     *)
(* CMakeLists that give C_DEFINES, "core" for the C sources but the SIO    *)
(* drivers, "shim" for shim.c and wasi-stubs.c, "sdk" for WASI_SDK_PATH.   *)
Inputs == {"build.rs", "headers", "cmake", "core", "sio", "shim", "sdk"}

VARIABLES
  target, generator,
  version,     (* of each input: how often it has been edited              *)
  step,        (* "idle", or the step the running script comes to next     *)
  began,       (* the versions when the script was started                 *)
  flags,       (* the script's flags: the version of the C_DEFINES         *)
  result,      (* of the last run: "none" yet, "ok" or "failed"            *)
  coreLib, ccLib, bindings,     (* the outputs, by the input they are from *)
  seeks        (* copies of the SEEK constants in the bindings             *)

outputs == <<coreLib, ccLib, bindings, seeks>>
vars == <<target, generator, version, step, began, flags, result, outputs>>

Wasm == target = "wasm"

Init ==
  /\ target \in Targets /\ generator \in Generators
  /\ version = [i \in Inputs |-> 0]
  /\ step = "idle" /\ result = "none"
  /\ began = version
  /\ flags = Missing
  /\ coreLib = Missing /\ ccLib = Missing /\ bindings = Missing /\ seeks = 0

-----------------------------------------------------------------------------
(* Which edits make cargo run the script again. *)

SioTracked == {"sio"}
WasmTracked == IF Wasm THEN {"shim", "sdk"} ELSE {}

OnlySources == {"headers"} \union SioTracked \union WasmTracked  \* slip: not the script
Tracked == {"headers", "build.rs"} \union SioTracked \union WasmTracked

Dirty == result # "ok" \/ \E i \in Tracked : version[i] # began[i]

Edit(i) ==
  /\ SumFunction(version) < MaxEdits
  /\ version' = [version EXCEPT ![i] = @ + 1]
  /\ UNCHANGED <<target, generator, step, began, flags, result, outputs>>

(* cargo build: build.rs is compiled, with its FORCED_DEFINES, and run. *)
Start ==
  /\ step = "idle" /\ Dirty
  /\ step' = "cmake"
  /\ began' = version
  /\ result' = "none"
  /\ flags' = Missing
  /\ UNCHANGED <<target, generator, version, outputs>>

(* Both are text of build.rs: FORCED_DEFINES, and on wasm NDEBUG,          *)
(* _GNU_SOURCE, PATH_MAX, _WASI_EMULATED_SIGNAL and ENABLE_VFS_FILE.       *)
Forced == began["build.rs"]
Wasi == IF Wasm THEN began["build.rs"] ELSE Missing

(* wasi_sdk: the path of the environment the script was started in. *)
Sdk == IF Wasm THEN began["sdk"] ELSE Missing

-----------------------------------------------------------------------------
(* cfg.build().  Its defines go by cflag, so that C_DEFINES has none of    *)
(* them.  Which SDK an existing cmake build directory uses after the path  *)
(* has changed is cmake's to say: the new one, or that of the core before. *)
SdkTaken == {Sdk} \union (IF coreLib = Missing THEN {} ELSE {coreLib.sdk})

CmakeBuild ==
  /\ step = "cmake"
  /\ \E sdk \in SdkTaken :
       coreLib' = [forced |-> Forced, wasi |-> Wasi, defines |-> version["cmake"],
                   headers |-> version["headers"], code |-> version["core"], sdk |-> sdk]
  /\ step' = "extract"
  /\ UNCHANGED <<target, generator, version, began, flags, result, ccLib, bindings, seeks>>

(* The build directory: the lines of flags.make, or the elements of the    *)
(* vcxproj, one per configuration; Missing is one without defines.         *)
FlagsMake == IF generator = "make" THEN <<Missing, coreLib.defines>> ELSE <<>>
Vcxproj == IF generator = "vs" THEN <<Missing, coreLib.defines, coreLib.defines>> ELSE <<>>

(* The last such line; the first element that is not empty. *)
LastGiven(lines) ==
  LET given == {i \in DOMAIN lines : lines[i] # Missing}
  IN  IF given = {} THEN Missing ELSE lines[CHOOSE i \in given : \A j \in given : j <= i]
FirstGiven(elements) ==
  LET given == {i \in DOMAIN elements : elements[i] # Missing}
  IN  IF given = {} THEN Missing ELSE elements[CHOOSE i \in given : \A j \in given : i <= j]

(* extract_c_defines reads what cmake wrote, not what it would write now;  *)
(* a generator that writes neither file is where the script panics.        *)
Extract ==
  /\ step = "extract"
  /\ FlagsMake # <<>> \/ Vcxproj # <<>>
  /\ flags' = IF FlagsMake # <<>> THEN LastGiven(FlagsMake) ELSE FirstGiven(Vcxproj)
  /\ step' = IF Wasm THEN "shim" ELSE "sio"
  /\ UNCHANGED <<target, generator, version, began, result, outputs>>

(* cc::Build: the SIO drivers, natively in an archive of their own. *)
CompileSio ==
  /\ step = "sio"
  /\ ccLib' = [forced |-> Forced, wasi |-> Missing, defines |-> flags,
               headers |-> version["headers"], sio |-> version["sio"]]
  /\ step' = "os"
  /\ UNCHANGED <<target, generator, version, began, flags, result, coreLib, bindings, seeks>>

(* ... on wasm in one archive with the shims. *)
CompileShim ==
  /\ step = "shim"
  /\ ccLib' = [forced |-> Forced, wasi |-> Wasi, defines |-> flags,
               headers |-> version["headers"], sio |-> version["sio"],
               shim |-> version["shim"], sdk |-> Sdk]
  /\ step' = "bindgen"
  /\ UNCHANGED <<target, generator, version, began, flags, result, coreLib, bindings, seeks>>

(* The system's libraries; panics on an OS it does not know. *)
SystemLibs ==
  /\ step = "os" /\ target = "native"
  /\ step' = "bindgen"
  /\ UNCHANGED <<target, generator, version, began, flags, result, outputs>>

(* bindgen, and write_to_file, which truncates.  Its clang arguments for   *)
(* wasm are the target and the sysroot: it is given no wasi defines (but   *)
(* everywhere one of its own, __STDC_NO_THREADS__).                        *)
HalfSeen == [forced |-> Missing, wasi |-> Missing, defines |-> flags,
             headers |-> version["headers"], sdk |-> Sdk]   \* slip: C alone has them
Parsed == [forced |-> Forced, wasi |-> Missing, defines |-> flags,
           headers |-> version["headers"], sdk |-> Sdk]

KeepsTail == seeks                            \* slip: the file is not truncated
Truncated == 0

Bindgen ==
  /\ step = "bindgen"
  /\ bindings' = Parsed
  /\ seeks' = Truncated
  /\ step' = IF Wasm THEN "append" ELSE "finish"
  /\ UNCHANGED <<target, generator, version, began, flags, result, coreLib, ccLib>>

(* The SEEK constants bindgen drops on wasm. *)
AppendSeeks ==
  /\ step = "append"
  /\ seeks' = seeks + 1
  /\ step' = "finish"
  /\ UNCHANGED <<target, generator, version, began, flags, result, coreLib, ccLib, bindings>>

Finish ==
  /\ step = "finish"
  /\ step' = "idle" /\ result' = "ok"
  /\ UNCHANGED <<target, generator, version, began, flags, outputs>>

(* Any step may panic (no SDK, a compile error, no defines extracted,  *)
(* an unknown OS) or be interrupted.  What was made stays.                 *)
Fail ==
  /\ step # "idle"
  /\ step' = "idle" /\ result' = "failed"
  /\ UNCHANGED <<target, generator, version, began, flags, outputs>>

Script ==
  \/ CmakeBuild \/ Extract \/ CompileSio \/ CompileShim \/ SystemLibs
  \/ Bindgen \/ AppendSeeks \/ Finish

Next ==
  \/ \E i \in Inputs : Edit(i)
  \/ Start \/ Script \/ Fail

Spec == Init /\ [][Next]_vars

-----------------------------------------------------------------------------
(* The bindings have the SEEK constants once at most, also when one run    *)
(* after the other fails behind the appending.                             *)
TypeOK ==
  /\ target \in Targets /\ generator \in Generators
  /\ version \in [Inputs -> Nat] /\ began \in [Inputs -> Nat]
  /\ step \in {"idle", "cmake", "extract", "sio", "shim", "os", "bindgen", "append", "finish"}
  /\ flags \in Nat \union {Missing}
  /\ result \in {"none", "ok", "failed"}
  /\ seeks \in 0 .. 1

(* What cargo links, unless somebody edited while it was built: a build it *)
(* would not repeat.                                                       *)
UpToDate == step = "idle" /\ ~Dirty

(* "These must reach BOTH the C compile and the bindgen pass": the core,   *)
(* the second archive and the bindings have the same headers, forced       *)
(* defines and cmake's; on wasm bindings and second archive have one SDK,  *)
(* and the two archives "the SAME defines", those for wasm included.  Also *)
(* after failed runs, edits while a run was on, and edits of the C sources *)
(* and CMakeLists, which are not tracked.  It says nothing of the wasm     *)
(* defines of the bindings (see SeenAlike) and of the SDK of the core.     *)
DefinesShared ==
  UpToDate =>
    /\ \A f \in {"forced", "defines", "headers"} :
         coreLib[f] = ccLib[f] /\ ccLib[f] = bindings[f]
    /\ coreLib.wasi = ccLib.wasi
    /\ Wasm => ccLib.sdk = bindings.sdk

(* "Parse the headers exactly as the wasi compile saw them": on wasm the   *)
(* bindings are of the headers with the defines of the C compile.          *)
SeenAlike ==
  UpToDate /\ Wasm =>
    \A f \in {"forced", "wasi", "defines", "headers", "sdk"} : bindings[f] = ccLib[f]

(* No tracked edit is passed over: FORCED_DEFINES ("track build.rs itself, *)
(* or edits won't take effect"), headers, SIO drivers, shims, SDK path     *)
(* (save by cmake, in a directory it configured for another SDK).          *)
EditsTakeEffect ==
  UpToDate =>
    /\ coreLib.forced = version["build.rs"]
    /\ coreLib.headers = version["headers"]
    /\ bindings.headers = version["headers"]
    /\ ccLib.sio = version["sio"]
    /\ Wasm => ccLib.shim = version["shim"] /\ ccLib.sdk = version["sdk"]

(* The SEEK constants are there, and once: a run that failed before or     *)
(* after it appended them leaves the next one no bindings it adds to.      *)
BindingsWhole == UpToDate => seeks = IF Wasm THEN 1 ELSE 0

(* What these rest on, step by step of a run and on to the end of one that *)
(* succeeds: the script's own inputs are those of its start, what the      *)
(* compilers read is no older than that, and the defines are cmake's.      *)
Past(steps) == result = "ok" \/ step \in steps
FromBindgen == {"bindgen", "append", "finish"}

SinceStart(v, i) == v \in Nat /\ began[i] <= v /\ v <= version[i]

CoreMade ==
  Past({"extract", "sio", "shim", "os"} \union FromBindgen) =>
    /\ coreLib.forced = Forced /\ coreLib.wasi = Wasi
    /\ SinceStart(coreLib.headers, "headers") /\ SinceStart(coreLib.defines, "cmake")
DefinesRead ==
  Past({"sio", "shim", "os"} \union FromBindgen) => flags = coreLib.defines
CcMade ==
  Past({"os"} \union FromBindgen) =>
    /\ ccLib.forced = Forced /\ ccLib.wasi = Wasi /\ ccLib.defines = flags
    /\ SinceStart(ccLib.headers, "headers") /\ SinceStart(ccLib.sio, "sio")
    /\ Wasm => SinceStart(ccLib.shim, "shim") /\ ccLib.sdk = Sdk
BindingsMade ==
  Past({"append", "finish"}) =>
    /\ bindings.forced = Forced /\ bindings.defines = flags
    /\ SinceStart(bindings.headers, "headers") /\ bindings.sdk = Sdk
SeeksAppended ==
  /\ step = "append" => Wasm /\ seeks = 0
  /\ Past({"finish"}) => seeks = IF Wasm THEN 1 ELSE 0

IInv ==
  /\ version \in [Inputs -> Nat] /\ \A i \in Inputs : SinceStart(began[i], i)
  /\ step # "idle" => result # "ok"
  /\ step \in {"sio", "os"} => ~Wasm
  /\ CoreMade /\ DefinesRead /\ CcMade /\ BindingsMade /\ SeeksAppended
=============================================================================
