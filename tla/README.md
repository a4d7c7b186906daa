# A verification project for mgba-rs

mgba-rs is a Rust binding of the mGBA emulator core. The core itself is C code
that lives in a submodule and is not part of this tree. What this repository
adds is almost entirely about *who may hold which pointer for how long*, and
about doing by hand, in Rust, things the C core does inside: patching
breakpoints over guest code, refilling the CPU's prefetch, answering a virtual
file table, driving several linked cores from one thread. There are no tests in
the repository. The hazards are sequences of legal calls, C code that follows a
pointer long after the call that stored it, panics half way through a change,
and callbacks that re-enter the object that made the call.

Paths such as `src/core.rs` are relative to the root of the repository.

## Inventory

| Part | State it keeps | Operations | Interacts with |
|---|---|---|---|
| `OwnedCore` (`src/core.rs`) | the C core, `video_buffer`, `trapper`, `rtc` | `new_gba`, `set_rtc_fixed`, `enable_video_buffer`, `set_traps`, moves, `Drop` | the C core retains a raw pointer to each of the three; `deinit` follows the trapper's |
| `Core` (`src/core.rs`) | none: a view of the C core | loads, saves, `reset`, `run_frame`, `run_loop`, `step`, memory, keys | everything |
| Trapper (`src/trapper.rs`) | the table `Impl.traps`, `real_bkpt16`; BKPTs in guest memory; a CPU component slot and a CPU hook | `Trapper::new`, `c_trapper_bkpt16` | called by the CPU, calls `ARMRunFake` and the host's handlers, which have the whole core |
| `ArmCore` (`src/arm_core.rs`) | none: a view of the CPU | `set_thumb_pc` (refills the pipeline), `set_gpr`, readers | handlers redirect the guest with it |
| `VFile` (`src/vfile.rs`) | a `File` or `Cursor<Vec<u8>>` with its cursor; buffers given out by `vfile_map` | the C table: close, seek, read, write, map, unmap, truncate, size, sync | owned by the C core from `load_rom`/`load_save` on |
| SIO cable and wireless (`src/sio.rs`) | `Coordinator`, `Driver`, the glue (`asleep`, `player_id`, `requested_id`) | `new`, `install`, `uninstall`, drops, snapshots | core → driver → coordinator → players' drivers, all raw pointers, a contract in comments |
| Audio (`src/audio.rs`) | rings, and a resampler with two stored pointers | `set_source`, `set_destination`, `process`, drops | a ring may be inside a core |
| `State` (`src/state.rs`) | a 400 KB serialized machine, initialized or not | `save_state_into`, `save_state_reusing`, `into_uninit`, `from_slice` | `Core` |
| Logger (`src/log.rs`) | a process-wide logger behind a `OnceLock` | `install_default_logger`, `c_log` | every core, any thread |
| `Gba`, `Sync`, `Timing`, `input` | none | field accessors | |
| Build (`mgba-sys/build.rs`) | the outputs of cmake, cc and bindgen | one script | the layouts both sides must agree on |
| WASI shims (`mgba-sys/shim.c`, `wasi-stubs.c`, `tools/`) | none | constant answers | the wasm link |

What makes each part correct:

* **OwnedCore**: no pointer the C core retains outlives what it points to, over
  moves and replacements; the trapper lives as long as the core, through
  `deinit`; one trapper at most is ever installed; a drop releases everything.
* **Trapper and ArmCore**: a guest with traps is a guest without traps whose
  handlers are called at the hooked instructions; it departs from that only at
  breakpoints that are not the instruction's own patch; the pipeline always holds
  the code at the program counter; a cartridge loaded later leaves a table without
  patches, and it must lie still.
* **VFile**: to the C side the copy in and write back are a memory-mapped file;
  what is durable when; the cursor is where the C side left it.
* **SIO**: the documented contract on drops suffices; takeovers and uninstalls
  leave no player without a port; a frontend that runs the awake cores always has
  one to run and wakes every parked one; wireless seats are distinct and
  survive a rebuild; a restore takes cores, drivers and the shared coordinator
  state to one moment, and one that fails half way takes the link nowhere.
* **State**: no box that a failed save left half written is taken for a state.
* **Logger**: calls race and return; from the first return on every line goes to
  one logger, which is never freed.
* **Build**: a build cargo would not repeat has one version of headers and
  defines in all its archives and bindings, and every tracked edit.
* **Audio**: `process` only follows pointers to live rings.

`PROJECT.json` lists every hazard with its line and the properties that cover
it, or why none does yet.

## The modules

`OwnedCore`. One `OwnedCore` and the host allocations the C core points into.
A pointer is a number: allocations count up from 1, negative numbers are the
inline storage of the `OwnedCore` value after each move. `own` is the Option
fields, `held` what the C core retains, `heap` what is not freed. Each method is
an action; `SetTraps` and `SetTrapsPanics` are the two ways out of
`Trapper::new`, the second leaving the splice, the hook and the patches made
before the repeated address, with the box freed by unwinding. `DrawScanline`,
`ReadRtc`, `HitTrap` and `HitGameBreakpoint` are the moments C code follows a
retained pointer. `panicked` is a history variable.

`DefaultLogger`, `Process`. `DefaultLogger` is the `OnceLock` (`cell`, `inCell`), the
loggers leaked so far, the pointer the C side holds (`default`) and, per thread,
how far it is in `install_default_logger`. A line is two steps, `PickLogger` and
`CallLogger`, since the C side reads the pointer and then calls through it.
Storing and reading that pointer are single steps: C code does both without a
lock, on a pointer-sized word. `Process` puts the threads next to an `OwnedCore`.
A core logs from inside a call into it, so no step of `OwnedCore` falls between
the two halves of a line, and any step of another thread's install may.

`GuestCode`, `HookedGuest`, `TrapDispatch`. `GuestCode` is the guest's program:
instructions reduced to *plain*, *branch* (may be taken), *jump*, *copy* (writes a
cell of RAM from the ROM), a breakpoint of the game's own and `Trap`, a BKPT with
the trapper's immediate, which the game may have too; addresses in Thumb
instructions; `Cell` from an address to the memory it reads, so that code may be
mirrored; lists of hooks, in which no address occurs twice but several addresses
of one cell may. `HookedGuest` is the promise of `set_traps`: no breakpoints, no
pipeline; a handler is called whenever the instruction at a hooked address
executes; hooks are gone with the cartridge they were made on. What it admits
beside that, it names. Of the addresses of one cell one alone is hooked
(`OfEachCell`). Where what stands at the guest's address is not the program's
(`Displaced`: another address of a hooked cell, or the game's own `Trap` once traps
are set; `Copied`: a RAM cell copied from hooked code) the process may end
(`Perish`), and at such an address given to `set_traps` the handler may be called
for an instruction that never runs (`Stall`). `TrapDispatch` is how the
code keeps it: `mem` with BKPTs, `table`, `r15` and the two prefetched opcodes,
the hook's lookup by `r15`, `set_thumb_pc`'s refill. `TableOf` is the loop of
`Trapper::new` over the list, one patch after another: the second address of a
cell gets the first one's BKPT for its original. `StepAgain` and `StepUnknown` are
the two ways the hook ends the process, a BKPT that `ARMRunFake` runs within the
hook it calls, and the lookup's `unwrap`. Handlers are a stack
`calls`; anything the guest or the host does may happen inside one, since a
handler has the core. `LoadRom` brings back an unpatched ROM under a table and a
hook that stay, leaves RAM as it is and the pipeline to the next reset; `Hooked`
are the addresses whose original is an instruction (`Kept`) and whose BKPT is still
there, and they, not the table, are what `HookedGuest` calls hooked.
`ImplementsGuest` is the refinement. `CodeInv` is what holds of any installation,
late ones included: the opcodes prefetched are those of the code at `r15`, with or
without its traps.

`ARMRunFake` is C code; whether it runs the displaced instruction at once, as the
comment of `set_traps` has it, or puts it back at the head of the pipeline (so that
it runs after the handler) cannot be read off this tree, so the constant `Timings`
says which of the two may happen (`HandlerFirst`, `HandlerAfter`). One run and the
theorems allow both.

The comment of `set_traps` promises to run the displaced instruction of every
address in the list. The loop of `Trapper::new` refuses an address that occurs twice
but not two addresses of one cell, and the second of those has no instruction of its
own. `HookedGuest` admits that, as it admits the ways to the end of the process;
`TableMatchesMemory` proves that the first address of every cell keeps its
instruction, and `TrapsImplementGuest` that the rest of the guest is as promised.

`MappedFile`, `VFile` (`ByteSeqs` has their byte strings). `VFile` has one action
per entry of the table and one per way it fails. Files may read and write
short, fail reads (in `vfile_map` too, half way through), writes and syncs, be
read-only; vectors may not, but their cursor takes any `u64` where a file's is an
`off_t`, so a negative `SEEK_SET` moves it to where `AsOff`, the cast back, returns
the negative number. A read-only file (`VFile::from_file` takes any `File`) can be
mapped, and aborts the process when unmapped, since `vfile_unmap` asserts a write even
when nothing was stored: `MappedFile` admits that an unmapping may abort. A call that fails in the back end is taken to leave bytes and
cursor alone there. What `map`, `unmap` and `size` do with the cursor is the move and
the seek back (`SeekBack`). `MappedFile` is the file the C side believes it
has. The refinement assumes what the table's user does with it: one mapping at
a time, and reads, writes and truncations beyond the mapping only.
`Half` stands for 2^63; offsets are those of an `i64`.
`disk` is what would survive the machine, the worst case: all that was not
synced is lost.

`LinkLifetime`. One coordinator, its drivers, the cores. An action per
constructor, install, uninstall and drop, with `DriverMayGo` and `DriversGone`
the guards that the comment at the top of `src/sio.rs` puts on callers. It
stands for the cable and for the wireless adapter, whose code and contract are
the same in this respect. What `GBASIOSetDriver`, a reset, a run and a core's
deinit do to the players is external: the comments of `Driver::install`,
`attached_players` and the contract say so much.

`WirelessLink` extends `LinkLifetime`, every step of which it refines with what a
frontend sees of the wireless stack: `asleep`, `player_id` and `requested_id` of
the glue. `clock` is how far a player is into the current RF tick; a player at
the tick is parked until all are there or the laggards leave. `Callbacks` are
`c_sleep` and `c_wake`, called on the players as the comment of `asleep` says,
"whether the RF-tick barrier has parked this core"; that a player's flag agrees with
its clock is therefore an assumption here, not a result. Whether one that leaves
is told is left open: it may keep its flag until it is a player again.
`SeatFor` is the rule of `Driver::new`'s comment. A slice of `run_loop` is one
step towards the tick. `TickAdvances` is what a step may never do: set a player
back from a tick the others wait for. The barrier and what joining and leaving do are the C
coordinator's, modelled from the comments alone, which leave two things open:
here a newcomer starts at the beginning of the current tick, and a reset of a
registered player changes neither its seat nor its clock.

`RewindLink`, `LinkSnapshot`. `RewindLink` is what rollback needs: a link that is a
function of the keys pressed, can be put back to whole moments, and after a
failed restore does nothing until another one succeeds. `LinkSnapshot` is how
that is made of one `save_state` and one `load_state` per core and per driver,
each of which may fail. A machine's state is the sequence of its keys; `shared`,
in the coordinator, is what had passed at the last tick, and travels in player
0's blob alone; `scheduled` says whether the driver's event is in its core's
timing list, which a core's load clears and a driver's load fills. A driver's
save that fails unnoticed (`saveState`'s result is not looked at) keeps `NoBytes`,
which every load refuses. A frontend may overwrite a slot, copy it, load it again
after a failure, and load in any order that has each driver after its own core.
It is assumed to run no core while it saves or loads, to use no snapshot it was
refused, and to keep the attach configuration (all of these are the documented
contract). The glue's `asleep` is in no blob, `load_state` sets no flag,
and nothing in this tree says whether the C side calls `sleep` or `wake` from
`loadState`; so the flags are not part of this module. Here any core may be the
next to run, and one that is parked does not get far, as its `run_loop` does not.

`Resampler`. The rings, where they are, and the two stored pointers.
`process` checks neither of them: before both are set it ends at address 0 (`fate`
"null"), which no comment rules out and no property denies.
`UntilProcess` chooses between callers who keep a source for as long as the
resampler may process and callers who read the comment of `set_source` to the
letter.

`BuildInputs`. The build script as cargo repeats it. Each input has a version, each
output records the versions it was made from, and the steps of `main` follow one
another on native and wasm targets; any of them may fail, edits come at any
moment, a run that fails leaves what it made. `Tracked` are the
`rerun-if-changed` directives, `Extract` the reading back of cmake's defines from
either generator's files, `Forced` the `FORCED_DEFINES` compiled into the script.
cargo, cmake, cc and bindgen are external and do what they are for: cargo reruns
a script that failed or one of whose tracked inputs was touched since it started.
An edit made while a build runs gives binaries of two versions until cargo's next
run, which is why the properties speak of a build cargo would not repeat. Each output
records which defines it was made with by where they come from: the forced ones,
cmake's `C_DEFINES`, and the five of `build.rs` for wasm (`Wasi`), which bindgen is not
given. Which SDK cmake takes in an existing build directory when `WASI_SDK_PATH`
changes is left open (`SdkTaken`), and no property speaks of it.

The modules named `MC...` give the constants their values for the runs below.

Definitions marked *slip* are plausible mistakes in the code next to them
(a missing assert, a dropped seek, an off-by-one). They take no part in the
specifications; putting one in place of the definition after it must break the
property `PROJECT.json` names with it.

## The runs

| Run | Checks | Bounds, and why they are enough |
|---|---|---|
| `owned_core` | `NoDangling`, `Survives`, `BuffersAlive`, `ReleasedOnDrop`, `TrapperForLife`, `LinesRouted`, `LoggerForGood`, `InstallReturns` | two trap addresses, lists of up to three with and without repeats, 4 allocations (each of the three slots and one replacement, or a second trapper after a panic), 2 moves; two threads, one of which finds the cell empty, busy or set when the other is anywhere in the call |
| `owned_core_trapper_lifetime` | `TrapperLifetime` is **violated** | the same core, without threads |
| `traps` | `PatchesKeyed`, `PipelineFresh`, `ImplementsGuest` | six instructions of every kind with a loop, at two places each, and two cells of RAM for copies of two of them; hooks on a branch, on a breakpoint of the game's and on its own BKPT #0xef, on neighbours, on a mirror, on two mirrors of one cell; handlers nested twice, run before or after the instruction they hook |
| `traps_lookup` | `LookupSucceeds` is **violated** | as `traps` |
| `traps_late` | `TrapsFire` is **violated** | as `traps`, the displaced instruction always run at once, traps set on a running core too |
| `vfile` | `TypeOK`, `MappingFits`, `ImplementsMapped` | files, read-only files and vectors of up to two bytes of two values, so that a mapping may be shorter than the file and a write may cross its end; offsets -1 to 1; 4 for 2^63, so that cursors lie on both sides of what an `off_t` holds |
| `wireless_link` | `Survives`, `PlayersInstalled`, `WirelessTypeOK`, `SomebodyAwake`, `SeatsDistinct`, `IdentityKept`, `TickAdvances`, `ParkedIsWoken` | three adapters on two cores: takeovers of a port, one driver in two ports, a driver never installed; requests for seat 0, seat 1 or any of three; two slices to a tick, so that players join and leave in its middle |
| `link_snapshot` | `TypeOK`, `InStep`, `ImplementsRewind` | two players; the primary has a key to press and its driver's save may fail, so that the moment restored and the one left differ; two interchangeable slots, so that one can be copied or overwritten while the other is kept; two slices to a tick and three in all, so that a moment may have a player parked and a tick may be over |
| `build_inputs` | `TypeOK`, `DefinesShared`, `EditsTakeEffect`, `BindingsWhole` | native, wasm and an unknown OS; make, Visual Studio and a generator the script cannot read; three edits of any of seven inputs, so that one run is disturbed, fails or succeeds, and its successor is disturbed too |
| `build_wasi_defines` | `SeenAlike` is **violated** | one wasm build with make, no edits |
| `resampler` | `PointersValid` | two owned rings and one of a core's, moves included |
| `resampler_until_process` | `ProcessSafe` is **violated** | the same |

Deadlock is not checked where a run ends for good: a dropped core, a crashed
machine, an aborted process, everything freed, a link or a source tree at its
bound.

### What the violated runs show

* `owned_core_trapper_lifetime`. `src/lib.rs` and `set_traps` say the trapper has
  exactly the core's lifetime. `Trapper::new` splices itself in before the loop
  that panics at a repeated address; unwinding frees the box, and the component
  table keeps the pointer for the next BKPT or the core's deinit.
  `OnlyPanicsCutTrapper` proves that nothing but such a panic breaks the claim.
* `traps_lookup`. The table is keyed by address, the patch is in memory. Code
  executed through a mirror meets the BKPT at an address the table does not
  have, and `unwrap` panics in an `extern "C"` function. The run: traps are set, the
  guest reset, the host sends it to the mirror, one step. There are three such
  ways to the end of the process, and `AbortsOnlyAtStrays` proves that there is no
  fourth, whenever the traps were set: an address that is not hooked and reads a
  hooked cell, RAM with a copy of hooked code, a BKPT #0xef of the game's own.
* `traps_late`. `set_traps` calls a handler whenever the instruction executes,
  but on a core already started the two opcodes ahead are those from before
  the patch. `LateTrapsCatchUp` proves that nothing else is lost: from the
  next reset or redirect on, the guest keeps the promise.
  `HandlersCalled` proves `TrapsFire` of traps set before the first reset.
* `build_wasi_defines`. `build.rs` says that bindgen parses the headers exactly as the
  wasi compile saw them. `NDEBUG`, `_GNU_SOURCE`, `PATH_MAX`, `_WASI_EMULATED_SIGNAL`
  and `ENABLE_VFS_FILE` go to cmake as cflags, which `C_DEFINES` does not list, and to
  the shims by name, and bindgen sees none of them. Whether a struct depends on one
  is for the headers, which are not in this tree, to say. `BuildSound` proves what
  all three do share.
* `resampler_until_process`. `set_source` says the source is needed until
  `process` runs, but `process` keeps the pointer and uses it again.
  `SourceUntilProcess` proves how far the comment carries: the first process of a
  source is safe, and no process writes to a freed destination.

## Fairness

Two specifications assume any. `WirelessSpec` has weak fairness of `Slice(c)` for
each core `c`. `src/sio.rs` (lines 7-9) describes the frontend as "repeatedly calling
`run_loop()` on whichever cores are awake", so a core that stays awake is run.
Installing, resetting and dropping are never assumed to happen. `ParkedIsWoken`
says that a parked player is woken unless drivers are installed for ever: each
newcomer starts the tick anew, and an endless stream of them keeps those already
at the tick waiting. TLC finds that behaviour if the exception is left out.

`ProcessSpec` has weak fairness of `InstallStep(t)` for each thread `t`: the operating
system runs a thread that is inside `install_default_logger`, and the step of a
waiting thread is enabled only once the cell is set, so this says nothing of
locks. No call is assumed to be made. `InstallReturns` is what follows: the thread
that initializes never waits, and the others wait for it alone.

Everything else is a safety property, and the three refinements are of
specifications without fairness.

## What is proved

Every safety property a passing run checks, invariants, action properties and
the three refinements, is a theorem, for every value of the constants. Besides the
theorems' own hypotheses (given below) only the named `ASSUME`s of the modules
are used. The bounds that keep TLC's runs finite are guards of actions; no proof
rests on how large they are, but for `CursorInRange`: a file is shorter than 2^63.

| Module | Theorem | States |
|---|---|---|
| `OwnedCoreProofs` | `NothingDangles`, `CoreSafe`, `BuffersOutliveUse`, `DropReleases`, `TrapperStays` | `NoDangling`, `Survives`, `BuffersAlive`, `ReleasedOnDrop`, `TrapperForLife` |
| | `OnlyPanicsCutTrapper` | `TrapperLifetime` until a `set_traps` panics |
| `ProcessProofs` | `LoggerSafe`, `LoggerStaysRegistered` | `LinesRouted`, `LoggerForGood` |
| | `InstallerAtWork` | the cell is busy exactly while one thread makes the logger |
| | `ProcessHasCore`, `ProcessCoreSafe`, `ProcessTrapperStays` | `ProcessSpec => Spec`, and with it the theorems of `OwnedCoreProofs` |
| `TrapDispatchProofs` | `TableMatchesMemory` | `PatchesKeyed`, for late traps and any list of hooks |
| | `PipelineStaysFresh`, `TrapsImplementGuest` | `PipelineFresh`, `ImplementsGuest`; traps set before the first reset |
| | `AbortsOnlyAtStrays` | `AbortsAtStrays`: where alone the hook ends the process; late traps and any list of hooks |
| | `HandlersCalled` | `TrapsFire`; traps set before the first reset, the displaced instruction run at once |
| | `LateTrapsCatchUp` | late traps: after a refill, `HookedGuest`'s steps |
| `VFileProofs` | `CursorInRange`, `VFileSafe`, `CopiesPassForMapping` | `TypeOK`, `MappingFits`, `ImplementsMapped` |
| `LinkProofs` | `ContractSuffices`, `LinkSafe` | `Survives`, `PlayersInstalled` of `LinkLifetime` |
| | `WirelessIsLink`, `WirelessContract` | `WirelessSpec => Spec`, and the same two of a wireless link |
| | `AdaptersWellTyped`, `WirelessSafe`, `SeatsApart`, `RebuildKeepsIdentity` | `WirelessTypeOK`, `SomebodyAwake`, `SeatsDistinct`, `IdentityKept` |
| | `SlicesBringTick` | `TickAdvances` |
| `LinkSnapshotProofs` | `SnapshotsWellTyped`, `SnapshotsSafe`, `SnapshotsRewind` | `TypeOK`, `InStep`, `ImplementsRewind` |
| `BuildInputsProofs` | `StepsWellTyped`, `BuildSound`, `NoEditLost`, `SeeksOnce` | `TypeOK`, `DefinesShared`, `EditsTakeEffect`, `BindingsWhole` |
| `ResamplerProofs` | `PointersStayValid` | `PointersValid`; callers who keep a source as long as the resampler may process |
| | `SourceUntilProcess` | what is left of it for callers who free a source after `process` |

`OwnedCoreProofs`. None of the properties is inductive. The invariant `IInv` adds
`Ownership` (every allocation has exactly one owning field and was handed out
before; this is what makes a drop release everything and a fresh allocation
distinct), `BuffersOwned` (of *every* caller, what the C core holds in the RTC and
video slots is what the fields own), and, until a panic, `HeldIsOwned` and
`OneTrapper` (the one trapper has the default hook behind it and a table of
exactly the patched addresses). `Allocation` and `BooksStep` carry the bookkeeping,
`UnpanickedStep` the rest.

`ProcessProofs`. The invariant is `OneLogger`: at most one thread is past an empty
cell and before a set one, the cell is set exactly when one logger is leaked, and
who registers has seen it set. `InstallerAtWork` is the safety half of
`InstallReturns`: whoever waits, waits for one thread, which waits for nobody.
Every step of a process is a step of `OwnedCore` or leaves it alone, so that its
theorems hold of a core among logging threads.

`TrapDispatchProofs`. Two invariants. `CodeInv` holds of any installation: memory
is the program but for the traps, of which all or none are there, and of the
addresses of one cell one keeps its instruction (`PatchesKeyed`), a patch reads the
program (`HookedFirst`), and what is prefetched is the code at `ThumbPc`, patched or
not (`PipelineOfCode`); `AbortsOnlyAtStrays` needs no more.
The refinement needs `PipelineFresh` on top, which holds if traps are set before
the first reset (`~LateHooks`; `traps_late` shows why). `FirstOfCell` finds, by
well-founded induction on positions in the list, the address of a cell that is
patched first, and `TableOfKeyed` makes it the one that is kept. `TrapLooksUp` and
`TakenIsProgram` say what the opcode taken tells of the address; `RunKeeps`,
`GoToKeeps`, `RequeueKeeps` and `RunCopies` rebuild the pipeline and RAM;
`GuestSteps` maps every action to its counterpart.

`VFileProofs`. First what the operators of `ByteSeqs` give (`PutIs`, `PutLength` and
their kin): a `Put` inside the file leaves its length, one at 0 over as many bytes
leaves those after them. The inductive invariant is `Shape` with `MappingFits`; that the
cursor is one its back end can have (`Bounded`) is inductive beside it, by the
assumption that offsets are `i64`s. The refinement's mapping
reads memory through the buffer, `Put(bytes, 0, buf)`, so that a `Store` changes the
abstract file at once, `Unmap` changes no byte of it, and a write beyond the mapping
commutes with the write back. It is proved one action at a time.

`LinkProofs`. `IInv` of `LinkLifetime` adds `PortsLive` (a port of a live core leads
to a live driver; a dropped core's is empty) and `CoordinatorLive`. Each wireless
step is a step of `LinkLifetime` (`StepIsLinkStep`), so `IInv` gives that players are
created drivers; with the wireless properties it is inductive (`WInv`).
`SeatForFree` is the pigeonhole: with as many seats as drivers a newcomer finds
one free. `BarrierSettles` says that whatever the clocks were, after the barrier
somebody is short of the tick and, the flags of players being what `Callbacks` makes
them (`PlayersFlagged`), awake.
`SlicesBringTick` is the safety half of `ParkedIsWoken`: no step but a driver's own
installation loses what a slice gained, so that, somebody being always awake, the
tick is `Tick` slices of each player away. Assumed: `WirelessAssumption` (finitely
many drivers, no more than seats).

`BuildInputsProofs`. The invariant follows a run step by step: `CoreMade`,
`DefinesRead`, `CcMade`, `BindingsMade` and `SeeksAppended` say, from the step on that
made it, that an output's script inputs are those the run started with, that what
a compiler read is no older than that, and that the defines are the core's.
`Dirty` then closes the gap between what was read and what is there now.
`LastOfFlagsMake` and `FirstOfVcxproj` are the two readers of cmake's files.

`LinkSnapshotProofs`. What has to be known besides the properties: `KeptMoments` (a
slot that may be used has one moment, unless a blob in it is empty, and the
coordinator's state in player 0's blob and no other), `SavedSoFar` (a slot being
saved to has the present of the players already asked, or no bytes) and `LoadedSoFar` (a link
being restored is the slot's as far as the calls got, and no driver is loaded
before its core). `SaveStepKeeps` and `LoadStepKeeps` are the two sides of a call:
the last one makes the slot the link's moment, or the link the slot's.
`ShortOfNext`, with `NobodyAhead`, is why a player may advance: who is short of the
next tick is past no tick that another has still to reach.

`ResamplerProofs`. `Pinned` (a ring is where its box is) makes a pointer valid as
long as its ring is not freed; `PointersKept` says of either kind of caller which
of the two pointers the next `process` may follow.

Model-checked only: `ParkedIsWoken` and `InstallReturns`, since liveness under
fairness is out of the prover's reach; their safety halves are proved
(`SlicesBringTick` with `WirelessSafe`, and `InstallerAtWork`). The five violated
claims are false; the theorems named under *What the violated runs show* say how
far they hold.

## Not modelled

* The C core beyond the pointers it retains and the effects named above.
* Under traps: ARM (32-bit) code, `set_gpr`, the 32-bit width of addresses; hooks put
  on RAM, which the guest or a load may overwrite; a cartridge other than the first;
  `Core::load_state`, which puts back `r15` and the prefetched opcodes of another time.
* Whether the C side reports, when a driver is loaded, who sleeps in the moment restored.
* What a file lost under a mapping that the C side also writes to: the mapping's
  contents win, and no promise to the contrary is made.
* Running on after `load_rom` without a reset: what the C core makes of its old
  pipeline then is not said here.
* The contents of audio rings; the accessors of `Gba`, `Sync`, `Timing`, `State`, keys.
* The adapter captures (`save_adapter_state`, `load_adapter_state`) beyond the seats
  they ask for: the session in them is C state of which this crate reads nothing.
* The cable's reassignment of ids: no comment says which slots it gives.
* Formatting and levels of log lines; the core that leaks when a configuration
  name has an interior NUL is an outcome (`leaked`) without a property.
* The order and search paths of the libraries linked.
* The WASI shims: constant answers, no state; `wasi-stubs.c` is generated.

## Plan

Done, in this order of importance: `OwnedCore` with proofs; `TrapDispatch`
against `HookedGuest` with proofs; `VFile` against `MappedFile` with proofs; `LinkLifetime`
with proofs; `WirelessLink` with proofs of its safety; `Resampler` with proofs;
`LinkSnapshot` against `RewindLink` with proofs; `DefaultLogger` and `Process` with proofs;
`BuildInputs` with proofs.

Next:

1. `Core::load_state` under traps, the 32-bit wrap of the PC arithmetic, ARM mode, all
   in `TrapDispatch`.
2. The cable's ids and the adapters' sessions, if the C side's promises about
   them are written down.
