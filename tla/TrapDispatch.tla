---------------------------- MODULE TrapDispatch ----------------------------
(***************************************************************************)
(* How src/trapper.rs keeps the promise of HookedGuest: a BKPT patched     *)
(* over every hooked instruction, a table from the patched address to the  *)
(* instruction displaced, and a hook in front of the CPU's own bkpt16;     *)
(* and how ArmCore::set_thumb_pc (src/arm_core.rs) refills the pipeline    *)
(* by hand.                                                                *)
(*                                                                         *)
(* The CPU is C code outside this tree.  It is modelled from how the code  *)
(* here uses it: gprs[15] is one instruction ahead of the next one to run  *)
(* between instructions and two ahead of the running one inside one; two   *)
(* opcodes are prefetched; ARMRunFake either puts an opcode back in front  *)
(* of the pipeline ("first" of Timings) or runs it at once ("after").      *)
(* GBAPatch16 reads and patches the memory behind an address.              *)
(***************************************************************************)
EXTENDS GuestCode, SequencesExt

VARIABLES
  status,       (* "off" until the reset after a cartridge is loaded, then *)
                (* "on"; "aborted" when the extern "C" hook panicked        *)
  mem,          (* what the cells hold                                     *)
  hook,         (* irqh.bkpt16: "default" or "trapper"                     *)
  table,        (* Impl.traps: the displaced instruction of each address   *)
  r15,          (* gprs[15]                                                *)
  prefetch,     (* the two opcodes fetched ahead                           *)
  calls,        (* the handlers in progress, innermost last                *)
  ran           (* the instruction that ran last, with its address         *)

vars == <<status, mem, hook, table, r15, prefetch, calls, ran>>

(* thumb_pc: between instructions, the address of the next one. *)
ThumbPc == r15 - 1

Installed == DOMAIN table

(* ... of which the table has an instruction to run for these, *)
Kept == {a \in Installed : table[a] # Trap}

(* and these still have their BKPT in memory. *)
Hooked == {a \in Kept : mem[Cell[a]] = Trap}

NoTable == [a \in {} |-> Trap]

(* The guest HookedGuest describes. *)
Guest == INSTANCE HookedGuest WITH
  pc     <- IF status = "off" THEN 0 ELSE ThumbPc,
  due    <- status # "off" /\ ThumbPc \in Hooked /\ prefetch[1] # Trap,
  set    <- hook = "trapper",
  asked  <- Installed,
  hooked <- Hooked

-----------------------------------------------------------------------------
Init ==
  /\ status = "off"
  /\ mem = Program
  /\ hook = "default"
  /\ table = NoTable
  /\ r15 = 0
  /\ prefetch = <<"plain", "plain">>
  /\ calls = <<>>
  /\ ran = Guest!Nowhere

(* The table after all of L.  An address is patched after those before it  *)
(* in L: if one of them reads the same cell, what is displaced is a BKPT.  *)
UnpatchedTable(L) == [a \in Range(L) |-> Trap]  \* slip: read after the patch
TableOf(L) ==
  [a \in Range(L) |->
     IF \E i, j \in DOMAIN L : i < j /\ L[j] = a /\ Cell[L[i]] = Cell[a]
     THEN Trap
     ELSE mem[Cell[a]]]

PatchedMem(L) ==
  [c \in DOMAIN mem |-> IF \E a \in Range(L) : Cell[a] = c THEN Trap ELSE mem[c]]

(* set_traps and Trapper::new: the hook, then GBAPatch16 at every address. *)
SetTraps(L) ==
  /\ hook = "default"
  /\ status = "off" \/ (status = "on" /\ LateHooks)
  /\ hook' = "trapper"
  /\ table' = TableOf(L)
  /\ mem' = PatchedMem(L)
  /\ UNCHANGED <<status, r15, prefetch, calls, ran>>

(* load_rom: the cartridge is as it came, while RAM, the table and the     *)
(* hook stay.  The frontend, or the handler that did it, resets before it runs  *)
(* the guest on: the pipeline is still the old cartridge's.                *)
LoadRom ==
  /\ status # "aborted"
  /\ status' = "off"
  /\ mem' = [c \in DOMAIN Program |-> IF c \in Ram THEN mem[c] ELSE Program[c]]
  /\ UNCHANGED <<hook, table, r15, prefetch, calls, ran>>

(* The pipeline once the guest is sent to address t: thumb_write_pc. *)
StaleRefill(t) == <<prefetch[1], mem[Cell[t + 1]]>>   \* slip: slot 0 kept
Refill(t) == <<mem[Cell[t]], mem[Cell[t + 1]]>>

GoTo(t) ==
  /\ r15' = t + 1
  /\ prefetch' = Refill(t)

Reset ==
  /\ status # "aborted"
  /\ status' = "on"
  /\ GoTo(ResetVec)
  /\ UNCHANGED <<mem, hook, table, calls, ran>>

(* The byte address v with its low bit cleared, as an instruction's. *)
Aligned(v) == v \div 2

SetThumbPc(v) ==
  /\ status = "on"
  /\ GoTo(Aligned(v))
  /\ UNCHANGED <<status, mem, hook, table, calls, ran>>

-----------------------------------------------------------------------------
(* One step of the CPU: prefetch[0] is taken, r15 moves on, another opcode *)
(* is fetched, and the one taken runs with r15 two ahead of it.            *)
Taken == prefetch[1]

Fetched == mem[Cell[r15 + 1]]

(* A copy the game makes of its code, patched or not, as it is read.       *)
Copy == \E c \in Ram : mem' = [mem EXCEPT ![c] = mem[CopyOf[c]]]

(* A guest's instruction op at a runs: straight on, or through the refill  *)
(* a branch makes.                                                         *)
Run(op, a) ==
  /\ ran' = <<op, a>>
  /\ IF op = "copy" THEN Copy ELSE UNCHANGED mem
  /\ \/ /\ FallsThrough(op)
        /\ r15' = r15 + 1
        /\ prefetch' = <<prefetch[2], Fetched>>
     \/ /\ op \in {"branch", "jump"}
        /\ \E t \in Targets : GoTo(t)

(* A breakpoint is the trapper's own when it has the trapper's immediate.  *)
IsTrap(op) == op = Trap

(* The opcode is the game's: anything but a breakpoint runs, and a         *)
(* breakpoint with an immediate of its own goes to the default hook, by    *)
(* way of real_bkpt16 when the trapper is installed.                       *)
StepGuest ==
  /\ status = "on"
  /\ ~(IsTrap(Taken) /\ hook = "trapper")
  /\ Run(Taken, ThumbPc)
  /\ UNCHANGED <<status, hook, table, calls>>

(* c_trapper_bkpt16 finds its caller by the r15 of the moment. *)
CallerOff == r15                      \* slip: one instruction subtracted
Caller == (r15 + 1) - 2

Trapped == status = "on" /\ hook = "trapper" /\ IsTrap(Taken)

(* The hook: ARMRunFake of what the patch displaced, then the handler.     *)
(* Where that is a BKPT again and waits in the pipeline, the next step is  *)
(* this one once more.                                                     *)
StepTrap ==
  /\ Trapped
  /\ Caller \in Installed
  /\ Len(calls) < MaxDepth
  /\ \/ /\ HandlerFirst
        /\ prefetch' = <<table[Caller], prefetch[2]>>
        /\ UNCHANGED <<mem, r15, ran>>
     \/ /\ HandlerAfter
        /\ table[Caller] # Trap
        /\ Run(table[Caller], ThumbPc)
  /\ calls' = Append(calls, Caller)
  /\ UNCHANGED <<status, hook, table>>

(* Run at once, a BKPT displaced enters the hook again from within         *)
(* ARMRunFake, and again, until the stack is used up.                      *)
StepAgain ==
  /\ Trapped
  /\ Caller \in Installed
  /\ HandlerAfter
  /\ table[Caller] = Trap
  /\ status' = "aborted"
  /\ UNCHANGED <<mem, hook, table, r15, prefetch, calls, ran>>

(* The lookup's unwrap: a panic that may not leave an extern "C" function. *)
StepUnknown ==
  /\ Trapped
  /\ Caller \notin Installed
  /\ status' = "aborted"
  /\ UNCHANGED <<mem, hook, table, r15, prefetch, calls, ran>>

HandlerReturn ==
  /\ status = "on"
  /\ calls # <<>>
  /\ calls' = Front(calls)
  /\ UNCHANGED <<status, mem, hook, table, r15, prefetch, ran>>

PcArguments == {2 * t : t \in Targets} \union {2 * t + 1 : t \in Targets}

Next ==
  \/ \E L \in HookLists : SetTraps(L)
  \/ LoadRom
  \/ Reset
  \/ \E v \in PcArguments : SetThumbPc(v)
  \/ StepGuest
  \/ StepTrap
  \/ StepAgain
  \/ StepUnknown
  \/ HandlerReturn

Spec == Init /\ [][Next]_vars

-----------------------------------------------------------------------------
(* The shape of every variable. *)
TypeOK ==
  /\ status \in {"off", "on", "aborted"}
  /\ mem \in [DOMAIN Program -> Instructions]
  /\ hook \in {"default", "trapper"}
  /\ Installed \subseteq RomCode
  /\ table \in [Installed -> Instructions]
  /\ r15 \in Nat
  /\ prefetch \in Seq(Instructions) /\ Len(prefetch) = 2
  /\ calls \in Seq(Code)
  /\ ran \in (Instructions \union {"none"}) \X Nat

(* The table has the instruction displaced from every cell, under one of   *)
(* the addresses that read it, and a BKPT under the others.                *)
TableKeyed ==
  /\ \A a \in Installed : table[a] \in {Instruction(a), Trap}
  /\ Guest!OfEachCell(Kept, Installed)

(* The ROM is the cartridge but for the traps, which are there at every    *)
(* address kept or, once a cartridge was loaded, at none; RAM holds copies *)
(* of the cartridge, or of a trap.                                         *)
PatchesKeyed ==
  /\ TableKeyed
  /\ Hooked \in {{}, Kept}
  /\ \A c \in DOMAIN Program \ Ram :
       mem[c] = IF \E a \in Hooked : Cell[a] = c THEN Trap ELSE Program[c]
  /\ \A c \in Ram : \/ mem[c] = Program[c]
                    \/ mem[c] = Trap /\ \E a \in Kept : Cell[a] = CopyOf[c]

(* A hook is in place before the first patch it serves. *)
HookedFirst == hook = "default" => Installed = {}

(* The opcodes ahead are those of the code at ThumbPc, or the displaced    *)
(* instruction whose handler has just been called.                         *)
PipelineFresh ==
  status = "on" =>
    /\ ThumbPc \in Code /\ r15 = ThumbPc + 1
    /\ prefetch[2] = mem[Cell[r15]]
    /\ \/ prefetch[1] = mem[Cell[ThumbPc]]
       \/ HandlerFirst /\ ThumbPc \in Hooked /\ prefetch[1] = table[ThumbPc]

(* The unwrap of c_trapper_bkpt16's lookup never fails. *)
LookupSucceeds == status # "aborted"

(* A guest with traps installed is a guest running the unpatched program   *)
(* with a handler called at each hooked instruction, and nowhere else, but *)
(* for what HookedGuest admits.  A cartridge loaded later has no hooks,    *)
(* whatever the table still has.                                           *)
ImplementsGuest == Guest!Spec

(* Whenever the traps are set: c_trapper_bkpt16 ends the process nowhere   *)
(* but at a mirror or a copy of a hooked instruction, or at a breakpoint   *)
(* of the game's with the trapper's immediate.                             *)
AbortsAtStrays ==
  [][status # "aborted" /\ status' = "aborted" =>
       Guest!Displaced \/ Guest!Copied]_vars

(* "calls handler [...] whenever it executes" (OwnedCore::set_traps), when *)
(* the displaced instruction runs at once.                                 *)
TrapsFire ==
  [][ran' # ran /\ ran'[2] \in Hooked => calls' # calls]_vars

(* What is left of PipelineFresh when traps may be set on a guest already  *)
(* started: an opcode ahead is the code's, or the program's from before it *)
(* was patched.                                                            *)
PipelineOfCode ==
  status = "on" =>
    /\ ThumbPc \in Code /\ r15 = ThumbPc + 1
    /\ prefetch[1] \in {mem[Cell[ThumbPc]], Instruction(ThumbPc)}
    /\ prefetch[2] \in {mem[Cell[r15]], Instruction(r15)}

CodeInv == TypeOK /\ PatchesKeyed /\ HookedFirst /\ PipelineOfCode

(* What ImplementsGuest rests on. *)
IInv ==
  /\ TypeOK
  /\ PatchesKeyed
  /\ HookedFirst
  /\ PipelineFresh
=============================================================================
