----------------------------- MODULE HookedGuest -----------------------------
(***************************************************************************)
(* What OwnedCore::set_traps promises (src/core.rs): a guest runs an       *)
(* unchanged program, and a handler is called whenever the instruction at  *)
(* a hooked address executes, and at no other time.  There is no           *)
(* breakpoint, no patched memory and no pipeline at this level, but for    *)
(* these admissions.  Of several addresses of one cell only one is hooked. *)
(* Where the guest executes a hooked instruction at another address, or    *)
(* copied to RAM, or the trapper's own breakpoint, it may be the end of    *)
(* the process, and at an address given to set_traps its handler may be    *)
(* called for nothing.  And the hooks are gone with the cartridge they     *)
(* were made on.                                                           *)
(***************************************************************************)
EXTENDS GuestCode, SequencesExt

VARIABLES
  status,       (* "off" until the first reset, then "on"; "aborted" when  *)
                (* the process ended                                       *)
  pc,           (* the address of the next instruction                     *)
  due,          (* its handler was called, and it has yet to execute       *)
  set,          (* set_traps was called                                    *)
  asked,        (* the addresses given to it                               *)
  hooked,       (* the hooked addresses                                    *)
  calls,        (* the handlers in progress, innermost last                *)
  ran           (* the instruction that ran last, with its address         *)

vars == <<status, pc, due, set, asked, hooked, calls, ran>>

Nowhere == <<"none", 0>>

Init ==
  /\ status = "off"
  /\ pc = 0
  /\ due = FALSE
  /\ set = FALSE
  /\ asked = {}
  /\ hooked = {}
  /\ calls = <<>>
  /\ ran = Nowhere

(* One address of every cell of S, the trapper's own breakpoints excepted. *)
OfEachCell(H, S) ==
  /\ H \subseteq S
  /\ \A a \in S : Instruction(a) # Trap => \E b \in H : Cell[a] = Cell[b]
  /\ \A a, b \in H : Cell[a] = Cell[b] => a = b
  /\ \A a \in H : Instruction(a) # Trap

Hook(S) ==
  /\ ~set
  /\ status = "off" \/ (status = "on" /\ LateHooks)
  /\ set' = TRUE
  /\ asked' = S
  /\ \E H \in SUBSET S : OfEachCell(H, S) /\ hooked' = H
  /\ UNCHANGED <<status, pc, due, calls, ran>>

(* A cartridge is put in, and the guest has yet to be reset. *)
LoadRom ==
  /\ status # "aborted"
  /\ status' = "off"
  /\ pc' = 0
  /\ due' = FALSE
  /\ hooked' = {}
  /\ UNCHANGED <<set, asked, calls, ran>>

Reset ==
  /\ status # "aborted"
  /\ status' = "on"
  /\ pc' = ResetVec
  /\ due' = FALSE
  /\ UNCHANGED <<set, asked, hooked, calls, ran>>

(* No instruction of the program is what executes here: the hook is        *)
(* another address's, or the program has the trapper's breakpoint itself.  *)
Displaced ==
  \/ set /\ Instruction(pc) = Trap
  \/ pc \notin hooked /\ \E a \in hooked : Cell[a] = Cell[pc]

(* A copy, of the program or of the hook. *)
Copied == Cell[pc] \in Ram /\ \E a \in asked : Cell[a] = CopyOf[Cell[pc]]

Execute ==
  /\ ran' = <<Instruction(pc), pc>>
  /\ pc' \in After(Instruction(pc), pc)
  /\ due' = FALSE

StepPlain ==
  /\ status = "on"
  /\ pc \notin hooked \/ due
  /\ ~Displaced
  /\ Execute
  /\ UNCHANGED <<status, set, asked, hooked, calls>>

StepHooked ==
  /\ status = "on"
  /\ pc \in hooked
  /\ ~due
  /\ Len(calls) < MaxDepth
  /\ calls' = Append(calls, pc)
  /\ \/ HandlerFirst /\ due' = TRUE /\ UNCHANGED <<pc, ran>>
     \/ HandlerAfter /\ Execute
  /\ UNCHANGED <<status, set, asked, hooked>>

(* The host, or a handler, sends the guest elsewhere. *)
Redirect(t) ==
  /\ status = "on"
  /\ pc' = t
  /\ due' = FALSE
  /\ UNCHANGED <<status, set, asked, hooked, calls, ran>>

Return ==
  /\ status = "on"
  /\ calls # <<>>
  /\ calls' = Front(calls)
  /\ UNCHANGED <<status, pc, due, set, asked, hooked, ran>>

(* A handler is called for an instruction that does not execute after it.  *)
Stall ==
  /\ status = "on"
  /\ HandlerFirst
  /\ Displaced
  /\ pc \in asked
  /\ Len(calls) < MaxDepth
  /\ calls' = Append(calls, pc)
  /\ UNCHANGED <<status, pc, due, set, asked, hooked, ran>>

Perish ==
  /\ status = "on"
  /\ Displaced \/ Copied
  /\ status' = "aborted"
  /\ UNCHANGED <<pc, due, set, asked, hooked, calls, ran>>

Next ==
  \/ \E L \in HookLists : Hook(Range(L))
  \/ LoadRom
  \/ Reset
  \/ StepPlain
  \/ StepHooked
  \/ \E t \in Targets : Redirect(t)
  \/ Return
  \/ Stall
  \/ Perish

Spec == Init /\ [][Next]_vars
=============================================================================
