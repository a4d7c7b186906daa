------------------------------ MODULE GuestCode ------------------------------
(***************************************************************************)
(* The guest's program and the traps put on it, as HookedGuest and         *)
(* TrapDispatch share them.  Addresses count Thumb instructions            *)
(* (halfwords); several may read one cell of memory.                       *)
(***************************************************************************)
EXTENDS Naturals, Sequences

CONSTANTS
  Program,      (* what every cell holds of itself: an instruction         *)
  Cell,         (* the cell an address of the guest reads                  *)
  CopyOf,       (* of each cell of RAM, the cell of the ROM copied there   *)
  Code,         (* the addresses the guest may execute                     *)
  Targets,      (* the addresses branches and handlers may go to           *)
  ResetVec,     (* where the guest starts                                  *)
  HookLists,    (* the lists of addresses hooked in one call               *)
  Timings,      (* when a handler may run: "first" is before, and "after"  *)
                (* is after the instruction it hooks                       *)
  LateHooks,    (* whether hooks may be set on a guest already started     *)
  MaxDepth      (* bound: handlers nested, each running the guest on       *)

(* BKPT #TRAPPER_IMM, which the game may contain itself. *)
Trap == "trap"

(* A jump always goes to a target, a branch may also fall through; "bkpt"  *)
(* is a breakpoint with another immediate; "copy" writes a cell of RAM.    *)
Instructions == {"plain", "branch", "jump", "bkpt", "copy", Trap}

Ram == DOMAIN CopyOf

Instruction(a) == Program[Cell[a]]

RomCode == {a \in Code : Cell[a] \notin Ram}

(* The game executes RAM only where it has put its copy.  That is what a   *)
(* cell of RAM holds from the start: nobody sees what was there before.    *)
ASSUME ProgramAssumption ==
  /\ Program \in [DOMAIN Program -> Instructions]
  /\ Cell \in [DOMAIN Cell -> DOMAIN Program]
  /\ CopyOf \in [Ram -> DOMAIN Program \ Ram]
  /\ \A c \in Ram : c \in DOMAIN Program /\ Program[c] = Program[CopyOf[c]]
  /\ Code \subseteq Nat
  /\ Targets \subseteq Code
  /\ ResetVec \in Code
  /\ Timings \subseteq {"first", "after"}
  /\ LateHooks \in BOOLEAN
  /\ MaxDepth \in Nat

(* Hooks go on the ROM.  An address occurs once in a list (Trapper::new    *)
(* panics at a repeated one, which OwnedCore models); two addresses of one *)
(* cell may both occur.                                                    *)
ASSUME HooksAssumption ==
  \A L \in HookLists :
    /\ L \in Seq(RomCode)
    /\ \A i, j \in DOMAIN L : L[i] = L[j] => i = j

HandlerFirst == "first" \in Timings
HandlerAfter == "after" \in Timings

FallsThrough(op) == op # "jump"

(* Two instructions are fetched ahead, code does not run off its end, and  *)
(* nothing is copied over what is fetched.                                 *)
ASSUME CodeAssumption ==
  \A a \in Code :
    /\ {a, a + 1, a + 2} \subseteq DOMAIN Cell
    /\ FallsThrough(Instruction(a)) => a + 1 \in Code
    /\ Instruction(a) = "copy" => Cell[a + 1] \notin Ram /\ Cell[a + 2] \notin Ram

(* Where the instruction op at address a may lead. *)
After(op, a) ==
  (IF FallsThrough(op) THEN {a + 1} ELSE {})
    \union (IF op \in {"branch", "jump"} THEN Targets ELSE {})
=============================================================================
