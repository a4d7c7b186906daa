-------------------------- MODULE TrapDispatchProofs --------------------------
(***************************************************************************)
(* For every program, mirrored, copied to RAM or with breakpoints of its   *)
(* own, every list of traps and both readings of ARMRunFake: TrapDispatch  *)
(* implements HookedGuest, provided the traps are set before the first     *)
(* reset or once the pipeline is refilled; and whenever they are set, the  *)
(* process ends only where HookedGuest says it may.                        *)
(***************************************************************************)
EXTENDS TrapDispatch, WellFoundedInduction, TLAPS

(* The cells that are read in advance are the program's. *)
LEMMA AheadInProgram ==
  ASSUME NEW a \in Code
  PROVE  /\ a \in Nat /\ {Cell[a], Cell[a + 1], Cell[a + 2]} \subseteq DOMAIN Program
         /\ FallsThrough(Instruction(a)) => a + 1 \in Code
         /\ {Instruction(a), Instruction(a + 1)} \subseteq Instructions
<1>1. {a, a + 1, a + 2} \subseteq DOMAIN Cell
  BY CodeAssumption
<1>2. \A b \in DOMAIN Cell : Cell[b] \in DOMAIN Program
  BY ProgramAssumption
<1>3. \A c \in DOMAIN Program : Program[c] \in Instructions
  BY ProgramAssumption
<1>4. a \in Nat
  BY ProgramAssumption
<1>5. FallsThrough(Instruction(a)) => a + 1 \in Code
  BY CodeAssumption
<1>6. QED
  BY <1>1, <1>2, <1>3, <1>4, <1>5 DEF Instruction

(* A cell of RAM is a copy of a cell of the ROM. *)
LEMMA RamIsCopied ==
  ASSUME NEW c \in Ram
  PROVE  /\ c \in DOMAIN Program /\ CopyOf[c] \in DOMAIN Program \ Ram
         /\ Program[c] = Program[CopyOf[c]]
<1>1. CopyOf[c] \in DOMAIN Program \ Ram
  BY ProgramAssumption DEF Ram
<1>2. QED
  BY <1>1, ProgramAssumption

(* The addresses that may be hooked read the ROM. *)
LEMMA RomCodeCells ==
  ASSUME NEW a \in RomCode
  PROVE  a \in Code /\ Cell[a] \in DOMAIN Program \ Ram
BY AheadInProgram DEF RomCode

(* An address is kept with the program's instruction, never a trap. *)
LEMMA KeptRuns ==
  ASSUME TypeOK, PatchesKeyed, NEW a \in Kept
  PROVE  /\ a \in Installed /\ a \in RomCode
         /\ table[a] = Instruction(a) /\ Instruction(a) # Trap
BY DEF TypeOK, PatchesKeyed, TableKeyed, Kept

(* What a trap found in the code says of its address. *)
LEMMA TrapFound ==
  ASSUME TypeOK, PatchesKeyed, NEW a \in Code, mem[Cell[a]] = Trap
  PROVE  \/ Instruction(a) = Trap
         \/ \E b \in Hooked : Cell[b] = Cell[a]
         \/ Cell[a] \in Ram /\ \E b \in Installed : Cell[b] = CopyOf[Cell[a]]
<1>1. Cell[a] \in DOMAIN Program
  BY AheadInProgram
<1>2. CASE Cell[a] \notin Ram
  <2>1. mem[Cell[a]] = IF \E b \in Hooked : Cell[b] = Cell[a]
                       THEN Trap ELSE Program[Cell[a]]
    BY <1>1, <1>2 DEF PatchesKeyed
  <2>2. QED
    BY <2>1 DEF Instruction
<1>3. CASE Cell[a] \in Ram
  BY <1>3 DEF PatchesKeyed, Instruction, Kept
<1>4. QED
  BY <1>2, <1>3

(* An address without a trap holds the program's own instruction. *)
LEMMA ProgramElsewhere ==
  ASSUME TypeOK, PatchesKeyed, NEW a \in Code, mem[Cell[a]] # Trap
  PROVE  mem[Cell[a]] = Instruction(a)
<1>1. Cell[a] \in DOMAIN Program
  BY AheadInProgram
<1>2. CASE Cell[a] \notin Ram
  BY <1>1, <1>2 DEF PatchesKeyed, Instruction
<1>3. CASE Cell[a] \in Ram
  BY <1>3 DEF PatchesKeyed, Instruction
<1>4. QED
  BY <1>2, <1>3

(* Before set_traps memory is the program. *)
LEMMA Unpatched ==
  ASSUME TypeOK, PatchesKeyed, HookedFirst, hook = "default"
  PROVE  /\ Installed = {} /\ Kept = {} /\ Hooked = {}
         /\ \A c \in DOMAIN Program : mem[c] = Program[c]
<1>1. Installed = {} /\ Kept = {} /\ Hooked = {}
  BY DEF HookedFirst, Kept, Hooked
<1>2. ASSUME NEW c \in DOMAIN Program PROVE mem[c] = Program[c]
  <2>1. CASE c \notin Ram
    BY <1>1, <2>1 DEF PatchesKeyed
  <2>2. CASE c \in Ram
    BY <1>1, <2>2 DEF PatchesKeyed
  <2>3. QED
    BY <2>1, <2>2
<1>3. QED
  BY <1>1, <1>2

-----------------------------------------------------------------------------
(* The list of set_traps has a first address for every cell it patches.    *)
LEMMA FirstOfCell ==
  ASSUME NEW L \in Seq(RomCode), NEW i \in DOMAIN L
  PROVE  \E j \in DOMAIN L : /\ Cell[L[j]] = Cell[L[i]]
                             /\ \A k \in DOMAIN L : k < j => Cell[L[k]] # Cell[L[i]]
<1> DEFINE below == {p \in Nat \X Nat : p[1] < p[2]}
           same == {j \in DOMAIN L : Cell[L[j]] = Cell[L[i]]}
<1>1. IsWellFoundedOn(below, Nat)
  BY NatLessThanWellFounded DEF OpToRel
<1>2. same \subseteq Nat /\ same # {} /\ DOMAIN L \subseteq Nat
  OBVIOUS
<1>3. PICK j \in same : \A k \in same : <<k, j>> \notin below
  <2> HIDE DEF below, same
  <2> QED
    BY <1>1, <1>2, WFMin
<1>4. ASSUME NEW k \in DOMAIN L, k < j PROVE Cell[L[k]] # Cell[L[i]]
  <2>1. k \in Nat /\ j \in Nat
    BY <1>2
  <2>2. <<k, j>> \in below
    BY <1>4, <2>1
  <2>3. QED
    BY <1>3, <2>2
<1>5. QED
  BY <1>3, <1>4

(* Trapper::new on a program not patched yet. *)
LEMMA TableOfKeyed ==
  ASSUME NEW L \in HookLists, \A c \in DOMAIN Program : mem[c] = Program[c],
         NEW K, K = {a \in Range(L) : TableOf(L)[a] # Trap}
  PROVE  /\ Range(L) \subseteq RomCode
         /\ \A a \in Range(L) : TableOf(L)[a] \in {Instruction(a), Trap}
         /\ Guest!OfEachCell(K, Range(L))
<1> DEFINE late(a) == \E i, j \in DOMAIN L : i < j /\ L[j] = a /\ Cell[L[i]] = Cell[a]
<1>1. /\ L \in Seq(RomCode) /\ DOMAIN L \subseteq Nat
      /\ \A i \in DOMAIN L : L[i] \in RomCode
      /\ \A i, j \in DOMAIN L : L[i] = L[j] => i = j
  BY HooksAssumption
<1>2. Range(L) \subseteq RomCode
  BY <1>1 DEF Range
<1>3. ASSUME NEW a \in Range(L)
      PROVE  TableOf(L)[a] = IF late(a) THEN Trap ELSE Instruction(a)
  <2>1. Cell[a] \in DOMAIN Program
    BY <1>2, RomCodeCells
  <2>2. QED
    BY <2>1 DEF TableOf, Instruction
<1>4. ASSUME NEW a \in Range(L), Instruction(a) # Trap
      PROVE  \E b \in K : Cell[a] = Cell[b]
  <2>1. PICK i \in DOMAIN L : L[i] = a
    BY DEF Range
  <2>2. PICK j \in DOMAIN L : /\ Cell[L[j]] = Cell[L[i]]
                              /\ \A k \in DOMAIN L : k < j => Cell[L[k]] # Cell[L[i]]
    BY <1>1, FirstOfCell
  <2>3. L[j] \in Range(L) /\ ~late(L[j])
    BY <1>1, <2>2 DEF Range
  <2>4. TableOf(L)[L[j]] = Instruction(L[j])
    BY <1>3, <2>3
  <2>5. Instruction(L[j]) # Trap
    BY <1>4, <2>1, <2>2 DEF Instruction
  <2>6. QED
    BY <2>1, <2>2, <2>3, <2>4, <2>5
<1>5. ASSUME NEW a \in K PROVE a \in Range(L) /\ ~late(a) /\ Instruction(a) # Trap
  BY <1>3
<1>6. ASSUME NEW a \in K, NEW b \in K, Cell[a] = Cell[b] PROVE a = b
  <2>1. PICK i \in DOMAIN L : L[i] = a
    BY DEF Range
  <2>2. PICK j \in DOMAIN L : L[j] = b
    BY DEF Range
  <2>3. ~(i < j) /\ ~(j < i) /\ i \in Nat /\ j \in Nat
    BY <1>1, <1>5, <1>6, <2>1, <2>2
  <2>4. QED
    BY <2>1, <2>2, <2>3
<1>7. Guest!OfEachCell(K, Range(L))
  BY <1>4, <1>5, <1>6 DEF Guest!OfEachCell, Guest!Instruction, Instruction,
                          Guest!Trap, Trap
<1>8. QED
  BY <1>2, <1>3, <1>7

(* set_traps, on a core started or not. *)
LEMMA SetTrapsPatches ==
  ASSUME TypeOK, PatchesKeyed, HookedFirst, NEW L \in HookLists, SetTraps(L)
  PROVE  /\ Installed = {} /\ Hooked = {}
         /\ \A c \in DOMAIN Program : mem[c] = Program[c]
         /\ Installed' = Range(L) /\ Guest!OfEachCell(Hooked', Range(L))
         /\ TypeOK' /\ PatchesKeyed' /\ HookedFirst'
<1>1. /\ Installed = {} /\ Hooked = {}
      /\ \A c \in DOMAIN Program : mem[c] = Program[c]
  BY Unpatched DEF SetTraps
<1>2. DOMAIN mem = DOMAIN Program
  BY DEF TypeOK
<1>3. Installed' = Range(L) /\ table' = TableOf(L)
  BY DEF SetTraps, TableOf, Installed
<1>4. Kept' = {a \in Range(L) : TableOf(L)[a] # Trap}
  BY <1>3 DEF Kept
<1>5. /\ Range(L) \subseteq RomCode
      /\ \A a \in Range(L) : TableOf(L)[a] \in {Instruction(a), Trap}
      /\ Guest!OfEachCell(Kept', Range(L))
  BY <1>1, <1>4, TableOfKeyed
<1>6. TableKeyed'
  BY <1>3, <1>5 DEF TableKeyed
<1>7. /\ mem' = [c \in DOMAIN Program |->
                   IF \E a \in Range(L) : Cell[a] = c THEN Trap ELSE mem[c]]
      /\ \A c \in DOMAIN Program :
           mem'[c] = IF \E a \in Range(L) : Cell[a] = c THEN Trap ELSE Program[c]
  BY <1>1, <1>2 DEF SetTraps, PatchedMem
<1>8. Hooked' = Kept'
  <2>1. ASSUME NEW a \in Kept' PROVE mem'[Cell[a]] = Trap
    <3>1. a \in Range(L) /\ Cell[a] \in DOMAIN Program
      BY <1>4, <1>5, RomCodeCells
    <3>2. QED
      BY <1>7, <3>1
  <2>2. QED
    BY <2>1 DEF Hooked
<1>9. ASSUME NEW c \in DOMAIN Program \ Ram
      PROVE  mem'[c] = IF \E a \in Hooked' : Cell[a] = c THEN Trap ELSE Program[c]
  <2>1. CASE \E a \in Kept' : Cell[a] = c
    BY <1>4, <1>7, <1>8, <2>1
  <2>2. CASE ~(\E a \in Kept' : Cell[a] = c) /\ \E a \in Range(L) : Cell[a] = c
    <3>1. PICK a \in Range(L) : Cell[a] = c
      BY <2>2
    <3>2. Instruction(a) = Trap
      BY <1>5, <2>2, <3>1 DEF Guest!OfEachCell, Guest!Instruction, Instruction,
                              Guest!Trap, Trap
    <3>3. QED
      BY <1>7, <1>8, <2>2, <3>1, <3>2 DEF Instruction
  <2>3. CASE ~(\E a \in Range(L) : Cell[a] = c)
    BY <1>4, <1>7, <1>8, <2>3
  <2>4. QED
    BY <2>1, <2>2, <2>3
<1>10. ASSUME NEW c \in Ram PROVE mem'[c] = Program[c]
  <2>1. c \in DOMAIN Program
    BY RamIsCopied
  <2>2. \A a \in Range(L) : Cell[a] # c
    BY <1>5, RomCodeCells
  <2>3. QED
    BY <1>7, <2>1, <2>2
<1>11. PatchesKeyed'
  BY <1>6, <1>8, <1>9, <1>10 DEF PatchesKeyed
<1>12. TypeOK'
  <2>1. \A c \in DOMAIN Program : mem[c] \in Instructions /\ Trap \in Instructions
    BY DEF TypeOK, Instructions
  <2>2. mem' \in [DOMAIN Program -> Instructions]
    BY <1>7, <2>1
  <2>3. \A a \in Range(L) : TableOf(L)[a] \in Instructions
    <3>1. \A a \in Range(L) : Instruction(a) \in Instructions
      BY <1>5, RomCodeCells, AheadInProgram
    <3>2. QED
      BY <1>5, <2>1, <3>1 DEF Instructions
  <2>4. table' \in [Range(L) -> Instructions]
    <3>1. table' = [a \in Range(L) |-> TableOf(L)[a]]
      BY <1>3 DEF TableOf
    <3>2. QED
      BY <2>3, <3>1
  <2>5. QED
    BY <1>3, <1>5, <2>2, <2>4 DEF SetTraps, TypeOK
<1>13. HookedFirst'
  BY DEF SetTraps, HookedFirst
<1>14. QED
  BY <1>1, <1>3, <1>5, <1>8, <1>11, <1>12, <1>13

(* load_rom, whatever was installed: nothing is patched any more.          *)
LEMMA LoadRomRestores ==
  ASSUME TypeOK, PatchesKeyed, HookedFirst, LoadRom
  PROVE  TypeOK' /\ PatchesKeyed' /\ HookedFirst' /\ Hooked' = {}
         /\ Installed' = Installed
<1>1. Installed' = Installed /\ Kept' = Kept
  BY DEF LoadRom, Installed, Kept
<1>2. \A c \in DOMAIN Program : mem'[c] = IF c \in Ram THEN mem[c] ELSE Program[c]
  BY DEF LoadRom
<1>3. ASSUME NEW a \in Kept PROVE mem'[Cell[a]] # Trap
  <2>1. Cell[a] \in DOMAIN Program \ Ram /\ Instruction(a) # Trap
    BY KeptRuns, RomCodeCells
  <2>2. QED
    BY <1>2, <2>1 DEF Instruction
<1>4. Hooked' = {}
  BY <1>1, <1>3 DEF Hooked
<1>5. mem' \in [DOMAIN Program -> Instructions]
  <2>1. \A c \in DOMAIN Program : Program[c] \in Instructions /\ mem[c] \in Instructions
    BY ProgramAssumption DEF TypeOK
  <2>2. QED
    BY <2>1 DEF LoadRom
<1>6. TypeOK'
  BY <1>1, <1>5 DEF LoadRom, TypeOK
<1>7. TableKeyed'
  BY <1>1 DEF LoadRom, PatchesKeyed, TableKeyed
<1>8. \A c \in Ram : c \in DOMAIN Program /\ mem'[c] = mem[c]
  BY <1>2, RamIsCopied
<1>9. PatchesKeyed'
  <2>1. \A c \in DOMAIN Program \ Ram :
          mem'[c] = IF \E a \in Hooked' : Cell[a] = c THEN Trap ELSE Program[c]
    BY <1>2, <1>4
  <2>2. \A c \in Ram : \/ mem'[c] = Program[c]
                       \/ mem'[c] = Trap /\ \E a \in Kept' : Cell[a] = CopyOf[c]
    BY <1>1, <1>8 DEF PatchesKeyed
  <2>3. QED
    BY <1>4, <1>7, <2>1, <2>2 DEF PatchesKeyed
<1>10. QED
  BY <1>1, <1>4, <1>6, <1>9 DEF LoadRom, HookedFirst

(* A copy is of the program or of a trap, and of RAM alone.                *)
LEMMA RunCopies ==
  ASSUME TypeOK, PatchesKeyed, NEW op, NEW a, Run(op, a), UNCHANGED table
  PROVE  /\ mem' \in [DOMAIN Program -> Instructions] /\ PatchesKeyed'
         /\ Installed' = Installed /\ Hooked' = Hooked
         /\ \A c \in DOMAIN Program \ Ram : mem'[c] = mem[c]
         /\ op # "copy" => mem' = mem
<1>1. Installed' = Installed /\ Kept' = Kept
  BY DEF Installed, Kept
<1>2. TableKeyed'
  BY <1>1 DEF PatchesKeyed, TableKeyed
<1>3. CASE op # "copy"
  <2>1. mem' = mem
    BY <1>3 DEF Run
  <2>2. Hooked' = Hooked
    BY <1>1, <2>1 DEF Hooked
  <2>3. PatchesKeyed'
    BY <1>1, <1>2, <2>1, <2>2 DEF PatchesKeyed
  <2>4. QED
    BY <1>1, <2>1, <2>2, <2>3 DEF TypeOK
<1>4. CASE op = "copy"
  <2>1. PICK c \in Ram : mem' = [mem EXCEPT ![c] = mem[CopyOf[c]]]
    BY <1>4 DEF Run, Copy
  <2>2. /\ c \in DOMAIN Program /\ CopyOf[c] \in DOMAIN Program \ Ram
        /\ Program[c] = Program[CopyOf[c]]
    BY RamIsCopied
  <2>3. /\ mem' \in [DOMAIN Program -> Instructions]
        /\ \A d \in DOMAIN Program : mem'[d] = IF d = c THEN mem[CopyOf[c]] ELSE mem[d]
    BY <2>1, <2>2 DEF TypeOK
  <2>4. \A d \in DOMAIN Program \ Ram : mem'[d] = mem[d]
    BY <2>3
  <2>5. Hooked' = Hooked
    <3>1. \A b \in Kept : mem'[Cell[b]] = mem[Cell[b]]
      BY <2>4, KeptRuns, RomCodeCells
    <3>2. QED
      BY <1>1, <3>1 DEF Hooked
  <2>6. ASSUME NEW d \in Ram
        PROVE  \/ mem'[d] = Program[d]
               \/ mem'[d] = Trap /\ \E b \in Kept : Cell[b] = CopyOf[d]
    <3>1. d \in DOMAIN Program
      BY RamIsCopied
    <3>2. CASE d # c
      BY <2>3, <3>1, <3>2 DEF PatchesKeyed
    <3>3. CASE d = c /\ \E b \in Hooked : Cell[b] = CopyOf[c]
      BY <2>2, <2>3, <3>3 DEF PatchesKeyed, Hooked
    <3>4. CASE d = c /\ ~ \E b \in Hooked : Cell[b] = CopyOf[c]
      BY <2>2, <2>3, <3>4 DEF PatchesKeyed
    <3>5. QED
      BY <3>2, <3>3, <3>4
  <2>7. PatchesKeyed'
    <3>1. \A d \in DOMAIN Program \ Ram :
            mem'[d] = IF \E b \in Hooked' : Cell[b] = d THEN Trap ELSE Program[d]
      BY <2>4, <2>5 DEF PatchesKeyed
    <3>2. Hooked' \in {{}, Kept'}
      BY <1>1, <2>5 DEF PatchesKeyed
    <3>3. QED
      BY <1>1, <1>2, <2>6, <3>1, <3>2 DEF PatchesKeyed
  <2>8. QED
    BY <1>1, <1>4, <2>3, <2>4, <2>5, <2>7
<1>5. QED
  BY <1>3, <1>4

-----------------------------------------------------------------------------
LEMMA Initially == Init => IInv
<1> SUFFICES ASSUME Init PROVE IInv
  OBVIOUS
<1>1. Installed = {} /\ Kept = {} /\ Hooked = {}
  BY DEF Init, Installed, Kept, Hooked, NoTable
<1>2. TypeOK
  <2>1. mem \in [DOMAIN Program -> Instructions]
    BY ProgramAssumption DEF Init
  <2>2. table \in [Installed -> Instructions]
    BY <1>1 DEF Init, NoTable, Installed
  <2>3. prefetch \in Seq(Instructions) /\ Len(prefetch) = 2
    BY DEF Init, Instructions
  <2>4. calls \in Seq(Code) /\ ran \in (Instructions \union {"none"}) \X Nat
    BY DEF Init, Guest!Nowhere
  <2>5. QED
    BY <1>1, <2>1, <2>2, <2>3, <2>4 DEF Init, TypeOK
<1>3. TableKeyed
  BY <1>1 DEF TableKeyed, Guest!OfEachCell
<1>4. PatchesKeyed
  <2>1. \A c \in DOMAIN Program : mem[c] = Program[c]
    BY DEF Init
  <2>2. \A c \in Ram : mem[c] = Program[c]
    BY <2>1, RamIsCopied
  <2>3. QED
    BY <1>1, <1>3, <2>1, <2>2 DEF PatchesKeyed
<1>5. QED
  BY <1>1, <1>2, <1>4 DEF Init, IInv, HookedFirst, PipelineFresh

(* The lookup of c_trapper_bkpt16 asks for the address of the trap. *)
LEMMA TrapLooksUp ==
  ASSUME IInv, Trapped
  PROVE  /\ Caller = ThumbPc /\ ThumbPc \in Code /\ mem[Cell[ThumbPc]] = Trap
         /\ ThumbPc \in Kept => ThumbPc \in Hooked
         /\ ThumbPc \notin Kept => Guest!Displaced \/ Guest!Copied
         /\ ThumbPc \in Installed \ Kept => Guest!Displaced
<1>1. /\ status = "on" /\ hook = "trapper" /\ prefetch[1] = Trap
      /\ ThumbPc \in Code /\ r15 = ThumbPc + 1 /\ ThumbPc \in Nat
  BY ProgramAssumption DEF Trapped, IsTrap, Taken, IInv, PipelineFresh
<1>2. Caller = ThumbPc
  BY <1>1 DEF Caller
<1>3. mem[Cell[ThumbPc]] = Trap
  BY <1>1 DEF IInv, PipelineFresh, Hooked, Kept
<1>4. ThumbPc \in Kept => ThumbPc \in Hooked
  BY <1>3 DEF Hooked
<1>5. \/ Instruction(ThumbPc) = Trap
      \/ \E b \in Hooked : Cell[b] = Cell[ThumbPc]
      \/ Cell[ThumbPc] \in Ram /\ \E b \in Installed : Cell[b] = CopyOf[Cell[ThumbPc]]
  BY <1>1, <1>3, TrapFound DEF IInv
<1>6. ThumbPc \notin Kept => Guest!Displaced \/ Guest!Copied
  BY <1>1, <1>5 DEF Guest!Displaced, Guest!Copied, Guest!Instruction, Instruction,
                    Guest!Trap, Trap, Guest!Ram, Ram, Hooked
<1>7. ThumbPc \in Installed => Cell[ThumbPc] \notin Ram
  BY RomCodeCells DEF IInv, TypeOK
<1>8. ThumbPc \in Installed \ Kept => Guest!Displaced
  BY <1>1, <1>5, <1>7 DEF Guest!Displaced, Guest!Instruction, Instruction,
                          Guest!Trap, Trap, Hooked
<1>9. QED
  BY <1>1, <1>2, <1>3, <1>4, <1>6, <1>8

(* Any other opcode taken is the program's at that address, and where the  *)
(* address is hooked its handler has been called.                          *)
LEMMA TakenIsProgram ==
  ASSUME IInv, status = "on", ~(Taken = Trap /\ hook = "trapper")
  PROVE  /\ ThumbPc \in Code /\ Taken = Instruction(ThumbPc)
         /\ ThumbPc \notin Hooked \/ prefetch[1] # Trap
         /\ ~Guest!Displaced
<1>1. ThumbPc \in Code /\ Cell[ThumbPc] \in DOMAIN Program
  BY AheadInProgram DEF IInv, PipelineFresh
<1>2. CASE hook = "default"
  <2>1. Hooked = {} /\ mem[Cell[ThumbPc]] = Program[Cell[ThumbPc]]
    BY <1>1, <1>2, Unpatched DEF IInv
  <2>2. prefetch[1] = mem[Cell[ThumbPc]]
    BY <2>1 DEF IInv, PipelineFresh
  <2>3. QED
    BY <1>1, <1>2, <2>1, <2>2 DEF Taken, Instruction, Guest!Displaced
<1>3. CASE Taken # Trap /\ prefetch[1] = mem[Cell[ThumbPc]]
  <2>1. Taken = Instruction(ThumbPc)
    BY <1>1, <1>3, ProgramElsewhere DEF IInv, Taken
  <2>2. ~ \E b \in Hooked : Cell[b] = Cell[ThumbPc]
    BY <1>3 DEF Hooked, Taken
  <2>3. QED
    BY <1>1, <1>3, <2>1, <2>2
       DEF Taken, Guest!Displaced, Guest!Instruction, Instruction, Guest!Trap, Trap
<1>4. CASE Taken # Trap /\ ThumbPc \in Hooked /\ prefetch[1] = table[ThumbPc]
  <2>1. ThumbPc \in Kept
    BY <1>4 DEF Hooked
  <2>2. Taken = Instruction(ThumbPc) /\ Instruction(ThumbPc) # Trap
    BY <1>4, <2>1, KeptRuns DEF IInv, Taken
  <2>3. QED
    BY <1>1, <1>4, <2>2
       DEF Taken, Guest!Displaced, Guest!Instruction, Instruction, Guest!Trap, Trap
<1>5. hook \in {"default", "trapper"}
  BY DEF IInv, TypeOK
<1>6. QED
  BY <1>2, <1>3, <1>4, <1>5 DEF IInv, PipelineFresh

(* A refilled pipeline is fresh, and nothing is due. *)
LEMMA GoToKeeps ==
  ASSUME TypeOK, NEW t \in Code, GoTo(t), UNCHANGED mem
  PROVE  /\ PipelineFresh' /\ r15' \in Nat /\ ThumbPc' = t
         /\ prefetch' \in Seq(Instructions) /\ Len(prefetch') = 2
         /\ t \in Hooked => prefetch'[1] = Trap
<1>1. t \in Nat /\ Cell[t] \in DOMAIN Program /\ Cell[t + 1] \in DOMAIN Program
  BY AheadInProgram
<1>2. r15' = t + 1 /\ r15' \in Nat /\ ThumbPc' = t
  BY <1>1 DEF GoTo, ThumbPc
<1>3. /\ prefetch' = <<mem[Cell[t]], mem[Cell[t + 1]]>>
      /\ mem[Cell[t]] \in Instructions
      /\ mem[Cell[t + 1]] \in Instructions
  BY <1>1 DEF GoTo, Refill, TypeOK
<1>4. PipelineFresh'
  BY <1>2, <1>3 DEF PipelineFresh
<1>5. t \in Hooked => prefetch'[1] = Trap
  BY <1>3 DEF Hooked
<1>6. QED
  BY <1>2, <1>3, <1>4, <1>5

(* So is the pipeline behind an instruction that ran. *)
LEMMA RunKeeps ==
  ASSUME IInv, status = "on", status' = "on",
         Run(Instruction(ThumbPc), ThumbPc), UNCHANGED table
  PROVE  /\ PipelineFresh' /\ r15' \in Nat
         /\ prefetch' \in Seq(Instructions) /\ Len(prefetch') = 2
         /\ ran' = <<Instruction(ThumbPc), ThumbPc>>
         /\ ThumbPc' \in After(Instruction(ThumbPc), ThumbPc)
         /\ ThumbPc' \in Hooked => prefetch'[1] = Trap
<1> DEFINE a == ThumbPc
           op == Instruction(a)
<1>1. a \in Code /\ a \in Nat /\ r15 = a + 1 /\ op \in Instructions
  BY AheadInProgram DEF IInv, PipelineFresh
<1>2. ran' = <<op, a>>
  BY DEF Run
<1>3. /\ \A c \in DOMAIN Program \ Ram : mem'[c] = mem[c]
      /\ op # "copy" => mem' = mem
  BY RunCopies DEF IInv
<1>4. CASE FallsThrough(op) /\ r15' = r15 + 1 /\ prefetch' = <<prefetch[2], Fetched>>
  <2>1. a + 1 \in Code /\ Cell[a + 1] \in DOMAIN Program /\ Cell[a + 2] \in DOMAIN Program
    BY <1>1, <1>4, AheadInProgram
  <2>2. r15' = a + 2 /\ ThumbPc' = a + 1 /\ r15' \in Nat
    BY <1>1, <1>4 DEF ThumbPc
  <2>3. prefetch' = <<mem[Cell[a + 1]], mem[Cell[a + 2]]>>
    BY <1>1, <1>4 DEF Fetched, IInv, PipelineFresh
  <2>4. prefetch' \in Seq(Instructions) /\ Len(prefetch') = 2
    BY <2>1, <2>3 DEF IInv, TypeOK
  <2>5. mem'[Cell[a + 1]] = mem[Cell[a + 1]] /\ mem'[Cell[a + 2]] = mem[Cell[a + 2]]
    <3>1. CASE op = "copy"
      BY <1>1, <1>3, <2>1, <3>1, CodeAssumption
    <3>2. CASE op # "copy"
      BY <1>3, <3>2
    <3>3. QED
      BY <3>1, <3>2
  <2>6. PipelineFresh'
    BY <1>1, <2>1, <2>2, <2>3, <2>5 DEF PipelineFresh
  <2>7. ThumbPc' \in Hooked => prefetch'[1] = Trap
    BY <2>2, <2>3 DEF Hooked
  <2>8. ThumbPc' \in After(op, a)
    BY <1>4, <2>2 DEF After
  <2>9. QED
    BY <1>2, <2>2, <2>4, <2>6, <2>7, <2>8
<1>5. CASE op \in {"branch", "jump"} /\ \E t \in Targets : GoTo(t)
  <2>1. PICK t \in Targets : GoTo(t)
    BY <1>5
  <2>2. t \in Code /\ UNCHANGED mem
    BY <1>3, <1>5, ProgramAssumption
  <2>3. ThumbPc' \in After(op, a)
    BY <1>5, <2>1, <2>2, GoToKeeps DEF After, IInv
  <2>4. QED
    BY <1>2, <2>1, <2>2, <2>3, GoToKeeps DEF IInv
<1>6. QED
  BY <1>4, <1>5 DEF Run

-----------------------------------------------------------------------------
(* A pipeline refilled by reset or by set_thumb_pc. *)
LEMMA RefillKeeps ==
  ASSUME IInv, NEW t \in Code, GoTo(t), status' = "on",
         UNCHANGED <<mem, hook, table, calls, ran>>
  PROVE  IInv' /\ Installed' = Installed /\ Hooked' = Hooked
<1>1. Installed' = Installed /\ Kept' = Kept /\ Hooked' = Hooked
  BY DEF Installed, Kept, Hooked
<1>2. TypeOK'
  BY <1>1, GoToKeeps DEF IInv, TypeOK
<1>3. PatchesKeyed' /\ HookedFirst'
  BY <1>1 DEF IInv, PatchesKeyed, TableKeyed, HookedFirst
<1>4. QED
  BY <1>1, <1>2, <1>3, GoToKeeps DEF IInv

(* An instruction of the game's, run by itself or under its trap. *)
LEMMA RunStepKeeps ==
  ASSUME IInv, status = "on", status' = "on",
         Run(Instruction(ThumbPc), ThumbPc), UNCHANGED <<hook, table>>,
         calls' \in Seq(Code)
  PROVE  IInv' /\ Installed' = Installed /\ Hooked' = Hooked
<1>1. /\ Installed' = Installed /\ Hooked' = Hooked /\ PatchesKeyed'
      /\ mem' \in [DOMAIN Program -> Instructions]
  BY RunCopies DEF IInv
<1>2. ThumbPc \in Nat /\ Instruction(ThumbPc) \in Instructions
  BY AheadInProgram DEF IInv, PipelineFresh
<1>3. TypeOK'
  BY <1>1, <1>2, RunKeeps DEF IInv, TypeOK
<1>4. QED
  BY <1>1, <1>3, RunKeeps DEF IInv, HookedFirst

(* The displaced instruction put back in front of the pipeline, a trap or  *)
(* not.                                                                    *)
LEMMA RequeueKeeps ==
  ASSUME IInv, status = "on", status' = "on", HandlerFirst,
         mem[Cell[ThumbPc]] = Trap, ThumbPc \in Installed,
         prefetch' = <<table[ThumbPc], prefetch[2]>>,
         UNCHANGED <<mem, hook, table, r15, ran>>, calls' \in Seq(Code)
  PROVE  /\ IInv' /\ Installed' = Installed /\ Hooked' = Hooked
         /\ ThumbPc' = ThumbPc
         /\ ThumbPc \in Kept => prefetch'[1] # Trap
<1>1. /\ Installed' = Installed /\ Kept' = Kept /\ Hooked' = Hooked
      /\ ThumbPc' = ThumbPc
  BY DEF Installed, Kept, Hooked, ThumbPc
<1>2. table[ThumbPc] \in Instructions
  BY DEF IInv, TypeOK
<1>3. prefetch[2] \in Instructions
  <2>1. ThumbPc \in Code /\ r15 = ThumbPc + 1 /\ prefetch[2] = mem[Cell[r15]]
    BY DEF IInv, PipelineFresh
  <2>2. Cell[r15] \in DOMAIN Program
    BY <2>1, AheadInProgram
  <2>3. QED
    BY <2>1, <2>2 DEF IInv, TypeOK
<1>4. prefetch' \in Seq(Instructions) /\ Len(prefetch') = 2
      /\ prefetch'[1] = table[ThumbPc] /\ prefetch'[2] = prefetch[2]
  BY <1>2, <1>3
<1>5. TypeOK'
  BY <1>1, <1>4 DEF IInv, TypeOK
<1>6. PipelineFresh'
  <2>1. ThumbPc \in Hooked \/ table[ThumbPc] = Trap
    BY DEF Hooked, Kept
  <2>2. QED
    BY <1>1, <1>4, <2>1 DEF IInv, PipelineFresh
<1>7. PatchesKeyed' /\ HookedFirst'
  BY <1>1 DEF IInv, PatchesKeyed, TableKeyed, HookedFirst
<1>8. ThumbPc \in Kept => prefetch'[1] # Trap
  BY <1>4 DEF Kept
<1>9. QED
  BY <1>1, <1>5, <1>6, <1>7, <1>8 DEF IInv

(* Where the guest and what is patched are left alone. *)
LEMMA ApartFromGuest ==
  ASSUME IInv, UNCHANGED <<mem, hook, table, r15, prefetch, ran>>,
         status' \in {"off", "on", "aborted"}, status' = "on" => status = "on",
         calls' \in Seq(Code)
  PROVE  IInv' /\ Installed' = Installed /\ Hooked' = Hooked /\ ThumbPc' = ThumbPc
<1>1. /\ Installed' = Installed /\ Kept' = Kept /\ Hooked' = Hooked
      /\ ThumbPc' = ThumbPc
  BY DEF Installed, Kept, Hooked, ThumbPc
<1>2. TypeOK'
  BY <1>1 DEF IInv, TypeOK
<1>3. PatchesKeyed' /\ HookedFirst' /\ PipelineFresh'
  BY <1>1 DEF IInv, PatchesKeyed, TableKeyed, HookedFirst, PipelineFresh
<1>4. QED
  BY <1>1, <1>2, <1>3 DEF IInv

-----------------------------------------------------------------------------
(* How a state of TrapDispatch appears to HookedGuest, while the pipeline  *)
(* is fresh and no traps are set behind its back.                          *)
LEMMA GuestSteps ==
  ASSUME ~LateHooks \/ hook' = hook, IInv, [Next]_vars
  PROVE  IInv' /\ [Guest!Next]_Guest!vars
<1>1. ASSUME NEW L \in HookLists, SetTraps(L)
      PROVE  IInv' /\ Guest!Hook(Range(L))
  <2>1. status = "off"
    <3>1. hook' # hook
      BY <1>1 DEF SetTraps
    <3>2. QED
      BY <1>1, <3>1 DEF SetTraps
  <2>2. /\ Installed = {} /\ Hooked = {}
        /\ Installed' = Range(L) /\ Guest!OfEachCell(Hooked', Range(L))
        /\ TypeOK' /\ PatchesKeyed' /\ HookedFirst'
    BY <1>1, SetTrapsPatches DEF IInv
  <2>3. IInv'
    BY <1>1, <2>1, <2>2 DEF SetTraps, IInv, PipelineFresh
  <2>4. \E H \in SUBSET Range(L) : Guest!OfEachCell(H, Range(L)) /\ Hooked' = H
    BY <2>2 DEF Guest!OfEachCell
  <2>5. QED
    BY <1>1, <2>1, <2>2, <2>3, <2>4 DEF SetTraps, Guest!Hook
<1>2. ASSUME Reset PROVE IInv' /\ Guest!Reset
  <2>1. ResetVec \in Code
    BY ProgramAssumption
  <2>2. IInv' /\ Installed' = Installed /\ Hooked' = Hooked
    BY <1>2, <2>1, RefillKeeps DEF Reset
  <2>3. ThumbPc' = ResetVec /\ (ResetVec \in Hooked => prefetch'[1] = Trap)
    BY <1>2, <2>1, GoToKeeps DEF Reset, IInv
  <2>4. QED
    BY <1>2, <2>2, <2>3 DEF Reset, Guest!Reset
<1>3. ASSUME NEW v \in PcArguments, SetThumbPc(v)
      PROVE  IInv' /\ \E t \in Targets : Guest!Redirect(t)
  <2>1. Aligned(v) \in Targets
    BY ProgramAssumption DEF PcArguments, Aligned
  <2>2. Aligned(v) \in Code
    BY <2>1, ProgramAssumption
  <2>3. IInv' /\ Installed' = Installed /\ Hooked' = Hooked
    BY <1>3, <2>2, RefillKeeps DEF SetThumbPc
  <2>4. ThumbPc' = Aligned(v) /\ (Aligned(v) \in Hooked => prefetch'[1] = Trap)
    BY <1>3, <2>2, GoToKeeps DEF SetThumbPc, IInv
  <2>5. Guest!Redirect(Aligned(v))
    BY <1>3, <2>3, <2>4 DEF SetThumbPc, Guest!Redirect
  <2>6. QED
    BY <2>1, <2>3, <2>5
<1>4. ASSUME StepGuest PROVE IInv' /\ Guest!StepPlain
  <2>1. /\ status = "on" /\ status' = "on"
        /\ ThumbPc \notin Hooked \/ prefetch[1] # Trap
        /\ ~Guest!Displaced
        /\ Run(Instruction(ThumbPc), ThumbPc)
        /\ UNCHANGED <<hook, table, calls>>
    BY <1>4, TakenIsProgram DEF StepGuest, IsTrap
  <2>2. IInv' /\ Installed' = Installed /\ Hooked' = Hooked
    BY <2>1, RunStepKeeps DEF IInv, TypeOK
  <2>3. /\ ran' = <<Instruction(ThumbPc), ThumbPc>>
        /\ ThumbPc' \in After(Instruction(ThumbPc), ThumbPc)
        /\ ThumbPc' \in Hooked => prefetch'[1] = Trap
    BY <2>1, RunKeeps
  <2>4. Guest!Execute
    BY <2>1, <2>2, <2>3
       DEF Guest!Execute, Guest!Instruction, Instruction,
           Guest!After, After, Guest!FallsThrough, FallsThrough
  <2>5. QED
    BY <2>1, <2>2, <2>4 DEF Guest!StepPlain
<1>5. ASSUME StepTrap PROVE IInv' /\ (Guest!StepHooked \/ Guest!Stall)
  <2>1. /\ status = "on" /\ status' = "on" /\ Trapped
        /\ Len(calls) < MaxDepth /\ calls' = Append(calls, Caller)
        /\ UNCHANGED <<hook, table>>
    BY <1>5 DEF StepTrap, Trapped
  <2>2. /\ Caller = ThumbPc /\ ThumbPc \in Installed /\ ThumbPc \in Code
        /\ mem[Cell[ThumbPc]] = Trap /\ prefetch[1] = Trap
        /\ ThumbPc \in Kept => ThumbPc \in Hooked
        /\ ThumbPc \notin Kept => Guest!Displaced
    BY <1>5, <2>1, TrapLooksUp DEF StepTrap, Trapped, IsTrap, Taken
  <2>3. calls' \in Seq(Code)
    BY <2>1, <2>2 DEF IInv, TypeOK
  <2>4. CASE /\ HandlerFirst
            /\ prefetch' = <<table[Caller], prefetch[2]>>
            /\ UNCHANGED <<mem, r15, ran>>
    <3>1. /\ prefetch' = <<table[ThumbPc], prefetch[2]>>
          /\ UNCHANGED <<mem, r15, ran>>
      BY <2>2, <2>4
    <3>2. /\ IInv' /\ Installed' = Installed /\ Hooked' = Hooked
          /\ ThumbPc' = ThumbPc
          /\ ThumbPc \in Kept => prefetch'[1] # Trap
      BY <2>1, <2>2, <2>3, <2>4, <3>1, RequeueKeeps
    <3>3. CASE ThumbPc \in Kept
      BY <2>1, <2>2, <2>4, <3>1, <3>2, <3>3
         DEF Guest!StepHooked, Guest!HandlerFirst, HandlerFirst
    <3>4. CASE ThumbPc \notin Kept
      <4>1. ThumbPc \notin Hooked
        BY <3>4 DEF Hooked
      <4>2. QED
        BY <2>1, <2>2, <2>4, <3>1, <3>2, <3>4, <4>1
           DEF Guest!Stall, Guest!HandlerFirst, HandlerFirst
    <3>5. QED
      BY <3>2, <3>3, <3>4
  <2>5. CASE /\ HandlerAfter
            /\ table[Caller] # Trap
            /\ Run(table[Caller], ThumbPc)
    <3>1. ThumbPc \in Kept /\ ThumbPc \in Hooked
      BY <2>2, <2>5 DEF Kept
    <3>2. Run(Instruction(ThumbPc), ThumbPc)
      BY <2>2, <2>5, <3>1, KeptRuns DEF IInv
    <3>3. IInv' /\ Installed' = Installed /\ Hooked' = Hooked
      BY <2>1, <2>3, <3>2, RunStepKeeps
    <3>4. /\ ran' = <<Instruction(ThumbPc), ThumbPc>>
          /\ ThumbPc' \in After(Instruction(ThumbPc), ThumbPc)
          /\ ThumbPc' \in Hooked => prefetch'[1] = Trap
      BY <2>1, <3>2, RunKeeps
    <3>5. Guest!Execute
      BY <2>1, <3>3, <3>4
         DEF Guest!Execute, Guest!Instruction, Instruction,
             Guest!After, After, Guest!FallsThrough, FallsThrough
    <3>6. QED
      BY <2>1, <2>2, <2>5, <3>1, <3>3, <3>5
         DEF Guest!StepHooked, Guest!HandlerAfter, HandlerAfter
  <2>6. QED
    BY <1>5, <2>4, <2>5 DEF StepTrap
<1>6. ASSUME StepAgain \/ StepUnknown PROVE IInv' /\ Guest!Perish
  <2>1. /\ status = "on" /\ status' = "aborted" /\ Trapped
        /\ UNCHANGED <<mem, hook, table, r15, prefetch, calls, ran>>
    BY <1>6 DEF StepAgain, StepUnknown, Trapped
  <2>2. Caller \notin Kept
    BY <1>6 DEF StepAgain, StepUnknown, Kept
  <2>3. Guest!Displaced \/ Guest!Copied
    BY <2>1, <2>2, TrapLooksUp
  <2>4. IInv' /\ Installed' = Installed /\ Hooked' = Hooked /\ ThumbPc' = ThumbPc
    BY <2>1, ApartFromGuest DEF IInv, TypeOK
  <2>5. QED
    BY <2>1, <2>3, <2>4 DEF Guest!Perish
<1>7. ASSUME HandlerReturn PROVE IInv' /\ Guest!Return
  <2>1. calls \in Seq(Code) /\ calls # <<>>
        /\ calls' = SubSeq(calls, 1, Len(calls) - 1)
    BY <1>7 DEF HandlerReturn, IInv, TypeOK, Front
  <2>2. calls' \in Seq(Code)
    BY <2>1
  <2>3. IInv' /\ Installed' = Installed /\ Hooked' = Hooked /\ ThumbPc' = ThumbPc
    BY <1>7, <2>2, ApartFromGuest DEF HandlerReturn
  <2>4. QED
    BY <1>7, <2>3 DEF HandlerReturn, Guest!Return, Guest!Front, Front
<1>8. ASSUME UNCHANGED vars PROVE IInv' /\ UNCHANGED Guest!vars
  <2>1. IInv' /\ Installed' = Installed /\ Hooked' = Hooked /\ ThumbPc' = ThumbPc
    BY <1>8, ApartFromGuest DEF vars, IInv, TypeOK
  <2>2. QED
    BY <1>8, <2>1 DEF vars, Guest!vars
<1>9. ASSUME LoadRom PROVE IInv' /\ Guest!LoadRom
  <2>1. /\ TypeOK' /\ PatchesKeyed' /\ HookedFirst' /\ Hooked' = {}
        /\ Installed' = Installed
    BY <1>9, LoadRomRestores DEF IInv
  <2>2. IInv'
    BY <1>9, <2>1 DEF LoadRom, IInv, PipelineFresh
  <2>3. QED
    BY <1>9, <2>1, <2>2 DEF LoadRom, Guest!LoadRom
<1>10. ASSUME NEW L \in HookLists, Guest!Hook(Range(L)) PROVE Guest!Next
  BY <1>10 DEF Guest!Next, Guest!Range, Range
<1>11. QED
  BY <1>1, <1>2, <1>3, <1>4, <1>5, <1>6, <1>7, <1>8, <1>9, <1>10 DEF Next, Guest!Next

-----------------------------------------------------------------------------
(* With traps set at any moment: what of the above does not rest on what   *)
(* is in the pipeline at the time.                                         *)

LEMMA FreshIsOfCode ==
  ASSUME PatchesKeyed, PipelineFresh PROVE PipelineOfCode
BY DEF PatchesKeyed, TableKeyed, PipelineFresh, PipelineOfCode, Hooked, Kept

(* An opcode taken that is not the trapper's is the program's, whether it  *)
(* was fetched before its address was patched or not patched at all.       *)
LEMMA TakenIsOfCode ==
  ASSUME CodeInv, status = "on", ~(Taken = Trap /\ hook = "trapper")
  PROVE  Taken = Instruction(ThumbPc)
<1>1. /\ ThumbPc \in Code /\ Cell[ThumbPc] \in DOMAIN Program
      /\ prefetch[1] \in {mem[Cell[ThumbPc]], Instruction(ThumbPc)}
  BY AheadInProgram DEF CodeInv, PipelineOfCode
<1>2. CASE Taken # Trap
  BY <1>1, <1>2, ProgramElsewhere DEF CodeInv, Taken
<1>3. CASE hook = "default"
  BY <1>1, <1>3, Unpatched DEF CodeInv, Taken, Instruction
<1>4. hook \in {"default", "trapper"}
  BY DEF CodeInv, TypeOK
<1>5. QED
  BY <1>2, <1>3, <1>4

(* A trap taken is in the code now or in the program, however old the      *)
(* pipeline.                                                               *)
LEMMA TrapTakenIsThere ==
  ASSUME CodeInv, Trapped
  PROVE  /\ Caller = ThumbPc /\ ThumbPc \in Code
         /\ ThumbPc \notin Kept => Guest!Displaced \/ Guest!Copied
<1>1. /\ status = "on" /\ hook = "trapper" /\ prefetch[1] = Trap
      /\ ThumbPc \in Code /\ r15 = ThumbPc + 1 /\ ThumbPc \in Nat
      /\ prefetch[1] \in {mem[Cell[ThumbPc]], Instruction(ThumbPc)}
  BY ProgramAssumption DEF Trapped, IsTrap, Taken, CodeInv, PipelineOfCode
<1>2. Caller = ThumbPc
  BY <1>1 DEF Caller
<1>3. \/ Instruction(ThumbPc) = Trap
      \/ \E b \in Hooked : Cell[b] = Cell[ThumbPc]
      \/ Cell[ThumbPc] \in Ram /\ \E b \in Installed : Cell[b] = CopyOf[Cell[ThumbPc]]
  BY <1>1, TrapFound DEF CodeInv
<1>4. ThumbPc \notin Kept => Guest!Displaced \/ Guest!Copied
  BY <1>1, <1>3 DEF Guest!Displaced, Guest!Copied, Guest!Instruction, Instruction,
                    Guest!Trap, Trap, Guest!Ram, Ram, Hooked
<1>5. QED
  BY <1>1, <1>2, <1>4

LEMMA RefillOfCode ==
  ASSUME CodeInv, NEW t \in Code, GoTo(t), UNCHANGED mem
  PROVE  /\ PipelineOfCode' /\ r15' \in Nat
         /\ prefetch' \in Seq(Instructions) /\ Len(prefetch') = 2
<1>1. t \in Nat /\ Cell[t] \in DOMAIN Program /\ Cell[t + 1] \in DOMAIN Program
  BY AheadInProgram
<1>2. r15' = t + 1 /\ r15' \in Nat /\ ThumbPc' = t
  BY <1>1 DEF GoTo, ThumbPc
<1>3. /\ prefetch' = <<mem[Cell[t]], mem[Cell[t + 1]]>>
      /\ mem[Cell[t]] \in Instructions
      /\ mem[Cell[t + 1]] \in Instructions
  BY <1>1 DEF GoTo, Refill, CodeInv, TypeOK
<1>4. PipelineOfCode'
  BY <1>2, <1>3 DEF PipelineOfCode
<1>5. QED
  BY <1>2, <1>3, <1>4

LEMMA RunOfCode ==
  ASSUME CodeInv, status = "on",
         Run(Instruction(ThumbPc), ThumbPc), UNCHANGED table
  PROVE  /\ PipelineOfCode' /\ r15' \in Nat
         /\ prefetch' \in Seq(Instructions) /\ Len(prefetch') = 2
         /\ ran' \in (Instructions \union {"none"}) \X Nat
<1> DEFINE a == ThumbPc
           op == Instruction(a)
<1>1. /\ a \in Code /\ a \in Nat /\ r15 = a + 1 /\ op \in Instructions
      /\ prefetch[2] \in {mem[Cell[a + 1]], Instruction(a + 1)}
  BY AheadInProgram DEF CodeInv, PipelineOfCode
<1>2. ran' \in (Instructions \union {"none"}) \X Nat
  BY <1>1 DEF Run
<1>3. /\ \A c \in DOMAIN Program \ Ram : mem'[c] = mem[c]
      /\ op # "copy" => mem' = mem
  BY RunCopies DEF CodeInv
<1>4. CASE FallsThrough(op) /\ r15' = r15 + 1 /\ prefetch' = <<prefetch[2], Fetched>>
  <2>1. /\ a + 1 \in Code /\ Instruction(a + 1) \in Instructions
        /\ Cell[a + 1] \in DOMAIN Program /\ Cell[a + 2] \in DOMAIN Program
    BY <1>1, <1>4, AheadInProgram
  <2>2. r15' = a + 2 /\ ThumbPc' = a + 1 /\ r15' \in Nat
    BY <1>1, <1>4 DEF ThumbPc
  <2>3. prefetch' = <<prefetch[2], mem[Cell[a + 2]]>>
    BY <1>1, <1>4 DEF Fetched
  <2>4. /\ prefetch[2] \in Instructions
        /\ mem[Cell[a + 2]] \in Instructions
    BY <1>1, <2>1 DEF CodeInv, TypeOK
  <2>5. mem'[Cell[a + 1]] = mem[Cell[a + 1]] /\ mem'[Cell[a + 2]] = mem[Cell[a + 2]]
    <3>1. CASE op = "copy"
      BY <1>1, <1>3, <2>1, <3>1, CodeAssumption
    <3>2. CASE op # "copy"
      BY <1>3, <3>2
    <3>3. QED
      BY <3>1, <3>2
  <2>6. PipelineOfCode'
    BY <1>1, <2>1, <2>2, <2>3, <2>5 DEF PipelineOfCode
  <2>7. prefetch' \in Seq(Instructions) /\ Len(prefetch') = 2
    BY <2>3, <2>4
  <2>8. QED
    BY <1>2, <2>2, <2>6, <2>7
<1>5. CASE op \in {"branch", "jump"} /\ \E t \in Targets : GoTo(t)
  <2>1. PICK t \in Targets : GoTo(t)
    BY <1>5
  <2>2. t \in Code /\ UNCHANGED mem
    BY <1>3, <1>5, ProgramAssumption
  <2>3. QED
    BY <1>2, <2>1, <2>2, RefillOfCode
<1>6. QED
  BY <1>4, <1>5 DEF Run

(* set_traps, on a core started or not. *)
LEMMA AnySetTrapsKeeps ==
  ASSUME CodeInv, NEW L \in HookLists, SetTraps(L)
  PROVE  CodeInv'
<1>1. /\ \A c \in DOMAIN Program : mem[c] = Program[c]
      /\ TypeOK' /\ PatchesKeyed' /\ HookedFirst'
  BY SetTrapsPatches DEF CodeInv
<1>2. PipelineOfCode'
  <2> SUFFICES ASSUME status = "on" PROVE PipelineOfCode'
    BY DEF SetTraps, PipelineOfCode
  <2>1. /\ ThumbPc \in Code /\ r15 = ThumbPc + 1
        /\ Cell[ThumbPc] \in DOMAIN Program /\ Cell[r15] \in DOMAIN Program
    BY AheadInProgram DEF CodeInv, PipelineOfCode
  <2>2. /\ prefetch[1] \in {mem[Cell[ThumbPc]], Instruction(ThumbPc)}
        /\ prefetch[2] \in {mem[Cell[r15]], Instruction(r15)}
    BY DEF CodeInv, PipelineOfCode
  <2>3. prefetch[1] = Instruction(ThumbPc) /\ prefetch[2] = Instruction(r15)
    BY <1>1, <2>1, <2>2 DEF Instruction
  <2>4. UNCHANGED <<r15, prefetch>> /\ ThumbPc' = ThumbPc
    BY DEF SetTraps, ThumbPc
  <2>5. QED
    BY <2>1, <2>3, <2>4 DEF PipelineOfCode
<1>3. QED
  BY <1>1, <1>2 DEF CodeInv

LEMMA CodeInitially == Init => CodeInv
BY Initially, FreshIsOfCode DEF IInv, CodeInv

(* Where memory and table are left alone it is the registers that count. *)
LEMMA ApartKeeps ==
  ASSUME CodeInv, UNCHANGED <<mem, hook, table>>, PipelineOfCode', TypeOK'
  PROVE  CodeInv'
<1>1. Installed' = Installed /\ Kept' = Kept /\ Hooked' = Hooked
  BY DEF Installed, Kept, Hooked
<1>2. QED
  BY <1>1 DEF CodeInv, PatchesKeyed, TableKeyed, HookedFirst

LEMMA CodeKeeps == ASSUME CodeInv, [Next]_vars PROVE CodeInv'
<1>1. ASSUME NEW L \in HookLists, SetTraps(L) PROVE CodeInv'
  BY <1>1, AnySetTrapsKeeps
<1>2. ASSUME UNCHANGED table PROVE Installed' = Installed
  BY <1>2 DEF Installed
<1>3. CASE LoadRom
  <2>1. TypeOK' /\ PatchesKeyed' /\ HookedFirst'
    BY <1>3, LoadRomRestores DEF CodeInv
  <2>2. QED
    BY <1>3, <2>1 DEF LoadRom, CodeInv, PipelineOfCode
<1>4. ASSUME NEW t \in Code, GoTo(t), status' = "on",
             UNCHANGED <<mem, hook, table, calls, ran>>
      PROVE  CodeInv'
  <2>1. TypeOK'
    BY <1>2, <1>4, RefillOfCode DEF CodeInv, TypeOK
  <2>2. QED
    BY <1>4, <2>1, RefillOfCode, ApartKeeps
<1>5. CASE Reset
  BY <1>4, <1>5, ProgramAssumption DEF Reset
<1>6. ASSUME NEW v \in PcArguments, SetThumbPc(v) PROVE CodeInv'
  <2>1. Aligned(v) \in Code
    BY ProgramAssumption DEF PcArguments, Aligned
  <2>2. QED
    BY <1>4, <1>6, <2>1 DEF SetThumbPc
<1>7. ASSUME status = "on", status' = "on", Run(Instruction(ThumbPc), ThumbPc),
             UNCHANGED <<hook, table>>, calls' \in Seq(Code)
      PROVE  CodeInv'
  <2>1. mem' \in [DOMAIN Program -> Instructions] /\ PatchesKeyed'
    BY <1>7, RunCopies DEF CodeInv
  <2>2. TypeOK' /\ PipelineOfCode'
    BY <1>2, <1>7, <2>1, RunOfCode DEF CodeInv, TypeOK
  <2>3. QED
    BY <1>2, <1>7, <2>1, <2>2 DEF CodeInv, HookedFirst
<1>8. CASE StepGuest
  <2>1. status = "on" /\ Run(Instruction(ThumbPc), ThumbPc)
        /\ UNCHANGED <<status, hook, table, calls>>
    BY <1>8, TakenIsOfCode DEF StepGuest, IsTrap
  <2>2. QED
    BY <1>7, <2>1 DEF CodeInv, TypeOK
<1>9. CASE StepTrap
  <2>1. /\ status = "on" /\ status' = "on" /\ Trapped /\ prefetch[1] = Trap
        /\ Caller \in Installed /\ calls' = Append(calls, Caller)
        /\ UNCHANGED <<hook, table>>
    BY <1>9 DEF StepTrap, Trapped, IsTrap, Taken
  <2>2. /\ Caller = ThumbPc /\ ThumbPc \in Code
        /\ table[ThumbPc] \in {Instruction(ThumbPc), Trap}
    BY <2>1, TrapTakenIsThere DEF CodeInv, PatchesKeyed, TableKeyed
  <2>3. calls' \in Seq(Code)
    BY <2>1, <2>2 DEF CodeInv, TypeOK
  <2>4. CASE /\ HandlerFirst
            /\ prefetch' = <<table[Caller], prefetch[2]>>
            /\ UNCHANGED <<mem, r15, ran>>
    <3>1. /\ prefetch' = <<table[ThumbPc], prefetch[2]>>
          /\ UNCHANGED <<mem, r15, ran>>
      BY <2>2, <2>4
    <3>2. /\ prefetch[2] \in {mem[Cell[r15]], Instruction(r15)}
          /\ prefetch[1] \in {mem[Cell[ThumbPc]], Instruction(ThumbPc)}
          /\ r15 = ThumbPc + 1 /\ ThumbPc \in Code
      BY <2>1 DEF CodeInv, PipelineOfCode
    <3>3. /\ table[ThumbPc] \in Instructions
          /\ prefetch[2] \in Instructions
      <4>1. /\ Cell[r15] \in DOMAIN Program /\ Instruction(r15) \in Instructions
        BY <3>2, AheadInProgram
      <4>2. QED
        BY <2>1, <2>2, <3>2, <4>1 DEF CodeInv, TypeOK
    <3>4. prefetch' \in Seq(Instructions) /\ Len(prefetch') = 2
      BY <3>1, <3>3
    <3>5. TypeOK'
      BY <1>2, <2>1, <2>3, <3>1, <3>4 DEF CodeInv, TypeOK
    <3>6. ThumbPc' = ThumbPc /\ prefetch'[1] = table[ThumbPc]
          /\ prefetch'[2] = prefetch[2]
      BY <3>1 DEF ThumbPc
    <3>7. PipelineOfCode'
      BY <2>1, <2>2, <3>1, <3>2, <3>6 DEF PipelineOfCode
    <3>8. QED
      BY <2>1, <3>1, <3>5, <3>7, ApartKeeps
  <2>5. CASE /\ HandlerAfter
            /\ table[Caller] # Trap
            /\ Run(table[Caller], ThumbPc)
    <3>1. Run(Instruction(ThumbPc), ThumbPc)
      BY <2>2, <2>5
    <3>2. QED
      BY <1>7, <2>1, <2>3, <3>1
  <2>6. QED
    BY <1>9, <2>4, <2>5 DEF StepTrap
<1>10. ASSUME UNCHANGED <<mem, hook, table, r15, prefetch, ran>>,
              status' \in {"off", "on", "aborted"}, status' = "on" => status = "on",
              calls' \in Seq(Code)
       PROVE  CodeInv'
  <2>1. TypeOK'
    BY <1>2, <1>10 DEF CodeInv, TypeOK
  <2>2. PipelineOfCode'
    BY <1>10 DEF CodeInv, PipelineOfCode, ThumbPc
  <2>3. QED
    BY <1>10, <2>1, <2>2, ApartKeeps
<1>11. CASE StepAgain \/ StepUnknown
  BY <1>10, <1>11 DEF StepAgain, StepUnknown, CodeInv, TypeOK
<1>12. CASE HandlerReturn
  <2>1. calls \in Seq(Code) /\ calls # <<>>
        /\ calls' = SubSeq(calls, 1, Len(calls) - 1)
    BY <1>12 DEF HandlerReturn, CodeInv, TypeOK, Front
  <2>2. calls' \in Seq(Code)
    BY <2>1
  <2>3. QED
    BY <1>10, <1>12, <2>2 DEF HandlerReturn
<1>13. CASE UNCHANGED vars
  BY <1>10, <1>13 DEF vars, CodeInv, TypeOK
<1>14. QED
  BY <1>1, <1>3, <1>5, <1>6, <1>8, <1>9, <1>11, <1>12, <1>13 DEF Next

-----------------------------------------------------------------------------
(* Whenever traps are set, wherever the guest goes and whatever it copies: *)
(* the ROM differs from the cartridge by the traps alone, all of them or,  *)
(* after load_rom, none; of the addresses of one cell one has, in the      *)
(* table, the instruction displaced there, and the others, patched after   *)
(* it in the same call, have a BKPT (Trapper::new).                        *)
THEOREM TableMatchesMemory == Spec => []PatchesKeyed
<1>1. CodeInv => PatchesKeyed
  BY DEF CodeInv
<1>2. QED
  BY <1>1, CodeInitially, CodeKeeps, PTL DEF Spec

(* With traps set before the first reset, the opcodes prefetched are the   *)
(* code's at ThumbPc, or the displaced instruction whose handler has just  *)
(* been called (thumb_write_pc and ARMRunFake).                            *)
THEOREM PipelineStaysFresh ==
  ASSUME ~LateHooks
  PROVE  Spec => []PipelineFresh
<1>1. IInv /\ [Next]_vars => IInv'
  BY GuestSteps
<1>2. IInv => PipelineFresh
  BY DEF IInv
<1>3. QED
  BY <1>1, <1>2, Initially, PTL DEF Spec

(* Whenever the traps are set, the hook ends the process (by the unwrap of *)
(* its lookup, or by a BKPT displaced that calls it again and again) at    *)
(* three kinds of address and no other: one that is not hooked and reads a  *)
(* hooked cell, asked for itself or not; RAM where the game copies a       *)
(* hooked instruction; and a breakpoint of the game's own with the         *)
(* trapper's immediate (c_trapper_bkpt16).                                 *)
THEOREM AbortsOnlyAtStrays == Spec => AbortsAtStrays
<1>1. CodeInv /\ [Next]_vars =>
        [status # "aborted" /\ status' = "aborted" =>
           Guest!Displaced \/ Guest!Copied]_vars
  <2> SUFFICES ASSUME CodeInv, Next, status # "aborted", status' = "aborted"
               PROVE  Guest!Displaced \/ Guest!Copied
    OBVIOUS
  <2>1. StepAgain \/ StepUnknown
    BY DEF Next, SetTraps, LoadRom, Reset, SetThumbPc, StepGuest, StepTrap,
           HandlerReturn
  <2>2. Trapped /\ Caller \notin Kept
    BY <2>1 DEF StepAgain, StepUnknown, Kept
  <2>3. QED
    BY <2>2, TrapTakenIsThere
<1>2. QED
  BY <1>1, CodeInitially, CodeKeeps, PTL DEF Spec, AbortsAtStrays

(* "Calls handler whenever it executes", where the displaced instruction   *)
(* runs at once: no hooked instruction runs without its handler called in  *)
(* the same step.                                                          *)
THEOREM HandlersCalled ==
  ASSUME ~LateHooks, ~HandlerFirst
  PROVE  Spec => TrapsFire
<1>1. IInv /\ [Next]_vars =>
        [ran' # ran /\ ran'[2] \in Hooked => calls' # calls]_vars
  <2> SUFFICES ASSUME IInv, Next, ran' # ran, ran'[2] \in Hooked PROVE calls' # calls
    OBVIOUS
  <2>1. CASE StepGuest
    <3>1. status = "on" /\ ran'[2] = ThumbPc /\ ~(Taken = Trap /\ hook = "trapper")
      BY <2>1 DEF StepGuest, Run, IsTrap
    <3>2. ThumbPc \in Hooked /\ Taken = mem[Cell[ThumbPc]]
      BY <3>1 DEF IInv, PipelineFresh, Taken
    <3>3. Taken = Trap /\ Installed # {}
      BY <3>2 DEF Hooked, Kept
    <3>4. hook = "trapper"
      BY <3>3 DEF IInv, TypeOK, HookedFirst
    <3>5. QED
      BY <3>1, <3>3, <3>4
  <2>2. CASE StepTrap
    <3>1. calls \in Seq(Code) /\ calls' = Append(calls, Caller) /\ Caller \in Code
      BY <2>2, RomCodeCells DEF StepTrap, IInv, TypeOK
    <3>2. Len(calls') = Len(calls) + 1 /\ Len(calls) \in Nat
      BY <3>1
    <3>3. QED
      BY <3>2
  <2>3. CASE ~StepGuest /\ ~StepTrap
    BY <2>3 DEF Next, SetTraps, LoadRom, Reset, SetThumbPc, StepAgain, StepUnknown,
                HandlerReturn
  <2>4. QED
    BY <2>1, <2>2, <2>3
<1>2. IInv /\ [Next]_vars => IInv'
  BY GuestSteps
<1>3. QED
  BY <1>1, <1>2, Initially, PTL DEF Spec, TrapsFire

(* The trapper keeps the promise of OwnedCore::set_traps: each execution   *)
(* of a hooked instruction calls its handler once, the displaced           *)
(* instruction is the one that runs, and no handler is called elsewhere.   *)
(* What HookedGuest admits besides happens only where it says: at other    *)
(* addresses and copies of a hooked cell, and at the game's own BKPT #0xef.*)
THEOREM TrapsImplementGuest ==
  ASSUME ~LateHooks
  PROVE  Spec => ImplementsGuest
<1>1. Init => IInv
  BY Initially
<1>2. IInv /\ [Next]_vars => IInv' /\ [Guest!Next]_Guest!vars
  BY GuestSteps
<1>3. Init => Guest!Init
  BY DEF Init, Guest!Init, Installed, Hooked, Kept, NoTable
<1>4. QED
  BY <1>1, <1>2, <1>3, PTL DEF Spec, ImplementsGuest, Guest!Spec

(* What is lost when traps are set on a core already started is what was   *)
(* in the pipeline then: a reset or a redirect makes it fresh, fresh it    *)
(* stays, and a guest whose pipeline is fresh takes only the steps of the  *)
(* guest set_traps promises.                                               *)
THEOREM LateTrapsCatchUp ==
  Spec => [][/\ Reset \/ (\E v \in PcArguments : SetThumbPc(v)) => PipelineFresh'
             /\ PipelineFresh /\ hook' = hook =>
                  PipelineFresh' /\ (Guest!Next \/ UNCHANGED Guest!vars)]_vars
<1>1. CodeInv /\ Next =>
        /\ Reset \/ (\E v \in PcArguments : SetThumbPc(v)) => PipelineFresh'
        /\ PipelineFresh /\ hook' = hook =>
             PipelineFresh' /\ (Guest!Next \/ UNCHANGED Guest!vars)
  <2> SUFFICES ASSUME CodeInv, Next
               PROVE  /\ Reset \/ (\E v \in PcArguments : SetThumbPc(v)) => PipelineFresh'
                      /\ PipelineFresh /\ hook' = hook =>
                           PipelineFresh' /\ (Guest!Next \/ UNCHANGED Guest!vars)
    OBVIOUS
  <2>1. ASSUME NEW t \in Code, GoTo(t), UNCHANGED mem PROVE PipelineFresh'
    <3>1. r15' = t + 1 /\ ThumbPc' = t
      BY <2>1, AheadInProgram DEF GoTo, ThumbPc
    <3>2. prefetch' = <<mem'[Cell[t]], mem'[Cell[t + 1]]>>
      BY <2>1 DEF GoTo, Refill
    <3>3. QED
      BY <3>1, <3>2 DEF PipelineFresh
  <2>2. Reset => PipelineFresh'
    BY <2>1, ProgramAssumption DEF Reset
  <2>3. ASSUME NEW v \in PcArguments, SetThumbPc(v) PROVE PipelineFresh'
    <3>1. Aligned(v) \in Code
      BY ProgramAssumption DEF PcArguments, Aligned
    <3>2. QED
      BY <2>1, <2>3, <3>1 DEF SetThumbPc
  <2>4. ASSUME PipelineFresh, hook' = hook
        PROVE  PipelineFresh' /\ (Guest!Next \/ UNCHANGED Guest!vars)
    <3>1. IInv
      BY <2>4 DEF IInv, CodeInv
    <3>2. IInv' /\ [Guest!Next]_Guest!vars
      BY <2>4, <3>1, GuestSteps
    <3>3. QED
      BY <3>2 DEF IInv
  <2>5. QED
    BY <2>2, <2>3, <2>4
<1>2. CodeInv /\ [Next]_vars => CodeInv'
  BY CodeKeeps
<1>3. QED
  BY <1>1, <1>2, CodeInitially, PTL DEF Spec
=============================================================================
