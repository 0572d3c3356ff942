---------------------------- MODULE SessionProofs ----------------------------
(***************************************************************************)
(* Theorems about Session for every memory size, number of registers, set  *)
(* of files, user, and number of lines and lives: what is on the disk after*)
(* any saves, crashes and restarts, and what load_state makes of it.       *)
(***************************************************************************)
EXTENDS Session, MachineProofs

USE DEF Number, Word, Address, RegIndex, Char, REGISTER0, NEWLINE, EOF, Operandable

(* What save_state saves, in the order of machine.                         *)
States == [RegIndex -> Word] \X [Address -> Word] \X Seq(Word) \X Seq(Word) \X Word

(* f is a save of state that was cut off after section k, or at 7 is whole.*)
Part(f, k, state) == SavedUpTo(f, k, state[2], state[1], state[5], state[4], state[3])

(* What is remembered of the saves.                                        *)
KeptOK ==
  \A n \in DOMAIN kept :
    kept[n] \in [state : States, held : Instruction, whole : BOOLEAN]

(* A file that was saved is empty, or the save up to some section, all of  *)
(* it if save_state came to its end; any other file is one that load_state *)
(* can read.                                                               *)
DiskOK ==
  \A n \in Names :
    IF n \in DOMAIN kept
    THEN \/ disk[n] = << >> /\ ~kept[n].whole
         \/ \E k \in 0 .. Sections : /\ Part(disk[n], k, kept[n].state)
                                     /\ kept[n].whole => k = Sections
    ELSE WellFormed(disk[n])

(* While save_state writes, what it writes is the present machine.         *)
SavingOK ==
  at = "saving" =>
    /\ writing \in DOMAIN kept /\ kept[writing].state = machine /\ ~kept[writing].whole
    /\ \/ disk[writing] = << >> /\ written = 0
       \/ Part(disk[writing], written, machine)

(* The inductive invariant.                                                *)
SInv == TypeOK /\ KeptOK /\ DiskOK /\ SavingOK

-----------------------------------------------------------------------------
(* The constants of Session.                                               *)
LEMMA SessionFacts ==
  /\ \A f \in Images : f # << >> /\ WellFormed(f)
  /\ 0 \in Names /\ First \in Names
  /\ MaxLines \in Nat /\ MaxLives \in Nat /\ 1 <= MaxLives
  /\ Garbage \subseteq Word
BY SessionAssumption, GarbageAssumption

(* What a line may be that the console looks at: one of the user's or the  *)
(* blank one.                                                              *)
LEMMA SpokenType ==
  ASSUME NEW line \in Lines, NEW last \in Lines \cup {Blank}
  PROVE  /\ Spoken(line, last) \in Lines \cup {Blank}
         /\ Spoken(line, last).words \in Seq(Nat \cup {Empty, Letters})
         /\ /\ Spoken(line, last).cmd \in {"savestate", "loadstate"}
            /\ Spoken(line, last).words # << >>
            => Spoken(line, last).words[1] \in Names \cup {Empty}
<1>1. Spoken(line, last) \in Lines \cup {Blank}
  BY DEF Spoken
<1>2. ASSUME NEW l \in Lines \cup {Blank}
      PROVE  /\ l.words \in Seq(Nat \cup {Empty, Letters})
             /\ l.cmd \in {"savestate", "loadstate"} /\ l.words # << >>
                => l.words[1] \in Names \cup {Empty}
  <2>1. CASE l \in Lines
    BY <2>1, SessionAssumption DEF Line
  <2>2. CASE l = Blank
    BY <2>2, EmptySeq DEF Blank
  <2> QED
    BY <2>1, <2>2
<1> QED
  BY <1>1, <1>2

(* What convert makes of a word of a line is 16 bits wide, whether it      *)
(* reads a number or nothing (parse_action.cpp, convert).                  *)
LEMMA ConvertType ==
  ASSUME NEW word \in Nat \cup {Empty, Letters}
  PROVE  convert(word) \subseteq Word
BY ConstantFacts, SessionFacts DEF convert, Empty, Letters

(* Also without a look at how many words there are.                        *)
LEMMA UncheckedType ==
  ASSUME NEW w \in Seq(Nat \cup {Empty, Letters}), NEW k \in Nat \ {0}
  PROVE  Unchecked(w, k) \subseteq Word
<1>1. CASE k <= Len(w)
  <2>1. w[k] \in Nat \cup {Empty, Letters}
    BY <1>1, ElementOfSeq, LenProperties
  <2> QED
    BY <1>1, <2>1, ConvertType DEF Unchecked
<1>2. CASE ~(k <= Len(w))
  BY <1>2, SessionFacts DEF Unchecked
<1> QED
  BY <1>1, <1>2

(* The machine is a state that can be saved.                               *)
LEMMA MachineIsState == MachineTypeOK => machine \in States
BY DEF MachineTypeOK, machine, States

(* The file that save_state has mapped, after k of its steps.              *)
LEMMA PartialIsPart ==
  ASSUME MachineTypeOK, NEW k \in 0 .. Sections
  PROVE  Part(Partial(k), k, machine)
<1>1. PICK p : p = MODULO + NREGS + 2
  OBVIOUS
<1>2. PICK a : a = p + Len(program_stack) + 1
  OBVIOUS
<1>3. PICK whole : whole = Dump(memory, registers, instruction_ptr, program_stack, argument_stack)
  OBVIOUS
<1>4. PICK f : f = Partial(k)
  OBVIOUS
<1>5. /\ Len(program_stack) \in Nat /\ Len(argument_stack) \in Nat
      /\ MODULO \in Nat /\ NREGS \in Nat /\ p \in Nat /\ a \in Nat
  BY <1>1, <1>2, LenProperties, ConstantFacts DEF MachineTypeOK
<1>6. /\ whole \in Seq(Word) /\ Len(whole) = a + Len(argument_stack)
      /\ \A i \in 1 .. MODULO : whole[i] = memory[i - 1]
      /\ \A i \in 1 .. NREGS : whole[MODULO + i] = registers[i - 1]
      /\ whole[p - 1] = instruction_ptr
      /\ whole[p] = Len(program_stack) % (2 * MODULO)
      /\ \A i \in 1 .. Len(program_stack) : whole[p + i] = program_stack[i]
      /\ whole[a] = Len(argument_stack) % (2 * MODULO)
      /\ \A i \in 1 .. Len(argument_stack) : whole[a + i] = argument_stack[i]
  <2>1. SavedUpTo(whole, 7, memory, registers, instruction_ptr, program_stack, argument_stack)
    BY <1>3, DumpLayout DEF MachineTypeOK
  <2> QED
    BY <1>1, <1>2, <2>1 DEF SavedUpTo
<1>7. total_items = a + Len(argument_stack)
  BY <1>1, <1>2, <1>5 DEF total_items
<1>8. f = [i \in 1 .. a + Len(argument_stack) |-> IF Section(i) <= k THEN whole[i] ELSE 0]
  BY <1>3, <1>4, <1>7 DEF Partial
<1>9. f \in Seq(Word) /\ Len(f) = a + Len(argument_stack)
  <2>1. \A i \in 1 .. a + Len(argument_stack) : (IF Section(i) <= k THEN whole[i] ELSE 0) \in Word
    BY <1>6, ElementOfSeq, ConstantFacts
  <2>2. f \in [1 .. a + Len(argument_stack) -> Word]
    BY <1>8, <2>1
  <2>3. a + Len(argument_stack) \in Nat
    BY <1>5
  <2> QED
    BY <2>2, <2>3, FunctionIsSeq
<1>10. /\ \A i \in 1 .. MODULO : Section(i) = 1
       /\ \A i \in 1 .. NREGS : Section(MODULO + i) = 2
       /\ Section(p - 1) = 3 /\ Section(p) = 4
       /\ \A i \in 1 .. Len(program_stack) : Section(p + i) = 5
       /\ Section(a) = 6
       /\ \A i \in 1 .. Len(argument_stack) : Section(a + i) = 7
  <2>1. ASSUME NEW i \in Nat
        PROVE  /\ i <= MODULO => Section(i) = 1
               /\ ~(i <= MODULO) =>
                    /\ i \in MODULO + 1 .. MODULO + NREGS => Section(i) = 2
                    /\ i \notin MODULO + 1 .. MODULO + NREGS =>
                         /\ i = p - 1 => Section(i) = 3
                         /\ i # p - 1 =>
                              /\ i = p => Section(i) = 4
                              /\ i # p =>
                                   /\ i \in p + 1 .. a - 1 => Section(i) = 5
                                   /\ i \notin p + 1 .. a - 1 =>
                                        Section(i) = IF i = a THEN 6 ELSE 7
    <3>1. CASE i <= MODULO
      <4>1. i \notin MODULO + 1 .. MODULO + NREGS /\ i # p - 1 /\ i # p /\ i \notin p + 1 .. a - 1 /\ i # a
        BY <1>1, <1>2, <1>5, <3>1
      <4> QED
        BY <1>1, <1>2, <3>1, <4>1 DEF Section
    <3>2. CASE i \in MODULO + 1 .. MODULO + NREGS
      <4>1. ~(i <= MODULO) /\ i # p - 1 /\ i # p /\ i \notin p + 1 .. a - 1 /\ i # a
        BY <1>1, <1>2, <1>5, <3>2
      <4> QED
        BY <1>1, <1>2, <3>2, <4>1 DEF Section
    <3>3. CASE ~(i <= MODULO) /\ i \notin MODULO + 1 .. MODULO + NREGS
      <4>1. CASE i = p - 1
        <5>1. i # p /\ i \notin p + 1 .. a - 1 /\ i # a
          BY <1>1, <1>2, <1>5, <4>1
        <5> QED
          BY <1>1, <1>2, <3>3, <4>1, <5>1 DEF Section
      <4>2. CASE i = p
        <5>1. i # p - 1 /\ i \notin p + 1 .. a - 1 /\ i # a
          BY <1>1, <1>2, <1>5, <4>2
        <5> QED
          BY <1>1, <1>2, <3>3, <4>2, <5>1 DEF Section
      <4>3. CASE i \in p + 1 .. a - 1
        <5>1. i # p - 1 /\ i # p /\ i # a
          BY <1>1, <1>2, <1>5, <4>3
        <5> QED
          BY <1>1, <1>2, <3>3, <4>3, <5>1 DEF Section
      <4>4. CASE i # p - 1 /\ i # p /\ i \notin p + 1 .. a - 1
        BY <1>1, <1>2, <3>3, <4>4 DEF Section
      <4> QED
        BY <3>3, <4>1, <4>2, <4>3, <4>4
    <3> QED
      BY <3>1, <3>2, <3>3
  <2>2. ASSUME NEW i \in 1 .. MODULO PROVE Section(i) = 1
    BY <1>5, <2>1
  <2>3. ASSUME NEW i \in 1 .. NREGS PROVE Section(MODULO + i) = 2
    <3>1. MODULO + i \in Nat /\ ~(MODULO + i <= MODULO) /\ MODULO + i \in MODULO + 1 .. MODULO + NREGS
      BY <1>5
    <3> QED
      BY <2>1, <3>1
  <2>4. Section(p - 1) = 3 /\ Section(p) = 4
    <3>1. /\ p - 1 \in Nat /\ ~(p - 1 <= MODULO) /\ p - 1 \notin MODULO + 1 .. MODULO + NREGS
          /\ ~(p <= MODULO) /\ p \notin MODULO + 1 .. MODULO + NREGS /\ p # p - 1
      BY <1>1, <1>5
    <3> QED
      BY <1>5, <2>1, <3>1
  <2>5. ASSUME NEW i \in 1 .. Len(program_stack) PROVE Section(p + i) = 5
    <3>1. /\ p + i \in Nat /\ ~(p + i <= MODULO) /\ p + i \notin MODULO + 1 .. MODULO + NREGS
          /\ p + i # p - 1 /\ p + i # p /\ p + i \in p + 1 .. a - 1
      BY <1>1, <1>2, <1>5
    <3> QED
      BY <2>1, <3>1
  <2>6. ASSUME NEW i \in Nat
        PROVE  Section(a + i) = IF i = 0 THEN 6 ELSE 7
    <3>1. /\ a + i \in Nat /\ ~(a + i <= MODULO) /\ a + i \notin MODULO + 1 .. MODULO + NREGS
          /\ a + i # p - 1 /\ a + i # p /\ a + i \notin p + 1 .. a - 1
          /\ a + i = a <=> i = 0
      <4>1. a \in Nat /\ p \in Nat /\ MODULO + NREGS < p - 1 /\ p < a
        BY <1>1, <1>2, <1>5
      <4>2. MODULO \in Nat /\ NREGS \in Nat
        BY <1>5
      <4>3. PICK j : j = a + i
        OBVIOUS
      <4>4. j \in Nat /\ a <= j /\ (j = a <=> i = 0)
        BY ONLY <2>6, <4>1, <4>3
      <4>5. /\ ~(j <= MODULO) /\ j \notin MODULO + 1 .. MODULO + NREGS
            /\ j # p - 1 /\ j # p /\ j \notin p + 1 .. a - 1
        BY ONLY <4>1, <4>2, <4>4
      <4> QED
        BY ONLY <4>3, <4>4, <4>5
    <3>2. PICK j \in Nat : j = a + i
      BY <3>1
    <3>3. /\ ~(j <= MODULO) /\ j \notin MODULO + 1 .. MODULO + NREGS
          /\ j # p - 1 /\ j # p /\ j \notin p + 1 .. a - 1
      BY ONLY <3>1, <3>2
    <3>4. Section(j) = IF j = a THEN 6 ELSE 7
      BY ONLY <2>1, <3>2, <3>3
    <3> QED
      BY ONLY <3>1, <3>2, <3>4
  <2>7. Section(a) = 6 /\ \A i \in 1 .. Len(argument_stack) : Section(a + i) = 7
    <3>1. Section(a) = 6
      <4>1. PICK i \in Nat : i = 0
        OBVIOUS
      <4>2. Section(a + i) = 6
        BY ONLY <2>6, <4>1
      <4>3. a + i = a
        BY <1>5, <4>1
      <4> QED
        BY ONLY <4>2, <4>3
    <3>2. \A i \in 1 .. Len(argument_stack) : i \in Nat /\ i # 0
      BY <1>5
    <3> QED
      BY <2>6, <3>1, <3>2
  <2> QED
    BY <2>2, <2>3, <2>4, <2>5, <2>7
<1>11. /\ \A i \in 1 .. MODULO : f[i] = IF k >= 1 THEN memory[i - 1] ELSE 0
       /\ \A i \in 1 .. NREGS : f[MODULO + i] = IF k >= 2 THEN registers[i - 1] ELSE 0
       /\ f[p - 1] = IF k >= 3 THEN instruction_ptr ELSE 0
       /\ f[p] = IF k >= 4 THEN Len(program_stack) % (2 * MODULO) ELSE 0
       /\ \A i \in 1 .. Len(program_stack) : f[p + i] = IF k >= 5 THEN program_stack[i] ELSE 0
       /\ f[a] = IF k >= 6 THEN Len(argument_stack) % (2 * MODULO) ELSE 0
       /\ \A i \in 1 .. Len(argument_stack) : f[a + i] = IF k >= 7 THEN argument_stack[i] ELSE 0
  <2>1. ASSUME NEW i \in 1 .. a + Len(argument_stack)
        PROVE  f[i] = IF Section(i) <= k THEN whole[i] ELSE 0
    BY <1>8
  <2>2. /\ \A i \in 1 .. MODULO : i \in 1 .. a + Len(argument_stack)
        /\ \A i \in 1 .. NREGS : MODULO + i \in 1 .. a + Len(argument_stack)
        /\ p - 1 \in 1 .. a + Len(argument_stack) /\ p \in 1 .. a + Len(argument_stack)
        /\ \A i \in 1 .. Len(program_stack) : p + i \in 1 .. a + Len(argument_stack)
        /\ a \in 1 .. a + Len(argument_stack)
        /\ \A i \in 1 .. Len(argument_stack) : a + i \in 1 .. a + Len(argument_stack)
    BY <1>1, <1>2, <1>5
  <2>3. /\ \A i \in 1 .. MODULO : f[i] = IF k >= 1 THEN memory[i - 1] ELSE 0
        /\ \A i \in 1 .. NREGS : f[MODULO + i] = IF k >= 2 THEN registers[i - 1] ELSE 0
    BY <1>6, <1>10, <2>1, <2>2
  <2>4. /\ f[p - 1] = IF k >= 3 THEN instruction_ptr ELSE 0
        /\ f[p] = IF k >= 4 THEN Len(program_stack) % (2 * MODULO) ELSE 0
        /\ f[a] = IF k >= 6 THEN Len(argument_stack) % (2 * MODULO) ELSE 0
    BY <1>6, <1>10, <2>1, <2>2
  <2>5. \A i \in 1 .. Len(program_stack) : f[p + i] = IF k >= 5 THEN program_stack[i] ELSE 0
    BY <1>6, <1>10, <2>1, <2>2
  <2>6. \A i \in 1 .. Len(argument_stack) : f[a + i] = IF k >= 7 THEN argument_stack[i] ELSE 0
    BY <1>6, <1>10, <2>1, <2>2
  <2> QED
    BY <2>3, <2>4, <2>5, <2>6
<1> QED
  BY <1>1, <1>2, <1>4, <1>9, <1>11 DEF Part, SavedUpTo, machine

-----------------------------------------------------------------------------
(* What a line at the prompt may come to.                                  *)

Edited ==
  /\ MachineTypeOK' /\ owed' \in Instruction \cup {"none"}
  /\ UNCHANGED << should_break, at, inst, save >>

Outcome ==
  \/ NoEffect
  \/ \E how \in {"success", "failure", "killed", "aborted"} : Dies(how)
  \/ Edited
  \/ \E name \in Names : save_state(name)
  \/ Go

(* An edit of one word keeps the types.                                    *)
LEMMA EditType ==
  ASSUME MachineTypeOK, NEW regs \in [RegIndex -> Word], NEW mem \in [Address -> Word],
         NEW ip \in Word, Edit(regs, mem, ip)
  PROVE  Edited
BY DEF Edit, Edited, MachineTypeOK

(* So does loading a file that is there.                                   *)
LEMMA LoadType ==
  ASSUME NEW f, WellFormed(f), Load(f)
  PROVE  /\ registers' \in [RegIndex -> Word] /\ memory' \in [Address -> Word]
         /\ argument_stack' \in Seq(Word) /\ program_stack' \in Seq(Word)
         /\ instruction_ptr' \in Word
BY FileType DEF Load

(* Every file on the disk that is not empty can be loaded.                 *)
LEMMA DiskWellFormed ==
  ASSUME KeptOK, DiskOK, NEW name \in Names, disk[name] # << >>
  PROVE  WellFormed(disk[name])
<1>1. CASE name \notin DOMAIN kept
  BY <1>1 DEF DiskOK
<1>2. CASE name \in DOMAIN kept
  <2>1. PICK k \in 0 .. 7 : Part(disk[name], k, kept[name].state)
    BY <1>2 DEF DiskOK, Sections
  <2>2. kept[name].state \in States
    BY <1>2 DEF KeptOK
  <2>3. kept[name].state[3] \in Seq(Word) /\ kept[name].state[4] \in Seq(Word)
    BY <2>2 DEF States
  <2> QED
    BY <2>1, <2>3, PartIsInFile DEF Part
<1> QED
  BY <1>1, <1>2

(* What a file owes is an instruction, or none.                            *)
LEMMA OwesType ==
  ASSUME KeptOK, NEW name
  PROVE  Owes(name) \in Instruction \cup {"none"}
BY DEF Owes, KeptOK

(* Each command, one by one.                                               *)
LEMMA OperationOutcome ==
  ASSUME MachineTypeOK, KeptOK, DiskOK, NEW line,
         line.words \in Seq(Nat \cup {Empty, Letters}),
         line.cmd \in {"savestate", "loadstate"} /\ line.words # << >>
           => line.words[1] \in Names \cup {Empty},
         Operation(line)
  PROVE  Outcome
<1> DEFINE w == line.words
<1>1. \A k \in 1 .. Len(w) : w[k] \in Nat \cup {Empty, Letters}
  BY ElementOfSeq
<1>2. ASSUME Answered(line), line.cmd = "setip", set_ip(w) PROVE Outcome
  <2>1. Len(w) = 2
    BY <1>2 DEF Answered, Asked
  <2>2. convert(w[2]) \subseteq Word
    <3>1. w[2] \in Nat \cup {Empty, Letters}
      BY <1>1, <2>1
    <3> QED
      BY <3>1, ConvertType
  <2>3. PICK a \in convert(w[2]) : \/ a < MODULO /\ Edit(registers, memory, a)
                                   \/ a >= MODULO /\ Dies("aborted")
    BY <1>2 DEF set_ip
  <2> QED
    BY <2>2, <2>3, EditType DEF Outcome, MachineTypeOK
<1>3. ASSUME line.cmd = "get_mem", get_mem(w) PROVE Outcome
  BY <1>3 DEF get_mem, Outcome
<1>4. ASSUME Answered(line), line.cmd = "setreg", set_reg(w) PROVE Outcome
  <2>1. Len(w) = 3
    BY <1>4 DEF Answered, Asked
  <2>2. convert(w[2]) \subseteq Word /\ convert(w[3]) \subseteq Word
    <3>1. w[2] \in Nat \cup {Empty, Letters} /\ w[3] \in Nat \cup {Empty, Letters}
      BY <1>1, <2>1
    <3> QED
      BY <3>1, ConvertType
  <2>3. PICK a \in convert(w[2]), v \in convert(w[3]) :
          \/ a < NREGS /\ Edit([registers EXCEPT ![a] = v], memory, instruction_ptr)
          \/ a >= NREGS /\ Dies("aborted")
    BY <1>4 DEF set_reg
  <2>4. [registers EXCEPT ![a] = v] \in [RegIndex -> Word]
    BY <2>2 DEF MachineTypeOK
  <2> QED
    BY <2>3, <2>4, EditType DEF Outcome, MachineTypeOK
<1>5. ASSUME line.cmd = "set_mem", set_mem(w) PROVE Outcome
  <2>1. CASE Dies("killed")
    BY <2>1 DEF Outcome
  <2>2. CASE \E a \in Unchecked(w, 2), v \in Unchecked(w, 3) :
               \/ a < MODULO /\ Edit(registers, [memory EXCEPT ![a] = v], instruction_ptr)
               \/ a >= MODULO /\ Dies("aborted")
    <3>1. PICK a \in Unchecked(w, 2), v \in Unchecked(w, 3) :
            \/ a < MODULO /\ Edit(registers, [memory EXCEPT ![a] = v], instruction_ptr)
            \/ a >= MODULO /\ Dies("aborted")
      BY <2>2
    <3>2. Unchecked(w, 2) \subseteq Word /\ Unchecked(w, 3) \subseteq Word
      <4>1. w \in Seq(Nat \cup {Empty, Letters}) /\ 2 \in Nat \ {0} /\ 3 \in Nat \ {0}
        OBVIOUS
      <4> HIDE DEF w, Word
      <4> QED
        BY <4>1, UncheckedType
    <3>3. [memory EXCEPT ![a] = v] \in [Address -> Word]
      BY <3>2 DEF MachineTypeOK
    <3> QED
      BY <3>1, <3>3, EditType DEF Outcome, MachineTypeOK
  <2> QED
    BY <1>5, <2>1, <2>2 DEF set_mem
<1>6. ASSUME NEW listing, Show(listing) PROVE Outcome
  BY <1>6 DEF Show, Outcome
<1>7. ASSUME line.cmd = "showasm", show_asm(w) PROVE Outcome
  BY <1>6, <1>7 DEF show_asm
<1>8. ASSUME line.cmd = "saveasm", save_asm PROVE Outcome
  BY <1>6, <1>8 DEF save_asm, Outcome
<1>9. ASSUME ~NoRest(line), line.cmd = "savestate", save_state(FileName(w)) PROVE Outcome
  <2>1. w[1] \in Names \cup {Empty}
    BY <1>9 DEF NoRest, Untokenized
  <2>2. FileName(w) \in Names
    BY <2>1, SessionFacts DEF FileName
  <2> QED
    BY <1>9, <2>2 DEF Outcome
<1>10. ASSUME ~NoRest(line), line.cmd = "loadstate", w[1] # Empty, load_state(w[1]) PROVE Outcome
  <2>1. w[1] \in Names
    BY <1>10 DEF NoRest, Untokenized
  <2>2. CASE disk[w[1]] = << >> /\ Dies("killed")
    BY <2>2 DEF Outcome
  <2>3. CASE /\ disk[w[1]] # << >> /\ Load(disk[w[1]])
             /\ owed' = Owes(w[1])
             /\ UNCHANGED << status, terminal, should_break, at, inst, save >>
    <3>1. WellFormed(disk[w[1]])
      BY <2>1, <2>3, DiskWellFormed
    <3>2. MachineTypeOK'
      BY <2>3, <3>1, LoadType DEF MachineTypeOK
    <3> QED
      BY <2>3, <3>2, OwesType DEF Edited, Outcome
  <2> QED
    BY <1>10, <2>2, <2>3 DEF load_state
<1>11. ASSUME Dies("killed") \/ Dies("success") \/ Go \/ NoEffect PROVE Outcome
  BY <1>11 DEF Outcome
<1> HIDE DEF w
<1> QED
  BY <1>2, <1>3, <1>4, <1>5, <1>7, <1>8, <1>9, <1>10, <1>11 DEF Operation, w

-----------------------------------------------------------------------------
(* The inductive invariant, step by step.                                  *)

(* What is not written stays as it is on the disk and in memory of it.     *)
LEMMA SavesStay ==
  ASSUME KeptOK, DiskOK, UNCHANGED save
  PROVE  KeptOK' /\ DiskOK'
BY DEF save, KeptOK, DiskOK

(* A step that leaves the machine and the files alone and stays where it   *)
(* is.                                                                     *)
LEMMA QuietStep ==
  ASSUME KeptOK, DiskOK, SavingOK, UNCHANGED << machine, at, save >>
  PROVE  KeptOK' /\ DiskOK' /\ SavingOK'
<1>1. KeptOK' /\ DiskOK'
  BY SavesStay
<1> QED
  BY <1>1 DEF save, machine, SavingOK

(* One that goes elsewhere, not to save_state, with the files alone.       *)
LEMMA LeavingStep ==
  ASSUME KeptOK, DiskOK, UNCHANGED save, at' # "saving"
  PROVE  KeptOK' /\ DiskOK' /\ SavingOK'
BY SavesStay DEF SavingOK

(* The process ends: the files stay.                                       *)
LEMMA DiesStep ==
  ASSUME SInv, NEW how \in {"success", "failure", "killed", "aborted"}, Dies(how),
         last_line' \in Lines \cup {Blank}, lines' \in 0 .. MaxLines, UNCHANGED lives
  PROVE  SInv'
<1>1. MachineTypeOK'
  BY ExitLeaves DEF Dies, Leaves, SInv, TypeOK
<1>2. TypeOK'
  BY <1>1 DEF Dies, process, save, SInv, TypeOK
<1>3. KeptOK' /\ DiskOK' /\ SavingOK'
  BY QuietStep DEF Dies, Exit, process, SInv
<1> QED
  BY <1>2, <1>3 DEF SInv

LEMMA InitOK == Init => SInv
<1> SUFFICES ASSUME Init PROVE SInv
  OBVIOUS
<1>1. PICK f \in Images : /\ Loaded(f)
                          /\ disk = [n \in Names |-> IF n = First THEN f ELSE << >>]
  BY DEF Init
<1>2. WellFormed(f) /\ f \in Seq(Word) /\ WellFormed(<< >>) /\ << >> \in Seq(Word)
  BY SessionFacts, ConstantFacts DEF WellFormed, IsDump
<1>3. MachineTypeOK
  BY <1>1, <1>2, LoadedType DEF Init, MachineTypeOK
<1>4. inst \in Instruction
  <2>1. decoder[22] = "NOOP" /\ 22 \in 1 .. 22
    BY DEF decoder
  <2> QED
    BY <2>1 DEF Init, Instruction
<1>5. TypeOK
  <2>1. disk \in [Names -> Seq(Word)]
    BY <1>1, <1>2
  <2>2. DOMAIN kept = {} /\ written \in 0 .. Sections
    BY DEF Init, Sections
  <2>3. lines \in 0 .. MaxLines /\ lives \in 1 .. MaxLives /\ writing \in Names
    BY SessionFacts DEF Init
  <2> QED
    BY <1>3, <1>4, <2>1, <2>2, <2>3 DEF Init, TypeOK
<1>6. KeptOK /\ DiskOK /\ SavingOK
  BY <1>1, <1>2 DEF Init, KeptOK, DiskOK, SavingOK
<1> QED
  BY <1>5, <1>6 DEF SInv

(* main( ) finds that SIGINT came.                                         *)
LEMMA InterruptedStep == SInv /\ Interrupted => SInv'
<1> SUFFICES ASSUME SInv, Interrupted PROVE SInv'
  OBVIOUS
<1>1. TypeOK'
  BY DEF SInv, TypeOK, Interrupted, MachineTypeOK, machine, save
<1>2. KeptOK' /\ DiskOK' /\ SavingOK'
  BY QuietStep DEF SInv, Interrupted
<1> QED
  BY <1>1, <1>2 DEF SInv

LEMMA FetchStep == SInv /\ Fetch => SInv'
<1> SUFFICES ASSUME SInv, Fetch PROVE SInv'
  OBVIOUS
<1>1. MachineTypeOK
  BY DEF SInv, TypeOK
<1>2. CASE FetchOperands
  <2>1. at' = "fetched" /\ inst' = Fetched /\ UNCHANGED << should_break, owed >>
    <3>1. CanFetch
      BY <1>2 DEF FetchOperands
    <3> QED
      BY <3>1 DEF Fetch, FetchFails
  <2>2. MachineTypeOK' /\ Fetched \in Instruction
    BY <1>1, <1>2, FetchFacts
  <2>3. TypeOK'
    BY <2>1, <2>2 DEF SInv, TypeOK, Fetch, save
  <2>4. KeptOK' /\ DiskOK' /\ SavingOK'
    BY <2>1, LeavingStep DEF SInv, Fetch
  <2> QED
    BY <2>3, <2>4 DEF SInv
<1>3. CASE FetchFails /\ UNCHANGED process
  <2>1. Dies("failure")
    BY <1>3 DEF FetchFails, Fetch, Dies
  <2> QED
    BY <2>1, DiesStep DEF Fetch, SInv, TypeOK
<1> QED
  BY <1>2, <1>3 DEF Fetch

(* The console is entered, and left at the end of the input.               *)
LEMMA BreakStep == SInv /\ (Break \/ EndOfInput) => SInv'
<1> SUFFICES ASSUME SInv, Break \/ EndOfInput PROVE SInv'
  OBVIOUS
<1>1. /\ UNCHANGED << machine, status, terminal, should_break, inst, owed, save, lines, lives >>
      /\ at' \in {"prompt", "ready"} /\ last_line' \in Lines \cup {Blank}
  BY DEF Break, EndOfInput, SInv, TypeOK
<1>2. TypeOK'
  BY <1>1 DEF SInv, TypeOK, MachineTypeOK, machine, save
<1>3. KeptOK' /\ DiskOK' /\ SavingOK'
  BY <1>1, LeavingStep DEF SInv
<1> QED
  BY <1>2, <1>3 DEF SInv

(* The instruction of the tick.                                            *)
LEMMA RunStep == SInv /\ Run => SInv'
<1> SUFFICES ASSUME SInv, Run PROVE SInv'
  OBVIOUS
<1>1. CASE Underflow(inst) /\ Dies("failure")
  BY <1>1, DiesStep DEF Run, SInv, TypeOK
<1>2. CASE /\ ~Underflow(inst)
           /\ \/ Execute(inst)
              \/ inst = "IN" /\ \E c \in Input \ {EOF} : inst_in(c)
           /\ at' = "between" /\ should_break' = FALSE /\ inst' = "NOOP" /\ owed' = "none"
           /\ UNCHANGED save
  <2>1. MachineTypeOK'
    <3>1. MachineTypeOK /\ inst \in Instruction
      BY DEF SInv, TypeOK
    <3>2. Execute(inst) \/ (inst = "IN" /\ \E c \in Input : inst_in(c))
      BY <1>2
    <3> QED
      BY <1>2, <3>1, <3>2, ExecuteLeaves DEF Leaves
  <2>2. inst' \in Instruction
    <3>1. decoder[22] = "NOOP" /\ 22 \in 1 .. 22
      BY DEF decoder
    <3> QED
      BY <1>2, <3>1 DEF Instruction
  <2>3. TypeOK'
    BY <1>2, <2>1, <2>2 DEF SInv, TypeOK, Run, save
  <2>4. KeptOK' /\ DiskOK' /\ SavingOK'
    BY <1>2, LeavingStep DEF SInv
  <2> QED
    BY <2>3, <2>4 DEF SInv
<1> QED
  BY <1>1, <1>2 DEF Run

(* A line at the prompt: whatever it comes to.                             *)
LEMMA TypeStep == SInv /\ (\E line \in Lines : Type(line)) => SInv'
<1> SUFFICES ASSUME SInv, NEW typed \in Lines, Type(typed) PROVE SInv'
  OBVIOUS
<1>1. PICK line : line = Spoken(typed, last_line)
  OBVIOUS
<1>2. /\ last_line' = line /\ Operation(line) /\ at = "prompt" /\ Running
      /\ lines < MaxLines /\ lines' = lines + 1 /\ lives' = lives
  BY <1>1 DEF Type
<1>3. /\ line \in Lines \cup {Blank}
      /\ line.words \in Seq(Nat \cup {Empty, Letters})
      /\ line.cmd \in {"savestate", "loadstate"} /\ line.words # << >>
         => line.words[1] \in Names \cup {Empty}
  BY <1>1, SpokenType DEF SInv, TypeOK
<1>4. last_line' \in Lines \cup {Blank} /\ lines' \in 0 .. MaxLines /\ lives' \in 1 .. MaxLives
  BY <1>2, <1>3, SessionFacts DEF SInv, TypeOK
<1>5. Outcome
  BY <1>2, <1>3, OperationOutcome DEF SInv, TypeOK
<1>6. CASE NoEffect
  <2>1. TypeOK'
    BY <1>4, <1>6 DEF NoEffect, SInv, TypeOK, MachineTypeOK, machine, process, save
  <2>2. KeptOK' /\ DiskOK' /\ SavingOK'
    BY <1>6, QuietStep DEF NoEffect, process, SInv
  <2> QED
    BY <2>1, <2>2 DEF SInv
<1>7. CASE \E how \in {"success", "failure", "killed", "aborted"} : Dies(how)
  BY <1>2, <1>4, <1>7, DiesStep
<1>8. CASE Edited
  <2>1. TypeOK'
    BY <1>4, <1>8 DEF Edited, SInv, TypeOK, save
  <2>2. KeptOK' /\ DiskOK' /\ SavingOK'
    BY <1>2, <1>8, LeavingStep DEF Edited, SInv
  <2> QED
    BY <2>1, <2>2 DEF SInv
<1>9. CASE Go
  <2>1. TypeOK'
    BY <1>4, <1>9 DEF Go, SInv, TypeOK, MachineTypeOK, machine, save
  <2>2. KeptOK' /\ DiskOK' /\ SavingOK'
    BY <1>9, LeavingStep DEF Go, SInv
  <2> QED
    BY <2>1, <2>2 DEF SInv
<1>10. CASE \E name \in Names : save_state(name)
  <2>1. PICK name \in Names : save_state(name)
    BY <1>10
  <2>2. CASE Dies("killed")
    BY <1>2, <1>4, <2>2, DiesStep
  <2>3. CASE ~Dies("killed")
    <3>1. PICK r : r = [state |-> machine, held |-> inst, whole |-> FALSE]
      OBVIOUS
    <3>2. /\ disk' = [disk EXCEPT ![name] = << >>]
          /\ writing' = name /\ written' = 0 /\ at' = "saving"
          /\ kept' = [n \in DOMAIN kept \cup {name} |-> IF n = name THEN r ELSE kept[n]]
          /\ UNCHANGED << machine, status, terminal, should_break, inst, owed >>
      BY <2>1, <2>3, <3>1 DEF save_state
    <3>3. /\ r \in [state : States, held : Instruction, whole : BOOLEAN]
          /\ r.state = machine /\ ~r.whole
      BY <3>1, MachineIsState DEF SInv, TypeOK
    <3>4. /\ DOMAIN kept' = DOMAIN kept \cup {name} /\ kept'[name] = r
          /\ \A n \in DOMAIN kept : n # name => kept'[n] = kept[n]
      BY <3>2
    <3>5. disk'[name] = << >> /\ \A n \in Names : n # name => disk'[n] = disk[n]
      BY <3>2 DEF SInv, TypeOK
    <3>6. TypeOK'
      <4>1. disk' \in [Names -> Seq(Word)]
        BY <3>2, EmptySeq DEF SInv, TypeOK
      <4>2. MachineTypeOK'
        BY <3>2 DEF SInv, TypeOK, MachineTypeOK, machine
      <4>3. written' \in 0 .. Sections
        BY <3>2 DEF Sections
      <4> QED
        BY <1>4, <3>2, <3>4, <4>1, <4>2, <4>3 DEF SInv, TypeOK
    <3>7. KeptOK'
      BY <3>3, <3>4 DEF SInv, KeptOK
    <3>8. DiskOK'
      <4>1. ASSUME NEW n \in Names, n # name
            PROVE  IF n \in DOMAIN kept'
                   THEN \/ disk'[n] = << >> /\ ~kept'[n].whole
                        \/ \E k \in 0 .. Sections : /\ Part(disk'[n], k, kept'[n].state)
                                                    /\ kept'[n].whole => k = Sections
                   ELSE WellFormed(disk'[n])
        <5>1. disk'[n] = disk[n] /\ (n \in DOMAIN kept' <=> n \in DOMAIN kept)
              /\ (n \in DOMAIN kept => kept'[n] = kept[n])
          BY <3>4, <3>5, <4>1
        <5>2. IF n \in DOMAIN kept
              THEN \/ disk[n] = << >> /\ ~kept[n].whole
                   \/ \E k \in 0 .. Sections : /\ Part(disk[n], k, kept[n].state)
                                               /\ kept[n].whole => k = Sections
              ELSE WellFormed(disk[n])
          BY DEF SInv, DiskOK
        <5>3. CASE n \in DOMAIN kept
          BY <5>1, <5>2, <5>3
        <5>4. CASE n \notin DOMAIN kept
          BY <5>1, <5>2, <5>4
        <5> QED
          BY <5>3, <5>4
      <4> QED
        BY <3>3, <3>4, <3>5, <4>1 DEF DiskOK
    <3>9. SavingOK'
      BY <3>2, <3>3, <3>4, <3>5 DEF SavingOK
    <3> QED
      BY <3>6, <3>7, <3>8, <3>9 DEF SInv
  <2> QED
    BY <2>2, <2>3
<1> QED
  BY <1>5, <1>6, <1>7, <1>8, <1>9, <1>10 DEF Outcome

(* A file with some of a save in it is not empty.                          *)
LEMMA PartNotEmpty ==
  ASSUME NEW k \in 0 .. Sections, NEW f, NEW state \in States, Part(f, k, state)
  PROVE  f # << >>
<1>1. state[3] \in Seq(Word) /\ state[4] \in Seq(Word)
  BY DEF States
<1>2. IsDump(f)
  BY <1>1, PartIsInFile DEF Part, Sections
<1> QED
  BY <1>2, ConstantFacts DEF IsDump

(* save_state gets on with the file: it gets its size, or a section.       *)
LEMMA SectionWritten ==
  ASSUME SInv, at = "saving", NEW k \in 0 .. Sections,
         disk' = [disk EXCEPT ![writing] = Partial(k)], written' = k,
         UNCHANGED << machine, status, terminal, process, last_line, writing, kept, lines, lives >>
  PROVE  SInv'
<1>1. Part(Partial(k), k, machine)
  BY PartialIsPart DEF SInv, TypeOK
<1>2. Partial(k) \in Seq(Word)
  BY <1>1 DEF Part, SavedUpTo
<1>3. writing \in Names /\ writing \in DOMAIN kept /\ kept[writing].state = machine
      /\ ~kept[writing].whole
  BY DEF SInv, TypeOK, SavingOK
<1>4. /\ disk'[writing] = Partial(k) /\ \A n \in Names : n # writing => disk'[n] = disk[n]
      /\ disk' \in [Names -> Seq(Word)]
  BY <1>2, <1>3 DEF SInv, TypeOK
<1>5. machine' = machine /\ kept' = kept /\ writing' = writing
  BY DEF machine
<1>6. TypeOK'
  BY <1>4 DEF SInv, TypeOK, MachineTypeOK, machine, process
<1>7. KeptOK'
  BY <1>5 DEF SInv, KeptOK
<1>8. DiskOK'
  <2>1. DiskOK
    BY DEF SInv
  <2> QED
    BY <1>1, <1>3, <1>4, <1>5, <2>1 DEF DiskOK
<1>9. SavingOK'
  BY <1>1, <1>3, <1>4, <1>5 DEF SavingOK
<1> QED
  BY <1>6, <1>7, <1>8, <1>9 DEF SInv

LEMMA ExtendStep == SInv /\ Extend => SInv'
<1> SUFFICES ASSUME SInv, Extend PROVE SInv'
  OBVIOUS
<1>1. written \in 0 .. Sections /\ machine \in States
  BY MachineIsState DEF SInv, TypeOK
<1>2. written = 0
  BY <1>1, PartNotEmpty DEF SInv, SavingOK, Extend
<1> QED
  BY <1>1, <1>2, SectionWritten DEF Extend

LEMMA WriteStep == SInv /\ Write => SInv'
<1> SUFFICES ASSUME SInv, Write PROVE SInv'
  OBVIOUS
<1>1. written + 1 \in 0 .. Sections
  BY DEF SInv, TypeOK, Write, Sections
<1> QED
  BY <1>1, SectionWritten DEF Write

(* The save is complete: what the file holds is the machine.               *)
LEMMA CloseStep == SInv /\ Close => SInv'
<1> SUFFICES ASSUME SInv, Close PROVE SInv'
  OBVIOUS
<1>1. /\ at = "saving" /\ written = Sections /\ at' = "prompt"
      /\ kept' = [kept EXCEPT ![writing].whole = TRUE]
      /\ UNCHANGED << machine, status, terminal, should_break, inst, owed, last_line, disk,
                      writing, written, lines, lives >>
  BY DEF Close
<1>2. writing \in DOMAIN kept /\ kept[writing].state = machine
      /\ Part(disk[writing], Sections, machine)
  BY <1>1 DEF SInv, SavingOK, Sections
<1>3. PICK r : r = kept[writing]
  OBVIOUS
<1>4. r \in [state : States, held : Instruction, whole : BOOLEAN]
  BY <1>2, <1>3 DEF SInv, KeptOK
<1>5. PICK q : q = [r EXCEPT !.whole = TRUE]
  OBVIOUS
<1>6. /\ q \in [state : States, held : Instruction, whole : BOOLEAN]
      /\ q.state = r.state /\ q.whole = TRUE
  BY <1>4, <1>5
<1>7. kept' = [kept EXCEPT ![writing] = q]
  BY <1>1, <1>3, <1>5
<1>8. /\ DOMAIN kept' = DOMAIN kept
      /\ \A n \in DOMAIN kept : kept'[n] = IF n = writing THEN q ELSE kept[n]
  BY <1>7
<1>9. TypeOK'
  BY <1>1, <1>8 DEF SInv, TypeOK, MachineTypeOK, machine
<1>10. KeptOK'
  BY <1>6, <1>8 DEF SInv, KeptOK
<1>11. DiskOK'
  <2>1. DiskOK /\ disk' = disk /\ Sections \in 0 .. Sections
    BY <1>1 DEF SInv, Sections
  <2>2. Part(disk'[writing], Sections, q.state)
    BY <1>2, <1>3, <1>6, <2>1
  <2> QED
    BY <1>2, <1>8, <2>1, <2>2 DEF DiskOK
<1>12. SavingOK'
  BY <1>1 DEF SavingOK
<1> QED
  BY <1>9, <1>10, <1>11, <1>12 DEF SInv

LEMMA CrashStep == SInv /\ Crash => SInv'
BY DiesStep DEF Crash, SInv, TypeOK

(* The program is started again, with any file that is there.              *)
LEMMA RestartStep == SInv /\ Restart => SInv'
<1> SUFFICES ASSUME SInv, Restart PROVE SInv'
  OBVIOUS
<1>1. PICK name \in Names : disk[name] # << >> /\ Load(disk[name]) /\ owed' = Owes(name)
  BY DEF Restart
<1>2. MachineTypeOK'
  <2>1. WellFormed(disk[name])
    BY <1>1, DiskWellFormed DEF SInv
  <2>2. status' = "running" /\ terminal' = -1
    BY DEF Restart
  <2> QED
    BY <1>1, <2>1, <2>2, LoadType DEF MachineTypeOK
<1>3. inst' \in Instruction
  <2>1. decoder[22] = "NOOP" /\ 22 \in 1 .. 22
    BY DEF decoder
  <2> QED
    BY <2>1 DEF Restart, Instruction
<1>4. TypeOK'
  <2>1. lives' \in 1 .. MaxLives
    BY SessionFacts DEF Restart, SInv, TypeOK
  <2>2. owed' \in Instruction \cup {"none"}
    BY <1>1, OwesType DEF SInv
  <2> QED
    BY <1>2, <1>3, <2>1, <2>2 DEF Restart, SInv, TypeOK, save
<1>5. KeptOK' /\ DiskOK' /\ SavingOK'
  BY LeavingStep DEF Restart, SInv
<1> QED
  BY <1>4, <1>5 DEF SInv

LEMMA StutterStep == SInv /\ UNCHANGED vars => SInv'
<1> SUFFICES ASSUME SInv, UNCHANGED vars PROVE SInv'
  OBVIOUS
<1>1. TypeOK'
  BY DEF SInv, TypeOK, MachineTypeOK, vars, machine, process, save
<1>2. KeptOK' /\ DiskOK' /\ SavingOK'
  BY QuietStep DEF SInv, vars, process
<1> QED
  BY <1>1, <1>2 DEF SInv

-----------------------------------------------------------------------------
(* What holds in every state of every run.                                 *)
LEMMA Inductive == Spec => []SInv
<1>1. SInv /\ [Next]_vars => SInv'
  BY InterruptedStep, FetchStep, BreakStep, RunStep, TypeStep, ExtendStep, WriteStep, CloseStep,
     CrashStep, RestartStep, StutterStep DEF Next, Ended
<1> QED
  BY InitOK, <1>1, PTL DEF Spec

(* A saved file that is not empty, with what is remembered of the save.    *)
LEMMA SavedFile ==
  ASSUME SInv, NEW n \in DOMAIN kept, disk[n] # << >>
  PROVE  /\ kept[n].state \in States
         /\ \E k \in 0 .. 7 : /\ Part(disk[n], k, kept[n].state)
                              /\ kept[n].whole => k = 7
BY DEF SInv, TypeOK, KeptOK, DiskOK, Sections

(* The parts of a state that was saved.                                    *)
LEMMA StateParts ==
  ASSUME NEW state \in States
  PROVE  /\ state[1] \in [RegIndex -> Word] /\ state[2] \in [Address -> Word]
         /\ state[3] \in Seq(Word) /\ state[4] \in Seq(Word) /\ state[5] \in Word
         /\ state = << state[1], state[2], state[3], state[4], state[5] >>
BY DEF States

(* A save that was completed is on the disk.                               *)
LEMMA WholeIsThere ==
  ASSUME SInv, NEW n \in DOMAIN kept, kept[n].whole
  PROVE  disk[n] # << >> /\ kept[n].state \in States /\ Part(disk[n], 7, kept[n].state)
<1>1. kept[n].state \in States
  BY DEF SInv, KeptOK
<1>2. Part(disk[n], 7, kept[n].state)
  BY DEF SInv, TypeOK, DiskOK, Sections
<1> QED
  BY <1>1, <1>2, PartNotEmpty DEF Sections

(* And reads back as what was saved, if and only if the sizes fit.         *)
LEMMA WholeIsRestored ==
  ASSUME SInv, NEW n \in DOMAIN kept, kept[n].whole
  PROVE  ReadBack(disk[n]) = kept[n].state <=> SizesFit(kept[n].state)
<1>1. PICK state : state = kept[n].state
  OBVIOUS
<1>2. PICK f : f = disk[n]
  OBVIOUS
<1>3. state \in States /\ Part(f, 7, state)
  BY <1>1, <1>2, WholeIsThere
<1>4. /\ state[1] \in [RegIndex -> Word] /\ state[2] \in [Address -> Word]
      /\ state[3] \in Seq(Word) /\ state[4] \in Seq(Word)
      /\ state = << state[1], state[2], state[3], state[4], state[5] >>
  BY <1>3, StateParts
<1>5. (/\ FileMemory(f) = state[2] /\ FileRegisters(f) = state[1]
       /\ FileInstructionPtr(f) = state[5]
       /\ FileProgramStack(f) = state[4] /\ FileArgumentStack(f) = state[3])
      <=> Len(state[4]) < 2 * MODULO /\ Len(state[3]) < 2 * MODULO
  <2>1. SavedUpTo(f, 7, state[2], state[1], state[5], state[4], state[3])
    BY <1>3 DEF Part
  <2> QED
    BY ONLY <1>4, <2>1, WholeReadsBack
<1>6. ReadBack(f) = state <=>
        /\ FileMemory(f) = state[2] /\ FileRegisters(f) = state[1]
        /\ FileInstructionPtr(f) = state[5]
        /\ FileProgramStack(f) = state[4] /\ FileArgumentStack(f) = state[3]
  BY <1>4 DEF ReadBack
<1> QED
  BY <1>1, <1>2, <1>5, <1>6 DEF SizesFit

(***************************************************************************)
(* What virtual_machine_t, main and the disk hold is always of its type,   *)
(* whatever is typed, loaded, cut off or started again.                    *)
(***************************************************************************)
THEOREM TypeCorrect == Spec => []TypeOK
<1>1. SInv => TypeOK
  BY DEF SInv
<1> QED
  BY Inductive, <1>1, PTL

(***************************************************************************)
(* vm.cpp:141-155: load_state never reads past the end of a file that      *)
(* save_state left, however it was cut off.                                *)
(***************************************************************************)
THEOREM SavedFilesAreReadable == Spec => []ReadsInFile
<1>1. SInv => ReadsInFile
  <2> SUFFICES ASSUME SInv, NEW n \in DOMAIN kept, disk[n] # << >> PROVE InFile(disk[n])
    BY DEF ReadsInFile
  <2>1. PICK k \in 0 .. 7 : Part(disk[n], k, kept[n].state)
    BY SavedFile
  <2>2. kept[n].state[3] \in Seq(Word) /\ kept[n].state[4] \in Seq(Word)
    BY SavedFile, StateParts
  <2> QED
    BY <2>1, <2>2, PartIsInFile DEF Part
<1> QED
  BY Inductive, <1>1, PTL

(***************************************************************************)
(* vm.cpp:91, :95: a completed save gives the machine back, in any later   *)
(* life, exactly when the sizes of both stacks fit 16 bits.                *)
(***************************************************************************)
THEOREM CompletedSavesRestore == Spec => []RestoresSaved
<1>1. SInv => RestoresSaved
  BY WholeIsRestored DEF RestoresSaved
<1> QED
  BY Inductive, <1>1, PTL

(***************************************************************************)
(* vm.cpp:87-97: a save that was cut off is the saved machine up to some   *)
(* point, and nothing after it.                                            *)
(***************************************************************************)
THEOREM CutOffSavesAreInOrder == Spec => []CutOffInOrder
<1>1. SInv => CutOffInOrder
  <2> SUFFICES ASSUME SInv, NEW n \in DOMAIN kept, disk[n] # << >>, SizesFit(kept[n].state),
                      NEW was, was = kept[n].state, NEW is, is = ReadBack(disk[n])
               PROVE  /\ is[5] # 0 \/ is[4] # << >> \/ is[3] # << >>
                           => is[1] = was[1] /\ is[2] = was[2]
                      /\ is[4] # << >> \/ is[3] # << >> => is[5] = was[5]
                      /\ is[3] # << >> => is[4] = was[4]
    BY DEF CutOffInOrder
  <2>1. PICK f : f = disk[n]
    OBVIOUS
  <2>2. was \in States /\ \E k \in 0 .. 7 : Part(f, k, was)
    BY <2>1, SavedFile
  <2>3. PICK k \in 0 .. 7 : Part(f, k, was)
    BY <2>2
  <2>4. /\ was[1] \in [RegIndex -> Word] /\ was[2] \in [Address -> Word]
        /\ was[3] \in Seq(Word) /\ was[4] \in Seq(Word) /\ Len(was[4]) < 2 * MODULO
    BY <2>2, StateParts DEF SizesFit
  <2>5. ReadsInOrder(f, was[2], was[1], was[5], was[4])
    <3>1. k \in 0 .. 7 /\ SavedUpTo(f, k, was[2], was[1], was[5], was[4], was[3])
      BY <2>3 DEF Part
    <3> QED
      BY ONLY <2>4, <3>1, PartReadsInOrder
  <2>6. /\ is[1] = FileRegisters(f) /\ is[2] = FileMemory(f) /\ is[3] = FileArgumentStack(f)
        /\ is[4] = FileProgramStack(f) /\ is[5] = FileInstructionPtr(f)
    BY <2>1 DEF ReadBack
  <2> QED
    BY <2>5, <2>6 DEF ReadsInOrder
<1> QED
  BY Inductive, <1>1, PTL

-----------------------------------------------------------------------------
(* A user who types setip and setreg as the console's help describes them. *)
AsTheHelpSays ==
  \A line \in Lines : /\ line.cmd = "setip" => Len(line.words) = 1
                      /\ line.cmd = "setreg" => Len(line.words) = 2

(* No line but a loadstate touches a register or the instruction pointer.  *)
OnlyLoadsMove ==
  [][ \A line \in Lines :
        Type(line) /\ Spoken(line, last_line).cmd # "loadstate"
          => UNCHANGED << registers, instruction_ptr >> ]_vars

(* Such an operation leaves them, set_mem and every way to die included.   *)
LEMMA OperationMoves ==
  ASSUME NEW line, Operation(line), line.cmd # "loadstate",
         line.cmd \in {"setip", "setreg"} => ~Answered(line)
  PROVE  UNCHANGED << registers, instruction_ptr >>
<1> DEFINE w == line.words
<1>1. ASSUME NEW how, Dies(how) PROVE UNCHANGED << registers, instruction_ptr >>
  BY <1>1 DEF Dies, Exit, machine
<1>2. ASSUME NoEffect PROVE UNCHANGED << registers, instruction_ptr >>
  BY <1>2 DEF NoEffect, machine
<1>3. ASSUME NEW listing, Show(listing) PROVE UNCHANGED << registers, instruction_ptr >>
  BY <1>1, <1>2, <1>3 DEF Show
<1>4. ASSUME set_mem(w) PROVE UNCHANGED << registers, instruction_ptr >>
  BY <1>1, <1>4 DEF set_mem, Edit
<1>5. ASSUME get_mem(w) \/ show_asm(w) \/ save_asm PROVE UNCHANGED << registers, instruction_ptr >>
  BY <1>1, <1>2, <1>3, <1>5 DEF get_mem, show_asm, save_asm
<1>6. ASSUME save_state(FileName(w)) \/ Go PROVE UNCHANGED << registers, instruction_ptr >>
  BY <1>1, <1>6 DEF save_state, Go, machine
<1> HIDE DEF w
<1> QED
  BY <1>1, <1>2, <1>4, <1>5, <1>6 DEF Operation, w

(***************************************************************************)
(* console.cpp:75, "<address> -> set the instruction ptr value to          *)
(* <address>", and :106, "<0-7> <value> -> set the register <0-7> to       *)
(* <value>": on no machine and in no state does a line of that form, or an *)
(* r that repeats it, set anything (Session_args is one of them).  What    *)
(* sets these at the console is loadstate.                                 *)
(***************************************************************************)
THEOREM DocumentedEditsAreLost ==
  ASSUME AsTheHelpSays
  PROVE  Spec => OnlyLoadsMove
<1>1. ASSUME SInv, NEW typed \in Lines, Type(typed), Spoken(typed, last_line).cmd # "loadstate"
      PROVE  UNCHANGED << registers, instruction_ptr >>
  <2>1. PICK line : line = Spoken(typed, last_line)
    OBVIOUS
  <2>2. line \in Lines \cup {Blank}
    <3>1. last_line \in Lines \cup {Blank}
      BY <1>1 DEF SInv, TypeOK
    <3> QED
      BY <2>1, <3>1, SpokenType
  <2>3. line.cmd \in {"setip", "setreg"} => ~Answered(line)
    <3>1. CASE line = Blank
      BY <3>1 DEF Blank
    <3>2. CASE line \in Lines
      <4>1. /\ line.cmd = "setip" => Len(line.words) = 1
            /\ line.cmd = "setreg" => Len(line.words) = 2
        BY <3>2 DEF AsTheHelpSays
      <4>2. /\ "setip" \in DOMAIN Asked /\ Asked["setip"] = 2
            /\ "setreg" \in DOMAIN Asked /\ Asked["setreg"] = 3
        BY DEF Asked
      <4>3. PICK n : n = Len(line.words)
        OBVIOUS
      <4>4. ASSUME line.cmd = "setip", Answered(line) PROVE FALSE
        <5>1. n = 2 /\ n = 1
          BY <4>1, <4>2, <4>3, <4>4 DEF Answered
        <5> QED
          BY ONLY <5>1
      <4>5. ASSUME line.cmd = "setreg", Answered(line) PROVE FALSE
        <5>1. n = 3 /\ n = 2
          BY <4>1, <4>2, <4>3, <4>5 DEF Answered
        <5> QED
          BY ONLY <5>1
      <4> QED
        BY <4>4, <4>5
    <3> QED
      BY <2>2, <3>1, <3>2
  <2>4. Operation(line)
    BY <1>1, <2>1 DEF Type
  <2> QED
    BY <1>1, <2>1, <2>3, <2>4, OperationMoves
<1>2. SInv => [\A line \in Lines :
                 Type(line) /\ Spoken(line, last_line).cmd # "loadstate"
                   => UNCHANGED << registers, instruction_ptr >>]_vars
  BY <1>1
<1> QED
  BY Inductive, <1>2, PTL DEF OnlyLoadsMove

-----------------------------------------------------------------------------
(* The machine of a life, seen as VM.  V has the variables of Machine for  *)
(* its own: expanded, what it fetches and executes is the same formula.    *)
USE DEF V!Address, V!REGISTER0, V!NEWLINE, V!EOF

LEMMA SeenExecute ==
  ASSUME NEW i
  PROVE  V!Execute(i) <=> Execute(i)
BY DEF V!Execute, Execute, V!Rejects, Rejects, V!StackExhausted, StackExhausted, V!Exit,
       Exit, V!Rejected, Rejected, V!Unused, Unused, V!Perform, Perform,
       V!inst_halt, inst_halt, V!inst_set, inst_set, V!inst_push, inst_push,
       V!inst_pop, inst_pop, V!inst_eq, inst_eq, V!inst_gt, inst_gt, V!inst_jmp,
       inst_jmp, V!inst_jt, inst_jt, V!inst_jf, inst_jf, V!inst_add, inst_add,
       V!inst_mult, inst_mult, V!inst_mod, inst_mod, V!inst_and, inst_and,
       V!inst_or, inst_or, V!inst_not, inst_not, V!inst_rmem, inst_rmem,
       V!inst_wmem, inst_wmem, V!inst_call, inst_call, V!inst_ret, inst_ret,
       V!inst_out, inst_out, V!inst_noop, inst_noop, V!Store, Store, V!Goto, Goto,
       V!Push, Push, V!Assign, Assign, V!Pop, Pop, V!Top, Top, V!Val, Val,
       V!Operand, Operand, V!get_value, get_value, V!is_register, is_register,
       V!is_valid, is_valid, V!is_value, is_value, V!BitNot15, BitNot15,
       V!arg_count, arg_count, V!machine, machine

LEMMA SeenRead ==
  ASSUME NEW c
  PROVE  V!inst_in(c) <=> inst_in(c)
BY DEF V!inst_in, inst_in, V!CharRead, CharRead, V!Rejected, Rejected, V!Unused, Unused,
       V!Store, Store, V!Assign, Assign, V!Pop, Pop, V!Exit, Exit, V!Operand,
       Operand, V!Val, Val, V!get_value, get_value, V!is_register, is_register,
       V!is_valid, is_valid, V!arg_count, arg_count, V!machine, machine

LEMMA SeenFetch ==
  /\ V!Fetched = Fetched
  /\ V!FetchOperands <=> FetchOperands
BY DEF V!FetchOperands, FetchOperands, V!FetchFails, FetchFails, V!CanFetch, CanFetch,
       V!Fetched, Fetched, V!OperandsAt, OperandsAt, V!Exit, Exit, V!Decode, Decode,
       V!decoder, decoder, V!is_instruction, is_instruction, V!is_valid, is_valid,
       V!arg_count, arg_count, V!machine, machine

(* Each step, seen as VM: its own, nothing, or one of the exceptions.      *)
Seen ==
  \/ ~Running \/ ~Running'
  \/ \E line \in Lines : Meddles(line)
  \/ (at = "between" \/ ~Underflow(inst)) /\ V!Next
  \/ UNCHANGED V!vars

(* Steps of the console and of save_state.                                 *)
LEMMA QuietSeen ==
  ASSUME UNCHANGED << machine, status, terminal, inst >>, at = "between" <=> at' = "between"
  PROVE  Seen
BY DEF Seen, V!vars, machine

(* A line that neither edits nor loads.                                    *)
LEMMA OperationQuiet ==
  ASSUME NEW line, Operation(line), at = "prompt",
         line.cmd \notin {"setip", "set_mem", "setreg", "loadstate"}
  PROVE  \/ ~Running'
         \/ UNCHANGED << machine, status, terminal, inst >> /\ at' # "between"
<1> DEFINE w == line.words
           Quiet == \/ ~Running'
                    \/ UNCHANGED << machine, status, terminal, inst >> /\ at' # "between"
<1>1. ASSUME NEW how \in {"success", "failure", "killed", "aborted"}, Dies(how) PROVE Quiet
  BY <1>1 DEF Dies, Exit, Running
<1>2. ASSUME NoEffect PROVE Quiet
  BY <1>2 DEF NoEffect, process
<1>3. ASSUME NEW listing, Show(listing) PROVE Quiet
  BY <1>1, <1>2, <1>3 DEF Show
<1>4. ASSUME get_mem(w) \/ show_asm(w) \/ save_asm PROVE Quiet
  BY <1>1, <1>2, <1>3, <1>4 DEF get_mem, show_asm, save_asm
<1>5. ASSUME save_state(FileName(w)) \/ Go PROVE Quiet
  BY <1>1, <1>5 DEF save_state, Go
<1> HIDE DEF w, Quiet
<1>6. Quiet
  BY <1>1, <1>2, <1>4, <1>5 DEF Operation, w
<1> QED
  BY <1>6 DEF Quiet

LEMMA FetchSeen ==
  ASSUME Fetch
  PROVE  Seen
<1>1. CASE FetchFails
  BY <1>1 DEF FetchFails, Exit, Running, Seen
<1>2. CASE FetchOperands /\ at' = "fetched" /\ inst' = Fetched
  <2>1. status = "running" /\ at = "between"
    BY DEF Fetch, Running
  <2>2. V!FetchOperands /\ V!Fetched = Fetched
    BY <1>2, SeenFetch
  <2> QED
    BY <1>2, <2>1, <2>2 DEF Seen, V!Next, V!Fetch, V!Running
<1> QED
  BY <1>1, <1>2 DEF Fetch

LEMMA RunSeen ==
  ASSUME TypeOK, Run
  PROVE  Seen
<1>1. CASE Dies("failure")
  BY <1>1 DEF Dies, Exit, Running, Seen
<1>2. CASE /\ ~Underflow(inst)
           /\ Execute(inst) \/ (inst = "IN" /\ \E c \in Input : inst_in(c))
           /\ at' = "between"
  <2>1. SUFFICES ASSUME Running' PROVE Seen
    BY DEF Seen
  <2>2. status = "running" /\ at # "between"
    BY DEF Run, Running
  <2>3. inst # "none"
    BY NoneIsNoInstruction DEF TypeOK
  <2>4. V!Execute(inst) \/ (inst = "IN" /\ \E c \in Input : V!inst_in(c))
    BY <1>2, SeenExecute, SeenRead
  <2>5. V!Instruct
    BY <1>2, <2>1, <2>2, <2>3, <2>4 DEF V!Instruct, V!Running, Running
  <2> QED
    BY <1>2, <2>5 DEF Seen, V!Next
<1> QED
  BY <1>1, <1>2 DEF Run

LEMMA StepSeen ==
  ASSUME TypeOK, [Next]_vars
  PROVE  Seen
<1>1. CASE Interrupted \/ UNCHANGED vars
  BY <1>1, QuietSeen DEF Interrupted, vars, process
<1>2. CASE Break \/ EndOfInput \/ Extend \/ Write \/ Close
  BY <1>2, QuietSeen DEF Break, EndOfInput, Extend, Write, Close, process
<1>3. CASE Fetch
  BY <1>3, FetchSeen
<1>4. CASE Run
  BY <1>4, RunSeen
<1>5. ASSUME NEW line \in Lines, Type(line) PROVE Seen
  <2>1. SUFFICES ASSUME ~Meddles(line), Running' PROVE Seen
    BY DEF Seen
  <2>2. PICK spoken : spoken = Spoken(line, last_line)
    OBVIOUS
  <2>3. /\ Operation(spoken) /\ at = "prompt"
        /\ spoken.cmd \notin {"setip", "set_mem", "setreg", "loadstate"}
    BY <1>5, <2>1, <2>2 DEF Type, Meddles
  <2> QED
    BY <2>1, <2>3, OperationQuiet, QuietSeen
<1>6. CASE Crash \/ Restart \/ Ended
  BY <1>6 DEF Crash, Restart, Ended, Dies, Exit, Running, Seen
<1> QED
  BY <1>1, <1>2, <1>3, <1>4, <1>5, <1>6 DEF Next

(***************************************************************************)
(* vm_control.cpp:116-121, vm.cpp:206-209: consoles and saves are          *)
(* invisible to the program, for every program, user and number of lives:  *)
(* until something is edited or loaded or the process ends, the machine    *)
(* does what VM does.                                                      *)
(***************************************************************************)
THEOREM SavesAreInvisible == Spec => ImplementsVM
<1>1. SInv /\ [Next]_vars
        => [ \/ ~Running \/ ~Running'
             \/ \E line \in Lines : Meddles(line)
             \/ (at = "between" \/ ~Underflow(inst)) /\ V!Next ]_(V!vars)
  BY StepSeen DEF Seen, SInv
<1> QED
  BY Inductive, <1>1, PTL DEF Spec, ImplementsVM
=============================================================================
