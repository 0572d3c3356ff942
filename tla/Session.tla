------------------------------ MODULE Session ------------------------------
(***************************************************************************)
(* The DEBUG build over its lives: lines typed at the console of a break,  *)
(* saves that a crash may cut off, and the program started again from what *)
(* is on the disk.                                                         *)
(*                                                                         *)
(* Debugger has the other commands, ticks inside ticks and the console of  *)
(* IN; here IN finds a character.                                          *)
(***************************************************************************)
EXTENDS Machine, ParseAction, Disassembler

(* The commands whose lines are followed here.                             *)
Commands ==
  {"setip", "get_mem", "setreg", "set_mem", "showasm", "saveasm", "savestate", "loadstate",
   "go", "quit"}

CONSTANTS
  Images,    (* the files the program may be started with first            *)
  Names,     (* file names; 0 is the one generate_unique_file_name makes   *)
  First,     (* the name of the first file                                 *)
  Lines,     (* the lines the user types                                   *)
  MaxLines,  (* lines typed in all                                         *)
  MaxLives   (* times the program is started                               *)

ASSUME SessionAssumption ==
  /\ \A f \in Images : f # << >> /\ WellFormed(f)
  /\ Names \subseteq Nat /\ {0, First} \subseteq Names
  /\ \A line \in Lines :
       /\ line \in Line /\ line.cmd \in Commands \cup {"r"}
       /\ line.cmd \in {"savestate", "loadstate"} /\ line.words # << >>
            => line.words[1] \in Names \cup {Empty}
  /\ MaxLines \in Nat /\ MaxLives \in Nat \ {0}

VARIABLES
  should_break,
  at,         (* where main is: "between" two ticks; "fetched", the break  *)
              (* check ahead; "prompt", in its console; "saving", in       *)
              (* save_state; "ready", the console is behind                *)
  inst,       (* the instruction of the tick, unless between two           *)
  last_line,  (* of this console's parse_action_t                          *)
  disk,       (* the files; << >> is one that is empty or does not exist   *)
  writing,    (* the file that save_state has open                         *)
  written,    (* and how many of its steps are done                        *)
  kept,       (* history: for each file saved, the machine at that time,   *)
              (* the instruction it held, and whether save_state came to   *)
              (* its end                                                   *)
  owed,       (* history: when the machine is one that was saved and is    *)
              (* loaded again, or started from its file, and did nothing   *)
              (* since, the instruction it held then, or else "none"       *)
  lines, lives   (* how many there were                                    *)

process == << should_break, at, inst, owed >>
save    == << disk, writing, written, kept >>
vars    == << machine, status, terminal, process, last_line, save, lines, lives >>

Sections == 7

(* What virtual_machine_t, its place in main and the disk can hold         *)
(* (vm.h:67-102).                                                          *)
TypeOK ==
  /\ MachineTypeOK
  /\ should_break \in BOOLEAN
  /\ at \in {"between", "fetched", "prompt", "saving", "ready"}
  /\ inst \in Instruction /\ owed \in Instruction \cup {"none"}
  /\ last_line \in Lines \cup {Blank}
  /\ disk \in [Names -> Seq(Word)]
  /\ writing \in Names /\ written \in 0 .. Sections
  /\ DOMAIN kept \subseteq Names
  /\ lines \in 0 .. MaxLines /\ lives \in 1 .. MaxLives

Init ==
  /\ \E f \in Images :
       /\ Loaded(f)
       /\ disk = [n \in Names |-> IF n = First THEN f ELSE << >>]
  /\ status = "running" /\ terminal = -1
  /\ should_break = TRUE /\ at = "between" /\ inst = "NOOP" /\ owed = "none"
  /\ last_line = Blank
  /\ writing = First /\ written = 0 /\ kept = << >>
  /\ lines = 0 /\ lives = 1

-----------------------------------------------------------------------------
(* tick( ).                                                                *)

Dies(how) == Exit(how) /\ UNCHANGED << process, save >>

(* main( ) finds that SIGINT came (Interrupt).                             *)
Interrupted ==
  /\ Running /\ at = "between" /\ ~should_break
  /\ should_break' = TRUE
  /\ UNCHANGED << machine, status, terminal, at, inst, owed, last_line, save, lines, lives >>

Fetch ==
  /\ Running /\ at = "between"
  /\ \/ /\ FetchOperands
        /\ at' = "fetched" /\ inst' = Fetched
        /\ UNCHANGED << should_break, owed >>
     \/ FetchFails /\ UNCHANGED process
  /\ UNCHANGED << last_line, save, lines, lives >>

(* console( ), with a parse_action_t of its own.                           *)
Break ==
  /\ Running /\ at = "fetched" /\ should_break
  /\ at' = "prompt" /\ last_line' = Blank
  /\ UNCHANGED << machine, status, terminal, should_break, inst, owed, save, lines, lives >>

Run ==
  /\ Running
  /\ \/ at = "fetched" /\ ~should_break
     \/ at = "ready"
  /\ \/ /\ ~Underflow(inst)
        /\ \/ Execute(inst)
           \/ inst = "IN" /\ \E c \in Input \ {EOF} : inst_in(c)
        /\ at' = "between" /\ should_break' = FALSE /\ inst' = "NOOP" /\ owed' = "none"
        /\ UNCHANGED save
     \/ Underflow(inst) /\ Dies("failure")
  /\ UNCHANGED << last_line, lines, lives >>

-----------------------------------------------------------------------------
(* The operations; w is their tokens, and line k of w is tokens[k - 1].    *)

NoEffect == UNCHANGED << machine, status, terminal, process, save >>

Edit(regs, mem, ip) ==
  /\ registers' = regs /\ memory' = mem /\ instruction_ptr' = ip
  /\ owed' = "none"
  /\ UNCHANGED << argument_stack, program_stack, status, terminal, should_break, at, inst, save >>

set_ip(w) ==
  \E a \in convert(w[2]) :
    \/ a < MODULO /\ Edit(registers, memory, a)
    \/ a >= MODULO /\ Dies("aborted")

get_mem(w) ==
  \E a \in convert(w[2]) :
    \/ a < MODULO /\ NoEffect
    \/ a >= MODULO /\ Dies("aborted")

set_reg(w) ==
  \E a \in convert(w[2]), v \in convert(w[3]) :
    \/ a < NREGS /\ Edit([registers EXCEPT ![a] = v], memory, instruction_ptr)
    \/ a >= NREGS /\ Dies("aborted")

(* It says Error for a wrong number of tokens and goes on: past the end of *)
(* the vector it crashes, or converts what it takes for a string.          *)
set_mem(w) ==
  \/ w # << >> /\ \E a \in Unchecked(w, 2), v \in Unchecked(w, 3) :
       \/ a < MODULO /\ Edit(registers, [memory EXCEPT ![a] = v], instruction_ptr)
       \/ a >= MODULO /\ Dies("aborted")
  \/ Len(w) < 3 /\ Dies("killed")

(* A listing is printed, or ends the process.                              *)
Show(listing) ==
  \/ ~EndsProcess(listing) /\ NoEffect
  \/ EndsProcess(listing) /\ Dies("failure")

show_asm(w) ==
  \E from \in IF Len(w) > 1 THEN convert(w[2]) ELSE {0},
     to \in IF Len(w) > 2 THEN convert(w[3]) ELSE {All} :
    Show(Listing(memory, from, to))

(* Its text goes to a generated name, whatever name was typed.             *)
save_asm == Show(Listing(memory, 0, All)) \/ Dies("failure")

FileName(w) == IF w[1] = Empty THEN 0 ELSE w[1]

(* Opening the file for writing empties it, or throws.                     *)
save_state(name) ==
  \/ /\ disk' = [disk EXCEPT ![name] = << >>]
     /\ writing' = name /\ written' = 0
     /\ kept' = [n \in DOMAIN kept \cup {name} |->
                   IF n = name
                   THEN [state |-> machine, held |-> inst, whole |-> FALSE]
                   ELSE kept[n]]
     /\ at' = "saving"
     /\ UNCHANGED << machine, status, terminal, should_break, inst, owed >>
  \/ Dies("killed")

(* Loaded, of the machine to be.                                           *)
Load(f) ==
  /\ registers' = FileRegisters(f) /\ memory' = FileMemory(f)
  /\ argument_stack' = FileArgumentStack(f) /\ program_stack' = FileProgramStack(f)
  /\ instruction_ptr' = FileInstructionPtr(f)

SizesFit(state) == Len(state[3]) < 2 * MODULO /\ Len(state[4]) < 2 * MODULO

(* What the machine that was saved in a file, and is there, had yet to do. *)
Owes(name) ==
  IF name \in DOMAIN kept /\ kept[name].whole /\ SizesFit(kept[name].state)
  THEN kept[name].held ELSE "none"

(* Nothing maps a file that is not there, or empty: an exception.          *)
load_state(name) ==
  \/ /\ disk[name] # << >> /\ Load(disk[name])
     /\ owed' = Owes(name)
     /\ UNCHANGED << status, terminal, should_break, at, inst, save >>
  \/ disk[name] = << >> /\ Dies("killed")

(* Mutant of Go: tick( ) returns when its console does.                    *)
Go_Returns ==
  /\ at' = "between" /\ inst' = "NOOP" /\ should_break' = FALSE
  /\ UNCHANGED << machine, status, terminal, owed, save >>

(* go; should_break is put back here, and by tick( ) anyway.               *)
Go ==
  /\ at' = "ready" /\ should_break' = FALSE
  /\ UNCHANGED << machine, status, terminal, inst, owed, save >>

Operation(line) ==
  LET w == line.words
  IN \/ NoRest(line) /\ Dies("killed")
     \/ /\ ~NoRest(line) /\ Answered(line)
        /\ \/ line.cmd = "setip" /\ set_ip(w)
           \/ line.cmd = "get_mem" /\ get_mem(w)
           \/ line.cmd = "setreg" /\ set_reg(w)
           \/ line.cmd = "set_mem" /\ set_mem(w)
           \/ line.cmd = "showasm" /\ show_asm(w)
           \/ line.cmd = "saveasm" /\ save_asm
           \/ line.cmd = "savestate" /\ save_state(FileName(w))
           \/ line.cmd = "loadstate" /\ w[1] # Empty /\ load_state(w[1])
           \/ line.cmd = "loadstate" /\ w[1] = Empty /\ Dies("killed")
           \/ line.cmd = "go" /\ Go
           \/ line.cmd = "quit" /\ Dies("success")
     \/ ~Answered(line) /\ NoEffect            (* Error                    *)
     \/ line.cmd \notin Commands /\ NoEffect   (* help( )                  *)

Type(line) ==
  /\ Running /\ at = "prompt" /\ lines < MaxLines
  /\ last_line' = Spoken(line, last_line)
  /\ Operation(Spoken(line, last_line))
  /\ lines' = lines + 1
  /\ UNCHANGED lives

(* getline fails: the console is left with should_break as it is.          *)
EndOfInput ==
  /\ Running /\ at = "prompt"
  /\ at' = "ready"
  /\ UNCHANGED << machine, status, terminal, should_break, inst, owed, last_line, save, lines,
                  lives >>

-----------------------------------------------------------------------------
(* save_state, through the file it has mapped.                             *)

(* Mutant of total_items: the sizes of the stacks are not counted.         *)
total_items_NoSizes ==
  MODULO + NREGS + 1 + Len(program_stack) + Len(argument_stack)

total_items ==
  MODULO + NREGS + 1 + 1 + Len(program_stack) + 1 + Len(argument_stack)

(* Mutant of Section: instruction pointer and sizes first, like a header.  *)
Section_Header(i) ==
  IF i > MODULO + NREGS /\ i <= MODULO + NREGS + 2 THEN 1
  ELSE IF i <= MODULO THEN 2 ELSE IF i <= MODULO + NREGS THEN 3 ELSE 4

(* The step that writes word i: memory, registers, instruction_ptr, the    *)
(* size of a stack and the stack, twice.                                   *)
Section(i) ==
  LET stacks == MODULO + NREGS + 2
      second == stacks + Len(program_stack) + 1
  IN CASE i <= MODULO         -> 1
       [] i \in MODULO + 1 .. MODULO + NREGS -> 2
       [] i = stacks - 1      -> 3
       [] i = stacks          -> 4
       [] i \in stacks + 1 .. second - 1 -> 5
       [] i = second          -> 6
       [] OTHER               -> 7

(* The file after k of the steps; a file made longer is filled with zeros. *)
Partial(k) ==
  LET whole == Dump(memory, registers, instruction_ptr, program_stack, argument_stack)
  IN [i \in 1 .. total_items |-> IF Section(i) <= k THEN whole[i] ELSE 0]

(* The file gets its size.                                                 *)
Extend ==
  /\ Running /\ at = "saving" /\ disk[writing] = << >>
  /\ disk' = [disk EXCEPT ![writing] = Partial(0)]
  /\ UNCHANGED << machine, status, terminal, process, last_line, writing, written, kept,
                  lines, lives >>

(* One assignment, or one std::copy, taken as a step.                      *)
Write ==
  /\ Running /\ at = "saving" /\ disk[writing] # << >> /\ written < Sections
  /\ written' = written + 1
  /\ disk' = [disk EXCEPT ![writing] = Partial(written + 1)]
  /\ UNCHANGED << machine, status, terminal, process, last_line, writing, kept, lines, lives >>

(* f.close( ), and back at the prompt.                                     *)
Close ==
  /\ Running /\ at = "saving" /\ written = Sections
  /\ at' = "prompt"
  /\ kept' = [kept EXCEPT ![writing].whole = TRUE]
  /\ UNCHANGED << machine, status, terminal, should_break, inst, owed, last_line, disk,
                  writing, written, lines, lives >>

-----------------------------------------------------------------------------
(* The process is killed, or the handler of SIGINT calls exit( ) in its    *)
(* own thread.  The pages that were written stay.                          *)
Crash ==
  /\ Running
  /\ \E how \in {"success", "killed"} : Dies(how)
  /\ UNCHANGED << last_line, lines, lives >>

(* The program is started with a file that is there.                       *)
Restart ==
  /\ ~Running /\ lives < MaxLives
  /\ \E name \in Names : disk[name] # << >> /\ Load(disk[name]) /\ owed' = Owes(name)
  /\ status' = "running" /\ terminal' = -1
  /\ should_break' = TRUE /\ at' = "between" /\ inst' = "NOOP"
  /\ last_line' = Blank
  /\ lives' = lives + 1
  /\ UNCHANGED << save, lines >>

Ended == ~Running /\ lives = MaxLives /\ UNCHANGED vars

Next ==
  \/ Interrupted \/ Fetch \/ Break \/ Run
  \/ \E line \in Lines : Type(line)
  \/ EndOfInput \/ Extend \/ Write \/ Close \/ Crash \/ Restart \/ Ended

Spec == Init /\ [][Next]_vars

-----------------------------------------------------------------------------
(* What load_state makes of a file, in the order of machine.               *)
ReadBack(f) ==
  << FileRegisters(f), FileMemory(f), FileArgumentStack(f), FileProgramStack(f),
     FileInstructionPtr(f) >>

(***************************************************************************)
(* vm.cpp:91, :95: a file that save_state came to the end of gives the     *)
(* machine back as it was, in this life and in any later one, if and only  *)
(* if the sizes of both stacks fit their 16 bits.                          *)
(***************************************************************************)
RestoresSaved ==
  \A n \in DOMAIN kept :
    kept[n].whole => (ReadBack(disk[n]) = kept[n].state <=> SizesFit(kept[n].state))

(***************************************************************************)
(* vm.cpp:141-155: however a save was cut off, and whether or not its      *)
(* sizes fit, load_state never reads past the end of the file it left,     *)
(* unless the file is empty.                                               *)
(***************************************************************************)
ReadsInFile == \A n \in DOMAIN kept : disk[n] # << >> => InFile(disk[n])

(***************************************************************************)
(* vm.cpp:87-97: a save that was cut off is the saved machine up to some   *)
(* point and zeros after it.  Whatever is seen to be there vouches for     *)
(* what was written before: an instruction pointer for memory and          *)
(* registers, a stack for the instruction pointer, the argument stack for  *)
(* the program stack.                                                      *)
(***************************************************************************)
CutOffInOrder ==
  \A n \in DOMAIN kept :
    disk[n] # << >> /\ SizesFit(kept[n].state) =>
      LET was == kept[n].state
          is  == ReadBack(disk[n])
      IN /\ is[5] # 0 \/ is[4] # << >> \/ is[3] # << >> => is[1] = was[1] /\ is[2] = was[2]
         /\ is[4] # << >> \/ is[3] # << >> => is[5] = was[5]
         /\ is[3] # << >> => is[4] = was[4]

(* This module's machine as VM sees it.                                    *)
V == INSTANCE VM WITH decoded <- (IF at = "between" THEN "none" ELSE inst), residue <- << >>

Meddles(line) ==
  Type(line) /\ Spoken(line, last_line).cmd \in {"setip", "set_mem", "setreg", "loadstate"}

(***************************************************************************)
(* vm_control.cpp:116-121, vm.cpp:206-209: a console, however often it     *)
(* opens, and a save in it, whether whole, failed or cut off, are          *)
(* invisible to the program: between an edit, a load and the end of the    *)
(* process, what the machine does in any of its lives is what VM does, the *)
(* lines being typed and the file written between the two steps of a tick. *)
(***************************************************************************)
ImplementsVM ==
  [][ \/ ~Running \/ ~Running'
      \/ \E line \in Lines : Meddles(line)
      \/ (at = "between" \/ ~Underflow(inst)) /\ V!Next ]_(V!vars)

(***************************************************************************)
(* console.cpp:161, "save the state of program", :173, "load the state of  *)
(* program", vm.cpp:78, "it will be a full state dump": a program that is  *)
(* loaded, or started, from a completed save goes on where the saved one   *)
(* was: the first instruction it executes is the one that was held when it *)
(* was saved.                                                              *)
(***************************************************************************)
ResumesSaved == [][ Run /\ owed # "none" => inst = owed ]_vars

(* console.cpp:75, "<address> -> set the instruction ptr value to          *)
(* <address>", :85, "<address> <value> -> set the memory at <address> to   *)
(* <value>", and :106, "<0-7> <value> -> set the register <0-7> to         *)
(* <value>": the lines that the help describes do what it says.            *)
DocumentedLinesWork ==
  [][ \A a \in Number, v \in Number :
        /\ Type([cmd |-> "setip", words |-> << a >>]) => instruction_ptr' = a
        /\ Type([cmd |-> "set_mem", words |-> << a, v >>]) => memory'[a] = v
        /\ Type([cmd |-> "setreg", words |-> << a, v >>]) /\ a \in RegIndex
             => registers'[a] = v ]_vars
=============================================================================
