------------------------------ MODULE Debugger ------------------------------
(***************************************************************************)
(* The DEBUG build: tick( ) with its break check and its trace, and the    *)
(* console that a break or an end of input opens.                          *)
(*                                                                         *)
(* The console is called from the middle of a tick, after the operands of  *)
(* its instruction were pushed and before it runs (vm.cpp:206-209), or     *)
(* inside IN (vm.cpp:630-633); its tick command calls tick( true ), whose  *)
(* IN can open another console.  frames is that C++ call stack: one record *)
(* per tick( ) that has not returned.                                      *)
(***************************************************************************)
EXTENDS Machine, Disassembler

CONSTANTS
  Images,     (* the files the program may be started with                 *)
  Commands,   (* the console commands the user knows                       *)
  Typed,      (* the numbers the user types as an address                  *)
  Values,     (* the numbers the user types as a value                     *)
  MaxDepth,   (* ticks and nested ticks explored at once                   *)
  MaxTrace,   (* trace entries explored                                    *)
  MaxCommands (* editing, tick, loadstate, starttrace and stoptrace        *)
              (* commands explored in a session                            *)

ASSUME DebuggerAssumption ==
  /\ \A f \in Images : WellFormed(f)
  /\ Typed \subseteq Word /\ Values \subseteq Word
  /\ MaxDepth \in Nat \ {0} /\ MaxTrace \in Nat /\ MaxCommands \in Nat

VARIABLES
  frames,         (* the ticks in progress, the outermost first            *)
  should_break, breakpoints, memory_traps, enable_tracing,   (* debugging_t *)
  trace,          (* vm_trace: for each instruction its memory_change_t    *)
  saved,          (* the file the savestate command writes, or NoFile      *)
  trace_state,    (* trace_state.bin, or NoFile                            *)
  residue,        (* history: the argument stack of the file loaded last   *)
  loaded,         (* the console has loaded a file (and emptied the trace) *)
  commands        (* how many of the commands MaxCommands bounds were typed *)

debugging == << should_break, breakpoints, memory_traps, enable_tracing, trace >>
disk      == << saved, trace_state >>
origin    == << residue, loaded >>
history   == << origin, commands >>
vars      == << registers, memory, argument_stack, program_stack, instruction_ptr,
                status, terminal, frames, debugging, disk, history >>

NoFile == << >>

(***************************************************************************)
(* at: "fetched", operands pushed and the break check ahead; "breaking",   *)
(* in the console of that check; "ready", the check is behind; "reading",  *)
(* in the console that IN opened, dest holding the operand IN popped.      *)
(* next and operands remember what was fetched; the code keeps no copy.    *)
(***************************************************************************)
Frame ==
  [ inst : Instruction, debugger : BOOLEAN, dest : Word,
    at : {"fetched", "breaking", "ready", "reading"},
    next : Word, operands : Seq(Operandable) ]

Change == [ address : Operandable \cup {-1}, old : Word \cup {-1}, new : Word \cup {-1} ]

Current == frames[Len(frames)]
Below   == SubSeq(frames, 1, Len(frames) - 1)

InConsole == Running /\ frames # << >> /\ Current.at \in {"breaking", "reading"}

Pending(f) == IF f.at = "reading" THEN << >> ELSE f.operands

(* What the members of virtual_machine_t, of debugging_t and of every      *)
(* tick's frame can hold (vm.h:67-102).                                    *)
TypeOK ==
  /\ MachineTypeOK
  /\ frames \in Seq(Frame)
  /\ should_break \in BOOLEAN /\ enable_tracing \in BOOLEAN
  /\ breakpoints \subseteq Address
  /\ memory_traps \subseteq Operandable
  /\ trace \in Seq(Change)
  /\ saved \in Seq(Word) /\ trace_state \in Seq(Word)
  /\ residue \in Seq(Word) /\ loaded \in BOOLEAN
  /\ commands \in 0 .. MaxCommands

(* main( ) sets should_break before its loop.                              *)
Init ==
  /\ \E f \in Images : Loaded(f)
  /\ status = "running" /\ terminal = -1
  /\ frames = << >>
  /\ should_break = TRUE /\ breakpoints = {} /\ memory_traps = {}
  /\ enable_tracing = FALSE /\ trace = << >>
  /\ saved = NoFile /\ trace_state = NoFile
  /\ residue = argument_stack /\ loaded = FALSE /\ commands = 0

-----------------------------------------------------------------------------
(* tick( ), up to the break check.                                         *)

(* Mutant of Tick: every tick starts with an empty argument_stack.         *)
Tick_DropsPending(debugger) ==
  /\ \/ /\ CanFetch
        /\ argument_stack' = OperandsAt(instruction_ptr, arg_count(Fetched))
        /\ instruction_ptr' = instruction_ptr + 1 + arg_count(Fetched)
        /\ UNCHANGED << registers, memory, program_stack, status, terminal >>
        /\ frames' = Append(frames,
             [ inst |-> Fetched, debugger |-> debugger, dest |-> 0, at |-> "fetched",
               next |-> instruction_ptr', operands |-> argument_stack' ])
     \/ FetchFails /\ UNCHANGED frames
  /\ UNCHANGED << debugging, disk, origin >>

Tick(debugger) ==
  /\ \/ /\ FetchOperands
        /\ frames' = Append(frames,
             [ inst |-> Fetched, debugger |-> debugger, dest |-> 0, at |-> "fetched",
               next |-> instruction_ptr',
               operands |-> OperandsAt(instruction_ptr, arg_count(Fetched)) ])
     \/ FetchFails /\ UNCHANGED frames
  /\ UNCHANGED << debugging, disk, origin >>

(* Between two ticks main( ) may find that SIGINT came (Interrupt).        *)
Interrupted ==
  /\ Running /\ frames = << >> /\ ~should_break
  /\ should_break' = TRUE
  /\ UNCHANGED << machine, status, terminal, frames, breakpoints, memory_traps,
                  enable_tracing, trace, disk, history >>

MainTick == Running /\ frames = << >> /\ Tick(FALSE) /\ UNCHANGED commands

(* Mutants of MustBreak: it does not look at should_break; it stops a      *)
(* debugger tick too.                                                      *)
MustBreak_IgnoresRequest(f) ==
  /\ ~f.debugger
  /\ \/ instruction_ptr \in breakpoints
     \/ \E i \in 1 .. Len(argument_stack) : argument_stack[i] \in memory_traps

MustBreak_AnyTick(f) ==
  \/ should_break
  \/ instruction_ptr \in breakpoints
  \/ \E i \in 1 .. Len(argument_stack) : argument_stack[i] \in memory_traps

(* The break check of tick( ).                                             *)
MustBreak(f) ==
  /\ ~f.debugger
  /\ \/ should_break
     \/ instruction_ptr \in breakpoints
     \/ \E i \in 1 .. Len(argument_stack) : argument_stack[i] \in memory_traps

To(at) == frames' = Append(Below, [Current EXCEPT !.at = at])

Break ==
  /\ Running /\ frames # << >> /\ Current.at = "fetched" /\ MustBreak(Current)
  /\ To("breaking")
  /\ UNCHANGED << machine, status, terminal, debugging, disk, history >>

-----------------------------------------------------------------------------
(* The trace.  start_trace looks at the bottom of argument_stack;          *)
(* finish_trace at the last entry there is when the instruction returns.   *)

NoChange == [ address |-> -1, old |-> -1, new |-> -1 ]

(* get_reg_or_mem( a ), read from the given registers and memory.          *)
Cell(regs, mem, a) == IF is_register(a) THEN regs[a - REGISTER0] ELSE mem[a]

(* Mutant of Started: the top of argument_stack, not its bottom.           *)
Started_Top(inst) ==
  IF do_memory_trace(inst)
  THEN [ address |-> Top(argument_stack),
         old |-> Cell(registers, memory, Top(argument_stack)), new |-> -1 ]
  ELSE NoChange

Started(inst) ==
  IF do_memory_trace(inst)
  THEN [ address |-> argument_stack[1],
         old |-> Cell(registers, memory, argument_stack[1]), new |-> -1 ]
  ELSE NoChange

Finished(change) ==
  LET new == Cell(registers', memory', change.address)
  IN IF change.old # new THEN [change EXCEPT !.new = new] ELSE NoChange

(* finish_trace, for an instruction whose entry is the last one, or is to  *)
(* be appended.                                                            *)
RecordRun(inst) ==
  trace' = IF ~enable_tracing THEN trace
           ELSE Append(trace, IF do_memory_trace(inst) THEN Finished(Started(inst))
                              ELSE Started(inst))

(* start_trace takes argument_stack[0] of an empty vector: it crashes, or  *)
(* goes on to "INSTRUCTION STACK UNDERFLOW".                               *)
TraceOfNothing(inst) ==
  enable_tracing /\ do_memory_trace(inst) /\ argument_stack = << >>

(* It exits when validate rejects that word, which a file then brought.    *)
TraceOfRejected(inst) ==
  /\ enable_tracing /\ do_memory_trace(inst)
  /\ argument_stack # << >> /\ ~is_valid(argument_stack[1])

-----------------------------------------------------------------------------
(* tick( ), from the break check on.                                       *)

Starting ==
  /\ Running /\ frames # << >>
  /\ \/ Current.at = "fetched" /\ ~MustBreak(Current)
     \/ Current.at = "ready"
  /\ enable_tracing => Len(trace) < MaxTrace

Dies(how) == Exit(how) /\ UNCHANGED << frames, debugging, disk, history >>

Returns ==
  /\ frames' = IF Running' THEN Below ELSE frames
  /\ should_break' = FALSE
  /\ UNCHANGED << breakpoints, memory_traps, enable_tracing, disk, history >>

(* An instruction that does not open the console.                          *)
Run ==
  /\ Starting /\ ~Underflow(Current.inst) /\ ~TraceOfRejected(Current.inst)
  /\ \/ Execute(Current.inst)
     \/ Current.inst = "IN" /\ \E c \in Input \ {EOF} : inst_in(c)
  /\ RecordRun(Current.inst)
  /\ Returns

(* Only a file loaded under the pending instruction can leave it without   *)
(* operands.                                                               *)
RunFails ==
  /\ Starting
  /\ \/ Underflow(Current.inst) \/ TraceOfRejected(Current.inst)
  /\ \/ Dies("failure")
     \/ TraceOfNothing(Current.inst) /\ Dies("killed")

(* IN at the end of the input: inst_in has popped its operand and calls    *)
(* console( ).                                                             *)
ReadEOF ==
  /\ Starting /\ Current.inst = "IN" /\ EOF \in Input
  /\ ~Underflow("IN") /\ ~TraceOfRejected("IN")
  /\ frames' = Append(Below, [Current EXCEPT !.at = "reading", !.dest = Operand(1, 1)])
  /\ argument_stack' = Pop(argument_stack, 1)
  /\ should_break' = TRUE
  /\ trace' = IF enable_tracing THEN Append(trace, Started("IN")) ELSE trace
  /\ UNCHANGED << registers, memory, program_stack, instruction_ptr, status, terminal,
                  breakpoints, memory_traps, enable_tracing, disk, history >>

-----------------------------------------------------------------------------
(* Leaving the console: the go command, or getline failing.                *)

(* Mutant of Resume: tick( ) returns when its console does.                *)
Resume_Returns ==
  /\ InConsole /\ Current.at = "breaking"
  /\ frames' = Below
  /\ should_break' = FALSE
  /\ UNCHANGED << machine, status, terminal, breakpoints, memory_traps, enable_tracing,
                  trace, disk, history >>

Resume ==
  /\ InConsole /\ Current.at = "breaking"
  /\ To("ready")
  /\ should_break' \in {FALSE, should_break}
  /\ UNCHANGED << machine, status, terminal, breakpoints, memory_traps, enable_tracing,
                  trace, disk, history >>

(* inst_in goes on with '\n', and finish_trace with the entry that is the  *)
(* last one by now: its own, one of a nested tick, or none.  Then it reads *)
(* in front of an empty vector: a null pointer, or, once clear( ) emptied  *)
(* the vector, whatever the heap has there.                                *)
ResumeIN ==
  /\ InConsole /\ Current.at = "reading"
  /\ \/ /\ is_valid(Current.dest)
        /\ enable_tracing => IF trace = << >> THEN loaded ELSE trace[Len(trace)].address >= 0
        /\ Assign(Current.dest, NEWLINE)
        /\ trace' = IF enable_tracing /\ trace # << >>
                    THEN [trace EXCEPT ![Len(trace)] = Finished(trace[Len(trace)])]
                    ELSE trace
        /\ UNCHANGED << argument_stack, program_stack, instruction_ptr, status, terminal >>
        /\ Returns
     \/ ~is_valid(Current.dest) /\ Dies("failure")
     \/ /\ is_valid(Current.dest)
        /\ enable_tracing /\ trace # << >> /\ trace[Len(trace)].address < 0
        /\ Dies("aborted")
     \/ /\ is_valid(Current.dest)
        /\ enable_tracing /\ trace = << >>
        /\ \E how \in {"killed"} \cup (IF loaded THEN {"failure", "aborted"} ELSE {}) : Dies(how)

-----------------------------------------------------------------------------
(* The commands.  An address is checked by an assert, after it was typed.  *)

Command(cmd) == InConsole /\ cmd \in Commands

(* Mutant of Bound: assert( addr <= size ).                                *)
Bound_OffByOne(cmd) ==
  CASE cmd \in {"setip", "get_mem", "set_mem", "setbp", "clearbp", "clearmtrap"} -> MODULO + 1
    [] cmd \in {"setmtrap", "setitrap"} -> MODULO + NREGS + 1
    [] cmd \in {"getreg", "setreg"} -> NREGS + 1
    [] OTHER -> 2 * MODULO

Bound(cmd) ==
  CASE cmd \in {"setip", "get_mem", "set_mem", "setbp", "clearbp", "clearmtrap"} -> MODULO
    [] cmd \in {"setmtrap", "setitrap"} -> MODULO + NREGS
    [] cmd \in {"getreg", "setreg"} -> NREGS
    [] OTHER -> 2 * MODULO

Counted == commands < MaxCommands /\ commands' = commands + 1

AssertFails ==
  \E cmd \in Commands, a \in Typed : Command(cmd) /\ a >= Bound(cmd) /\ Dies("aborted")

Accepts(cmd, a) == Command(cmd) /\ a < Bound(cmd)

Edit ==   (* setip, set_mem, setreg                                         *)
  /\ \E a \in Typed :
       \/ /\ Accepts("setip", a)
          /\ instruction_ptr' = a
          /\ UNCHANGED << registers, memory >>
       \/ /\ Accepts("set_mem", a)
          /\ \E v \in Values : memory' = [memory EXCEPT ![a] = v]
          /\ UNCHANGED << registers, instruction_ptr >>
       \/ /\ Accepts("setreg", a)
          /\ \E v \in Values : registers' = [registers EXCEPT ![a] = v]
          /\ UNCHANGED << memory, instruction_ptr >>
  /\ Counted
  /\ UNCHANGED << argument_stack, program_stack, status, terminal, frames,
                  debugging, disk, origin >>

Breakpoints ==   (* setbp, clearbp, clearbps                                *)
  /\ \/ \E a \in Typed : Accepts("setbp", a) /\ breakpoints' = breakpoints \cup {a}
     \/ \E a \in Typed : Accepts("clearbp", a) /\ breakpoints' = breakpoints \ {a}
     \/ Command("clearbps") /\ breakpoints' = {}
  /\ UNCHANGED << machine, status, terminal, frames, should_break, memory_traps,
                  enable_tracing, trace, disk, history >>

Traps ==   (* setmtrap, setitrap (which sets a memory trap), clearmtrap(s)  *)
  /\ \/ \E a \in Typed : /\ Accepts("setmtrap", a) \/ Accepts("setitrap", a)
                         /\ memory_traps' = memory_traps \cup {a}
     \/ \E a \in Typed : Accepts("clearmtrap", a) /\ memory_traps' = memory_traps \ {a}
     \/ Command("clearmtraps") /\ memory_traps' = {}
  /\ UNCHANGED << machine, status, terminal, frames, should_break, breakpoints,
                  enable_tracing, trace, disk, history >>

NestedTick == Command("tick") /\ Len(frames) < MaxDepth /\ Tick(TRUE) /\ Counted

Snapshot == Dump(memory, registers, instruction_ptr, program_stack, argument_stack)

SaveState ==
  /\ Command("savestate")
  /\ saved' = Snapshot
  /\ UNCHANGED << machine, status, terminal, frames, debugging, trace_state, history >>

(* clear( ) empties the trace and stops it; the rest of debugging stays.   *)
LoadState ==
  /\ Command("loadstate")
  /\ \E f \in Images \cup ({saved} \ {NoFile}) :
       /\ registers' = FileRegisters(f) /\ memory' = FileMemory(f)
       /\ argument_stack' = FileArgumentStack(f)
       /\ program_stack' = FileProgramStack(f)
       /\ instruction_ptr' = FileInstructionPtr(f)
       /\ residue' = FileArgumentStack(f)
  /\ trace' = << >> /\ enable_tracing' = FALSE
  /\ loaded' = TRUE /\ Counted
  /\ UNCHANGED << status, terminal, frames, should_break, breakpoints, memory_traps, disk >>

(* start_tracing and stop_tracing leave the entries there are.             *)
StartTrace ==
  /\ Command("starttrace")
  /\ trace_state' = Snapshot
  /\ enable_tracing' = TRUE
  /\ Counted
  /\ UNCHANGED << machine, status, terminal, frames, should_break, breakpoints,
                  memory_traps, trace, saved, origin >>

StopTrace ==
  /\ Command("stoptrace")
  /\ enable_tracing' = FALSE
  /\ Counted
  /\ UNCHANGED << machine, status, terminal, frames, should_break, breakpoints,
                  memory_traps, trace, disk, origin >>

(* The trace is written, then trace_state.bin renamed; rename throws if    *)
(* there is none, and nothing catches it.                                  *)
SaveTrace ==
  /\ Command("savetrace")
  /\ \/ /\ trace_state # NoFile
        /\ trace_state' = NoFile
        /\ UNCHANGED << machine, status, terminal, frames, debugging, saved, history >>
     \/ trace_state = NoFile /\ Dies("killed")

(* A file that cannot be opened, or whose name is missing: the mapped     *)
(* file or substr throws and nothing catches it, or the code exits.        *)
FileFails ==
  /\ \E cmd \in {"savestate", "loadstate", "starttrace", "savetrace", "saveasm"} :
       Command(cmd)
  /\ \E how \in {"failure", "killed"} : Dies(how)

(* showasm; the listing after a tick with a number of lines is one of      *)
(* these, and saveasm lists all of memory.                                 *)
ListingFails ==
  /\ Command("showasm")
  /\ \E from \in Typed \cup {0}, to \in Typed \cup {All} :
       EndsProcess(Listing(memory, from, to))
  /\ Dies("failure")

Quit == Command("quit") /\ Dies("success")

Console ==
  \/ Resume \/ ResumeIN \/ Edit \/ Breakpoints \/ Traps \/ NestedTick \/ SaveState
  \/ LoadState \/ StartTrace \/ StopTrace \/ SaveTrace \/ FileFails
  \/ ListingFails \/ Quit \/ AssertFails

(* The process is gone, or the trace at its bound.                         *)
Ended ==
  /\ ~Running \/ (enable_tracing /\ Len(trace) = MaxTrace)
  /\ UNCHANGED vars

Next ==
  \/ Interrupted \/ MainTick \/ Break \/ Run \/ RunFails \/ ReadEOF
  \/ Console \/ Ended

(* main( ) and tick( ) never wait, except for the user and for input.      *)
Spec == Init /\ [][Next]_vars /\ WF_vars(MainTick) /\ WF_vars(Break)

-----------------------------------------------------------------------------
(* The operands of the lowest n ticks, above what the file brought.        *)
Stacked[n \in 0 .. Len(frames)] ==
  IF n = 0 THEN residue ELSE Stacked[n - 1] \o Pending(frames[n])

(***************************************************************************)
(* Operand discipline with ticks inside ticks (vm.cpp:201, vm_control.cpp: *)
(* 82): argument_stack is the operands of the pending instructions in the  *)
(* order they were fetched, whatever the console did meanwhile: a nested   *)
(* tick never takes an operand of the instruction it interrupts.  Only     *)
(* loadstate, which replaces the stack under the pending instructions, is  *)
(* excluded.                                                               *)
(***************************************************************************)
NestedOperands == Running /\ ~loaded => argument_stack = Stacked[Len(frames)]

(***************************************************************************)
(* Who opened what (vm.cpp:206, :630): every tick under another one stands *)
(* in a console; only main's tick can be at a break, so that a debugger    *)
(* tick never stops at a breakpoint, a trap or a SIGINT.                   *)
(***************************************************************************)
CallStack ==
  \A i \in 1 .. Len(frames) :
    /\ frames[i].debugger <=> i > 1
    /\ frames[i].at \in {"breaking", "ready"} => i = 1
    /\ i < Len(frames) => frames[i].at \in {"breaking", "reading"}
    /\ frames[i].at = "reading" => frames[i].inst = "IN"

(* The cell a after the changes of the trace, from trace_state.bin.        *)
Writes(a) == { i \in 1 .. Len(trace) : trace[i].address = a /\ trace[i].new >= 0 }

Replayed(a) ==
  IF Writes(a) = {} THEN Cell(FileRegisters(trace_state), FileMemory(trace_state), a)
  ELSE trace[CHOOSE i \in Writes(a) : \A j \in Writes(a) : j <= i].new

(***************************************************************************)
(* console.cpp:188, "full instruction/memory modification trace": applied  *)
(* to trace_state.bin, the changes of the trace give the present registers *)
(* and memory whenever main is between two ticks.                          *)
(***************************************************************************)
TraceReplays ==
  Running /\ frames = << >> /\ enable_tracing /\ trace_state # NoFile
    => \A a \in Operandable : Replayed(a) = Cell(registers, memory, a)

(* console.cpp:126, "set breakpoint at <address>": the instruction of a    *)
(* main tick that stands at one does not run before the console opened.    *)
BreakpointStops ==
  [][ InConsole \/ frames = << >> \/ Current.at # "fetched" \/ Current.debugger
      \/ Current.next - 1 - arg_count(Current.inst) \notin breakpoints
      \/ \E i \in 1 .. Len(frames') : frames'[i].at = "breaking" ]_vars

(* console.cpp:90, "run next instruction in vm": instructions run in the   *)
(* order of the program, so none runs while an earlier one is held at its  *)
(* break.                                                                  *)
InProgramOrder ==
  [][ Len(frames') < Len(frames)
        => \A i \in 1 .. Len(frames) - 1 : frames[i].at # "breaking" ]_vars

(* vm.cpp:188, assert( memory_changes.rbegin( )->address >= 0 ): the last  *)
(* entry, when finish_trace looks at it, is one that start_trace made for  *)
(* a change.  (The other asserts are those on typed addresses.)            *)
FinishesAChange == [][ Running => status' # "aborted" ]_vars

(* This module's machine as VM sees it.  IN's console has its operand off  *)
(* the stack already; VM's IN takes it when the character arrives.         *)
SeenStack ==
  IF frames # << >> /\ frames[1].at = "reading" THEN Append(argument_stack, frames[1].dest)
  ELSE argument_stack

SeenDecoded == IF frames = << >> THEN "none" ELSE frames[1].inst

V == INSTANCE VM WITH argument_stack <- SeenStack, decoded <- SeenDecoded

(***************************************************************************)
(* Breakpoints, traps and traces are invisible to the program: until the   *)
(* process ends, what the debugged machine does is what VM does, the       *)
(* console being open between the two steps of a tick, or inside IN, which *)
(* then reads the '\n' of an end of input.                                 *)
(***************************************************************************)
ImplementsVM == V!Init /\ [][V!Next \/ status' # "running"]_(V!vars)

(* A SIGINT that main's loop has seen (main.cpp:73-75) opens the console,  *)
(* unless the process ends first.                                          *)
BreakRequestServed == should_break /\ frames = << >> ~> InConsole \/ ~Running
=============================================================================
