# TLA+ verification of the Synacor virtual machine

This directory specifies the virtual machine of `vm.cpp`, its debugger console
and its SIGINT handling in TLA+, checks them with TLC on small machines, and
proves with TLAPS what holds of machines of every size.

    tlc -config VM.cfg MCVM          # any run below: <run>.cfg and its module
    tlapm VMProofs.tla               # the proofs

## 1. The system

| component | where | state | operations |
|---|---|---|---|
| words, instruction table | `vm.h:82-83`, `vm.cpp:231-245, 651-681`, `memory_helper.h` | none | `is_value`, `is_register`, `validate`, `decoder` |
| machine | `vm.h:67-102`, `vm.cpp:199-295, 481-642` | `registers`, `memory`, `argument_stack`, `program_stack`, `instruction_ptr` | `tick` (fetch, operands, execute), 22 instructions |
| state files | `vm.cpp:33-158`, `file_helper.h` | files: a bare memory image, or a full dump | `load_state`, `save_state` |
| break check and trace | `vm.cpp:160-221`, `vm.h:41-65, 73-80` | `debugging_t`: `should_break`, `breakpoints`, `memory_traps`, `trace`, `enable_tracing` | the DEBUG parts of `tick`, `start_trace`, `finish_trace` |
| console | `console.cpp`, `vm_control.*`, `parse_action.*` | the commands of one prompt; the trace's state file | 27 commands |
| SIGINT protocol | `main.cpp:40-77` | an `atomic_flag`, the queue of the `signal_set`, `should_break` | the handler on its own thread, the poll after each tick |
| command parsing | `parse_action.*`, `helpers.h:210-217` | `last_line` of one console | `parse`, `convert` |
| disassembler | `vm.cpp:297-374`, `console.cpp:33-42`, `to_assembler.cpp` | none | `dump_memory`, `calc_range` |
| text and JSON | `vm.cpp:378-478` and others | none | printing |
| document | `arch-spec.txt` | | what the machine should do |

How they interact. `main` loads a file and calls `tick` for ever. A `tick`
pushes the operand words of an instruction on `argument_stack` (a member, which
also goes into saved files) and calls the instruction, which pops them. In a
DEBUG build `tick` calls `console` between the two, when a SIGINT asked for it
or a breakpoint or a trap matches; in every build the instruction IN calls
`console` at the end of the input. The console edits the machine directly and
its `tick` command calls `tick( true )`, so ticks and consoles nest on the C++
stack over one `argument_stack`. The only second thread is the one that runs
`io_service`: it reads the plain bool `debugging.should_break`, and shares an
`atomic_flag` with `main`.

What is hard here, and where it bites, is listed in `PROJECT.json` under
`hazards`. In short: an instruction held half done while a console runs others;
trace bookkeeping that finds "its" entry by position; files saved and loaded
between a fetch and its instruction; a save cut off by the end of the process,
over the file it replaces; operations that count tokens the parser has already
removed; the two-flag hand-off of SIGINT; and the edges of 15-bit numbers in
16-bit words.

## 2. Modules

    Words <- StateFile <- Machine <- VM        VM refines Arch (over Words)
                                  <- Debugger  Debugger refines VM
                                  <- Session   Session refines VM, edits and loads aside
    Words <- Disassembler <- Debugger, Session; VM, Disassembler <- Listings
    Words <- ParseAction <- Session
    StateFile <- StateFileProofs; Machine, StateFileProofs <- MachineProofs
    MachineProofs <- VMProofs <- ArchProofs, ListingProofs
                  <- DebuggerProofs, SessionProofs     (each extends its component too)
    Interrupt <- InterruptProofs
    StateFile <- MCWords; Listings, MCWords <- MCVM; Debugger, MCWords <- MCDebugger;
    Session, MCWords <- MCSession

| module | models |
|---|---|
| `Words` | words, numbers, registers, the instruction table. `MODULO` (32768), `NREGS` (8), `BYTE` (256) and the two bit operations are constants |
| `StateFile` | a file as a sequence of words: what `load_state` reads from it, what `save_state` writes, the 16-bit size fields included |
| `Machine` | the machine's variables and, one operator each, the fetch and the instructions; no scheduling. `Perform` is an instruction whose operands `validate` accepts, `Rejects` one of whose operands it does not |
| `Arch` | `arch-spec.txt` as an abstract machine: one atomic step per instruction, no argument stack. Where the document is silent any step is allowed |
| `VM` | `main` without DEBUG: `Fetch`, then `Instruct` |
| `Debugger` | the DEBUG build: ticks and consoles as a stack of frames, the break check, the trace, the console's commands |
| `Interrupt` | `main`'s loop and the signal handler, a step per access to what the two threads share |
| `Disassembler` | `dump_memory` as the sequence of the addresses its lines start at, ending with `Unfinished` where it ends the process; `calc_range` |
| `Listings` | no code: what a listing shows of the memory of `VM` |
| `ParseAction` | a typed line: the repeated one, what an operation finds of it, `convert` |
| `Session` | the process over several lives: typed lines at the console of a break, the steps of `save_state` on a disk, crashes, restarts from any file |
| `MCWords`, `MCVM`, `MCDebugger`, `MCSession` | values for TLC |
| `StateFileProofs` | theorems on what is read from a dump, whole or cut off; `Smallest` |
| `MachineProofs` | theorems on the fetch and the instructions |
| `VMProofs`, `ArchProofs`, `ListingProofs` | theorems on `VM`, its refinement of `Arch`, its listings |
| `DebuggerProofs`, `SessionProofs`, `InterruptProofs` | theorems on these modules |

Conventions. A C++ variable keeps its name. A process that exits is a step to
`status` "success", "failure" (`exit`), "aborted" (a failed assert) or "killed"
(another signal, an uncaught exception); its memory is then out of the model.
`Operand(i, n)` is the i-th of the n operands on top of `argument_stack`, which
the code obtains by popping them in reverse. A reference the code returns and
then assigns through is the assignment. `terminal` is the last character
written: output the program cannot take back, compared step by step in the
refinements. In `Debugger`, `frames` is the C++ call stack: a `tick` that has
not returned is a frame, and `at` says how far it is. A file may bring
words to `argument_stack` that `validate` would not let a fetch push: the
instruction that pops one exits when it looks at it (`Rejected`), with the order
of looking that matters kept (`Rejects`: CALL pushes first, MOD may divide
first; an operand that is not looked at, `Unused`, may be anything). `residue`, `sent`,
`breaks`, `kept` and `owed` are history variables; no action reads them. Definitions whose names
are another definition's followed by an underscore (`inst_gt_OrEqual`) are
mutants: plausible bugs, put in the place of the original to see that a
property notices. They are used by nothing else.

Undefined behaviour is a choice of outcomes: `finish_trace` in front of an
empty vector and `start_trace` on an empty `argument_stack` (`ResumeIN`,
`RunFails`), a read past the end of a vector of tokens, and an integer that
`convert` leaves unwritten (`Garbage`). A remainder by zero is the fatal signal of the build's
processor.

## 3. What the runs check

All runs use 5-bit numbers in 6-bit words (`MODULO` = 32) and two registers,
32 and 33, so that every relation the code relies on is there: words have one
bit more than numbers, registers are the first words above numbers, some words
are neither, opcodes (22) are below `MODULO`, a character has fewer bits than a
number.

**VM** (43 000 states, module `MCVM` over `Listings`). Programs: each instruction alone with operands from
`{0, 31, R0, R1}`, registers that hold small numbers, the largest, and 16-bit
words, and four stacks; files in which fetching fails in each of its ways, with
operands left over in the file; all 1331 programs of three instructions of a
menu of eleven (stack, calls, self-modification, loops). `MaxStack` = 2 lets the
stack overflow. It checks:

- `OperandDiscipline`: `argument_stack` is what the file brought plus exactly
  the operands of the instruction in flight;
- `OnlyRmemWidens`: numbers stay numbers except through RMEM of a word that is
  not one;
- `ImplementsArch`: refinement of `Arch`. The parts of the document the code
  contradicts lie outside `Specified` or are not told apart by `halted`, and
  have runs of their own;
- `ListingFollowsFetch`: a listing from the instruction pointer breaks its lines
  where the machine fetches, on every memory the programs make of themselves;
- `ListingEndsAtEdge`: which memories make a listing end the process;
- `RangeAround`: which addresses `tick <n>` shows, for every n of 16 bits and an
  instruction pointer anywhere in or out of memory: never one more than n away,
  and all that are less than n away. When the instruction pointer is outside
  memory and its sum with n leaves 16 bits (`console.cpp:39`) the range ends
  65536 too early instead, and the property says what is left of it. It counts
  addresses; the help (`console.cpp:90`) speaks of lines, and one line may take
  several addresses.

**VM_pop** shows a contradiction (below). Another one has no run: `inst_ret` on an
empty stack exits with a failure (`vm.cpp:276`) where `arch-spec.txt:73` says
halt; `ImplementsArch` counts both as halted.

**Debugger_breaks** (176 000 states). A user who sets and clears breakpoints and
traps, starts a trace (twice, `MaxCommands` = 2), saves, quits, mistypes an
address, over two programs with calls, stores, input and output; addresses
typed: an instruction, a register, and the first word past the registers. It
checks `ImplementsVM` (the debugger is invisible to the program: refinement of
`VM`), `TraceReplays` (the trace applied to the saved state gives the present
state) and `BreakRequestServed`. The programs store to literal addresses and
bring no leftover operands; for other stores `TraceReplays` is false, see
`Debugger_wmem`.

**Debugger_full** (974 000 states). A user who steps, edits, loads, traces,
with `MaxDepth` = 3 ticks (two INs in consoles of one another and an instruction
under them) and four of the counted commands; one program brings a leftover
operand. It checks the types, `NestedOperands` and `CallStack`. Three levels
show a tick over a tick over a tick; the code does not look at the depth.

**Session** (1 700 000 states, under two minutes). Two first files: one whose program
pushes onto a stack of 63 elements, where 64 no longer fit a size field, and
one with an argument left over and an instruction cut off by the end of memory.
Three lines out of eighteen are typed in two lives; a crash comes at any time,
in particular before each of the nine steps of a save; the second life starts
from any file. Three lines let a save be edited before, repeated, replaced, or
loaded in the other life; two lives are what a save and its restart need. It
checks:

- `RestoresSaved`: a completed save gives back the machine if and only if the
  sizes of both stacks fit 16 bits;
- `ReadsInFile`: whatever `save_state` left, cut off or with wrapped sizes, is
  read inside its end (a size that wrapped is followed by more elements than any
  size it is misread with);
- `CutOffInOrder`: of a save that was cut off, what is there vouches for what
  comes before it;
- `ImplementsVM`: consoles and saves, whole or cut off, are invisible to the
  program. Between an edit, a load and the end of the process every step is one
  of `VM` or none. The `VM` seen here is one that starts anywhere: how a life
  starts is what the other properties say.

That the machine comes back does not make the program go on where it was: the
instruction held at the break is not in the file (`Session_resume`, below, over
the same files and lives and the lines that save, load, go and quit). For this
`kept` remembers what was held at a save and `owed` follows it into whatever is
loaded or started from the file, until it is edited or executes something.

A stack too long for its size field is read back in part as argument stack; the
first file keeps such elements readable as operands.

**Interrupt** (1 700 states, up to four signals). `ExitNeedsTwo`, `OneBreakEach`
and `TypeOK` as invariants; `RequestServed` and `SignalsHandled` as liveness.
Four signals are enough for one break asked for in each of the windows
`main.cpp:64-68`, `:51-56`, `:73-74` and one that ends the process.

Runs that show a disagreement of the code with what it or its document says:

| run | says | does |
|---|---|---|
| `VM_pop` | `arch-spec.txt:43` write the popped element into a | `vm.cpp:501` reads it as an operand: 32768 pops register 0 |
| `Debugger_setbp` | `console.cpp:126` breakpoint at address | `vm.cpp:206` compares the address after the operands |
| `Debugger_order` | `console.cpp:90` run next instruction | `vm_control.cpp:82` runs the one after the held one first |
| `Debugger_wmem` | `console.cpp:188` full memory modification trace | `vm.cpp:178` watches the register that holds the address |
| `Session_resume` | `console.cpp:161`, `:173` save and load the state of program, `vm.cpp:78` a full state dump | `vm_control.cpp:116` saves, at a break, without the instruction that was fetched: it is never executed after a restart |
| `Session_args` | `console.cpp:75`, `:85`, `:106` setip, set_mem and setreg take an address (and a value) | `parse_action.cpp:71` removes the command, `vm_control.h:53`, `:76`, `:101` count it: Error |
| `Debugger_assert` | `vm.cpp:188` the last entry has an address | a tick in IN's console leaves one that has none |

Bounds are named constants: `MaxStack`, `MaxDepth`, `MaxTrace`, `MaxCommands`,
`MaxLines`, `MaxLives`, `MaxSignals`. `MaxStack` stands for the host's memory and is part of the
behaviour (`bad_alloc`); `MaxTrace` stops the machine, and `Debugger!Ended` says
so. Deadlock is checked in every run; an ended process stutters.

Fairness. `Debugger` assumes weak fairness of `MainTick` and `Break`: `main` and
`tick` never wait before the console opens. Nothing is assumed of the user, of
the input, or of commands. `Interrupt` assumes weak fairness of each thread, not
of the user or the input: the operating system schedules both, and neither takes
a lock. `RequestServed` therefore assumes that `main` keeps finishing ticks.

## 4. What is proved

Every invariant and action property a passing run checks, and the three
refinements, are theorems; `PROJECT.json` lists them. Theorems also say for which
users two of the properties that runs refute do hold. All hold for every `MODULO`
of at least 11, every number of registers up to it, every set of files
`load_state` reads inside of, any `&` and `|` that keep words words and numbers
numbers (`BitsAssumption`), and every value of the bounds.

**The machine** (`MachineProofs`, `VMProofs`). `ExecuteLeaves`: an instruction
that finds its operands keeps the types and pops exactly those operands, or ends
the process; it is stated over `Machine` and used by every module that runs
instructions. `TypeCorrect` and `OperandsAreDisciplined` need each other: with
too few operands an instruction would read below the stack. `IInv` joins them
with `FetchedPointer` (after a fetch the instruction pointer is at most one past
memory), without which CALL could push, and the pending operands be looked up
at, an address the memory does not have. `NumbersStayNumbers` follows from
`IInv` and a lemma per effect (`PlainStore`, `PlainPush`, ...).

**The document** (`ArchProofs`). `ImplementsTheDocument`: `VM` implements `Arch`.
A fetch maps to a stutter, an instruction to one step of `Arch` at the opcode it
came from. `Arch` reads its operands from memory, the code from
`argument_stack`; `HeldCode` (while an instruction is in flight its opcode and
valid operands stand right behind the instruction pointer) is what makes the two
the same, and `IInv /\ HeldCode` is inductive because nothing writes memory
between a fetch and its instruction. There is a lemma per instruction. Where the
document says nothing (`Specified`), any step is one of `Arch`.

**The debugger** (`DebuggerProofs`). `DInv` is the types, `WellFormed(saved)`
(or loadstate could read what is not there) and `FramesOK`, the shape of the C++
stack: who may be under whom, and that a frame has as many operands as its
instruction takes. It gives `TypeCorrect` and `ConsolesNest`. For
`NestedTicksKeepOperands`, `OperandsOK` says that there is a function `g` with
`g[0]` the residue and `g[n]` the operands of the lowest n frames above it, and
`argument_stack` is its last value; a witness is easier to extend by a frame and
to shorten than the recursive `Stacked`, and `OneStack` shows that there is only
one such function. `DebuggerIsInvisible`: `ImplementsVM`, under `OnlyLooks`,
that the user does not know `tick`, `setip`, `set_mem`, `setreg` and
`loadstate` (the commands of the run `Debugger_breaks`; the user may break,
trap, trace, list, save, mistype and quit). Then there is never more than one
tick (`OneTick`), the fetch and the instruction are VM's, the console a stutter,
and leaving IN's console is VM's IN. The hypothesis is needed: with one of those
commands the program is a different one.

`TracesAreComplete` is `TraceReplays`, which is not true of every program and
user. Its hypotheses are

- `OnlyTraces`: the user does not know `tick`, `set_mem`, `setreg`, `loadstate`
  and `stoptrace`. The trace does not follow an edit, loses what happens while it
  is stopped, and under a nested tick watches another instruction's operand
  (`vm.cpp:178`). A load empties it, and an IN that was waiting may then write its
  cell with no entry to complete (`ResumeIN`);
- `NoLeftovers`: no file brings words to `argument_stack`; the lowest of them
  would be watched in the place of every operand;
- `[]StoresWatched`, of the behaviour: a WMEM that is executed while tracing is
  on names its address and not a register that holds it (`Debugger_wmem`).

The instance of `Debugger_breaks` satisfies the three, and its second program
stores with a trace running. Breakpoints, traps, saves of states and of traces,
and a trace started again over the entries of the last one are all allowed. The
inductive invariant is `TraceOK`: with `Agrees`, for every cell, its last entry
in the trace is its content, and a cell without one is as in `trace_state.bin`;
nothing is in the trace or in that file while tracing is off; and while IN's
console is open the last entry is IN's own, incomplete, with the old content of
the cell that IN will write (`Incomplete`). `AgreesAppend` and `AgreesComplete`
are the two ways an entry gets its new content; `InstructionChanges` says that an
instruction changes at most the cell its entry watches, or, of those that have no
entry, none. `OneOperands`, from `OperandsOK`, says that the bottom of the stack
is then the instruction's own first operand.

`TracesFinish` is `FinishesAChange`, no step aborts the process, refuted by
`Debugger_assert` for a user who steps: it is true, of every program, of one

- who does not step: the entry of the instruction stepped over would be last;
- who does not turn tracing on in the console of IN (`TurnedOnInIN`): IN began
  without an entry, and `finish_trace` would be in front of an empty vector, or
  of the entry of an instruction before it. This excludes a `starttrace` there
  when tracing was off, and after a `stoptrace` or `loadstate` there;
- whose numbers pass the asserts of the commands (`NumbersFit`; those abort the
  process too).

Edits, loads and stopping the trace are allowed. The invariant `EntryWaits`, a
part of the theorem, says more than that nothing aborts: while IN's console is
open and tracing is on, the trace is not empty and its last entry is for a
change. It is weaker than `TraceOK`; `AbortsAreAsserts` says that no other step of
the program aborts it.

**Files** (`StateFileProofs`, `SessionProofs`). `SavedUpTo` is a file after k of
the seven sections of `save_state`. `WholeReadsBack`: all seven give back the
machine if and only if both sizes fit 16 bits. `PartIsInFile`: any of them, with
wrapped sizes too, can be read inside its end; the case that matters is a stack
whose size wrapped, where some element is taken for the next size, and the
argument is that the file is then longer by more than a word can say.
`SInv` carries these facts over the life of the process: what a file holds is a
save of the state remembered of it (`DiskOK`), and what is being written is the
present machine (`SavingOK`). It gives the types and the three
properties of files. It needs of the user's lines that savestate and
loadstate name one of `Names` (`SessionAssumption`).

`SavesAreInvisible` is `ImplementsVM` of `Session`, a lemma per action. `Session`
has `VM`'s variables but `decoded`, so that what a fetch and an instruction do is
the same formula in both (`SeenFetch`, `SeenExecute`, `SeenRead`); what the proof
adds is that no line but an edit, a load or a fatal one (`OperationQuiet`), no
step of a save and no way into or out of the console touches the machine or the
held instruction. `DocumentedEditsAreLost` is the general form of what
`Session_args` shows: for a user whose setip and setreg lines have as many words
as the help says, repeated ones included, no line but loadstate ever changes a
register or the instruction pointer.

**Listings** (`ListingProofs`). `RangeIsAround` is arithmetic modulo the words'
size, for every n; `SumThatWraps` is what the sum is when it wraps.
`ListingShowsExecution` and `ListingEndsOnlyAtEdge` are about functions that
recur from the end of memory down. No induction theorem of the library can be
used here (they take an operator as a parameter), but a set of numbers that is
not empty has a smallest one (`Smallest`, from `WFMin`): the proofs take the
extreme place at which the claim fails and contradict it from its neighbour.

**SIGINT** (`InterruptProofs`), for any number of signals: `TypeCorrect`,
`SignalsBreakOnce`, `OneSignalNeverExits`. A request to break is a token handed
from the queue to the handler, the flag, `main` between lines 73 and 74,
`should_break`, and a break; `Conserved` says that nobody makes one, and that
`main` always accounts for the one it starts with. Counting needs to know where
`should_break` is clear without looking at it (`ClearOutsideConsole`: outside a
console, because of `vm.cpp:210`). The types are not inductive alone either:
only `Conserved` keeps the queue no longer than what was sent.

The assumptions are `WordsAssumption`, `BitsAssumption`, `MachineAssumption`,
`ImagesAssumption`, `DebuggerAssumption`, `SessionAssumption` and
`InterruptAssumption`; TLC evaluates each on its instances.

Only model-checked: the liveness properties `BreakRequestServed`,
`RequestServed` and `SignalsHandled`, since fairness is out of the prover's
reach, and that the properties of the runs that expect a violation are violated.

## 5. Not modelled

- The text of listings, JSON and messages; file names. The epoch in
  `file_helper.cpp:32` is a constant date, so two unnamed saves are one file
  (`Session` calls it 0).
- Lines for the commands `Session` does not follow: `Debugger` starts from a
  command and the numbers its operation reads; those with an address count their
  tokens like setip. `tick <n>` is a tick and then a listing of the range
  `RangeAround` checks; that listing starts n addresses back, perhaps in the
  middle of an instruction, and can end the process like showasm
  (`ListingFails`).
- Negative numbers and numbers followed by letters, as words of a line; file
  names with separators in them.
- A console at the end of the input in a build without DEBUG is, in `VM`, one in
  which nothing is typed.
- A file no `save_state` left that is shorter than its sizes say, which
  `load_state` reads past; a program started with a file that is missing or
  empty, which ends at once.
- A crash of the host that loses written pages, a disk that fills up during a
  save, and a crash inside one of its copies.
- What `exit` in the handler's thread does while `main` goes on.
- Memory exhaustion anywhere but in `program_stack`.
- `term_buff_t` (`helpers.h:170-208`), used by nothing; the data files.

## 6. Plan

1. Done: `Words`, `StateFile`, `Machine`, `Arch`, `VM`; `Debugger`; `Interrupt`;
   `Disassembler`, `Listings`; `ParseAction`, `Session`; the proofs of section 4.
2. Done: `TraceReplays` and `FinishesAChange` for the programs and users they are
   true of; `Session` refines `VM`; what the console loses of documented lines.
3. Open: lines of the commands `Session` does not follow.
