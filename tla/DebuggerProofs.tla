---------------------------- MODULE DebuggerProofs ----------------------------
(***************************************************************************)
(* Theorems about Debugger for every memory size, number of registers, set *)
(* of files, commands and typed words, and every bound on the depth of     *)
(* ticks in ticks, the trace and the commands.                             *)
(***************************************************************************)
EXTENDS Debugger, MachineProofs

USE DEF Number, Word, Address, RegIndex, Char, REGISTER0, NEWLINE, EOF, Operandable

-----------------------------------------------------------------------------
(* The C++ call stack, as a property of a sequence of frames.              *)

(* A frame under another one stands in a console; only main's is a break's;*)
(* every one has the operands its instruction takes.                       *)
FramesOK(s) ==
  /\ s \in Seq(Frame)
  /\ \A i \in 1 .. Len(s) :
       /\ Len(s[i].operands) = arg_count(s[i].inst)
       /\ s[i].debugger <=> i > 1
       /\ s[i].at \in {"breaking", "ready"} => i = 1
       /\ i < Len(s) => s[i].at \in {"breaking", "reading"}
       /\ s[i].at = "reading" => s[i].inst = "IN"

Under(s) == SubSeq(s, 1, Len(s) - 1)

(* A tick that fetched, from main or from a console.                       *)
LEMMA FramesPush ==
  ASSUME NEW s, FramesOK(s), NEW f \in Frame,
         f.at = "fetched", Len(f.operands) = arg_count(f.inst), f.debugger <=> s # << >>,
         s # << >> => s[Len(s)].at \in {"breaking", "reading"}
  PROVE  FramesOK(Append(s, f))
<1> DEFINE t == Append(s, f)
<1>1. s \in Seq(Frame) /\ Len(s) \in Nat /\ (s = << >> <=> Len(s) = 0)
  BY LenProperties, EmptySeq DEF FramesOK
<1>2. /\ t \in Seq(Frame) /\ Len(t) = Len(s) + 1 /\ t[Len(s) + 1] = f
      /\ \A i \in 1 .. Len(s) : t[i] = s[i]
  BY <1>1, AppendProperties
<1> HIDE DEF t
<1>3. SUFFICES ASSUME NEW i \in 1 .. Len(t)
               PROVE  /\ Len(t[i].operands) = arg_count(t[i].inst)
                      /\ t[i].debugger <=> i > 1
                      /\ t[i].at \in {"breaking", "ready"} => i = 1
                      /\ i < Len(t) => t[i].at \in {"breaking", "reading"}
                      /\ t[i].at = "reading" => t[i].inst = "IN"
  <2> HIDE DEF Frame
  <2> QED
    BY <1>2 DEF FramesOK, t
<1>4. CASE i = Len(s) + 1
  BY <1>1, <1>2, <1>4
<1>5. CASE i \in 1 .. Len(s)
  <2>1. t[i] = s[i]
    BY <1>2, <1>5
  <2>2. i < Len(s) \/ i = Len(s)
    BY <1>1, <1>5
  <2>3. i = Len(s) => s[i].at \in {"breaking", "reading"}
    BY <1>1, <1>5
  <2> QED
    BY <1>5, <2>1, <2>2, <2>3 DEF FramesOK
<1> QED
  BY <1>1, <1>2, <1>4, <1>5

(* What is left when the innermost tick returns.                           *)
LEMMA FramesPop ==
  ASSUME NEW s, FramesOK(s), s # << >>
  PROVE  /\ Len(s) \in Nat \ {0} /\ s[Len(s)] \in Frame
         /\ Under(s) \in Seq(Frame) /\ Len(Under(s)) = Len(s) - 1
         /\ \A i \in 1 .. Len(s) - 1 : Under(s)[i] = s[i] /\ s[i] \in Frame
         /\ FramesOK(Under(s))
<1>1. s \in Seq(Frame) /\ Len(s) \in Nat /\ Len(s) # 0
  BY LenProperties, EmptySeq DEF FramesOK
<1>2. \A i \in 1 .. Len(s) : s[i] \in Frame
  BY <1>1, ElementOfSeq
<1>3. 1 \in 0 .. Len(s) /\ Under(s) = Pop(s, 1)
  BY <1>1 DEF Under, Pop
<1>4. /\ Under(s) \in Seq(Frame) /\ Len(Under(s)) = Len(s) - 1
      /\ \A i \in 1 .. Len(s) - 1 : Under(s)[i] = s[i]
  <2> HIDE DEF Frame
  <2> QED
    BY <1>1, <1>3, PopType
<1>5. FramesOK(Under(s))
  <2>1. PICK u : u = Under(s)
    OBVIOUS
  <2>2. SUFFICES ASSUME NEW i \in 1 .. Len(u)
                 PROVE  /\ Len(u[i].operands) = arg_count(u[i].inst)
                        /\ u[i].debugger <=> i > 1
                        /\ u[i].at \in {"breaking", "ready"} => i = 1
                        /\ i < Len(u) => u[i].at \in {"breaking", "reading"}
                        /\ u[i].at = "reading" => u[i].inst = "IN"
    BY <1>4, <2>1 DEF FramesOK
  <2>3. u[i] = s[i] /\ i \in 1 .. Len(s) /\ i < Len(s)
    BY <1>1, <1>4, <2>1, <2>2
  <2> QED
    BY <2>3 DEF FramesOK
<1> QED
  BY <1>1, <1>2, <1>4, <1>5

(* The innermost tick goes on to another place.                            *)
LEMMA FramesTop ==
  ASSUME NEW s, FramesOK(s), s # << >>, NEW f \in Frame,
         f.inst = s[Len(s)].inst, f.debugger = s[Len(s)].debugger,
         f.operands = s[Len(s)].operands,
         f.at \in {"breaking", "ready"} => Len(s) = 1,
         f.at = "reading" => f.inst = "IN"
  PROVE  FramesOK(Append(Under(s), f))
<1>1. PICK u : u = Under(s)
  OBVIOUS
<1>2. PICK t : t = Append(Under(s), f)
  OBVIOUS
<1>3. /\ Len(s) \in Nat \ {0}
      /\ u \in Seq(Frame) /\ Len(u) = Len(s) - 1
      /\ \A i \in 1 .. Len(s) - 1 : u[i] = s[i]
  BY <1>1, FramesPop
<1>4. /\ t \in Seq(Frame) /\ Len(t) = Len(s) /\ t[Len(s)] = f
      /\ \A i \in 1 .. Len(s) - 1 : t[i] = s[i]
  <2> HIDE DEF Frame
  <2>1. /\ t \in Seq(Frame) /\ Len(t) = Len(u) + 1 /\ t[Len(u) + 1] = f
        /\ \A i \in 1 .. Len(u) : t[i] = u[i]
    BY <1>1, <1>2, <1>3, AppendProperties
  <2>2. Len(u) + 1 = Len(s)
    BY <1>3
  <2> QED
    BY <1>3, <2>1, <2>2
<1>5. SUFFICES ASSUME NEW i \in 1 .. Len(t)
               PROVE  /\ Len(t[i].operands) = arg_count(t[i].inst)
                      /\ t[i].debugger <=> i > 1
                      /\ t[i].at \in {"breaking", "ready"} => i = 1
                      /\ i < Len(t) => t[i].at \in {"breaking", "reading"}
                      /\ t[i].at = "reading" => t[i].inst = "IN"
  BY <1>2, <1>4 DEF FramesOK
<1>6. CASE i = Len(s)
  <2>1. t[i] = f /\ Len(s) \in 1 .. Len(s)
    BY <1>3, <1>4, <1>6
  <2>2. /\ Len(s[Len(s)].operands) = arg_count(s[Len(s)].inst)
        /\ s[Len(s)].debugger <=> Len(s) > 1
    BY <2>1 DEF FramesOK
  <2> QED
    BY <1>3, <1>4, <1>6, <2>1, <2>2
<1>7. CASE i \in 1 .. Len(s) - 1
  <2>1. t[i] = s[i] /\ i \in 1 .. Len(s) /\ i < Len(s)
    BY <1>3, <1>4, <1>7
  <2> QED
    BY <1>4, <2>1 DEF FramesOK
<1> QED
  BY <1>3, <1>4, <1>5, <1>6, <1>7

-----------------------------------------------------------------------------
(* The inductive invariant of the types and of the call stack: the file    *)
(* the console wrote is one that it can load again.                        *)
DInv == TypeOK /\ WellFormed(saved) /\ FramesOK(frames)

(* The constants of Debugger.                                              *)
LEMMA DebuggerFacts ==
  /\ \A f \in Images : WellFormed(f)
  /\ Typed \subseteq Word /\ Values \subseteq Word
  /\ MaxDepth \in Nat \ {0} /\ MaxTrace \in Nat /\ MaxCommands \in Nat
BY DebuggerAssumption

(* The innermost tick.                                                     *)
LEMMA CurrentFacts ==
  ASSUME FramesOK(frames), frames # << >>
  PROVE  /\ Len(frames) \in Nat \ {0} /\ Current = frames[Len(frames)] /\ Current \in Frame
         /\ Len(Current.operands) = arg_count(Current.inst)
         /\ Current.debugger <=> Len(frames) > 1
         /\ Current.at \in {"breaking", "ready"} => Len(frames) = 1
         /\ Current.at = "reading" => Current.inst = "IN"
         /\ Below = Under(frames) /\ FramesOK(Below)
<1>1. /\ Len(frames) \in Nat \ {0} /\ frames[Len(frames)] \in Frame
      /\ FramesOK(Under(frames))
  BY FramesPop
<1>2. Len(frames) \in 1 .. Len(frames)
  BY <1>1
<1>3. /\ Len(frames[Len(frames)].operands) = arg_count(frames[Len(frames)].inst)
      /\ frames[Len(frames)].debugger <=> Len(frames) > 1
      /\ frames[Len(frames)].at \in {"breaking", "ready"} => Len(frames) = 1
      /\ frames[Len(frames)].at = "reading" => frames[Len(frames)].inst = "IN"
  BY <1>2 DEF FramesOK
<1> QED
  BY <1>1, <1>3 DEF Current, Below, Under

(* A process that ends keeps its last state.                               *)
LEMMA DiesKeeps ==
  ASSUME DInv, NEW how \in {"success", "failure", "killed", "aborted"}, Dies(how)
  PROVE  DInv'
<1>1. /\ MachineTypeOK'
      /\ UNCHANGED << frames, debugging, disk, history >>
  BY ExitLeaves DEF DInv, TypeOK, Dies, Leaves
<1> QED
  BY <1>1 DEF DInv, TypeOK, debugging, disk, history, origin

(* What a file of the machine's state is (vm.cpp:83-97).                   *)
LEMMA SnapshotFacts ==
  ASSUME MachineTypeOK
  PROVE  Snapshot \in Seq(Word) /\ WellFormed(Snapshot)
<1>1. SavedUpTo(Snapshot, 7, memory, registers, instruction_ptr, program_stack, argument_stack)
  BY DumpLayout DEF Snapshot, MachineTypeOK
<1>2. WellFormed(Snapshot)
  BY <1>1, PartIsInFile DEF MachineTypeOK
<1> QED
  BY <1>2 DEF WellFormed

-----------------------------------------------------------------------------
(* The trace.                                                              *)

(* get_reg_or_mem finds a cell for every word validate lets through.       *)
LEMMA CellType ==
  ASSUME NEW regs \in [RegIndex -> Word], NEW mem \in [Address -> Word], NEW a \in Operandable
  PROVE  Cell(regs, mem, a) \in Word
<1>1. CASE is_register(a)
  BY <1>1, ConstantFacts DEF Cell, is_register
<1>2. CASE ~is_register(a)
  BY <1>2, ConstantFacts DEF Cell, is_register
<1> QED
  BY <1>1, <1>2

(* An instruction whose change is traced has an operand.                   *)
LEMMA TracedHasOperand ==
  ASSUME NEW inst, do_memory_trace(inst)
  PROVE  arg_count(inst) \in 1 .. 3
BY DEF do_memory_trace, arg_count

(* What start_trace makes, unless it exits.                                *)
LEMMA StartedType ==
  ASSUME MachineTypeOK, NEW inst, ~Underflow(inst), enable_tracing, ~TraceOfRejected(inst)
  PROVE  /\ Started(inst) \in Change
         /\ do_memory_trace(inst) => Started(inst).address \in Operandable
<1>1. CASE ~do_memory_trace(inst)
  BY <1>1 DEF Started, NoChange, Change
<1>2. CASE do_memory_trace(inst)
  <2>1. Len(argument_stack) \in Nat \ {0} /\ argument_stack \in Seq(Word)
    BY <1>2, TracedHasOperand, LenProperties DEF Underflow, MachineTypeOK
  <2>2. 1 \in 1 .. Len(argument_stack) /\ argument_stack # << >>
    BY <2>1, EmptySeq
  <2>3. argument_stack[1] \in Word
    BY <2>1, <2>2, ElementOfSeq
  <2>4. argument_stack[1] \in Operandable
    BY <1>2, <2>2, <2>3, ValidType DEF TraceOfRejected
  <2>5. Cell(registers, memory, argument_stack[1]) \in Word
    BY <2>4, CellType DEF MachineTypeOK
  <2> QED
    BY <1>2, <2>4, <2>5 DEF Started, Change
<1> QED
  BY <1>1, <1>2

(* What finish_trace makes of such an entry.                               *)
LEMMA FinishedType ==
  ASSUME registers' \in [RegIndex -> Word], memory' \in [Address -> Word],
         NEW change \in Change, change.address \in Operandable
  PROVE  Finished(change) \in Change
<1>1. PICK new : new = Cell(registers', memory', change.address)
  OBVIOUS
<1>2. new \in Word
  BY <1>1, CellType
<1>3. [change EXCEPT !.new = new] \in Change /\ NoChange \in Change
  BY <1>2 DEF Change, NoChange
<1> QED
  BY <1>1, <1>3 DEF Finished

LEMMA RecordRunType ==
  ASSUME MachineTypeOK, trace \in Seq(Change), NEW inst, ~Underflow(inst), ~TraceOfRejected(inst),
         registers' \in [RegIndex -> Word], memory' \in [Address -> Word], RecordRun(inst)
  PROVE  trace' \in Seq(Change)
<1>1. CASE ~enable_tracing
  BY <1>1 DEF RecordRun
<1>2. CASE enable_tracing
  <2>1. PICK entry : entry = IF do_memory_trace(inst) THEN Finished(Started(inst)) ELSE Started(inst)
    OBVIOUS
  <2>2. Started(inst) \in Change /\ (do_memory_trace(inst) => Started(inst).address \in Operandable)
    BY <1>2, StartedType
  <2>3. entry \in Change
    BY <2>1, <2>2, FinishedType
  <2>4. trace' = Append(trace, entry)
    BY <1>2, <2>1 DEF RecordRun
  <2> QED
    BY <2>3, <2>4, AppendProperties
<1> QED
  BY <1>1, <1>2

-----------------------------------------------------------------------------
(* The steps of tick( ).                                                   *)

LEMMA TickKeeps ==
  ASSUME DInv, NEW debugger \in BOOLEAN, debugger <=> frames # << >>,
         frames # << >> => InConsole, Tick(debugger), commands' \in 0 .. MaxCommands
  PROVE  DInv'
<1>1. UNCHANGED << debugging, disk, origin >>
  BY DEF Tick
<1>2. MachineTypeOK' /\ FramesOK(frames') => DInv'
  BY <1>1 DEF DInv, TypeOK, FramesOK, debugging, disk, origin
<1>3. CASE FetchFails /\ UNCHANGED frames
  BY <1>2, <1>3, ExitLeaves DEF FetchFails, DInv, TypeOK, Leaves
<1>4. ASSUME FetchOperands,
             frames' = Append(frames,
               [ inst |-> Fetched, debugger |-> debugger, dest |-> 0, at |-> "fetched",
                 next |-> instruction_ptr',
                 operands |-> OperandsAt(instruction_ptr, arg_count(Fetched)) ])
      PROVE  DInv'
  <2>1. PICK os : os = OperandsAt(instruction_ptr, arg_count(Fetched))
    OBVIOUS
  <2>2. /\ MachineTypeOK' /\ Fetched \in Instruction
        /\ os \in Seq(Operandable) /\ Len(os) = arg_count(Fetched)
        /\ instruction_ptr' \in Word
    <3>1. MachineTypeOK
      BY DEF DInv, TypeOK
    <3> QED
      BY <1>4, <2>1, <3>1, FetchFacts, ConstantFacts
  <2>3. PICK f : f = [ inst |-> Fetched, debugger |-> debugger, dest |-> 0, at |-> "fetched",
                       next |-> instruction_ptr', operands |-> os ]
    OBVIOUS
  <2>4. f \in Frame
    <3>1. 0 \in Word
      BY ConstantFacts
    <3> HIDE DEF Word, Operandable
    <3> QED
      BY <2>2, <2>3, <3>1 DEF Frame
  <2>5. frames' = Append(frames, f)
    BY <1>4, <2>1, <2>3
  <2>6. frames # << >> => frames[Len(frames)].at \in {"breaking", "reading"}
    BY DEF InConsole, Current
  <2>7. f.at = "fetched" /\ Len(f.operands) = arg_count(f.inst) /\ (f.debugger <=> frames # << >>)
    BY <2>2, <2>3
  <2>8. FramesOK(frames)
    BY DEF DInv
  <2>9. FramesOK(frames')
    BY ONLY <2>4, <2>5, <2>6, <2>7, <2>8, FramesPush
  <2> QED
    BY <1>2, <2>2, <2>9
<1> QED
  BY <1>3, <1>4 DEF Tick

(* A tick that goes on to another place of its function.                   *)
LEMMA GoesTo ==
  ASSUME FramesOK(frames), frames # << >>, NEW at \in {"breaking", "ready"}, Len(frames) = 1, To(at)
  PROVE  FramesOK(frames')
<1>1. PICK f : f = [Current EXCEPT !.at = at]
  OBVIOUS
<1>2. Current \in Frame /\ Current = frames[Len(frames)] /\ Below = Under(frames)
  BY CurrentFacts
<1>3. /\ f \in Frame /\ f.inst = Current.inst /\ f.debugger = Current.debugger
      /\ f.operands = Current.operands /\ f.at = at
  BY <1>1, <1>2 DEF Frame
<1>4. frames' = Append(Under(frames), f)
  BY <1>1, <1>2 DEF To
<1> QED
  BY <1>2, <1>3, <1>4, FramesTop

LEMMA BreakKeeps ==
  ASSUME DInv, Break
  PROVE  DInv'
<1>1. FramesOK(frames) /\ frames # << >> /\ ~Current.debugger /\ To("breaking")
  BY DEF DInv, Break, MustBreak
<1>2. Len(frames) = 1
  <2>1. Len(frames) \in Nat \ {0} /\ (Current.debugger <=> Len(frames) > 1)
    BY <1>1, CurrentFacts
  <2> QED
    BY <1>1, <2>1
<1>3. FramesOK(frames')
  BY <1>1, <1>2, GoesTo
<1>4. UNCHANGED << machine, status, terminal, debugging, disk, history >>
  BY DEF Break
<1> QED
  BY <1>3, <1>4 DEF DInv, TypeOK, MachineTypeOK, FramesOK, machine, debugging, disk, history, origin

LEMMA ResumeKeeps ==
  ASSUME DInv, Resume
  PROVE  DInv'
<1>1. FramesOK(frames) /\ frames # << >> /\ Current.at = "breaking" /\ To("ready")
  BY DEF DInv, Resume, InConsole
<1>2. Len(frames) = 1
  BY <1>1, CurrentFacts
<1>3. FramesOK(frames')
  BY <1>1, <1>2, GoesTo
<1>4. /\ should_break' \in BOOLEAN
      /\ UNCHANGED << machine, status, terminal, breakpoints, memory_traps, enable_tracing,
                      trace, disk, history >>
  BY DEF Resume, DInv, TypeOK
<1> QED
  BY <1>3, <1>4 DEF DInv, TypeOK, MachineTypeOK, FramesOK, machine, disk, history, origin

(* What a tick that runs its instruction leaves.                           *)
LEMMA ReturnsKeeps ==
  ASSUME DInv, frames # << >>, MachineTypeOK', trace' \in Seq(Change), Returns
  PROVE  DInv'
<1>1. FramesOK(frames')
  BY CurrentFacts DEF DInv, Returns
<1> QED
  BY <1>1 DEF DInv, TypeOK, FramesOK, Returns, disk, history, origin

LEMMA RunKeeps ==
  ASSUME DInv, Run
  PROVE  DInv'
<1>1. /\ frames # << >> /\ ~Underflow(Current.inst) /\ ~TraceOfRejected(Current.inst)
      /\ Execute(Current.inst) \/ (Current.inst = "IN" /\ \E c \in Input : inst_in(c))
      /\ RecordRun(Current.inst) /\ Returns
  BY DEF Run, Starting
<1>2. MachineTypeOK /\ trace \in Seq(Change) /\ FramesOK(frames)
  BY DEF DInv, TypeOK
<1>3. Current.inst \in Instruction
  BY <1>1, <1>2, CurrentFacts DEF Frame
<1>4. MachineTypeOK'
  BY <1>1, <1>2, <1>3, ExecuteLeaves DEF Leaves
<1>5. trace' \in Seq(Change)
  BY <1>1, <1>2, <1>4, RecordRunType DEF MachineTypeOK
<1> QED
  BY <1>1, <1>4, <1>5, ReturnsKeeps

LEMMA ReadEOFKeeps ==
  ASSUME DInv, ReadEOF
  PROVE  DInv'
<1>1. /\ frames # << >> /\ Current.inst = "IN" /\ ~Underflow("IN") /\ ~TraceOfRejected("IN")
      /\ frames' = Append(Below, [Current EXCEPT !.at = "reading", !.dest = Operand(1, 1)])
      /\ argument_stack' = Pop(argument_stack, 1)
      /\ should_break' = TRUE
      /\ trace' = IF enable_tracing THEN Append(trace, Started("IN")) ELSE trace
      /\ UNCHANGED << registers, memory, program_stack, instruction_ptr, status, terminal,
                      breakpoints, memory_traps, enable_tracing, disk, history >>
  BY DEF ReadEOF, Starting
<1>2. MachineTypeOK /\ trace \in Seq(Change) /\ FramesOK(frames)
  BY DEF DInv, TypeOK
<1>3. 1 \in 0 .. Len(argument_stack) /\ 1 <= Len(argument_stack)
  BY <1>1, <1>2, LenProperties DEF Underflow, arg_count, MachineTypeOK
<1>4. argument_stack' \in Seq(Word)
  BY <1>1, <1>2, <1>3, PopType DEF MachineTypeOK
<1>5. trace' \in Seq(Change)
  <2>1. enable_tracing => Started("IN") \in Change
    BY <1>1, <1>2, StartedType
  <2> QED
    BY <1>1, <1>2, <2>1, AppendProperties
<1>6. FramesOK(frames')
  <2>1. Operand(1, 1) \in Word
    BY <1>2, <1>3, OperandType
  <2>2. Current \in Frame /\ Current = frames[Len(frames)] /\ Below = Under(frames)
    BY <1>1, <1>2, CurrentFacts
  <2>3. PICK f : f = [Current EXCEPT !.at = "reading", !.dest = Operand(1, 1)]
    OBVIOUS
  <2>4. /\ f \in Frame /\ f.inst = Current.inst /\ f.debugger = Current.debugger
        /\ f.operands = Current.operands /\ f.at = "reading"
    <3> HIDE DEF Word
    <3> QED
      BY <2>1, <2>2, <2>3 DEF Frame
  <2>5. frames' = Append(Under(frames), f)
    BY <1>1, <2>2, <2>3
  <2> QED
    BY <1>1, <1>2, <2>2, <2>4, <2>5, FramesTop
<1> QED
  BY <1>1, <1>2, <1>4, <1>5, <1>6
     DEF DInv, TypeOK, MachineTypeOK, FramesOK, disk, history, origin

-----------------------------------------------------------------------------
(* The steps of the console.                                               *)

LEMMA ResumeINKeeps ==
  ASSUME DInv, ResumeIN
  PROVE  DInv'
<1>1. /\ MachineTypeOK /\ trace \in Seq(Change) /\ FramesOK(frames) /\ frames # << >>
      /\ enable_tracing \in BOOLEAN
  BY DEF DInv, TypeOK, ResumeIN, InConsole
<1>2. ASSUME NEW how \in {"killed", "failure", "aborted"}, Dies(how)
      PROVE  DInv'
  BY <1>2, DiesKeeps
<1>3. ASSUME is_valid(Current.dest),
             enable_tracing => IF trace = << >> THEN loaded ELSE trace[Len(trace)].address >= 0,
             Assign(Current.dest, NEWLINE),
             trace' = IF enable_tracing /\ trace # << >>
                      THEN [trace EXCEPT ![Len(trace)] = Finished(trace[Len(trace)])]
                      ELSE trace,
             UNCHANGED << argument_stack, program_stack, instruction_ptr, status, terminal >>,
             Returns
      PROVE  DInv'
  <2>1. Current.dest \in Operandable
    BY <1>1, <1>3, CurrentFacts, ValidType DEF Frame
  <2>2. NEWLINE \in Word
    BY ConstantFacts
  <2>3. registers' \in [RegIndex -> Word] /\ memory' \in [Address -> Word]
    BY <1>1, <1>3, <2>1, <2>2, AssignType
  <2>4. MachineTypeOK'
    BY <1>1, <1>3, <2>3 DEF MachineTypeOK
  <2>5. trace' \in Seq(Change)
    <3>1. CASE enable_tracing /\ trace # << >>
      <4>1. Len(trace) \in Nat \ {0}
        BY <1>1, <3>1, LenProperties, EmptySeq
      <4>2. PICK last : last = trace[Len(trace)]
        OBVIOUS
      <4>3. last \in Change /\ last.address >= 0
        <5>1. Len(trace) \in 1 .. Len(trace)
          BY <4>1
        <5> QED
          BY <1>1, <1>3, <3>1, <4>2, <5>1, ElementOfSeq
      <4>4. last.address \in Operandable
        BY <4>3, ConstantFacts DEF Change
      <4>5. Finished(last) \in Change
        BY <2>3, <4>3, <4>4, FinishedType
      <4>6. trace' = [trace EXCEPT ![Len(trace)] = Finished(last)]
        BY <1>3, <3>1, <4>2
      <4>7. trace \in [1 .. Len(trace) -> Change]
        BY <1>1, LenProperties
      <4>8. trace' \in [1 .. Len(trace) -> Change]
        <5>1. PICK new : new = Finished(last)
          OBVIOUS
        <5> HIDE DEF Change
        <5> QED
          BY <4>1, <4>5, <4>6, <4>7, <5>1
      <4> QED
        BY <4>1, <4>8, FunctionIsSeq
    <3>2. CASE ~(enable_tracing /\ trace # << >>)
      BY <1>1, <1>3, <3>2
    <3> QED
      BY <3>1, <3>2
  <2> QED
    BY <1>1, <1>3, <2>4, <2>5, ReturnsKeeps
<1> QED
  BY <1>2, <1>3 DEF ResumeIN

LEMMA EditKeeps ==
  ASSUME DInv, Edit
  PROVE  DInv'
<1>1. MachineTypeOK /\ commands \in 0 .. MaxCommands /\ MaxCommands \in Nat
  BY DebuggerFacts DEF DInv, TypeOK
<1>2. /\ commands' \in 0 .. MaxCommands
      /\ UNCHANGED << argument_stack, program_stack, status, terminal, frames,
                      debugging, disk, origin >>
  BY <1>1 DEF Edit, Counted
<1>3. /\ registers' \in [RegIndex -> Word] /\ memory' \in [Address -> Word]
      /\ instruction_ptr' \in Word
  <2>1. PICK a \in Typed :
          \/ instruction_ptr' = a /\ UNCHANGED << registers, memory >>
          \/ /\ \E v \in Values : memory' = [memory EXCEPT ![a] = v]
             /\ UNCHANGED << registers, instruction_ptr >>
          \/ /\ \E v \in Values : registers' = [registers EXCEPT ![a] = v]
             /\ UNCHANGED << memory, instruction_ptr >>
    BY DEF Edit
  <2>2. Typed \subseteq Word /\ Values \subseteq Word
    BY DebuggerFacts
  <2>3. CASE instruction_ptr' = a /\ UNCHANGED << registers, memory >>
    BY <1>1, <2>2, <2>3 DEF MachineTypeOK
  <2>4. CASE /\ \E v \in Values : memory' = [memory EXCEPT ![a] = v]
             /\ UNCHANGED << registers, instruction_ptr >>
    BY <1>1, <2>2, <2>4 DEF MachineTypeOK
  <2>5. CASE /\ \E v \in Values : registers' = [registers EXCEPT ![a] = v]
             /\ UNCHANGED << memory, instruction_ptr >>
    BY <1>1, <2>2, <2>5 DEF MachineTypeOK
  <2> QED
    BY <2>1, <2>3, <2>4, <2>5
<1> QED
  BY <1>2, <1>3 DEF DInv, TypeOK, MachineTypeOK, FramesOK, debugging, disk, origin

(* An address is below the bound its command asserts.                      *)
LEMMA BoundFacts ==
  /\ Bound("setbp") = MODULO /\ Bound("clearbp") = MODULO
  /\ Bound("setmtrap") = MODULO + NREGS /\ Bound("setitrap") = MODULO + NREGS
BY DEF Bound

LEMMA BreakpointsKeep ==
  ASSUME DInv, Breakpoints \/ Traps
  PROVE  DInv'
<1>1. CASE Breakpoints
  <2>1. breakpoints' \subseteq Address
    <3>1. breakpoints \subseteq Address
      BY DEF DInv, TypeOK
    <3>2. \A a \in Typed : a < Bound("setbp") => a \in Address
      BY BoundFacts, DebuggerFacts, ConstantFacts
    <3> HIDE DEF Address
    <3> QED
      BY <1>1, <3>1, <3>2 DEF Breakpoints, Accepts
  <2>2. UNCHANGED << machine, status, terminal, frames, should_break, memory_traps,
                     enable_tracing, trace, disk, history >>
    BY <1>1 DEF Breakpoints
  <2> QED
    BY <2>1, <2>2 DEF DInv, TypeOK, MachineTypeOK, FramesOK, machine, disk, history, origin
<1>2. CASE Traps
  <2>1. memory_traps' \subseteq Operandable
    <3>1. memory_traps \subseteq Operandable
      BY DEF DInv, TypeOK
    <3>2. \A a \in Typed :
            a < Bound("setmtrap") \/ a < Bound("setitrap") => a \in Operandable
      BY BoundFacts, DebuggerFacts, ConstantFacts
    <3> HIDE DEF Operandable
    <3> QED
      BY <1>2, <3>1, <3>2 DEF Traps, Accepts
  <2>2. UNCHANGED << machine, status, terminal, frames, should_break, breakpoints,
                     enable_tracing, trace, disk, history >>
    BY <1>2 DEF Traps
  <2> QED
    BY <2>1, <2>2 DEF DInv, TypeOK, MachineTypeOK, FramesOK, machine, disk, history, origin
<1> QED
  BY <1>1, <1>2

LEMMA LoadStateKeeps ==
  ASSUME DInv, LoadState
  PROVE  DInv'
<1>1. /\ commands \in 0 .. MaxCommands /\ MaxCommands \in Nat /\ WellFormed(saved)
  BY DebuggerFacts DEF DInv, TypeOK
<1>2. PICK f \in Images \cup ({saved} \ {NoFile}) :
        /\ registers' = FileRegisters(f) /\ memory' = FileMemory(f)
        /\ argument_stack' = FileArgumentStack(f)
        /\ program_stack' = FileProgramStack(f)
        /\ instruction_ptr' = FileInstructionPtr(f)
        /\ residue' = FileArgumentStack(f)
  BY DEF LoadState
<1>3. WellFormed(f)
  BY <1>1, DebuggerFacts
<1>4. /\ FileRegisters(f) \in [RegIndex -> Word] /\ FileMemory(f) \in [Address -> Word]
      /\ FileArgumentStack(f) \in Seq(Word) /\ FileProgramStack(f) \in Seq(Word)
      /\ FileInstructionPtr(f) \in Word
  BY <1>3, FileType
<1>5. /\ trace' = << >> /\ enable_tracing' = FALSE /\ loaded' = TRUE
      /\ commands' \in 0 .. MaxCommands
      /\ UNCHANGED << status, terminal, frames, should_break, breakpoints, memory_traps, disk >>
  BY <1>1 DEF LoadState, Counted
<1>6. << >> \in Seq(Change)
  BY EmptySeq
<1> HIDE DEF Address, Word, RegIndex, Operandable
<1>7. MachineTypeOK'
  BY <1>2, <1>4, <1>5 DEF DInv, TypeOK, MachineTypeOK
<1> QED
  BY <1>2, <1>4, <1>5, <1>6, <1>7 DEF DInv, TypeOK, FramesOK, disk

(* The commands that write a file or turn the trace on and off.            *)
LEMMA FilesKeep ==
  ASSUME DInv, SaveState \/ StartTrace \/ StopTrace \/ SaveTrace
  PROVE  DInv'
<1>1. Snapshot \in Seq(Word) /\ WellFormed(Snapshot)
  BY SnapshotFacts DEF DInv, TypeOK
<1>2. commands \in 0 .. MaxCommands /\ MaxCommands \in Nat /\ << >> \in Seq(Word)
  BY DebuggerFacts, EmptySeq DEF DInv, TypeOK
<1>3. CASE SaveTrace /\ \E how \in {"killed"} : Dies(how)
  BY <1>3, DiesKeeps
<1>4. CASE \/ SaveState \/ StartTrace \/ StopTrace
           \/ /\ trace_state' = NoFile
              /\ UNCHANGED << machine, status, terminal, frames, debugging, saved, history >>
  <2> DEFINE Kept == /\ saved' \in Seq(Word) /\ WellFormed(saved')
                     /\ trace_state' \in Seq(Word) /\ enable_tracing' \in BOOLEAN
                     /\ commands' \in 0 .. MaxCommands
  <2>1. UNCHANGED << machine, status, terminal, frames, should_break, breakpoints,
                     memory_traps, trace, origin >>
    BY <1>4 DEF SaveState, StartTrace, StopTrace, debugging, history
  <2>2. /\ saved \in Seq(Word) /\ WellFormed(saved) /\ trace_state \in Seq(Word)
        /\ enable_tracing \in BOOLEAN
    BY DEF DInv, TypeOK
  <2>3. ASSUME SaveState PROVE Kept
    <3>1. saved' = Snapshot /\ UNCHANGED << trace_state, enable_tracing, commands >>
      BY <2>3 DEF SaveState, debugging, history
    <3> QED
      BY <1>1, <1>2, <2>2, <3>1
  <2>4. ASSUME StartTrace PROVE Kept
    <3>1. trace_state' = Snapshot /\ enable_tracing' = TRUE /\ UNCHANGED saved
      BY <2>4 DEF StartTrace
    <3>2. commands' \in 0 .. MaxCommands
      BY <1>2, <2>4 DEF StartTrace, Counted
    <3> QED
      BY <1>1, <2>2, <3>1, <3>2
  <2>5. ASSUME StopTrace PROVE Kept
    <3>1. UNCHANGED << saved, trace_state >> /\ enable_tracing' = FALSE
      BY <2>5 DEF StopTrace, disk
    <3>2. commands' \in 0 .. MaxCommands
      BY <1>2, <2>5 DEF StopTrace, Counted
    <3> QED
      BY <2>2, <3>1, <3>2
  <2>6. ASSUME trace_state' = NoFile,
               UNCHANGED << machine, status, terminal, frames, debugging, saved, history >>
        PROVE  Kept
    BY <1>2, <2>2, <2>6 DEF debugging, history, NoFile
  <2>7. Kept
    BY <1>4, <2>3, <2>4, <2>5, <2>6
  <2> HIDE DEF Address, Word, RegIndex, Operandable
  <2> QED
    BY <2>1, <2>2, <2>7 DEF DInv, TypeOK, MachineTypeOK, FramesOK, machine, origin
<1> QED
  BY <1>3, <1>4 DEF SaveTrace

(* Every way out of the process.                                           *)
LEMMA EndsKeep ==
  ASSUME DInv, RunFails \/ FileFails \/ ListingFails \/ Quit \/ AssertFails
  PROVE  DInv'
<1>1. \E how \in {"success", "failure", "killed", "aborted"} : Dies(how)
  BY DEF RunFails, FileFails, ListingFails, Quit, AssertFails
<1> QED
  BY <1>1, DiesKeeps

-----------------------------------------------------------------------------
LEMMA InitHolds == Init => DInv
<1> SUFFICES ASSUME Init PROVE DInv
  OBVIOUS
<1>1. PICK f \in Images : Loaded(f)
  BY DEF Init
<1>2. /\ registers \in [RegIndex -> Word] /\ memory \in [Address -> Word]
      /\ argument_stack \in Seq(Word) /\ program_stack \in Seq(Word)
      /\ instruction_ptr \in Word
  BY <1>1, DebuggerFacts, LoadedType
<1>3. MachineTypeOK
  BY <1>2, ConstantFacts DEF Init, MachineTypeOK
<1>4. FramesOK(frames)
  <2>1. frames = << >> /\ << >> \in Seq(Frame)
    BY EmptySeq DEF Init
  <2> HIDE DEF Frame
  <2> QED
    BY <2>1 DEF FramesOK
<1>5. << >> \in Seq(Word) /\ << >> \in Seq(Change) /\ WellFormed(<< >>)
  BY EmptySeq, ConstantFacts DEF WellFormed, IsDump
<1>6. 0 \in 0 .. MaxCommands
  BY DebuggerFacts
<1> QED
  BY <1>2, <1>3, <1>4, <1>5, <1>6 DEF Init, DInv, TypeOK, FramesOK, NoFile

LEMMA NextKeeps == DInv /\ [Next]_vars => DInv'
<1> SUFFICES ASSUME DInv, [Next]_vars PROVE DInv'
  OBVIOUS
<1>1. CASE Interrupted
  BY <1>1 DEF Interrupted, DInv, TypeOK, MachineTypeOK, FramesOK, machine, disk, history, origin
<1>2. CASE MainTick
  <2>1. commands' \in 0 .. MaxCommands
    BY <1>2 DEF MainTick, DInv, TypeOK
  <2> QED
    BY <1>2, <2>1, TickKeeps DEF MainTick
<1>3. CASE Break
  BY <1>3, BreakKeeps
<1>4. CASE Run
  BY <1>4, RunKeeps
<1>5. CASE ReadEOF
  BY <1>5, ReadEOFKeeps
<1>6. CASE RunFails \/ FileFails \/ ListingFails \/ Quit \/ AssertFails
  BY <1>6, EndsKeep
<1>7. CASE Resume
  BY <1>7, ResumeKeeps
<1>8. CASE ResumeIN
  BY <1>8, ResumeINKeeps
<1>9. CASE Edit
  BY <1>9, EditKeeps
<1>10. CASE Breakpoints \/ Traps
  BY <1>10, BreakpointsKeep
<1>11. CASE NestedTick
  <2>1. /\ InConsole /\ Tick(TRUE) /\ frames # << >>
        /\ commands \in 0 .. MaxCommands /\ MaxCommands \in Nat
        /\ commands < MaxCommands /\ commands' = commands + 1
    BY <1>11, DebuggerFacts DEF NestedTick, Command, Counted, InConsole, DInv, TypeOK
  <2>2. commands' \in 0 .. MaxCommands
    BY <2>1
  <2> QED
    BY <2>1, <2>2, TickKeeps
<1>12. CASE LoadState
  BY <1>12, LoadStateKeeps
<1>13. CASE SaveState \/ StartTrace \/ StopTrace \/ SaveTrace
  BY <1>13, FilesKeep
<1>14. CASE UNCHANGED vars
  BY <1>14 DEF vars, DInv, TypeOK, MachineTypeOK, FramesOK, debugging, disk, history, origin
<1> QED
  BY <1>1, <1>2, <1>3, <1>4, <1>5, <1>6, <1>7, <1>8, <1>9, <1>10, <1>11, <1>12, <1>13, <1>14
     DEF Next, Console, Ended

LEMMA Inductive == Spec => []DInv
BY InitHolds, NextKeeps, PTL DEF Spec

(***************************************************************************)
(* What the members of virtual_machine_t and of debugging_t and the frames *)
(* of tick( ) hold is of their types, whatever is typed and loaded         *)
(* (vm.h:67-102, vm_control.h:36-60): a trap is an operand, a traced       *)
(* address a cell, a breakpoint an address in memory.                      *)
(***************************************************************************)
THEOREM TypeCorrect == Spec => []TypeOK
<1>1. DInv => TypeOK
  BY DEF DInv
<1> QED
  BY <1>1, Inductive, PTL

(***************************************************************************)
(* Every tick under another one stands in a console, and only main's tick  *)
(* is ever at a break (vm.cpp:206, :630).                                  *)
(***************************************************************************)
THEOREM ConsolesNest == Spec => []CallStack
<1>1. DInv => CallStack
  BY DEF DInv, FramesOK, CallStack
<1> QED
  BY <1>1, Inductive, PTL

-----------------------------------------------------------------------------
(* The operands of ticks inside ticks.                                     *)

(* stack is base, and on it the operands of the ticks of s: g says what it *)
(* was when only the lowest n of them were there.                          *)
StackedBy(g, s, base) ==
  /\ g \in [0 .. Len(s) -> Seq(Word)] /\ g[0] = base
  /\ \A n \in 1 .. Len(s) : g[n] = g[n - 1] \o Pending(s[n])

IsStacked(s, base, stack) ==
  \E g \in [0 .. Len(s) -> Seq(Word)] : StackedBy(g, s, base) /\ stack = g[Len(s)]

(* What a frame has on the stack.                                          *)
LEMMA PendingType ==
  ASSUME NEW f \in Frame
  PROVE  Pending(f) \in Seq(Word)
<1>1. Seq(Operandable) \subseteq Seq(Word)
  <2>1. Operandable \subseteq Word
    BY ConstantFacts
  <2> HIDE DEF Operandable, Word
  <2> QED
    BY <2>1, SeqMonotonic
<1>2. f.operands \in Seq(Operandable)
  BY DEF Frame
<1> QED
  BY <1>1, <1>2, EmptySeq DEF Pending

(* One tick more, its operands on top.                                     *)
LEMMA StackedPush ==
  ASSUME NEW s \in Seq(Frame), NEW base, NEW stack, IsStacked(s, base, stack), NEW f \in Frame
  PROVE  IsStacked(Append(s, f), base, stack \o Pending(f))
<1>1. PICK t : t = Append(s, f)
  OBVIOUS
<1>2. PICK n : n = Len(s)
  OBVIOUS
<1>3. /\ n \in Nat /\ t \in Seq(Frame) /\ Len(t) = n + 1 /\ t[n + 1] = f
      /\ \A i \in 1 .. n : t[i] = s[i]
  BY <1>1, <1>2, AppendProperties, LenProperties
<1>4. PICK g \in [0 .. n -> Seq(Word)] :
        /\ g[0] = base /\ stack = g[n]
        /\ \A i \in 1 .. n : g[i] = g[i - 1] \o Pending(s[i])
  BY <1>2 DEF IsStacked, StackedBy
<1>5. PICK top : top = stack \o Pending(f)
  OBVIOUS
<1>6. top \in Seq(Word)
  <2>1. stack \in Seq(Word) /\ Pending(f) \in Seq(Word)
    BY <1>3, <1>4, PendingType
  <2> HIDE DEF Word
  <2> QED
    BY <1>5, <2>1, ConcatProperties
<1>7. PICK h : h = [i \in 0 .. n + 1 |-> IF i <= n THEN g[i] ELSE top]
  OBVIOUS
<1>8. h \in [0 .. n + 1 -> Seq(Word)] /\ h[0] = base /\ h[n + 1] = top
      /\ \A i \in 0 .. n : h[i] = g[i]
  <2> HIDE DEF Word
  <2> QED
    BY <1>3, <1>4, <1>6, <1>7
<1>9. ASSUME NEW i \in 1 .. n + 1
      PROVE  h[i] = h[i - 1] \o Pending(t[i])
  <2>1. CASE i = n + 1
    <3>1. h[i] = top /\ t[i] = f /\ i - 1 = n /\ h[n] = g[n]
      <4>1. i - 1 = n /\ n \in 0 .. n
        BY <1>3, <2>1
      <4>2. h[n + 1] = top /\ t[n + 1] = f /\ h[n] = g[n]
        BY <1>3, <1>8, <4>1
      <4> QED
        BY <2>1, <4>1, <4>2
    <3> QED
      BY <1>4, <1>5, <3>1
  <2>2. CASE i \in 1 .. n
    <3>1. h[i] = g[i] /\ t[i] = s[i] /\ h[i - 1] = g[i - 1]
      BY <1>3, <1>8, <2>2
    <3> QED
      BY <1>4, <2>2, <3>1
  <2> QED
    BY <1>3, <2>1, <2>2
<1> HIDE DEF Word
<1> QED
  BY <1>1, <1>3, <1>5, <1>8, <1>9 DEF IsStacked, StackedBy

(* The innermost tick gone, and its operands with it.                      *)
LEMMA StackedPop ==
  ASSUME NEW s, FramesOK(s), s # << >>, NEW base, NEW stack, IsStacked(s, base, stack)
  PROVE  \E rest \in Seq(Word) : /\ IsStacked(Under(s), base, rest)
                                 /\ stack = rest \o Pending(s[Len(s)])
<1>1. PICK t : t = Under(s)
  OBVIOUS
<1>2. PICK n : n = Len(s)
  OBVIOUS
<1>3. /\ n \in Nat \ {0} /\ t \in Seq(Frame) /\ Len(t) = n - 1
      /\ \A i \in 1 .. n - 1 : t[i] = s[i]
  BY <1>1, <1>2, FramesPop
<1>4. PICK g \in [0 .. n -> Seq(Word)] :
        /\ g[0] = base /\ stack = g[n]
        /\ \A i \in 1 .. n : g[i] = g[i - 1] \o Pending(s[i])
  BY <1>2 DEF IsStacked, StackedBy
<1>5. PICK h : h = [i \in 0 .. n - 1 |-> g[i]]
  OBVIOUS
<1>6. h \in [0 .. n - 1 -> Seq(Word)] /\ h[0] = base /\ \A i \in 0 .. n - 1 : h[i] = g[i]
  <2> HIDE DEF Word
  <2> QED
    BY <1>3, <1>4, <1>5
<1>7. ASSUME NEW i \in 1 .. n - 1
      PROVE  h[i] = h[i - 1] \o Pending(t[i])
  <2>1. h[i] = g[i] /\ h[i - 1] = g[i - 1] /\ t[i] = s[i] /\ i \in 1 .. n
    BY <1>3, <1>6
  <2> QED
    BY <1>4, <2>1
<1>8. n - 1 \in 0 .. n - 1 /\ n \in 1 .. n
  BY <1>3
<1> HIDE DEF Word
<1>9. IsStacked(t, base, h[n - 1]) /\ h[n - 1] \in Seq(Word)
  BY <1>3, <1>6, <1>7, <1>8 DEF IsStacked, StackedBy
<1>10. stack = h[n - 1] \o Pending(s[n])
  BY <1>4, <1>6, <1>8
<1> QED
  BY <1>1, <1>2, <1>9, <1>10

(* A tick that goes on to another place, with or without its operands.     *)
LEMMA StackedTop ==
  ASSUME NEW s, FramesOK(s), s # << >>, NEW base, NEW stack, IsStacked(s, base, stack),
         NEW f \in Frame, Pending(f) = Pending(s[Len(s)])
  PROVE  IsStacked(Append(Under(s), f), base, stack)
<1>1. PICK rest \in Seq(Word) : /\ IsStacked(Under(s), base, rest)
                                /\ stack = rest \o Pending(s[Len(s)])
  BY StackedPop
<1>2. Under(s) \in Seq(Frame)
  BY FramesPop
<1> QED
  BY <1>1, <1>2, StackedPush

(* What the argument stack is, until a file is loaded over it.             *)
OperandsOK == Running /\ ~loaded => IsStacked(frames, residue, argument_stack)

(* An instruction takes the operands of its own tick and no other's.       *)
LEMMA RunTakesItsOwn ==
  ASSUME DInv, frames # << >>, Current.at # "reading", IsStacked(frames, residue, argument_stack)
  PROVE  LET n == arg_count(Current.inst)
         IN IsStacked(Below, residue, Pop(argument_stack, n))
<1>1. PICK rest \in Seq(Word) : /\ IsStacked(Under(frames), residue, rest)
                                /\ argument_stack = rest \o Pending(frames[Len(frames)])
  BY StackedPop DEF DInv
<1>2. /\ Current \in Frame /\ Current = frames[Len(frames)] /\ Below = Under(frames)
      /\ Len(Current.operands) = arg_count(Current.inst)
  BY CurrentFacts DEF DInv
<1>3. Pending(Current) = Current.operands
  BY DEF Pending
<1>4. Pending(Current) \in Seq(Word)
  BY <1>2, PendingType
<1>5. Pop(argument_stack, arg_count(Current.inst)) = rest
  <2>1. Pop(rest \o Pending(Current), Len(Pending(Current))) = rest
    <3> HIDE DEF Word
    <3> QED
      BY <1>1, <1>4, PopConcat
  <2> QED
    BY <1>1, <1>2, <1>3, <2>1
<1> QED
  BY <1>1, <1>2, <1>5

LEMMA TickStacks ==
  ASSUME DInv, IsStacked(frames, residue, argument_stack), NEW debugger \in BOOLEAN, Tick(debugger)
  PROVE  OperandsOK'
<1>1. UNCHANGED << residue, loaded >>
  BY DEF Tick, origin
<1>2. CASE FetchFails
  BY <1>2 DEF FetchFails, Exit, OperandsOK, Running
<1>3. ASSUME FetchOperands,
             frames' = Append(frames,
               [ inst |-> Fetched, debugger |-> debugger, dest |-> 0, at |-> "fetched",
                 next |-> instruction_ptr',
                 operands |-> OperandsAt(instruction_ptr, arg_count(Fetched)) ])
      PROVE  OperandsOK'
  <2>1. PICK os : os = OperandsAt(instruction_ptr, arg_count(Fetched))
    OBVIOUS
  <2>2. PICK f : f = [ inst |-> Fetched, debugger |-> debugger, dest |-> 0, at |-> "fetched",
                       next |-> instruction_ptr', operands |-> os ]
    OBVIOUS
  <2>3. Fetched \in Instruction /\ os \in Seq(Operandable) /\ instruction_ptr' \in Word
    BY <1>3, <2>1, FetchFacts, ConstantFacts DEF DInv, TypeOK
  <2>4. f \in Frame
    <3>1. 0 \in Word
      BY ConstantFacts
    <3> HIDE DEF Word, Operandable
    <3> QED
      BY <2>2, <2>3, <3>1 DEF Frame
  <2>5. Pending(f) = os
    BY <2>2 DEF Pending
  <2>6. argument_stack' = argument_stack \o Pending(f)
    BY <1>3, <2>1, <2>5 DEF FetchOperands
  <2>7. frames' = Append(frames, f)
    BY <1>3, <2>1, <2>2
  <2>8. frames \in Seq(Frame)
    BY DEF DInv, FramesOK
  <2>9. IsStacked(frames', residue', argument_stack')
    BY <1>1, <2>4, <2>6, <2>7, <2>8, StackedPush
  <2> QED
    BY <2>9 DEF OperandsOK
<1> QED
  BY <1>2, <1>3 DEF Tick

(* Through a break and back the operands stay where they are.              *)
LEMMA BreakStacks ==
  ASSUME DInv, IsStacked(frames, residue, argument_stack), Break \/ Resume
  PROVE  OperandsOK'
<1>1. PICK at \in {"breaking", "ready"} : To(at)
  BY DEF Break, Resume
<1>2. frames # << >> /\ Current.at # "reading" /\ UNCHANGED << machine, history >>
  BY DEF Break, Resume, InConsole
<1>3. PICK f : f = [Current EXCEPT !.at = at]
  OBVIOUS
<1>4. Current \in Frame /\ Current = frames[Len(frames)] /\ Below = Under(frames)
  BY <1>2, CurrentFacts DEF DInv
<1>5. f \in Frame /\ f.at # "reading" /\ f.operands = Current.operands
  BY <1>3, <1>4 DEF Frame
<1>6. Pending(f) = Pending(frames[Len(frames)])
  BY <1>2, <1>4, <1>5 DEF Pending
<1>7. frames' = Append(Under(frames), f)
  BY <1>1, <1>3, <1>4 DEF To
<1>8. IsStacked(frames', residue, argument_stack)
  BY <1>2, <1>5, <1>6, <1>7, StackedTop DEF DInv
<1>9. UNCHANGED << residue, argument_stack >>
  BY <1>2 DEF machine, history, origin
<1> QED
  BY <1>8, <1>9 DEF OperandsOK

LEMMA RunStacks ==
  ASSUME DInv, IsStacked(frames, residue, argument_stack), Run
  PROVE  OperandsOK'
<1>1. /\ frames # << >> /\ Current.at # "reading" /\ ~Underflow(Current.inst)
      /\ Execute(Current.inst) \/ (Current.inst = "IN" /\ \E c \in Input : inst_in(c))
      /\ Returns
  BY DEF Run, Starting
<1>2. MachineTypeOK /\ Current.inst \in Instruction
  BY <1>1, CurrentFacts DEF DInv, TypeOK, Frame
<1>3. Running' => argument_stack' = Pop(argument_stack, arg_count(Current.inst))
  BY <1>1, <1>2, ExecuteLeaves DEF Leaves
<1>4. IsStacked(Below, residue, Pop(argument_stack, arg_count(Current.inst)))
  BY <1>1, RunTakesItsOwn
<1>5. UNCHANGED residue /\ (Running' => frames' = Below)
  BY <1>1 DEF Returns, history, origin
<1> QED
  BY <1>3, <1>4, <1>5 DEF OperandsOK

(* IN takes its operand before it opens the console.                       *)
LEMMA ReadEOFStacks ==
  ASSUME DInv, IsStacked(frames, residue, argument_stack), ReadEOF
  PROVE  OperandsOK'
<1>1. /\ frames # << >> /\ Current.at # "reading" /\ Current.inst = "IN" /\ ~Underflow("IN")
      /\ frames' = Append(Below, [Current EXCEPT !.at = "reading", !.dest = Operand(1, 1)])
      /\ argument_stack' = Pop(argument_stack, 1) /\ UNCHANGED history
  BY DEF ReadEOF, Starting
<1>2. Current \in Frame /\ Below = Under(frames) /\ Below \in Seq(Frame)
  BY <1>1, CurrentFacts DEF DInv, FramesOK
<1>3. IsStacked(Below, residue, Pop(argument_stack, 1))
  <2>1. arg_count(Current.inst) = 1
    BY <1>1 DEF arg_count
  <2> QED
    BY <1>1, <2>1, RunTakesItsOwn
<1>4. MachineTypeOK /\ 1 \in 0 .. Len(argument_stack) /\ 1 <= Len(argument_stack)
  BY <1>1, LenProperties DEF Underflow, arg_count, DInv, TypeOK, MachineTypeOK
<1>5. argument_stack' \in Seq(Word)
  BY <1>1, <1>4, PopType DEF MachineTypeOK
<1>6. Operand(1, 1) \in Word
  BY <1>4, OperandType
<1>7. PICK f : f = [Current EXCEPT !.at = "reading", !.dest = Operand(1, 1)]
  OBVIOUS
<1> HIDE DEF Word
<1>8. f \in Frame /\ Pending(f) = << >>
  BY <1>2, <1>6, <1>7 DEF Frame, Pending
<1>9. Pop(argument_stack, 1) \o << >> = Pop(argument_stack, 1)
  BY <1>1, <1>5, ConcatEmptySeq
<1>10. IsStacked(Append(Below, f), residue, Pop(argument_stack, 1) \o Pending(f))
  BY <1>2, <1>3, <1>8, StackedPush
<1>11. IsStacked(frames', residue, argument_stack')
  BY <1>1, <1>7, <1>8, <1>9, <1>10
<1>12. UNCHANGED residue
  BY <1>1 DEF history, origin
<1> QED
  BY <1>11, <1>12 DEF OperandsOK

LEMMA ResumeINStacks ==
  ASSUME DInv, IsStacked(frames, residue, argument_stack), ResumeIN
  PROVE  OperandsOK'
<1>1. ASSUME NEW how \in {"killed", "failure", "aborted"}, Dies(how)
      PROVE  OperandsOK'
  BY <1>1 DEF Dies, Exit, Running, OperandsOK
<1>2. ASSUME Returns, UNCHANGED argument_stack
      PROVE  OperandsOK'
  <2>1. frames # << >> /\ Current.at = "reading"
    BY DEF ResumeIN, InConsole
  <2>2. Current = frames[Len(frames)] /\ Below = Under(frames)
    BY <2>1, CurrentFacts DEF DInv
  <2>3. Pending(frames[Len(frames)]) = << >>
    BY <2>1, <2>2 DEF Pending
  <2>4. PICK rest \in Seq(Word) : /\ IsStacked(Under(frames), residue, rest)
                                  /\ argument_stack = rest \o << >>
    <3>1. FramesOK(frames)
      BY DEF DInv
    <3> HIDE DEF Word
    <3> QED
      BY <2>1, <2>3, <3>1, StackedPop
  <2>5. argument_stack = rest
    <3> HIDE DEF Word
    <3> QED
      BY <2>4, ConcatEmptySeq
  <2>6. UNCHANGED residue /\ (Running' => frames' = Below)
    BY <1>2 DEF Returns, history, origin
  <2> QED
    BY <1>2, <2>2, <2>4, <2>5, <2>6 DEF OperandsOK
<1> QED
  BY <1>1, <1>2 DEF ResumeIN

LEMMA OperandsStay ==
  DInv /\ OperandsOK /\ [Next]_vars => OperandsOK'
<1> SUFFICES ASSUME DInv, OperandsOK, [Next]_vars PROVE OperandsOK'
  OBVIOUS
<1>1. CASE UNCHANGED << frames, origin, argument_stack, status >>
  BY <1>1 DEF OperandsOK, origin, Running
<1>2. CASE MainTick \/ NestedTick
  <2>1. Running /\ UNCHANGED loaded
    BY <1>2 DEF MainTick, NestedTick, Command, InConsole, Tick, origin
  <2>2. PICK debugger \in BOOLEAN : Tick(debugger)
    BY <1>2 DEF MainTick, NestedTick
  <2>3. IsStacked(frames, residue, argument_stack) => OperandsOK'
    BY ONLY <2>2, DInv, TickStacks
  <2> QED
    BY <2>1, <2>3 DEF OperandsOK
<1>3. CASE Break \/ Resume
  <2>1. Running /\ UNCHANGED loaded
    BY <1>3 DEF Break, Resume, InConsole, history, origin
  <2> QED
    BY <1>3, <2>1, BreakStacks DEF OperandsOK
<1>4. CASE Run
  <2>1. Running /\ UNCHANGED loaded
    BY <1>4 DEF Run, Starting, Returns, history, origin
  <2> QED
    BY <1>4, <2>1, RunStacks DEF OperandsOK
<1>5. CASE ReadEOF
  <2>1. Running /\ UNCHANGED loaded
    BY <1>5 DEF ReadEOF, Starting, history, origin
  <2> QED
    BY <1>5, <2>1, ReadEOFStacks DEF OperandsOK
<1>6. CASE ResumeIN
  <2>1. Running /\ UNCHANGED loaded
    BY <1>6 DEF ResumeIN, InConsole, Returns, Dies, history, origin
  <2> QED
    BY <1>6, <2>1, ResumeINStacks DEF OperandsOK
<1>7. CASE RunFails \/ FileFails \/ ListingFails \/ Quit \/ AssertFails
  <2>1. \E how \in {"success", "failure", "killed", "aborted"} : Dies(how)
    BY <1>7 DEF RunFails, FileFails, ListingFails, Quit, AssertFails
  <2> QED
    BY <2>1 DEF Dies, Exit, Running, OperandsOK
<1>8. CASE LoadState
  BY <1>8 DEF LoadState, OperandsOK
<1>9. CASE Interrupted \/ Breakpoints \/ Traps \/ SaveState
  BY <1>1, <1>9 DEF Interrupted, Breakpoints, Traps, SaveState, machine, history
<1>10. CASE Edit \/ StartTrace \/ StopTrace
  BY <1>1, <1>10 DEF Edit, StartTrace, StopTrace, machine
<1>11. CASE SaveTrace
  <2>1. CASE Dies("killed")
    BY <2>1 DEF Dies, Exit, Running, OperandsOK
  <2>2. CASE UNCHANGED << machine, status, frames, history >>
    BY <1>1, <2>2 DEF machine, history
  <2> QED
    BY <1>11, <2>1, <2>2 DEF SaveTrace
<1>12. CASE UNCHANGED vars
  BY <1>1, <1>12 DEF vars, history, origin
<1> QED
  BY <1>2, <1>3, <1>4, <1>5, <1>6, <1>7, <1>8, <1>9, <1>10, <1>11, <1>12 DEF Next, Console, Ended

(* There is only one way to stack the operands of a sequence of ticks.     *)
LEMMA OneStack ==
  ASSUME NEW s \in Seq(Frame), NEW base, NEW stack, IsStacked(s, base, stack),
         NEW f, f = [n \in 0 .. Len(s) |->
                       IF n = 0 THEN base ELSE f[n - 1] \o Pending(s[n])]
  PROVE  stack = f[Len(s)]
<1>1. PICK g : StackedBy(g, s, base) /\ stack = g[Len(s)]
  BY DEF IsStacked
<1>2. Len(s) \in Nat
  BY LenProperties
<1>5. SUFFICES ASSUME g[Len(s)] # f[Len(s)] PROVE FALSE
  BY <1>1
<1>6. PICK T : T = { n \in 0 .. Len(s) : g[n] # f[n] }
  OBVIOUS
<1>7. T \in SUBSET Nat /\ T # {}
  <2>1. Len(s) \in 0 .. Len(s) /\ 0 .. Len(s) \subseteq Nat
    BY <1>2
  <2> QED
    BY <1>5, <1>6, <2>1
<1>8. PICK n \in T : \A m \in T : n <= m
  BY <1>7, Smallest
<1>9. n \in 0 .. Len(s) /\ g[n] # f[n]
  BY <1>6, <1>8
<1>10. n # 0
  <2>1. 0 \in 0 .. Len(s)
    BY <1>2
  <2>2. g[0] = base /\ f[0] = base
    BY <2>1, <1>1 DEF StackedBy
  <2> QED
    BY <1>9, <2>2
<1>11. n - 1 \in 0 .. Len(s) /\ n - 1 \notin T /\ n \in 1 .. Len(s)
  BY <1>2, <1>8, <1>9, <1>10
<1>12. g[n - 1] = f[n - 1]
  BY <1>6, <1>11
<1>13. g[n] = g[n - 1] \o Pending(s[n])
  BY <1>1, <1>11 DEF StackedBy
<1>14. f[n] = f[n - 1] \o Pending(s[n])
  BY <1>9, <1>10
<1> QED
  BY <1>9, <1>12, <1>13, <1>14

(* At the start the stack is what the file brought.                        *)
LEMMA InitStacked == Init => OperandsOK
<1> SUFFICES ASSUME Init PROVE IsStacked(frames, residue, argument_stack)
  BY DEF OperandsOK
<1>1. argument_stack \in Seq(Word)
  BY InitHolds DEF DInv, TypeOK, MachineTypeOK
<1>2. frames = << >> /\ Len(<< >>) = 0 /\ residue = argument_stack
  BY EmptySeq DEF Init
<1>3. PICK g : g = [n \in 0 .. 0 |-> argument_stack]
  OBVIOUS
<1> HIDE DEF Word
<1> QED
  BY <1>1, <1>2, <1>3 DEF IsStacked, StackedBy

(***************************************************************************)
(* A tick that the console runs inside another never takes an operand of   *)
(* the one it interrupts: until a file is loaded under them, argument_stack*)
(* is what the first file brought and the operands of the pending          *)
(* instructions, in the order they were fetched (vm.cpp:201,               *)
(* vm_control.cpp:82).                                                     *)
(***************************************************************************)
THEOREM NestedTicksKeepOperands == Spec => []NestedOperands
<1>1. Init => OperandsOK
  BY InitStacked
<1>2. DInv /\ OperandsOK => NestedOperands
  <2> SUFFICES ASSUME DInv, Running, ~loaded, IsStacked(frames, residue, argument_stack)
               PROVE  argument_stack = Stacked[Len(frames)]
    BY DEF OperandsOK, NestedOperands
  <2>1. frames \in Seq(Frame)
    BY DEF DInv, FramesOK
  <2>2. PICK g : StackedBy(g, frames, residue)
    BY DEF IsStacked
  <2>3. g = [n \in 0 .. Len(frames) |->
              IF n = 0 THEN residue ELSE g[n - 1] \o Pending(frames[n])]
    <3>1. /\ g = [n \in DOMAIN g |-> g[n]] /\ DOMAIN g = 0 .. Len(frames)
          /\ g[0] = residue
          /\ \A n \in 1 .. Len(frames) : g[n] = g[n - 1] \o Pending(frames[n])
      BY <2>2 DEF StackedBy
    <3>2. \A n \in 0 .. Len(frames) : n = 0 \/ n \in 1 .. Len(frames)
      OBVIOUS
    <3>3. \A n \in 0 .. Len(frames) :
            g[n] = IF n = 0 THEN residue ELSE g[n - 1] \o Pending(frames[n])
      BY ONLY <3>1, <3>2
    <3> QED
      BY ONLY <3>1, <3>3
  <2>4. Stacked = [n \in 0 .. Len(frames) |->
                    IF n = 0 THEN residue ELSE Stacked[n - 1] \o Pending(frames[n])]
    BY <2>3 DEF Stacked
  <2> QED
    BY <2>1, <2>4, OneStack
<1> QED
  BY <1>1, <1>2, OperandsStay, Inductive, PTL DEF Spec

-----------------------------------------------------------------------------
(* The debugged machine, seen as VM.  While IN's console is not open, what *)
(* VM reads and writes is what Machine does.                               *)

USE DEF V!Address, V!REGISTER0, V!NEWLINE, V!EOF

LEMMA SeenOperands ==
  ASSUME SeenStack = argument_stack, NEW i, NEW n
  PROVE  V!Operand(i, n) = Operand(i, n) /\ V!Val(i, n) = Val(i, n)
<1>1. V!Operand(i, n) = Operand(i, n)
  BY DEF V!Operand, Operand
<1> QED
  BY <1>1 DEF V!Val, Val, V!get_value, get_value, V!is_register, is_register

LEMMA SeenEffects ==
  ASSUME SeenStack = argument_stack, SeenStack' = argument_stack', NEW n, NEW v
  PROVE  /\ Store(n, v) => V!Store(n, v)
         /\ Goto(n, v) => V!Goto(n, v)
         /\ Push(v) => V!Push(v)
         /\ Assign(n, v) => V!Assign(n, v)
         /\ V!Pop(n, v) = Pop(n, v) /\ V!Top(n) = Top(n)
         /\ V!get_value(n) = get_value(n) /\ (is_valid(n) => V!is_valid(n))
<1>1. V!Pop(n, v) = Pop(n, v) /\ V!Top(n) = Top(n)
  BY DEF V!Pop, Pop, V!Top, Top
<1>2. Assign(n, v) => V!Assign(n, v)
  BY DEF V!Assign, Assign, V!is_register, is_register
<1>3. V!Pop(SeenStack, n) = Pop(argument_stack, n)
  BY DEF V!Pop, Pop
<1>4. Goto(n, v) => V!Goto(n, v)
  BY <1>3 DEF V!Goto, Goto
<1>5. Push(v) => V!Push(v)
  BY DEF V!Push, Push
<1>6. Store(n, v) => V!Store(n, v)
  <2>1. V!Operand(1, n) = Operand(1, n)
    BY SeenOperands
  <2>2. Assign(Operand(1, n), v) => V!Assign(Operand(1, n), v)
    BY DEF V!Assign, Assign, V!is_register, is_register
  <2> QED
    BY <1>3, <2>1, <2>2 DEF V!Store, Store
<1>7. V!get_value(n) = get_value(n) /\ (is_valid(n) => V!is_valid(n))
  BY DEF V!get_value, get_value, V!is_register, is_register, V!is_valid, is_valid
<1> QED
  BY <1>1, <1>2, <1>4, <1>5, <1>6, <1>7

(* The operands VM would reject are those Machine rejects.                 *)
LEMMA SeenRejected ==
  ASSUME SeenStack = argument_stack, NEW inst, ~Rejected(inst)
  PROVE  ~V!Rejected(inst)
<1>1. V!arg_count(inst) = arg_count(inst)
  BY DEF V!arg_count, arg_count
<1>2. \A i, n : V!Operand(i, n) = Operand(i, n) /\ V!Val(i, n) = Val(i, n)
  BY SeenOperands
<1>3. \A i : V!Unused(inst, i) <=> Unused(inst, i)
  BY <1>2 DEF V!Unused, Unused
<1> QED
  BY <1>1, <1>2, <1>3 DEF V!Rejected, Rejected, V!is_valid, is_valid

(* An instruction that leaves the process running is the same in VM.       *)
LEMMA SeenPerform ==
  ASSUME SeenStack = argument_stack, SeenStack' = argument_stack', NEW inst,
         Perform(inst), Running'
  PROVE  V!Perform(inst)
<1>1. \A i, n : V!Operand(i, n) = Operand(i, n) /\ V!Val(i, n) = Val(i, n)
  BY SeenOperands
<1>2. ASSUME NEW n, NEW v
      PROVE  /\ Store(n, v) => V!Store(n, v)
             /\ Goto(n, v) => V!Goto(n, v)
             /\ Push(v) => V!Push(v)
             /\ Assign(n, v) => V!Assign(n, v)
             /\ V!Pop(n, v) = Pop(n, v) /\ V!Top(n) = Top(n)
             /\ V!get_value(n) = get_value(n) /\ (is_valid(n) => V!is_valid(n))
  BY SeenEffects
<1>3. ASSUME NEW how \in {"success", "failure", "killed"}, Exit(how) PROVE FALSE
  BY <1>3 DEF Exit, Running
<1>4. ~StackExhausted
  BY <1>3 DEF StackExhausted
<1>5. inst = "HALT" /\ inst_halt => V!Perform(inst)
  BY <1>3 DEF inst_halt
<1>6. inst = "SET" /\ inst_set => V!Perform(inst)
  BY <1>1, <1>2, <1>3 DEF inst_set, V!inst_set, V!Perform, is_register, V!is_register
<1>7. inst = "PUSH" /\ inst_push => V!Perform(inst)
  BY <1>1, <1>2, <1>4 DEF inst_push, V!inst_push, V!Perform
<1>8. inst = "POP" /\ inst_pop => V!Perform(inst)
  BY <1>1, <1>2, <1>3 DEF inst_pop, V!inst_pop, V!Perform
<1>9. inst = "EQ" /\ inst_eq => V!Perform(inst)
  BY <1>1, <1>2 DEF inst_eq, V!inst_eq, V!Perform
<1>10. inst = "GT" /\ inst_gt => V!Perform(inst)
  BY <1>1, <1>2 DEF inst_gt, V!inst_gt, V!Perform
<1>11. inst = "JMP" /\ inst_jmp => V!Perform(inst)
  BY <1>1, <1>2 DEF inst_jmp, V!inst_jmp, V!Perform
<1>12. inst = "JT" /\ inst_jt => V!Perform(inst)
  BY <1>1, <1>2 DEF inst_jt, V!inst_jt, V!Perform
<1>13. inst = "JF" /\ inst_jf => V!Perform(inst)
  BY <1>1, <1>2 DEF inst_jf, V!inst_jf, V!Perform
<1>14. inst = "ADD" /\ inst_add => V!Perform(inst)
  BY <1>1, <1>2 DEF inst_add, V!inst_add, V!Perform
<1>15. inst = "MULT" /\ inst_mult => V!Perform(inst)
  BY <1>1, <1>2 DEF inst_mult, V!inst_mult, V!Perform
<1>16. inst = "MOD" /\ inst_mod => V!Perform(inst)
  BY <1>1, <1>2, <1>3 DEF inst_mod, V!inst_mod, V!Perform
<1>17. inst = "AND" /\ inst_and => V!Perform(inst)
  BY <1>1, <1>2 DEF inst_and, V!inst_and, V!Perform
<1>18. inst = "OR" /\ inst_or => V!Perform(inst)
  BY <1>1, <1>2 DEF inst_or, V!inst_or, V!Perform
<1>19. inst = "NOT" /\ inst_not => V!Perform(inst)
  BY <1>1, <1>2 DEF inst_not, V!inst_not, V!Perform, BitNot15, V!BitNot15
<1>20. inst = "RMEM" /\ inst_rmem => V!Perform(inst)
  BY <1>1, <1>2, <1>3 DEF inst_rmem, V!inst_rmem, V!Perform
<1>21. inst = "WMEM" /\ inst_wmem => V!Perform(inst)
  BY <1>1, <1>2, <1>3 DEF inst_wmem, V!inst_wmem, V!Perform, is_value, V!is_value, V!Pop, Pop
<1>22. inst = "CALL" /\ inst_call => V!Perform(inst)
  BY <1>1, <1>2, <1>4 DEF inst_call, V!inst_call, V!Perform
<1>23. inst = "RET" /\ inst_ret => V!Perform(inst)
  BY <1>1, <1>2, <1>3 DEF inst_ret, V!inst_ret, V!Perform
<1>24. inst = "OUT" /\ inst_out => V!Perform(inst)
  BY <1>1, <1>2 DEF inst_out, V!inst_out, V!Perform, V!Pop, Pop
<1>25. inst = "NOOP" /\ inst_noop => V!Perform(inst)
  BY DEF inst_noop, V!inst_noop, V!Perform, machine, V!machine
<1> QED
  BY <1>5, <1>6, <1>7, <1>8, <1>9, <1>10, <1>11, <1>12, <1>13, <1>14, <1>15, <1>16, <1>17, <1>18,
     <1>19, <1>20, <1>21, <1>22, <1>23, <1>24, <1>25 DEF Perform

-----------------------------------------------------------------------------
(* A user who looks at the machine, stops it and traces it, but neither    *)
(* edits nor steps it, nor loads another file.                             *)
OnlyLooks == Commands \cap {"tick", "setip", "set_mem", "setreg", "loadstate"} = {}

(* Then no tick is inside another.                                         *)
OneTick ==
  /\ Len(frames) <= 1
  /\ frames # << >> /\ frames[1].at = "reading" => EOF \in Input

(* The one tick there is, and what is seen of it.                          *)
LEMMA OneTickFacts ==
  ASSUME DInv, OneTick, frames # << >>
  PROVE  /\ Len(frames) = 1 /\ Current = frames[1] /\ Current \in Frame /\ Below = << >>
         /\ SeenDecoded = Current.inst /\ SeenDecoded # "none"
         /\ Current.at # "reading" => SeenStack = argument_stack
         /\ Current.at = "reading" => /\ SeenStack = Append(argument_stack, Current.dest)
                                      /\ Current.inst = "IN" /\ EOF \in Input
<1>1. /\ Len(frames) \in Nat \ {0} /\ Current = frames[Len(frames)] /\ Current \in Frame
      /\ Below = Under(frames) /\ (Current.at = "reading" => Current.inst = "IN")
  BY CurrentFacts DEF DInv
<1>2. Len(frames) = 1
  <2>1. PICK n : n = Len(frames)
    OBVIOUS
  <2>2. n \in Nat \ {0} /\ n <= 1
    BY <1>1, <2>1 DEF OneTick
  <2>3. n = 1
    BY ONLY <2>2
  <2> QED
    BY <2>1, <2>3
<1>3. Below = << >>
  <2>1. Len(Below) = 0 /\ Below \in Seq(Frame)
    BY <1>1, <1>2, FramesPop DEF DInv
  <2> HIDE DEF Frame
  <2> QED
    BY <2>1, EmptySeq
<1>4. Current.inst # "none"
  BY <1>1, NoneIsNoInstruction DEF Frame
<1> QED
  BY <1>1, <1>2, <1>3, <1>4 DEF SeenStack, SeenDecoded, OneTick

(* A sequence of one frame, and of none.                                   *)
LEMMA OneFrame ==
  ASSUME NEW f
  PROVE  /\ Append(<< >>, f)[1] = f /\ Len(Append(<< >>, f)) = 1 /\ Append(<< >>, f) # << >>
         /\ Len(<< >>) = 0
OBVIOUS

LEMMA SeenIdle ==
  ASSUME frames = << >>
  PROVE  SeenStack = argument_stack /\ SeenDecoded = "none"
BY DEF SeenStack, SeenDecoded

-----------------------------------------------------------------------------
(* Each step, seen as VM: its own step, or nothing.                        *)
Seen == V!Next \/ status' # "running" \/ UNCHANGED V!vars

LEMMA DiesSeen ==
  ASSUME DInv, OneTick, NEW how \in {"success", "failure", "killed", "aborted"}, Dies(how)
  PROVE  OneTick' /\ Seen
BY DEF Dies, Exit, Seen, OneTick

(* The fetch.                                                              *)
LEMMA MainTickSeen ==
  ASSUME DInv, OneTick, MainTick
  PROVE  OneTick' /\ Seen
<1>1. /\ status = "running" /\ frames = << >> /\ UNCHANGED residue
      /\ SeenStack = argument_stack /\ SeenDecoded = "none"
  BY SeenIdle DEF MainTick, Running, Tick, origin
<1>2. CASE FetchFails /\ UNCHANGED frames
  BY <1>2 DEF FetchFails, Exit, Seen, OneTick
<1>3. ASSUME FetchOperands,
             frames' = Append(frames,
               [ inst |-> Fetched, debugger |-> FALSE, dest |-> 0, at |-> "fetched",
                 next |-> instruction_ptr',
                 operands |-> OperandsAt(instruction_ptr, arg_count(Fetched)) ])
      PROVE  OneTick' /\ Seen
  <2>1. PICK f : f = [ inst |-> Fetched, debugger |-> FALSE, dest |-> 0, at |-> "fetched",
                       next |-> instruction_ptr',
                       operands |-> OperandsAt(instruction_ptr, arg_count(Fetched)) ]
    OBVIOUS
  <2>2. f.inst = Fetched /\ f.at = "fetched"
    BY <2>1
  <2>3. frames'[1] = f /\ Len(frames') = 1 /\ frames' # << >>
    BY <1>1, <1>3, <2>1, OneFrame
  <2>4. OneTick'
    BY <2>2, <2>3 DEF OneTick
  <2>5. SeenStack' = argument_stack' /\ SeenDecoded' = Fetched
    BY <2>2, <2>3 DEF SeenStack, SeenDecoded
  <2>6. /\ \A w : V!Decode(w) = Decode(w) /\ V!is_instruction(w) = is_instruction(w)
                 /\ V!is_valid(w) = is_valid(w)
        /\ \A inst : V!arg_count(inst) = arg_count(inst)
    BY DEF V!Decode, Decode, V!decoder, decoder, V!is_instruction, is_instruction, V!is_valid,
           is_valid, V!arg_count, arg_count
  <2>7. V!Fetched = Fetched
    BY <2>6 DEF V!Fetched, Fetched
  <2>8. V!CanFetch
    BY <1>3, <2>6 DEF FetchOperands, CanFetch, V!CanFetch
  <2>9. V!OperandsAt(instruction_ptr, V!arg_count(V!Fetched))
          = OperandsAt(instruction_ptr, arg_count(Fetched))
    BY <2>6, <2>7 DEF V!OperandsAt, OperandsAt
  <2>10. V!FetchOperands
    BY <1>1, <1>3, <2>5, <2>6, <2>7, <2>8, <2>9 DEF FetchOperands, V!FetchOperands
  <2> QED
    BY <1>1, <2>4, <2>5, <2>7, <2>10 DEF Seen, V!Next, V!Fetch, V!Running
<1> QED
  BY <1>2, <1>3 DEF MainTick, Tick

(* The break and the way back.                                             *)
LEMMA BreakSeen ==
  ASSUME DInv, OneTick, Break \/ Resume
  PROVE  OneTick' /\ Seen
<1>1. PICK at \in {"breaking", "ready"} : To(at)
  BY DEF Break, Resume
<1>2. /\ frames # << >> /\ Current.at # "reading"
      /\ UNCHANGED << machine, status, terminal, history >>
  BY DEF Break, Resume, InConsole
<1>3. PICK f : f = [Current EXCEPT !.at = at]
  OBVIOUS
<1>4. /\ Current \in Frame /\ Below = << >>
      /\ SeenDecoded = Current.inst /\ SeenStack = argument_stack
  BY <1>2, OneTickFacts
<1>5. f.at = at /\ f.inst = Current.inst
  BY <1>3, <1>4 DEF Frame
<1>6. frames'[1] = f /\ Len(frames') = 1 /\ frames' # << >>
  BY <1>1, <1>3, <1>4, OneFrame DEF To
<1>7. OneTick'
  BY <1>5, <1>6 DEF OneTick
<1>8. SeenStack' = argument_stack' /\ SeenDecoded' = SeenDecoded
  BY <1>4, <1>5, <1>6 DEF SeenStack, SeenDecoded
<1> QED
  BY <1>2, <1>4, <1>7, <1>8 DEF Seen, V!vars, machine, history, origin

(* The instruction.                                                        *)
LEMMA RunSeen ==
  ASSUME DInv, OneTick, Run
  PROVE  OneTick' /\ Seen
<1>1. /\ status = "running" /\ frames # << >> /\ Current.at # "reading" /\ Returns
      /\ Execute(Current.inst) \/ (Current.inst = "IN" /\ \E c \in Input : inst_in(c))
  BY DEF Run, Starting, Running
<1>2. /\ Below = << >> /\ SeenDecoded = Current.inst /\ SeenDecoded # "none"
      /\ SeenStack = argument_stack
  BY <1>1, OneTickFacts
<1>3. CASE ~Running'
  BY <1>1, <1>3 DEF Returns, Running, Seen, OneTick
<1>4. CASE Running'
  <2>1. frames' = << >> /\ UNCHANGED residue
    BY <1>1, <1>2, <1>4 DEF Returns, history, origin
  <2>2. SeenStack' = argument_stack' /\ SeenDecoded' = "none" /\ OneTick'
    BY <2>1, OneFrame DEF SeenStack, SeenDecoded, OneTick
  <2>3. ~Exit("failure") /\ ~Exit("killed")
    BY <1>4 DEF Exit, Running
  <2>4. PICK inst : inst = Current.inst
    OBVIOUS
  <2>5. V!Execute(inst) \/ (inst = "IN" /\ \E c \in Input : V!inst_in(c))
    <3>1. CASE Execute(inst)
      <4>1. ~Rejected(inst) /\ Perform(inst)
        BY <2>3, <3>1 DEF Execute, Rejects, StackExhausted
      <4>2. V!Perform(inst)
        BY <1>2, <1>4, <2>2, <4>1, SeenPerform
      <4>3. ~V!Rejected(inst)
        BY <1>2, <4>1, SeenRejected
      <4> QED
        BY <4>2, <4>3 DEF V!Execute
    <3>2. CASE inst = "IN" /\ \E c \in Input : inst_in(c)
      <4>1. PICK c \in Input : inst_in(c)
        BY <3>2
      <4>2. ~Rejected("IN") /\ Store(1, CharRead(c))
        BY <2>3, <4>1 DEF inst_in
      <4>3. ~V!Rejected("IN") /\ V!Store(1, CharRead(c))
        BY <1>2, <2>2, <4>2, SeenRejected, SeenEffects
      <4>4. V!CharRead(c) = CharRead(c)
        BY DEF V!CharRead, CharRead
      <4> QED
        BY <3>2, <4>1, <4>3, <4>4 DEF V!inst_in
    <3> QED
      BY <1>1, <2>4, <3>1, <3>2
  <2> QED
    BY <1>1, <1>2, <1>4, <2>1, <2>2, <2>4, <2>5
       DEF Seen, V!Next, V!Instruct, V!Running, Running
<1> QED
  BY <1>3, <1>4

(* The last element, taken off and put back, or put on and taken off.      *)
LEMMA PopAppend ==
  ASSUME argument_stack \in Seq(Word), Len(argument_stack) \in Nat \ {0}
  PROVE  Append(Pop(argument_stack, 1), Operand(1, 1)) = argument_stack
<1> HIDE DEF Word
<1>1. PICK s \in Seq(Word) : s = argument_stack
  OBVIOUS
<1>2. Len(s) \in Nat \ {0} /\ Len(s) - 1 + 1 = Len(s) /\ Len(s) \in 1 .. Len(s)
  BY <1>1
<1>3. 1 \in 0 .. Len(s)
  BY <1>2
<1>4. PICK t : t = Pop(s, 1)
  OBVIOUS
<1>5. /\ t \in Seq(Word) /\ Len(t) = Len(s) - 1
      /\ \A i \in 1 .. Len(s) - 1 : t[i] = s[i]
  BY <1>3, <1>4, PopType
<1>6. PICK e : e = s[Len(s)]
  OBVIOUS
<1>7. e \in Word
  BY <1>2, <1>6, ElementOfSeq
<1>8. PICK u : u = Append(t, e)
  OBVIOUS
<1>9. /\ u \in Seq(Word) /\ Len(u) = Len(t) + 1 /\ u[Len(t) + 1] = e
      /\ \A i \in 1 .. Len(t) : u[i] = t[i]
  BY <1>5, <1>7, <1>8, AppendProperties
<1>10. Len(u) = Len(s) /\ Len(t) + 1 = Len(s)
  BY <1>2, <1>5, <1>9
<1>11. ASSUME NEW i \in 1 .. Len(u) PROVE u[i] = s[i]
  <2>1. i = Len(s) \/ i \in 1 .. Len(s) - 1
    <3>1. PICK n : n = Len(s)
      OBVIOUS
    <3>2. n \in Nat \ {0} /\ i \in 1 .. n
      BY <1>2, <1>10, <1>11, <3>1
    <3>3. i = n \/ i \in 1 .. n - 1
      BY ONLY <3>2
    <3> QED
      BY <3>1, <3>3
  <2>2. i = Len(s) => u[i] = e
    BY <1>9, <1>10
  <2>3. i \in 1 .. Len(s) - 1 => u[i] = t[i] /\ t[i] = s[i]
    BY <1>5, <1>9
  <2> QED
    BY <1>6, <2>1, <2>2, <2>3
<1>12. u = s
  BY <1>9, <1>10, <1>11, SeqEqual
<1>13. Operand(1, 1) = e
  BY <1>1, <1>2, <1>6 DEF Operand
<1> QED
  BY <1>1, <1>4, <1>8, <1>12, <1>13

LEMMA AppendPop ==
  ASSUME NEW S, NEW s \in Seq(S), NEW e \in S
  PROVE  /\ Append(s, e)[Len(Append(s, e)) - 1 + 1] = e
         /\ SubSeq(Append(s, e), 1, Len(Append(s, e)) - 1) = s
<1>1. PICK u : u = Append(s, e)
  OBVIOUS
<1>2. /\ u \in Seq(S) /\ Len(u) = Len(s) + 1 /\ u[Len(s) + 1] = e
      /\ \A i \in 1 .. Len(s) : u[i] = s[i]
  BY <1>1, AppendProperties
<1>3. Len(s) \in Nat
  BY LenProperties
<1>4. Len(u) - 1 = Len(s) /\ Len(u) - 1 + 1 = Len(s) + 1 /\ 1 \in 0 .. Len(u)
  BY <1>2, <1>3
<1>5. PICK t : t = Pop(u, 1)
  OBVIOUS
<1>6. t \in Seq(S) /\ Len(t) = Len(u) - 1 /\ \A i \in 1 .. Len(u) - 1 : t[i] = u[i]
  BY <1>2, <1>4, <1>5, PopType
<1>7. t = s
  <2>1. Len(t) = Len(s) /\ \A i \in 1 .. Len(t) : t[i] = s[i]
    BY <1>2, <1>4, <1>6
  <2> QED
    BY <1>6, <2>1, SeqEqual
<1> QED
  BY <1>1, <1>2, <1>4, <1>5, <1>7 DEF Pop

(* IN at the end of the input: VM has not read yet.                        *)
LEMMA ReadEOFSeen ==
  ASSUME DInv, OneTick, ReadEOF
  PROVE  OneTick' /\ Seen
<1>1. /\ status = "running" /\ frames # << >> /\ Current.at # "reading" /\ Current.inst = "IN"
      /\ EOF \in Input /\ ~Underflow("IN")
      /\ frames' = Append(Below, [Current EXCEPT !.at = "reading", !.dest = Operand(1, 1)])
      /\ argument_stack' = Pop(argument_stack, 1)
      /\ UNCHANGED << registers, memory, program_stack, instruction_ptr, status, terminal, history >>
  BY DEF ReadEOF, Starting, Running
<1>2. /\ Below = << >> /\ SeenDecoded = "IN" /\ SeenStack = argument_stack /\ Current \in Frame
  BY <1>1, OneTickFacts
<1>3. PICK f : f = [Current EXCEPT !.at = "reading", !.dest = Operand(1, 1)]
  OBVIOUS
<1>4. f.at = "reading" /\ f.inst = "IN" /\ f.dest = Operand(1, 1)
  BY <1>1, <1>2, <1>3 DEF Frame
<1>5. frames'[1] = f /\ Len(frames') = 1 /\ frames' # << >>
  BY <1>1, <1>2, <1>3, OneFrame
<1>6. OneTick'
  BY <1>1, <1>5 DEF OneTick
<1>7. argument_stack \in Seq(Word) /\ Len(argument_stack) \in Nat \ {0}
  <2>1. argument_stack \in Seq(Word)
    BY DEF DInv, TypeOK, MachineTypeOK
  <2>2. Len(argument_stack) \in Nat
    BY <2>1, LenProperties
  <2>3. 1 <= Len(argument_stack)
    BY <1>1, <2>2 DEF Underflow, arg_count
  <2> QED
    BY <2>1, <2>2, <2>3
<1>8. SeenStack' = argument_stack
  <2>1. SeenStack' = Append(Pop(argument_stack, 1), Operand(1, 1))
    BY <1>1, <1>4, <1>5 DEF SeenStack
  <2> QED
    BY <1>7, <2>1, PopAppend
<1>9. SeenDecoded' = "IN"
  BY <1>4, <1>5 DEF SeenDecoded
<1> QED
  BY <1>1, <1>2, <1>6, <1>8, <1>9 DEF Seen, V!vars, history, origin

(* The console of IN is left: VM reads an end of input.                    *)
LEMMA ResumeINSeen ==
  ASSUME DInv, OneTick, ResumeIN
  PROVE  OneTick' /\ Seen
<1>1. status = "running" /\ frames # << >> /\ Current.at = "reading"
  BY DEF ResumeIN, InConsole, Running
<1>2. /\ Below = << >> /\ SeenDecoded = "IN" /\ EOF \in Input
      /\ SeenStack = Append(argument_stack, Current.dest) /\ SeenDecoded # "none"
      /\ Current \in Frame /\ Current.inst = "IN"
  BY <1>1, OneTickFacts
<1>3. CASE \E how \in {"success", "failure", "killed", "aborted"} : Dies(how)
  BY <1>3, DiesSeen
<1>4. ASSUME is_valid(Current.dest), Assign(Current.dest, NEWLINE), Returns,
             UNCHANGED << argument_stack, program_stack, instruction_ptr, status, terminal >>
      PROVE  OneTick' /\ Seen
  <2>1. frames' = << >> /\ UNCHANGED residue
    BY <1>1, <1>2, <1>4 DEF Returns, Running, history, origin
  <2>2. SeenStack' = argument_stack /\ SeenDecoded' = "none" /\ OneTick'
    BY <1>4, <2>1, OneFrame DEF SeenStack, SeenDecoded, OneTick
  <2>3. PICK d : d = Current.dest
    OBVIOUS
  <2>4. argument_stack \in Seq(Word) /\ d \in Word
    BY <1>2, <2>3 DEF DInv, TypeOK, MachineTypeOK, Frame
  <2>5. SeenStack = Append(argument_stack, d)
    BY <1>2, <2>3
  <2>6. V!Operand(1, 1) = d /\ V!Pop(SeenStack, 1) = argument_stack
    BY <2>4, <2>5, AppendPop DEF V!Operand, V!Pop
  <2>7. V!CharRead(EOF) = NEWLINE
    BY DEF V!CharRead
  <2>8. V!Assign(d, NEWLINE)
    BY <1>4, <2>3 DEF Assign, V!Assign, is_register, V!is_register
  <2>9. V!Store(1, V!CharRead(EOF))
    <3>1. V!Assign(V!Operand(1, 1), V!CharRead(EOF))
      BY <2>6, <2>7, <2>8
    <3>2. SeenStack' = V!Pop(SeenStack, 1)
      BY <2>2, <2>6
    <3> QED
      BY <1>4, <3>1, <3>2 DEF V!Store
  <2>10. ~V!Rejected("IN")
    <3>1. V!arg_count("IN") = 1
      BY DEF V!arg_count
    <3>2. V!is_valid(V!Operand(1, 1))
      BY <1>4, <2>3, <2>6 DEF is_valid, V!is_valid
    <3> QED
      BY <3>1, <3>2 DEF V!Rejected
  <2>11. V!inst_in(EOF)
    BY <2>9, <2>10 DEF V!inst_in
  <2> QED
    BY <1>1, <1>2, <1>4, <2>1, <2>2, <2>11 DEF Seen, V!Next, V!Instruct, V!Running
<1> QED
  BY <1>3, <1>4 DEF ResumeIN

(* What looks at the machine without a step of its own.                    *)
LEMMA LooksSeen ==
  ASSUME DInv, OneTick,
         Interrupted \/ Breakpoints \/ Traps \/ SaveState \/ StartTrace \/ StopTrace
           \/ SaveTrace \/ UNCHANGED vars
  PROVE  OneTick' /\ Seen
<1>1. CASE SaveTrace /\ Dies("killed")
  BY <1>1, DiesSeen
<1>2. CASE UNCHANGED << machine, status, terminal, frames, residue >>
  <2>1. UNCHANGED << SeenStack, SeenDecoded >> /\ OneTick'
    BY <1>2 DEF SeenStack, SeenDecoded, OneTick, machine
  <2> QED
    BY <1>2, <2>1 DEF Seen, V!vars, machine
<1>3. Interrupted \/ Breakpoints \/ Traps \/ SaveState \/ StartTrace \/ StopTrace \/ UNCHANGED vars
        => UNCHANGED << machine, status, terminal, frames, residue >>
  BY DEF Interrupted, Breakpoints, Traps, SaveState, StartTrace, StopTrace, vars, machine,
         history, origin
<1>4. SaveTrace => \/ Dies("killed")
                   \/ UNCHANGED << machine, status, terminal, frames, residue >>
  BY DEF SaveTrace, history, origin
<1> QED
  BY <1>1, <1>2, <1>3, <1>4

(* The commands such a user does not know.                                 *)
LEMMA NotTyped ==
  ASSUME OnlyLooks
  PROVE  ~NestedTick /\ ~Edit /\ ~LoadState
BY DEF OnlyLooks, NestedTick, Edit, LoadState, Accepts, Command

LEMMA StepSeen ==
  ASSUME OnlyLooks, DInv, OneTick, [Next]_vars
  PROVE  OneTick' /\ Seen
<1>1. CASE \E how \in {"success", "failure", "killed", "aborted"} : Dies(how)
  BY <1>1, DiesSeen
<1>2. RunFails \/ FileFails \/ ListingFails \/ Quit \/ AssertFails
        => \E how \in {"success", "failure", "killed", "aborted"} : Dies(how)
  BY DEF RunFails, FileFails, ListingFails, Quit, AssertFails
<1>3. CASE MainTick
  BY <1>3, MainTickSeen
<1>4. CASE Break \/ Resume
  BY <1>4, BreakSeen
<1>5. CASE Run
  BY <1>5, RunSeen
<1>6. CASE ReadEOF
  BY <1>6, ReadEOFSeen
<1>7. CASE ResumeIN
  BY <1>7, ResumeINSeen
<1>8. CASE Interrupted \/ Breakpoints \/ Traps \/ SaveState \/ StartTrace \/ StopTrace
             \/ SaveTrace \/ UNCHANGED vars
  BY <1>8, LooksSeen
<1> QED
  BY <1>1, <1>2, <1>3, <1>4, <1>5, <1>6, <1>7, <1>8, NotTyped DEF Next, Console, Ended

(* The file read is the one VM reads.                                      *)
LEMMA InitSeen == Init => OneTick /\ V!Init
<1> SUFFICES ASSUME Init PROVE OneTick /\ V!Init
  OBVIOUS
<1>1. PICK f \in Images : Loaded(f)
  BY DEF Init
<1>2. /\ frames = << >> /\ status = "running" /\ terminal = -1 /\ residue = argument_stack
      /\ SeenStack = argument_stack /\ SeenDecoded = "none"
  BY SeenIdle DEF Init
<1>3. OneTick
  BY <1>2, OneFrame DEF OneTick
<1>4. V!Loaded(f)
  <2>1. /\ V!ProgramAt(f) = ProgramAt(f) /\ V!ArgumentAt(f) = ArgumentAt(f)
        /\ V!EndAt(f) = EndAt(f) /\ (V!IsDump(f) <=> IsDump(f))
    BY DEF V!ProgramAt, ProgramAt, V!ArgumentAt, ArgumentAt, V!EndAt, EndAt, V!IsDump, IsDump
  <2>2. /\ V!FileRegisters(f) = FileRegisters(f) /\ V!FileMemory(f) = FileMemory(f)
        /\ V!FileInstructionPtr(f) = FileInstructionPtr(f)
    BY <2>1 DEF V!FileRegisters, FileRegisters, V!FileMemory, FileMemory, V!RegIndex,
                V!FileInstructionPtr, FileInstructionPtr
  <2>3. /\ V!FileArgumentStack(f) = FileArgumentStack(f)
        /\ V!FileProgramStack(f) = FileProgramStack(f)
    BY <2>1 DEF V!FileArgumentStack, FileArgumentStack, V!FileProgramStack, FileProgramStack
  <2> QED
    BY <1>1, <1>2, <2>2, <2>3 DEF Loaded, V!Loaded
<1> QED
  BY <1>1, <1>2, <1>3, <1>4 DEF V!Init

(***************************************************************************)
(* Breakpoints, traps and traces are invisible to the program              *)
(* (vm.cpp:199-217): for a user who does not edit, step or load, the       *)
(* machine with its console is the plain one, until the process ends.      *)
(***************************************************************************)
THEOREM DebuggerIsInvisible ==
  ASSUME OnlyLooks
  PROVE  Spec => ImplementsVM
<1>1. DInv /\ OneTick /\ [Next]_vars
        => OneTick' /\ [V!Next \/ status' # "running"]_(V!vars)
  BY StepSeen DEF Seen
<1>2. Init => OneTick /\ V!Init
  BY InitSeen
<1> QED
  BY <1>1, <1>2, Inductive, PTL DEF Spec, ImplementsVM

-----------------------------------------------------------------------------
(* The trace, and what it says of a cell.                                  *)

WritesOf(t, a) == { i \in 1 .. Len(t) : t[i].address = a /\ t[i].new >= 0 }

(* The entries of t, over file, give the cells of regs and mem: the last   *)
(* one of a cell is its content, and one without an entry is as in file.   *)
Agrees(t, file, regs, mem) ==
  \A a \in Operandable :
    /\ \A i \in WritesOf(t, a) :
         (\A j \in WritesOf(t, a) : j <= i) => t[i].new = Cell(regs, mem, a)
    /\ file # NoFile /\ WritesOf(t, a) = {}
         => Cell(FileRegisters(file), FileMemory(file), a) = Cell(regs, mem, a)

(* A set of positions has a last one.                                      *)
LEMMA Last ==
  ASSUME NEW n \in Nat, NEW W \in SUBSET (1 .. n), W # {}
  PROVE  \E i \in W : \A j \in W : j <= i
<1>1. PICK T : T = { n - i : i \in W }
  OBVIOUS
<1>2. T \in SUBSET Nat /\ T # {}
  <2>1. \A i \in 1 .. n : n - i \in Nat
    OBVIOUS
  <2>2. \A i \in W : n - i \in Nat
    BY <2>1
  <2> QED
    BY <1>1, <2>2
<1>3. PICK x \in T : \A y \in T : x <= y
  BY <1>2, Smallest
<1>4. PICK i \in W : x = n - i
  BY <1>1, <1>3
<1>5. ASSUME NEW j \in W PROVE j <= i
  <2>1. n - i <= n - j
    BY <1>1, <1>3, <1>4
  <2>2. i \in 1 .. n /\ j \in 1 .. n
    OBVIOUS
  <2> QED
    BY ONLY <2>1, <2>2, n \in Nat
<1> QED
  BY <1>5

(* Then the trace replays.                                                 *)
LEMMA AgreesReplays ==
  ASSUME trace \in Seq(Change), trace_state # NoFile,
         Agrees(trace, trace_state, registers, memory), NEW a \in Operandable
  PROVE  Replayed(a) = Cell(registers, memory, a)
<1>1. Writes(a) = WritesOf(trace, a)
  BY DEF Writes, WritesOf
<1>2. PICK W : W = Writes(a)
  OBVIOUS
<1>3. CASE W = {}
  BY <1>1, <1>2, <1>3 DEF Agrees, Replayed
<1>4. CASE W # {}
  <2>1. PICK i \in W : \A j \in W : j <= i
    <3>1. Len(trace) \in Nat /\ W \in SUBSET (1 .. Len(trace))
      BY <1>2, LenProperties DEF Writes
    <3> QED
      BY <1>4, <3>1, Last
  <2>2. PICK k : k = CHOOSE i_1 \in W : \A j \in W : j <= i_1
    OBVIOUS
  <2>3. k \in W /\ \A j \in W : j <= k
    BY <2>1, <2>2
  <2>4. Replayed(a) = trace[k].new
    BY <1>2, <1>4, <2>2 DEF Replayed
  <2> QED
    BY <1>1, <1>2, <2>3, <2>4 DEF Agrees
<1> QED
  BY <1>3, <1>4

(* One entry more, the n-th: either it says what the cell that changed     *)
(* holds now, or no cell changed.                                          *)
LEMMA AgreesGrows ==
  ASSUME NEW t, NEW u, NEW file, NEW regs, NEW mem, NEW regs2, NEW mem2,
         Agrees(t, file, regs, mem), NEW n \in Nat \ {0}, Len(u) = n,
         \A a : WritesOf(t, a) = WritesOf(u, a) \ {n},
         \A i \in 1 .. n - 1 : u[i] = t[i],
         \A a \in Operandable :
           IF u[n].address = a /\ u[n].new >= 0
           THEN u[n].new = Cell(regs2, mem2, a)
           ELSE Cell(regs2, mem2, a) = Cell(regs, mem, a)
  PROVE  Agrees(u, file, regs2, mem2)
<1> SUFFICES ASSUME NEW a \in Operandable
             PROVE  /\ \A i \in WritesOf(u, a) :
                         (\A j \in WritesOf(u, a) : j <= i) => u[i].new = Cell(regs2, mem2, a)
                    /\ file # NoFile /\ WritesOf(u, a) = {}
                         => Cell(FileRegisters(file), FileMemory(file), a) = Cell(regs2, mem2, a)
  BY DEF Agrees
<1>1. WritesOf(u, a) \subseteq 1 .. n
  BY DEF WritesOf
<1>2. CASE u[n].address = a /\ u[n].new >= 0
  <2>1. n \in WritesOf(u, a)
    BY <1>2 DEF WritesOf
  <2>2. \A i \in WritesOf(u, a) : (\A j \in WritesOf(u, a) : j <= i) => i = n
    BY <1>1, <2>1
  <2> QED
    BY <1>2, <2>1, <2>2
<1>3. CASE ~(u[n].address = a /\ u[n].new >= 0)
  <2>1. n \notin WritesOf(u, a)
    BY <1>3 DEF WritesOf
  <2>2. WritesOf(t, a) = WritesOf(u, a) /\ Cell(regs2, mem2, a) = Cell(regs, mem, a)
    BY <1>3, <2>1
  <2>3. \A i \in WritesOf(u, a) : u[i] = t[i]
    <3>1. \A i \in WritesOf(u, a) : i \in 1 .. n - 1
      BY <1>1, <2>1
    <3> QED
      BY <3>1
  <2> QED
    BY <2>2, <2>3 DEF Agrees
<1> QED
  BY <1>2, <1>3

(* It is appended, or takes the place of one that is not complete.         *)
LEMMA AgreesAppend ==
  ASSUME NEW t \in Seq(Change), NEW file, NEW regs, NEW mem, NEW regs2, NEW mem2,
         Agrees(t, file, regs, mem), NEW e \in Change,
         \A a \in Operandable :
           IF e.address = a /\ e.new >= 0 THEN e.new = Cell(regs2, mem2, a)
           ELSE Cell(regs2, mem2, a) = Cell(regs, mem, a)
  PROVE  Agrees(Append(t, e), file, regs2, mem2)
<1>1. PICK u : u = Append(t, e)
  OBVIOUS
<1>2. PICK m : m = Len(t)
  OBVIOUS
<1> HIDE DEF Change
<1>3. /\ m \in Nat /\ Len(u) = m + 1 /\ u[m + 1] = e
      /\ \A i \in 1 .. m : u[i] = t[i]
  BY <1>1, <1>2, AppendProperties, LenProperties
<1>4. PICK n \in Nat \ {0} : n = m + 1 /\ n - 1 = m
  BY <1>3
<1>5. \A a : WritesOf(t, a) = WritesOf(u, a) \ {n}
  <2>1. /\ \A i : i \in 1 .. n <=> i \in 1 .. m \/ i = n
        /\ n \notin 1 .. m
    BY <1>3, <1>4
  <2>2. \A i \in 1 .. m : u[i] = t[i]
    BY <1>3
  <2> QED
    BY <1>2, <1>3, <1>4, <2>1, <2>2 DEF WritesOf
<1>6. Len(u) = n /\ u[n] = e /\ \A i \in 1 .. n - 1 : u[i] = t[i]
  BY <1>3, <1>4
<1> HIDE DEF Operandable
<1>7. Agrees(u, file, regs2, mem2)
  BY <1>5, <1>6, AgreesGrows
<1> QED
  BY <1>1, <1>7

LEMMA AgreesComplete ==
  ASSUME NEW t \in Seq(Change), NEW file, NEW regs, NEW mem, NEW regs2, NEW mem2,
         Agrees(t, file, regs, mem), NEW e, t # << >>, t[Len(t)].new = -1,
         \A a \in Operandable :
           IF e.address = a /\ e.new >= 0 THEN e.new = Cell(regs2, mem2, a)
           ELSE Cell(regs2, mem2, a) = Cell(regs, mem, a)
  PROVE  Agrees([t EXCEPT ![Len(t)] = e], file, regs2, mem2)
<1>1. PICK n : n = Len(t)
  OBVIOUS
<1>2. n \in Nat \ {0}
  BY <1>1, LenProperties, EmptySeq
<1>3. PICK u : u = [t EXCEPT ![n] = e]
  OBVIOUS
<1> HIDE DEF Change
<1>4. DOMAIN t = 1 .. n
  BY <1>1, LenProperties
<1>5. Len(u) = n /\ u[n] = e /\ \A i \in 1 .. n - 1 : u[i] = t[i]
  <2>1. n \in 1 .. n /\ n \in Nat
    BY <1>2
  <2>2. DOMAIN u = 1 .. n /\ u[n] = e
    BY <1>3, <1>4, <2>1
  <2>3. ASSUME NEW i \in 1 .. n - 1 PROVE u[i] = t[i]
    <3>1. i \in 1 .. n /\ i # n
      BY <1>2
    <3> QED
      BY <1>3, <1>4, <3>1
  <2>4. Len(u) = n
    BY <2>1, <2>2, FunctionIsSeq
  <2> QED
    BY <2>2, <2>3, <2>4
<1>6. \A a : WritesOf(t, a) = WritesOf(u, a) \ {n}
  <2>1. n \notin { i \in 1 .. n : t[i].new >= 0 }
    BY <1>1
  <2>2. \A i : i \in 1 .. n => i \in 1 .. n - 1 \/ i = n
    BY <1>2
  <2> QED
    BY <1>1, <1>5, <2>1, <2>2 DEF WritesOf
<1> HIDE DEF Operandable
<1>7. Agrees(u, file, regs2, mem2)
  BY <1>2, <1>5, <1>6, AgreesGrows
<1> QED
  BY <1>1, <1>3, <1>7

-----------------------------------------------------------------------------
(* What an instruction changes of registers and memory.                    *)

OnlyChanges(x) ==
  \A a \in Operandable : a # x => Cell(registers', memory', a) = Cell(registers, memory, a)

LEMMA AssignChanges ==
  ASSUME MachineTypeOK, NEW x \in Operandable, NEW v, Assign(x, v)
  PROVE  OnlyChanges(x)
<1> SUFFICES ASSUME NEW a \in Operandable, a # x
             PROVE  Cell(registers', memory', a) = Cell(registers, memory, a)
  BY DEF OnlyChanges
<1>1. CASE is_register(x)
  <2>1. registers' = [registers EXCEPT ![x - REGISTER0] = v] /\ memory' = memory
    BY <1>1 DEF Assign
  <2>2. is_register(a) => a - REGISTER0 \in RegIndex /\ a - REGISTER0 # x - REGISTER0
    BY ConstantFacts DEF is_register
  <2> QED
    BY <2>1, <2>2 DEF Cell, MachineTypeOK
<1>2. CASE ~is_register(x)
  <2>1. memory' = [memory EXCEPT ![x] = v] /\ registers' = registers
    BY <1>2 DEF Assign
  <2>2. ~is_register(a) => a \in Address
    BY ConstantFacts DEF is_register
  <2> QED
    BY <2>1, <2>2 DEF Cell, MachineTypeOK
<1> QED
  BY <1>1, <1>2

LEMMA StoreChanges ==
  ASSUME MachineTypeOK, NEW n \in 1 .. 3, n <= Len(argument_stack), NEW v, Store(n, v),
         is_valid(Operand(1, n))
  PROVE  OnlyChanges(Operand(1, n))
<1>1. Operand(1, n) \in Operandable
  BY OperandType, ValidType
<1> HIDE DEF Operandable
<1> QED
  BY <1>1, AssignChanges DEF Store

(* An instruction whose change the trace does not look for makes none; the *)
(* others change the cell of their first operand, WMEM if that is literal. *)
LEMMA InstructionChanges ==
  ASSUME MachineTypeOK, NEW inst, ~Underflow(inst), ~Rejected(inst), Running',
         Perform(inst) \/ (inst = "IN" /\ \E c \in Input : inst_in(c)),
         inst = "WMEM" => ~is_register(Operand(1, 2))
  PROVE  IF do_memory_trace(inst) THEN OnlyChanges(Operand(1, arg_count(inst)))
         ELSE UNCHANGED << registers, memory >>
<1>1. ASSUME NEW how \in {"success", "failure", "killed"}, Exit(how) PROVE FALSE
  BY <1>1 DEF Exit, Running
<1>2. ~StackExhausted
  BY <1>1 DEF StackExhausted
<1>3. arg_count(inst) <= Len(argument_stack)
  BY LenProperties, ArgCountType DEF Underflow, MachineTypeOK
<1>4. do_memory_trace(inst) => arg_count(inst) \in 1 .. 3 /\ is_valid(Operand(1, arg_count(inst)))
  <2> SUFFICES ASSUME do_memory_trace(inst)
               PROVE  arg_count(inst) \in 1 .. 3 /\ is_valid(Operand(1, arg_count(inst)))
    OBVIOUS
  <2>1. arg_count(inst) \in 1 .. 3
    BY TracedHasOperand
  <2>2. 1 \in 1 .. arg_count(inst) /\ ~Unused(inst, 1)
    BY <2>1 DEF Unused
  <2> QED
    BY <2>1, <2>2 DEF Rejected
<1>5. ASSUME do_memory_trace(inst), NEW v, Store(arg_count(inst), v)
      PROVE  OnlyChanges(Operand(1, arg_count(inst)))
  BY <1>3, <1>4, <1>5, StoreChanges
<1>6. CASE ~do_memory_trace(inst)
  <2>1. inst \in {"HALT", "PUSH", "JMP", "JT", "JF", "CALL", "RET", "OUT", "NOOP"}
    BY <1>6 DEF Perform, do_memory_trace
  <2>2. UNCHANGED << registers, memory >>
    BY <1>1, <1>2, <2>1
       DEF Perform, inst_halt, inst_push, inst_jmp, inst_jt, inst_jf, inst_call, inst_ret,
           inst_out, inst_noop, Goto, machine
  <2> QED
    BY <1>6, <2>2
<1>7. CASE inst \in {"SET", "EQ", "GT", "ADD", "MULT", "MOD", "AND", "OR", "NOT", "RMEM"}
  <2>1. do_memory_trace(inst)
    BY <1>7 DEF do_memory_trace
  <2>2. \E v : Store(arg_count(inst), v)
    BY <1>1, <1>7
       DEF Perform, arg_count, inst_set, inst_eq, inst_gt, inst_add, inst_mult, inst_mod,
           inst_and, inst_or, inst_not, inst_rmem
  <2> QED
    BY <1>5, <2>1, <2>2
<1>8. CASE inst = "POP"
  <2>1. arg_count(inst) = 1 /\ do_memory_trace(inst)
    BY <1>8 DEF arg_count, do_memory_trace
  <2>2. Assign(Operand(1, 1), get_value(Top(program_stack)))
    BY <1>1, <1>8 DEF Perform, inst_pop
  <2>3. Operand(1, 1) \in Operandable
    BY <1>3, <1>4, <2>1, OperandType, ValidType
  <2> HIDE DEF Operandable
  <2>4. OnlyChanges(Operand(1, 1))
    BY <2>2, <2>3, AssignChanges
  <2> QED
    BY <2>1, <2>4
<1>9. CASE inst = "WMEM"
  <2>1. arg_count(inst) = 2 /\ do_memory_trace(inst)
    BY <1>9 DEF arg_count, do_memory_trace
  <2>2. memory' = [memory EXCEPT ![Val(1, 2)] = Val(2, 2)] /\ UNCHANGED registers
    BY <1>1, <1>9 DEF Perform, inst_wmem
  <2>3. Val(1, 2) = Operand(1, 2)
    BY <1>9 DEF Val, get_value
  <2>4. Assign(Operand(1, 2), Val(2, 2))
    BY <1>9, <2>2, <2>3 DEF Assign
  <2>5. Operand(1, 2) \in Operandable
    BY <1>3, <1>4, <2>1, OperandType, ValidType
  <2> HIDE DEF Operandable
  <2>6. OnlyChanges(Operand(1, 2))
    BY <2>4, <2>5, AssignChanges
  <2> QED
    BY <2>1, <2>6
<1>10. CASE inst = "IN"
  <2>1. arg_count(inst) = 1 /\ do_memory_trace(inst)
    BY <1>10 DEF arg_count, do_memory_trace
  <2>2. \E v : Store(1, v)
    BY <1>1, <1>10 DEF Perform, inst_in
  <2> QED
    BY <1>5, <2>1, <2>2
<1> QED
  BY <1>6, <1>7, <1>8, <1>9, <1>10 DEF do_memory_trace

(* The entry finish_trace makes says what the cell x holds now, or that    *)
(* nothing changed.                                                        *)
LEMMA EntrySays ==
  ASSUME NEW x, OnlyChanges(x), NEW now, now = Cell(registers', memory', x), now >= 0,
         NEW e, e = IF Cell(registers, memory, x) # now
                    THEN [ address |-> x, old |-> Cell(registers, memory, x), new |-> now ]
                    ELSE NoChange,
         NEW a \in Operandable
  PROVE  IF e.address = a /\ e.new >= 0 THEN e.new = Cell(registers', memory', a)
         ELSE Cell(registers', memory', a) = Cell(registers, memory, a)
<1>1. CASE a = x /\ Cell(registers, memory, x) # now
  BY <1>1
<1>2. CASE a = x /\ Cell(registers, memory, x) = now
  BY <1>2 DEF NoChange
<1>3. CASE a # x
  <2>1. Cell(registers', memory', a) = Cell(registers, memory, a)
    BY <1>3 DEF OnlyChanges
  <2>2. ~(e.address = a /\ e.new >= 0)
    BY <1>3 DEF NoChange
  <2> QED
    BY <2>1, <2>2
<1> QED
  BY <1>1, <1>2, <1>3

(* What finish_trace records is what changed.                              *)
LEMMA RunRecords ==
  ASSUME MachineTypeOK, trace \in Seq(Change), NEW file,
         Agrees(trace, file, registers, memory), enable_tracing,
         NEW inst, Len(argument_stack) = arg_count(inst), ~TraceOfRejected(inst),
         IF do_memory_trace(inst) THEN OnlyChanges(Operand(1, arg_count(inst)))
         ELSE UNCHANGED << registers, memory >>,
         registers' \in [RegIndex -> Word], memory' \in [Address -> Word], RecordRun(inst)
  PROVE  Agrees(trace', file, registers', memory')
<1>1. ~Underflow(inst)
  BY ArgCountType DEF Underflow
<1>2. Started(inst) \in Change /\ (do_memory_trace(inst) => Started(inst).address \in Operandable)
  BY <1>1, StartedType
<1>3. CASE ~do_memory_trace(inst)
  <2>1. trace' = Append(trace, NoChange) /\ UNCHANGED << registers, memory >>
    BY <1>3 DEF RecordRun, Started
  <2>2. NoChange \in Change /\ ~(NoChange.new >= 0)
    BY DEF NoChange, Change
  <2> HIDE DEF Change, Operandable
  <2>3. Agrees(Append(trace, NoChange), file, registers, memory)
    BY <2>2, AgreesAppend
  <2> QED
    BY <2>1, <2>3
<1>4. CASE do_memory_trace(inst)
  <2>1. PICK x : x = argument_stack[1]
    OBVIOUS
  <2>2. x = Operand(1, arg_count(inst))
    BY <2>1, ArgCountType DEF Operand
  <2>3. Started(inst) = [ address |-> x, old |-> Cell(registers, memory, x), new |-> -1 ]
    BY <1>4, <2>1 DEF Started
  <2>4. PICK e : e = Finished(Started(inst))
    OBVIOUS
  <2>5. trace' = Append(trace, e)
    BY <1>4, <2>4 DEF RecordRun
  <2>6. e \in Change
    BY <1>2, <1>4, <2>4, FinishedType
  <2>7. x \in Operandable
    BY <1>2, <1>4, <2>3
  <2>8. PICK now : now = Cell(registers', memory', x)
    OBVIOUS
  <2>9. now >= 0
    BY <2>7, <2>8, CellType
  <2>10. e = IF Cell(registers, memory, x) # now
             THEN [ address |-> x, old |-> Cell(registers, memory, x), new |-> now ]
             ELSE NoChange
    BY <2>3, <2>4, <2>8 DEF Finished
  <2>11. OnlyChanges(x)
    BY <1>4, <2>2
  <2>12. ASSUME NEW a \in Operandable
         PROVE  IF e.address = a /\ e.new >= 0 THEN e.new = Cell(registers', memory', a)
                ELSE Cell(registers', memory', a) = Cell(registers, memory, a)
    BY <2>8, <2>9, <2>10, <2>11, EntrySays
  <2>13. Agrees(Append(trace, e), file, registers', memory')
    <3> HIDE DEF Change, Operandable
    <3> QED
      BY <2>6, <2>12, AgreesAppend
  <2> QED
    BY <2>5, <2>13
<1> QED
  BY <1>3, <1>4

-----------------------------------------------------------------------------
(* A user without tick: no tick is ever inside another.                    *)
LEMMA StepAlone ==
  ASSUME "tick" \notin Commands, DInv, OneTick, [Next]_vars
  PROVE  OneTick'
<1>1. CASE UNCHANGED frames
  BY <1>1 DEF OneTick
<1>2. CASE MainTick
  BY <1>2, MainTickSeen
<1>3. CASE Break \/ Resume
  BY <1>3, BreakSeen
<1>4. CASE Run
  BY <1>4, RunSeen
<1>5. CASE ReadEOF
  BY <1>5, ReadEOFSeen
<1>6. CASE ResumeIN
  BY <1>6, ResumeINSeen
<1>7. ~NestedTick
  BY DEF NestedTick, Command
<1>8. Interrupted \/ Breakpoints \/ Traps \/ Edit \/ SaveState \/ LoadState \/ StartTrace
        \/ StopTrace \/ UNCHANGED vars
        => UNCHANGED frames
  BY DEF Interrupted, Breakpoints, Traps, Edit, SaveState, LoadState, StartTrace, StopTrace, vars
<1>9. RunFails \/ FileFails \/ ListingFails \/ Quit \/ AssertFails \/ SaveTrace
        => UNCHANGED frames
  BY DEF RunFails, FileFails, ListingFails, Quit, AssertFails, SaveTrace, Dies
<1> QED
  BY <1>1, <1>2, <1>3, <1>4, <1>5, <1>6, <1>7, <1>8, <1>9 DEF Next, Console, Ended

(* Ticks that go on, but not into IN's console.                            *)
LEMMA TickMoves ==
  ASSUME DInv, OneTick, MainTick \/ Break \/ Resume
  PROVE  frames' # << >> => frames'[1].at # "reading"
<1>1. CASE MainTick
  <2> DEFINE f == [ inst |-> Fetched, debugger |-> FALSE, dest |-> 0, at |-> "fetched",
                    next |-> instruction_ptr',
                    operands |-> OperandsAt(instruction_ptr, arg_count(Fetched)) ]
  <2>1. frames = << >> /\ (UNCHANGED frames \/ frames' = Append(<< >>, f))
    BY <1>1 DEF MainTick, Tick
  <2>2. f.at = "fetched"
    OBVIOUS
  <2> HIDE DEF f
  <2> QED
    BY <2>1, <2>2, OneFrame
<1>2. CASE Break \/ Resume
  <2>1. PICK at \in {"breaking", "ready"} : frames # << >> /\ To(at)
    BY <1>2 DEF Break, Resume, InConsole
  <2>2. Current \in Frame /\ Below = << >>
    BY <2>1, OneTickFacts
  <2>3. PICK f : f = [Current EXCEPT !.at = at]
    OBVIOUS
  <2>4. f.at = at
    BY <2>2, <2>3 DEF Frame
  <2> QED
    BY <2>1, <2>2, <2>3, <2>4, OneFrame DEF To
<1> QED
  BY <1>1, <1>2

(* The one tick has its operands, and nobody else's, on the stack.         *)
LEMMA OneOperands ==
  ASSUME DInv, OneTick, OperandsOK, Running, ~loaded, residue = << >>,
         frames # << >>, Current.at # "reading"
  PROVE  argument_stack = Current.operands /\ Len(argument_stack) = arg_count(Current.inst)
<1>1. /\ FramesOK(frames) /\ Current = frames[Len(frames)] /\ Current \in Frame
      /\ Under(frames) = << >> /\ Len(Current.operands) = arg_count(Current.inst)
  BY CurrentFacts, OneTickFacts DEF DInv
<1> HIDE DEF Word, Operandable, Frame
<1>2. PICK rest \in Seq(Word) : /\ IsStacked(<< >>, residue, rest)
                                /\ argument_stack = rest \o Pending(Current)
  <2>1. IsStacked(frames, residue, argument_stack)
    BY DEF OperandsOK
  <2>2. \E rest \in Seq(Word) : /\ IsStacked(Under(frames), residue, rest)
                                /\ argument_stack = rest \o Pending(frames[Len(frames)])
    BY ONLY <1>1, <2>1, frames # << >>, StackedPop
  <2> QED
    BY <1>1, <2>2
<1>3. rest = << >>
  BY <1>2, OneFrame DEF IsStacked, StackedBy
<1>4. Pending(Current) = Current.operands /\ Pending(Current) \in Seq(Word)
  BY <1>1, PendingType DEF Pending
<1>5. argument_stack = Current.operands
  BY <1>2, <1>3, <1>4, ConcatEmptySeq
<1> QED
  BY <1>1, <1>5

-----------------------------------------------------------------------------
(* The trace of a user who lets the program run, in DEBUG.  (setip is no   *)
(* edit of what a trace follows.)                                          *)
OnlyTraces == Commands \cap {"tick", "set_mem", "setreg", "loadstate", "stoptrace"} = {}

NoLeftovers == \A f \in Images : FileArgumentStack(f) = << >>

(* No WMEM goes through a register while a trace is taken: the trace looks *)
(* at that register and not at the memory (Debugger_wmem).                 *)
StoresWatched ==
  Running /\ enable_tracing /\ frames # << >> /\ Current.inst = "WMEM"
    => ~is_register(Current.operands[1])

(* The entry of an IN whose console is open.                               *)
Incomplete(f) ==
  [ address |-> f.dest, old |-> Cell(registers, memory, f.dest), new |-> -1 ]

(* Between two steps of main the trace is what happened, and nothing is    *)
(* missed by it: it is never off while it has something to say.            *)
TraceOK ==
  Running =>
    /\ ~loaded /\ residue = << >>
    /\ trace # << >> \/ trace_state # NoFile => enable_tracing
    /\ Agrees(trace, trace_state, registers, memory)
    /\ frames # << >> /\ frames[1].at = "reading" /\ trace # << >>
         => trace[Len(trace)] = Incomplete(frames[1])

LEMMA AgreesNothing ==
  ASSUME NEW regs, NEW mem
  PROVE  Agrees(<< >>, NoFile, regs, mem)
<1>1. \A a : WritesOf(<< >>, a) = {}
  BY EmptySeq DEF WritesOf
<1> QED
  BY <1>1 DEF Agrees

(* The instruction.                                                        *)
LEMMA RunTraces ==
  ASSUME DInv, OneTick, OperandsOK, TraceOK, StoresWatched, Run
  PROVE  TraceOK'
<1>1. /\ Running /\ frames # << >> /\ Current.at # "reading" /\ ~Underflow(Current.inst)
      /\ Execute(Current.inst) \/ (Current.inst = "IN" /\ \E c \in Input : inst_in(c))
      /\ ~TraceOfRejected(Current.inst) /\ RecordRun(Current.inst) /\ Returns
  BY DEF Run, Starting
<1>2. SUFFICES ASSUME Running' PROVE TraceOK'
  BY DEF TraceOK
<1>3. /\ frames' = << >> /\ UNCHANGED << enable_tracing, trace_state, loaded, residue >>
  BY <1>1, <1>2, OneTickFacts DEF Returns, disk, history, origin
<1>4. PICK inst : inst = Current.inst
  OBVIOUS
<1>5. inst \in Instruction /\ MachineTypeOK /\ trace \in Seq(Change)
  BY <1>1, <1>4, OneTickFacts DEF DInv, TypeOK, Frame
<1>6. Len(argument_stack) = arg_count(inst) /\ argument_stack = Current.operands
  BY <1>1, <1>4, OneOperands DEF TraceOK
<1>7. CASE ~enable_tracing
  <2>1. trace' = trace /\ trace = << >> /\ trace_state = NoFile
    BY <1>1, <1>7 DEF RecordRun, TraceOK
  <2>2. Agrees(trace', trace_state', registers', memory')
    BY <1>3, <2>1, AgreesNothing
  <2> QED
    BY <1>1, <1>3, <2>1, <2>2 DEF TraceOK
<1>8. CASE enable_tracing
  <2>1. inst = "WMEM" => ~is_register(Operand(1, 2))
    <3>1. inst = "WMEM" => Operand(1, 2) = argument_stack[1]
      BY <1>6 DEF Operand, arg_count
    <3> QED
      BY <1>1, <1>4, <1>6, <1>8, <3>1 DEF StoresWatched
  <2>2. ~Rejected(inst) /\ (Perform(inst) \/ (inst = "IN" /\ \E c \in Input : inst_in(c)))
    BY <1>1, <1>2, <1>4
       DEF Execute, Rejects, StackExhausted, inst_in, Exit, Running
  <2>3. IF do_memory_trace(inst) THEN OnlyChanges(Operand(1, arg_count(inst)))
        ELSE UNCHANGED << registers, memory >>
    BY <1>1, <1>2, <1>4, <1>5, <2>1, <2>2, InstructionChanges
  <2>4. registers' \in [RegIndex -> Word] /\ memory' \in [Address -> Word]
    BY <1>1, <1>4, <1>5, ExecuteLeaves DEF Leaves, MachineTypeOK
  <2>5. Agrees(trace, trace_state, registers, memory)
    BY <1>1 DEF TraceOK
  <2>6. Agrees(trace', trace_state, registers', memory')
    BY <1>1, <1>4, <1>5, <1>6, <1>8, <2>3, <2>4, <2>5, RunRecords
  <2> QED
    BY <1>1, <1>3, <1>8, <2>6 DEF TraceOK
<1> QED
  BY <1>7, <1>8 DEF DInv, TypeOK

(* IN, before its console.                                                 *)
LEMMA ReadEOFTraces ==
  ASSUME DInv, OneTick, OperandsOK, TraceOK, ReadEOF
  PROVE  TraceOK'
<1>1. /\ Running /\ frames # << >> /\ Current.at # "reading" /\ Current.inst = "IN"
      /\ ~Underflow("IN") /\ ~TraceOfRejected("IN")
      /\ frames' = Append(Below, [Current EXCEPT !.at = "reading", !.dest = Operand(1, 1)])
      /\ trace' = IF enable_tracing THEN Append(trace, Started("IN")) ELSE trace
      /\ UNCHANGED << registers, memory, enable_tracing, trace_state, loaded, residue >>
  BY DEF ReadEOF, Starting, disk, history, origin
<1>2. Below = << >> /\ Current \in Frame /\ MachineTypeOK /\ trace \in Seq(Change)
  BY <1>1, OneTickFacts DEF DInv, TypeOK
<1>3. PICK f : f = [Current EXCEPT !.at = "reading", !.dest = Operand(1, 1)]
  OBVIOUS
<1>4. f.at = "reading" /\ f.dest = Operand(1, 1)
  BY <1>2, <1>3 DEF Frame
<1>5. frames'[1] = f
  BY <1>1, <1>2, <1>3, OneFrame
<1>6. CASE ~enable_tracing
  <2>1. trace' = << >>
    BY <1>1, <1>6 DEF TraceOK
  <2> QED
    BY <1>1, <1>6, <2>1 DEF TraceOK, Running
<1>7. CASE enable_tracing
  <2>1. Len(argument_stack) = 1
    BY <1>1, OneOperands DEF TraceOK, arg_count
  <2>2. Operand(1, 1) = argument_stack[1]
    BY <2>1 DEF Operand
  <2>3. PICK e : e = Started("IN")
    OBVIOUS
  <2>4. e = [ address |-> f.dest, old |-> Cell(registers, memory, f.dest), new |-> -1 ]
    BY <1>4, <2>2, <2>3 DEF Started, do_memory_trace
  <2>5. e \in Change /\ ~(e.new >= 0)
    BY <1>1, <1>2, <1>7, <2>3, <2>4, StartedType
  <2>6. trace' = Append(trace, e)
    BY <1>1, <1>7, <2>3
  <2> HIDE DEF Change, Operandable
  <2>7. Agrees(Append(trace, e), trace_state, registers, memory)
    BY <1>1, <1>2, <2>5, AgreesAppend DEF TraceOK
  <2>8. trace'[Len(trace')] = e
    BY <1>2, <2>5, <2>6, AppendProperties
  <2>9. trace'[Len(trace')] = Incomplete(frames[1])'
    BY <1>1, <1>5, <2>4, <2>8 DEF Incomplete
  <2> QED
    BY <1>1, <1>7, <2>6, <2>7, <2>9 DEF TraceOK
<1> QED
  BY <1>6, <1>7

(* IN, behind it: the entry it completes is its own.                       *)
LEMMA ResumeINTraces ==
  ASSUME DInv, OneTick, TraceOK, ResumeIN
  PROVE  TraceOK'
<1>1. /\ Running /\ frames # << >> /\ Current.at = "reading"
  BY DEF ResumeIN, InConsole
<1>2. SUFFICES ASSUME Running' PROVE TraceOK'
  BY DEF TraceOK
<1>3. /\ is_valid(Current.dest)
      /\ enable_tracing => trace # << >>
      /\ Assign(Current.dest, NEWLINE)
      /\ trace' = IF enable_tracing /\ trace # << >>
                  THEN [trace EXCEPT ![Len(trace)] = Finished(trace[Len(trace)])]
                  ELSE trace
      /\ Returns
  BY <1>1, <1>2 DEF ResumeIN, Dies, Exit, Running, TraceOK
<1>4. frames' = << >> /\ UNCHANGED << enable_tracing, trace_state, loaded, residue >>
  BY <1>1, <1>2, <1>3, OneTickFacts DEF Returns, disk, history, origin
<1>5. CASE ~enable_tracing
  <2>1. trace' = << >> /\ trace_state = NoFile
    BY <1>1, <1>3, <1>5 DEF TraceOK
  <2>2. Agrees(trace', trace_state', registers', memory')
    BY <1>4, <2>1, AgreesNothing
  <2> QED
    BY <1>1, <1>4, <1>5, <2>1, <2>2 DEF TraceOK
<1>6. CASE enable_tracing
  <2>1. MachineTypeOK /\ trace \in Seq(Change) /\ Current = frames[1] /\ Current \in Frame
    BY <1>1, OneTickFacts DEF DInv, TypeOK
  <2>2. PICK x : x = Current.dest
    OBVIOUS
  <2>3. x \in Operandable /\ NEWLINE \in Word
    BY <1>3, <2>1, <2>2, ValidType, ConstantFacts DEF Frame
  <2>4. /\ registers' \in [RegIndex -> Word] /\ memory' \in [Address -> Word]
        /\ OnlyChanges(x)
    BY <1>3, <2>1, <2>2, <2>3, AssignType, AssignChanges
  <2>5. PICK now : now = Cell(registers', memory', x)
    OBVIOUS
  <2>6. now >= 0
    BY <2>3, <2>4, <2>5, CellType
  <2>7. trace[Len(trace)] = [ address |-> x, old |-> Cell(registers, memory, x), new |-> -1 ]
    BY <1>1, <1>3, <1>6, <2>1, <2>2 DEF TraceOK, Incomplete
  <2>8. PICK e : e = Finished(trace[Len(trace)])
    OBVIOUS
  <2>9. e = IF Cell(registers, memory, x) # now
            THEN [ address |-> x, old |-> Cell(registers, memory, x), new |-> now ]
            ELSE NoChange
    BY <2>5, <2>7, <2>8 DEF Finished
  <2>10. ASSUME NEW a \in Operandable
         PROVE  IF e.address = a /\ e.new >= 0 THEN e.new = Cell(registers', memory', a)
                ELSE Cell(registers', memory', a) = Cell(registers, memory, a)
    BY <2>4, <2>5, <2>6, <2>9, EntrySays
  <2>11. trace' = [trace EXCEPT ![Len(trace)] = e]
    BY <1>3, <1>6, <2>8
  <2>12. Agrees(trace, trace_state, registers, memory) /\ trace[Len(trace)].new = -1
    BY <1>1, <2>7 DEF TraceOK
  <2>13. Agrees([trace EXCEPT ![Len(trace)] = e], trace_state, registers', memory')
    <3> HIDE DEF Change, Operandable
    <3> QED
      BY <1>3, <1>6, <2>1, <2>10, <2>12, AgreesComplete
  <2> QED
    BY <1>1, <1>4, <1>6, <2>11, <2>13 DEF TraceOK
<1> QED
  BY <1>5, <1>6 DEF DInv, TypeOK

(* The file starttrace writes has the cells of now.                        *)
LEMMA SnapshotCells ==
  ASSUME MachineTypeOK
  PROVE  FileRegisters(Snapshot) = registers /\ FileMemory(Snapshot) = memory
<1>1. PICK k \in 0 .. 7 : k = 7
  OBVIOUS
<1>2. SavedUpTo(Snapshot, k, memory, registers, instruction_ptr, program_stack, argument_stack)
  BY <1>1, DumpLayout DEF Snapshot, MachineTypeOK
<1>3. /\ memory \in [Address -> Word] /\ registers \in [RegIndex -> Word]
      /\ program_stack \in Seq(Word) /\ argument_stack \in Seq(Word)
  BY DEF MachineTypeOK
<1>4. k >= 1 /\ k >= 2
  BY <1>1
<1> HIDE DEF Word, Address, RegIndex
<1> QED
  BY <1>2, <1>3, <1>4, CellsRead

LEMMA StartTraces ==
  ASSUME DInv, TraceOK, StartTrace
  PROVE  TraceOK'
<1>1. /\ Running /\ trace_state' = Snapshot /\ enable_tracing' = TRUE
      /\ UNCHANGED << registers, memory, trace, frames, loaded, residue >>
  BY DEF StartTrace, Command, InConsole, machine, origin
<1>2. FileRegisters(Snapshot) = registers /\ FileMemory(Snapshot) = memory
  BY SnapshotCells DEF DInv, TypeOK
<1>3. Agrees(trace, trace_state', registers, memory)
  BY <1>1, <1>2 DEF TraceOK, Agrees
<1> QED
  BY <1>1, <1>3 DEF TraceOK, Incomplete

(* savetrace takes the file away and leaves the entries.                   *)
LEMMA SaveTraces ==
  ASSUME TraceOK, SaveTrace
  PROVE  TraceOK'
<1>1. CASE Dies("killed")
  BY <1>1 DEF Dies, Exit, Running, TraceOK
<1>2. CASE /\ trace_state # NoFile /\ trace_state' = NoFile
           /\ UNCHANGED << machine, status, terminal, frames, debugging, saved, history >>
  <2>1. /\ Running
        /\ UNCHANGED << registers, memory, trace, enable_tracing, frames, loaded, residue >>
    BY <1>2 DEF SaveTrace, Command, InConsole, machine, debugging, history, origin
  <2>2. Agrees(trace, trace_state', registers, memory)
    BY <1>2, <2>1 DEF TraceOK, Agrees
  <2> QED
    BY <1>2, <2>1, <2>2 DEF TraceOK, Incomplete
<1> QED
  BY <1>1, <1>2 DEF SaveTrace

(* Steps that change no cell and no entry.  Only those of IN's console     *)
(* move a tick out of "reading".                                           *)
LEMMA OthersTrace ==
  ASSUME TraceOK, Running,
         UNCHANGED << registers, memory, trace, trace_state, enable_tracing, loaded, residue >>,
         frames' # << >> /\ frames'[1].at = "reading" => frames # << >> /\ frames'[1] = frames[1]
  PROVE  TraceOK'
BY DEF TraceOK, Incomplete

LEMMA TraceStays ==
  ASSUME OnlyTraces, DInv, OneTick, OperandsOK, TraceOK, StoresWatched, [Next]_vars
  PROVE  TraceOK'
<1>1. CASE ~Running'
  BY <1>1 DEF TraceOK
<1>2. CASE UNCHANGED << registers, memory, trace, trace_state, enable_tracing, loaded, residue,
                        frames, status >>
  BY <1>1, <1>2, OthersTrace DEF Running
<1>3. Interrupted \/ Breakpoints \/ Traps \/ SaveState \/ UNCHANGED vars
        => UNCHANGED << registers, memory, trace, trace_state, enable_tracing, loaded, residue,
                        frames, status >>
  BY DEF Interrupted, Breakpoints, Traps, SaveState, vars, machine, debugging, disk, history, origin
<1>4. CASE Edit
  <2>1. Commands \cap {"set_mem", "setreg"} = {}
    BY DEF OnlyTraces
  <2>2. UNCHANGED << registers, memory >>
    BY <1>4, <2>1 DEF Edit, Accepts, Command
  <2> QED
    BY <1>2, <1>4, <2>2 DEF Edit, debugging, disk, origin
<1>5. CASE MainTick \/ Break \/ Resume
  <2>1. Running
        /\ UNCHANGED << registers, memory, trace, trace_state, enable_tracing, loaded, residue >>
    BY <1>5 DEF MainTick, Tick, FetchOperands, FetchFails, Exit, Break, Resume, InConsole,
               machine, debugging, disk, history, origin
  <2>2. frames' # << >> => frames'[1].at # "reading"
    BY <1>5, TickMoves
  <2> QED
    BY <2>1, <2>2, OthersTrace
<1>6. CASE Run
  BY <1>6, RunTraces
<1>7. CASE ReadEOF
  BY <1>7, ReadEOFTraces
<1>8. CASE ResumeIN
  BY <1>8, ResumeINTraces
<1>9. CASE StartTrace
  BY <1>9, StartTraces
<1>10. CASE SaveTrace
  BY <1>10, SaveTraces
<1>11. ~NestedTick /\ ~LoadState /\ ~StopTrace
  BY DEF OnlyTraces, NestedTick, LoadState, StopTrace, Command
<1>12. RunFails \/ FileFails \/ ListingFails \/ Quit \/ AssertFails => ~Running'
  BY DEF RunFails, FileFails, ListingFails, Quit, AssertFails, Dies, Exit, Running
<1> QED
  BY <1>1, <1>2, <1>3, <1>4, <1>5, <1>6, <1>7, <1>8, <1>9, <1>10, <1>11, <1>12
     DEF Next, Console, Ended

(***************************************************************************)
(* console.cpp:188, "full instruction/memory modification trace": for a    *)
(* user who lets the program run, or sets breakpoints, moves its           *)
(* instruction pointer, starts and saves traces as often as it pleases,    *)
(* and programs that come without leftover operands and whose stores name  *)
(* a literal address, the changes of the trace applied to trace_state.bin  *)
(* give the present registers and memory.                                  *)
(***************************************************************************)
THEOREM TracesAreComplete ==
  ASSUME OnlyTraces, NoLeftovers
  PROVE  Spec /\ []StoresWatched => []TraceReplays
<1>1. Init => DInv /\ OneTick /\ OperandsOK /\ TraceOK
  <2> SUFFICES ASSUME Init PROVE TraceOK
    BY InitHolds, InitSeen, InitStacked
  <2>1. residue = << >> /\ ~loaded
    BY DEF Init, Loaded, NoLeftovers
  <2>2. trace = << >> /\ trace_state = NoFile /\ frames = << >>
    BY DEF Init
  <2> QED
    BY <2>1, <2>2, AgreesNothing DEF TraceOK
<1>2. "tick" \notin Commands
  BY DEF OnlyTraces
<1>3. DInv /\ OneTick /\ OperandsOK /\ TraceOK /\ StoresWatched /\ [Next]_vars
        => DInv' /\ OneTick' /\ OperandsOK' /\ TraceOK'
  BY <1>2, NextKeeps, StepAlone, OperandsStay, TraceStays
<1>4. DInv /\ TraceOK => TraceReplays
  BY AgreesReplays DEF DInv, TypeOK, TraceOK, TraceReplays
<1> QED
  BY <1>1, <1>3, <1>4, PTL DEF Spec

-----------------------------------------------------------------------------
(* Which users finish_trace serves: those who do not step the vm, do not   *)
(* turn tracing on in IN's console, and type numbers the commands accept.  *)
NumbersFit == \A cmd \in Commands, a \in Typed : a < Bound(cmd)

TurnedOnInIN == StartTrace /\ Current.at = "reading" /\ ~enable_tracing

(* While IN's console is open and tracing is on, there is an entry, and    *)
(* the last one is for a change (without steps there is one frame).        *)
EntryWaits ==
  Running /\ frames # << >> /\ frames[1].at = "reading" /\ enable_tracing
    => trace # << >> /\ trace[Len(trace)].address >= 0

(* An instruction aborts nothing.                                          *)
LEMMA InstructionStatus ==
  ASSUME Running, NEW inst, Execute(inst) \/ \E c \in Input : inst_in(c)
  PROVE  status' # "aborted"
<1>1. ASSUME NEW how \in {"success", "failure", "killed"}, Exit(how) PROVE status' # "aborted"
  BY <1>1 DEF Exit
<1>2. ASSUME NEW n, NEW v, Store(n, v) PROVE status' # "aborted"
  BY <1>2 DEF Store, Running
<1>3. ASSUME NEW n, NEW v, Goto(n, v) PROVE status' # "aborted"
  BY <1>3 DEF Goto, Running
<1>4. StackExhausted => status' # "aborted"
  BY DEF StackExhausted, Exit
<1>5. CASE Rejects(inst) \/ \E c \in Input : inst_in(c)
  BY <1>1, <1>2, <1>4, <1>5 DEF Rejects, inst_in
<1>6. CASE Perform(inst)
  <2>1. inst_halt \/ inst_set \/ inst_mod \/ inst_rmem => status' # "aborted"
    BY <1>1, <1>2 DEF inst_halt, inst_set, inst_mod, inst_rmem
  <2>2. inst_push \/ inst_jmp \/ inst_jt \/ inst_jf \/ inst_call => status' # "aborted"
    BY <1>3, <1>4 DEF inst_push, inst_jmp, inst_jt, inst_jf, inst_call
  <2>3. inst_eq \/ inst_gt \/ inst_add \/ inst_mult \/ inst_and \/ inst_or \/ inst_not
          => status' # "aborted"
    BY <1>2 DEF inst_eq, inst_gt, inst_add, inst_mult, inst_and, inst_or, inst_not
  <2>4. inst_ret => status' # "aborted"
    BY <1>1, <1>3 DEF inst_ret
  <2>5. inst_pop \/ inst_wmem => status' # "aborted"
    BY <1>1 DEF inst_pop, inst_wmem, Running
  <2>6. inst_out \/ inst_noop => status' # "aborted"
    BY DEF inst_out, inst_noop, Running
  <2> QED
    BY <1>6, <2>1, <2>2, <2>3, <2>4, <2>5, <2>6 DEF Perform
<1> QED
  BY <1>5, <1>6 DEF Execute

(* A step that aborts the process is one of the asserts the code has.      *)
LEMMA AbortsAreAsserts ==
  ASSUME Running, [Next]_vars, status' = "aborted"
  PROVE  AssertFails \/ ResumeIN
<1>1. Run => status' # "aborted"
  BY InstructionStatus DEF Run
<1>2. Interrupted \/ Break \/ ReadEOF \/ Resume \/ Edit \/ Breakpoints \/ Traps \/ SaveState
        \/ LoadState \/ StartTrace \/ StopTrace \/ UNCHANGED vars
        => status' # "aborted"
  BY DEF Interrupted, Break, ReadEOF, Resume, Edit, Breakpoints, Traps, SaveState, LoadState,
         StartTrace, StopTrace, vars, Running
<1>3. MainTick \/ NestedTick => status' # "aborted"
  BY DEF MainTick, NestedTick, Tick, FetchOperands, FetchFails, Exit, Running
<1>4. RunFails \/ SaveTrace \/ FileFails \/ ListingFails \/ Quit => status' # "aborted"
  BY DEF RunFails, SaveTrace, FileFails, ListingFails, Quit, Dies, Exit, Running
<1> QED
  BY <1>1, <1>2, <1>3, <1>4 DEF Next, Console, Ended

LEMMA EntryStays ==
  ASSUME "tick" \notin Commands, DInv, OneTick, EntryWaits, [Next]_vars, [~TurnedOnInIN]_vars
  PROVE  EntryWaits'
<1>1. CASE ~Running'
  BY <1>1 DEF EntryWaits
<1>2. ASSUME Running, UNCHANGED << trace, enable_tracing >>,
             frames' # << >> /\ frames'[1].at = "reading" => frames # << >> /\ frames'[1] = frames[1]
      PROVE  EntryWaits'
  BY <1>2 DEF EntryWaits
<1>3. Interrupted \/ Edit \/ Breakpoints \/ Traps \/ SaveState \/ SaveTrace \/ UNCHANGED vars
        => UNCHANGED << trace, enable_tracing, frames >> /\ (Running' => Running)
  BY DEF Interrupted, Edit, Breakpoints, Traps, SaveState, SaveTrace, Accepts, Command, InConsole,
         Dies, Running, vars, debugging
<1>4. CASE MainTick \/ Break \/ Resume
  <2>1. Running /\ UNCHANGED << trace, enable_tracing >>
    BY <1>4 DEF MainTick, Tick, Break, Resume, InConsole, debugging
  <2> QED
    BY <1>2, <1>4, <2>1, TickMoves
<1>5. CASE Run \/ ResumeIN
  <2>1. SUFFICES ASSUME Running' PROVE EntryWaits'
    BY <1>1
  <2>2. frames # << >> /\ Returns
    BY <1>5, <2>1 DEF Run, Starting, ResumeIN, InConsole, Dies, Exit, Running
  <2>3. frames' = << >>
    BY <2>1, <2>2, OneTickFacts DEF Returns
  <2> QED
    BY <2>3 DEF EntryWaits
<1>6. CASE ReadEOF
  <2>1. /\ Running /\ ~Underflow("IN") /\ ~TraceOfRejected("IN")
        /\ trace' = IF enable_tracing THEN Append(trace, Started("IN")) ELSE trace
        /\ UNCHANGED enable_tracing
    BY <1>6 DEF ReadEOF, Starting
  <2>2. CASE ~enable_tracing
    BY <2>1, <2>2 DEF EntryWaits
  <2>3. CASE enable_tracing
    <3>1. MachineTypeOK /\ trace \in Seq(Change)
      BY DEF DInv, TypeOK
    <3>2. PICK e : e = Started("IN")
      OBVIOUS
    <3>3. e \in Change /\ e.address >= 0
      <4>1. e \in Change /\ e.address \in Operandable
        BY <2>1, <2>3, <3>1, <3>2, StartedType DEF do_memory_trace
      <4> QED
        BY <4>1, ConstantFacts DEF Operandable
    <3> HIDE DEF Change
    <3>4. trace' # << >> /\ trace'[Len(trace')] = e
      <4>1. trace' = Append(trace, e)
        BY <2>1, <2>3, <3>2
      <4>2. Len(trace') = Len(trace) + 1 /\ trace'[Len(trace) + 1] = e /\ trace' \in Seq(Change)
        BY <3>1, <3>3, <4>1, AppendProperties
      <4>3. Len(trace) \in Nat
        BY <3>1, LenProperties
      <4> QED
        BY <4>2, <4>3, EmptySeq
    <3> QED
      BY <3>3, <3>4 DEF EntryWaits
  <2> QED
    BY <2>2, <2>3
<1>7. CASE LoadState \/ StopTrace
  <2>1. enable_tracing' = FALSE
    BY <1>7 DEF LoadState, StopTrace
  <2> QED
    BY <2>1 DEF EntryWaits
<1>8. CASE StartTrace
  <2>1. Running /\ frames # << >> /\ UNCHANGED << trace, frames >> /\ commands' # commands
    <3>1. commands' = commands + 1 /\ commands \in Nat
      BY <1>8, DebuggerFacts DEF StartTrace, Counted, DInv, TypeOK
    <3> QED
      BY <1>8, <3>1 DEF StartTrace, Command, InConsole
  <2>2. Current = frames[1]
    BY <2>1, OneTickFacts
  <2>3. frames[1].at = "reading" => enable_tracing
    BY <1>8, <2>1, <2>2 DEF TurnedOnInIN, vars, history
  <2> QED
    BY <2>1, <2>3 DEF EntryWaits
<1>9. ~NestedTick
  BY DEF NestedTick, Command
<1>10. RunFails \/ FileFails \/ ListingFails \/ Quit \/ AssertFails => ~Running'
  BY DEF RunFails, FileFails, ListingFails, Quit, AssertFails, Dies, Exit, Running
<1>11. ASSUME UNCHANGED << trace, enable_tracing, frames >>, Running' => Running
       PROVE  EntryWaits'
  BY <1>11 DEF EntryWaits
<1> QED
  BY <1>1, <1>3, <1>4, <1>5, <1>6, <1>7, <1>8, <1>9, <1>10, <1>11 DEF Next, Console, Ended

(***************************************************************************)
(* vm.cpp:188, assert( memory_changes.rbegin( )->address >= 0 ): whatever  *)
(* the program is, and whatever is edited, loaded or stopped meanwhile,    *)
(* finish_trace finds an entry, one for a change, when IN comes back from  *)
(* its console, and no assert fails, as long as the user does not step the *)
(* vm (Debugger_assert is one who does), does not turn tracing on in IN's  *)
(* console, where IN has no entry yet, and types numbers the commands      *)
(* accept.                                                                 *)
(***************************************************************************)
THEOREM TracesFinish ==
  ASSUME "tick" \notin Commands, NumbersFit
  PROVE  Spec /\ [][~TurnedOnInIN]_vars => []EntryWaits /\ FinishesAChange
<1>1. Init => DInv /\ OneTick /\ EntryWaits
  <2> SUFFICES ASSUME Init PROVE EntryWaits
    BY InitHolds, InitSeen
  <2> QED
    BY DEF Init, EntryWaits
<1>2. DInv /\ OneTick /\ EntryWaits /\ [Next]_vars /\ [~TurnedOnInIN]_vars
        => DInv' /\ OneTick' /\ EntryWaits'
  BY NextKeeps, StepAlone, EntryStays
<1>3. ASSUME DInv, OneTick, EntryWaits, [Next]_vars, Running
      PROVE  status' # "aborted"
  <2>1. ~AssertFails
    <3>1. SUFFICES ASSUME NEW cmd \in Commands, NEW a \in Typed, a >= Bound(cmd) PROVE FALSE
      BY DEF AssertFails
    <3>2. a < Bound(cmd) /\ a \in Nat /\ Bound(cmd) \in Nat
      BY DebuggerFacts, ConstantFacts DEF NumbersFit, Word, Bound
    <3> QED
      BY <3>1, <3>2
  <2>2. SUFFICES ASSUME ResumeIN PROVE status' # "aborted"
    BY <1>3, <2>1, AbortsAreAsserts
  <2>3. ~enable_tracing \/ (trace # << >> /\ ~(trace[Len(trace)].address < 0))
    <3>1. SUFFICES ASSUME enable_tracing
                   PROVE  trace # << >> /\ ~(trace[Len(trace)].address < 0)
      OBVIOUS
    <3>2. Current.at = "reading" /\ Current = frames[1] /\ frames # << >>
      BY <1>3, <2>2, OneTickFacts DEF ResumeIN, InConsole
    <3>3. trace # << >> /\ trace[Len(trace)].address >= 0
      BY <1>3, <3>1, <3>2 DEF EntryWaits
    <3>4. trace \in Seq(Change) /\ Len(trace) \in 1 .. Len(trace)
      BY <1>3, <3>3, LenProperties, EmptySeq DEF DInv, TypeOK
    <3>5. trace[Len(trace)] \in Change
      BY <3>4, ElementOfSeq
    <3> QED
      BY <3>3, <3>5, ConstantFacts DEF Change, Operandable
  <2> QED
    BY <1>3, <2>2, <2>3 DEF ResumeIN, Assign, Dies, Exit, Running
<1>4. DInv /\ OneTick /\ EntryWaits /\ [Next]_vars => [Running => status' # "aborted"]_vars
  BY <1>3
<1> QED
  BY <1>1, <1>2, <1>4, PTL DEF Spec, FinishesAChange

=============================================================================
