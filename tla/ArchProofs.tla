----------------------------- MODULE ArchProofs -----------------------------
(***************************************************************************)
(* VM implements Arch: what the code does with a fetch and an instruction, *)
(* its operands passed on argument_stack, is what arch-spec.txt says of    *)
(* one instruction, wherever that document says anything.                  *)
(***************************************************************************)
EXTENDS VMProofs

USE DEF Number, Word, Address, RegIndex, Char, REGISTER0, NEWLINE, EOF, Operandable

(* While an instruction is in flight its opcode and its operands, valid    *)
(* ones, stand in memory behind the instruction pointer.                   *)
HeldCode ==
  Running /\ decoded # "none" =>
    LET n  == arg_count(decoded)
        at == instruction_ptr - 1 - n
    IN /\ at \in Address /\ is_instruction(memory[at]) /\ Decode(memory[at]) = decoded
       /\ \A i \in 1 .. n : at + i \in Address /\ is_valid(memory[at + i])

(* The inductive invariant.                                                *)
AInv == IInv /\ HeldCode

LEMMA InitAInv == Init => AInv
BY InitIInv DEF Init, AInv, HeldCode

LEMMA FetchAInv == AInv /\ Fetch => AInv'
<1> SUFFICES ASSUME AInv, Fetch PROVE HeldCode'
  BY FetchIInv DEF AInv
<1>1. CASE FetchOperands /\ decoded' = Fetched
  <2>1. MachineTypeOK
    BY DEF AInv, IInv, TypeOK
  <2>2. PICK n : n = arg_count(Fetched)
    OBVIOUS
  <2>3. /\ n \in 0 .. 3 /\ instruction_ptr' = instruction_ptr + 1 + n /\ instruction_ptr \in Address
        /\ memory' = memory
    BY <1>1, <2>1, <2>2, ArgCountType, FetchFacts DEF FetchOperands, CanFetch
  <2>4. instruction_ptr' - 1 - n = instruction_ptr
    BY <2>3
  <2>5. /\ is_instruction(memory[instruction_ptr])
        /\ \A i \in 1 .. n : instruction_ptr + i \in Address /\ is_valid(memory[instruction_ptr + i])
    BY <1>1, <2>2 DEF FetchOperands, CanFetch, Fetched
  <2> QED
    BY <1>1, <2>2, <2>3, <2>4, <2>5 DEF HeldCode, Fetched
<1>2. CASE FetchFails /\ UNCHANGED decoded
  BY <1>2 DEF FetchFails, Exit, Running, HeldCode
<1> QED
  BY <1>1, <1>2 DEF Fetch

LEMMA InstructAInv == AInv /\ Instruct => AInv'
<1> SUFFICES ASSUME AInv, Instruct PROVE HeldCode'
  BY InstructIInv DEF AInv
<1> QED
  BY DEF Instruct, HeldCode

LEMMA StutterAInv == AInv /\ UNCHANGED vars => AInv'
<1> SUFFICES ASSUME AInv, UNCHANGED vars PROVE HeldCode'
  BY StutterIInv DEF AInv
<1> QED
  BY DEF AInv, HeldCode, Running, vars

LEMMA ArchInductive == Spec => []AInv
<1>1. AInv /\ [Next]_vars => AInv'
  BY FetchAInv, InstructAInv, StutterAInv DEF Next, Ended
<1> QED
  BY InitAInv, <1>1, PTL DEF Spec

-----------------------------------------------------------------------------
(* The words and the instruction table of the document are those of the    *)
(* code.                                                                   *)
LEMMA SameWords ==
  /\ A!Address = Address /\ A!Number = Number /\ A!Char = Char
  /\ \A w : /\ A!Decode(w) = Decode(w) /\ A!is_instruction(w) = is_instruction(w)
            /\ A!is_register(w) = is_register(w) /\ A!is_valid(w) = is_valid(w)
  /\ \A inst : A!arg_count(inst) = arg_count(inst)
BY DEF A!Address, A!Number, A!Char, A!Decode, A!decoder, Decode, decoder, A!is_instruction,
       is_instruction, A!is_register, is_register, A!is_valid, is_valid, A!REGISTER0,
       A!arg_count, arg_count

(* An instruction in flight is at the abstract pc, with its arguments      *)
(* behind it: those that were pushed.                                      *)
InFlight ==
  /\ A!Op = decoded /\ A!InCode /\ A!NextPc = instruction_ptr
  /\ \A i \in 1 .. arg_count(decoded) :
       /\ A!Arg(i) = Operand(i, arg_count(decoded))
       /\ A!V(i) = Val(i, arg_count(decoded))
       /\ Val(i, arg_count(decoded)) \in Word

LEMMA IsInFlight ==
  ASSUME AInv, Running, decoded # "none"
  PROVE  InFlight
<1>1. PICK n : n = arg_count(decoded)
  OBVIOUS
<1>2. PICK at : at = instruction_ptr - 1 - n
  OBVIOUS
<1>3. /\ at \in Address /\ is_instruction(memory[at]) /\ Decode(memory[at]) = decoded
      /\ \A i \in 1 .. n : at + i \in Address /\ is_valid(memory[at + i])
  BY <1>1, <1>2 DEF AInv, HeldCode
<1>4. (IF decoded = "none" THEN instruction_ptr ELSE instruction_ptr - 1 - arg_count(decoded)) = at
  BY <1>1, <1>2
<1>5. A!Op = decoded /\ \A i : A!Arg(i) = memory[at + i]
  BY <1>3, <1>4, SameWords DEF A!Op, A!Arg
<1>6. A!InCode
  BY <1>1, <1>3, <1>4, <1>5, SameWords DEF A!InCode, A!Op
<1>7. A!NextPc = instruction_ptr
  <2>1. n \in 0 .. 3 /\ instruction_ptr \in Nat
    BY <1>1, ArgCountType, ReadyToRun DEF AInv
  <2>2. A!NextPc = at + 1 + n
    BY <1>1, <1>4, <1>5, SameWords DEF A!NextPc
  <2> QED
    BY <1>2, <2>1, <2>2
<1>8. \A i \in 1 .. n : Operand(i, n) = memory[at + i]
  <2>1. PICK os : os = PendingOperands
    OBVIOUS
  <2>2. os = [i \in 1 .. n |-> memory[at + i]]
    BY <1>1, <1>2, <2>1 DEF PendingOperands, OperandsAt
  <2>3. argument_stack = residue \o os /\ residue \in Seq(Word)
    BY <2>1 DEF AInv, IInv, TypeOK, OperandDiscipline
  <2>4. os \in Seq(Word) /\ Len(os) = n /\ n \in Nat
    <3>1. MachineTypeOK
      BY DEF AInv, IInv, TypeOK
    <3>2. os \in [1 .. n -> Word]
      BY <1>3, <2>2, <3>1 DEF MachineTypeOK
    <3>3. n \in Nat
      BY <1>1, ArgCountType
    <3> QED
      BY <3>2, <3>3, FunctionIsSeq
  <2>5. PICK m \in Nat : m = Len(residue)
    BY <2>3, LenProperties
  <2>6. Len(argument_stack) = m + n /\ \A i \in 1 .. n : argument_stack[m + i] = os[i]
    <3>1. residue \in Seq(Word) /\ os \in Seq(Word)
      BY <2>3, <2>4
    <3> HIDE DEF Word
    <3>2. Len(residue \o os) = m + Len(os) /\ \A i \in 1 .. Len(os) : (residue \o os)[m + i] = os[i]
      BY <2>5, <3>1, ConcatAt
    <3> QED
      BY <2>3, <2>4, <3>2
  <2>7. Len(argument_stack) - n = m
    BY <2>4, <2>6
  <2>8. ASSUME NEW i \in 1 .. n PROVE Operand(i, n) = memory[at + i]
    <3>1. Operand(i, n) = argument_stack[m + i]
      BY <2>6, <2>7 DEF Operand
    <3>2. os[i] = memory[at + i]
      BY <2>2
    <3> QED
      BY <2>6, <3>1, <3>2
  <2> QED
    BY <2>8
<1>9. \A i \in 1 .. n : A!V(i) = Val(i, n)
  BY <1>5, <1>8, SameWords DEF A!V, A!REGISTER0, Val, get_value
<1>10. \A i \in 1 .. n : Val(i, n) \in Word
  <2>1. MachineTypeOK /\ n <= Len(argument_stack) /\ n \in 0 .. 3
    <3>1. MachineTypeOK /\ ~Underflow(decoded)
      BY ReadyToRun DEF AInv
    <3>2. n \in 0 .. 3 /\ Len(argument_stack) \in Nat
      BY <1>1, <3>1, ArgCountType, LenProperties DEF MachineTypeOK
    <3> QED
      BY <1>1, <3>1, <3>2 DEF Underflow
  <2>2. ASSUME NEW i \in 1 .. n PROVE Val(i, n) \in Word
    <3>1. n \in 1 .. 3
      BY <2>1
    <3> QED
      BY <2>1, <3>1, OperandType
  <2> QED
    BY <2>2
<1> QED
  BY <1>1, <1>5, <1>6, <1>7, <1>8, <1>9, <1>10 DEF InFlight

-----------------------------------------------------------------------------
(* One instruction: what InFlight says of the abstract machine is enough.  *)

(* After an instruction the abstract pc is the instruction pointer, unless *)
(* the process ended: then it stays.                                       *)
LEMMA NextOpcode ==
  ASSUME Instruct
  PROVE  /\ Running /\ decoded # "none"
         /\ Running' => decoded' = "none"
         /\ ~Running' => decoded' = decoded
BY DEF Instruct

(* An instruction that stores into a register and goes on.                 *)
LEMMA SetStep ==
  ASSUME Instruct, InFlight, A!Specified, decoded \in A!Sets,
         NEW n \in 1 .. 3, n = arg_count(decoded), NEW v, Store(n, v)
  PROVE  A!Set(v)
<1>1. 1 \in 1 .. n
  OBVIOUS
<1>2. is_register(Operand(1, n)) /\ A!Arg(1) = Operand(1, n)
  BY <1>1, SameWords DEF InFlight, A!Specified
<1>3. registers' = [registers EXCEPT ![Operand(1, n) - REGISTER0] = v] /\ UNCHANGED memory
  BY <1>2 DEF Store, Assign
<1>4. UNCHANGED << program_stack, instruction_ptr, status, terminal >>
  BY DEF Store
<1>5. Running' /\ decoded' = "none"
  BY <1>4, NextOpcode DEF Running
<1> QED
  BY <1>2, <1>3, <1>4, <1>5, NextOpcode DEF A!Set, A!REGISTER0, InFlight

(* One that continues elsewhere.                                           *)
LEMMA JumpStep ==
  ASSUME Instruct, NEW n, NEW ip, Goto(n, ip)
  PROVE  A!Jump(ip)
<1>1. UNCHANGED << registers, memory, status, terminal >> /\ instruction_ptr' = ip
  BY DEF Goto
<1>2. Running' /\ decoded' = "none"
  BY <1>1, NextOpcode DEF Running
<1> QED
  BY <1>1, <1>2, NextOpcode DEF A!Jump

(* One that ends the process.                                              *)
LEMMA HaltStep ==
  ASSUME Instruct, NEW how, how # "running", Exit(how)
  PROVE  A!Halt
<1>1. UNCHANGED << machine, terminal >> /\ ~Running'
  BY DEF Exit, Running
<1>2. decoded' = decoded
  BY <1>1, NextOpcode
<1> QED
  BY <1>1, <1>2 DEF A!Halt, machine

(* What the document asks of the operands.                                 *)
LEMMA OperandsSpecified ==
  ASSUME InFlight, A!Specified, NEW n, n = arg_count(decoded)
  PROVE  /\ \A i \in A!Reads(decoded) : A!V(i) \in Number
         /\ \A i \in 1 .. n : A!V(i) = Val(i, n) /\ A!Arg(i) = Operand(i, n)
         /\ decoded \in A!Sets => is_register(A!Arg(1))
BY SameWords DEF InFlight, A!Specified

(* The instructions, each as the document has it.                          *)
LEMMA InstructStep ==
  ASSUME AInv, Instruct, A!Specified
  PROVE  A!Compute \/ A!Control \/ A!Storage
<1> DEFINE n == arg_count(decoded)
<1>1. /\ InFlight /\ ~Rejected(decoded) /\ MachineTypeOK /\ n <= Len(argument_stack)
      /\ A!Op = decoded /\ A!NextPc = instruction_ptr
  <2>1. Running /\ decoded # "none"
    BY NextOpcode
  <2>2. InFlight /\ ~Rejected(decoded) /\ MachineTypeOK /\ ~Underflow(decoded)
    BY <2>1, IsInFlight, ReadyToRun DEF AInv
  <2>3. n \in 0 .. 3 /\ Len(argument_stack) \in Nat
    BY <2>2, ArgCountType, LenProperties DEF MachineTypeOK
  <2> QED
    BY <2>2, <2>3 DEF InFlight, Underflow
<1>2. ASSUME NEW m, m = n, NEW i \in 1 .. m
      PROVE  /\ A!V(i) = Val(i, m) /\ A!Arg(i) = Operand(i, m) /\ Val(i, m) \in Word
             /\ (decoded \notin A!Sets \/ i # 1) => Val(i, m) \in Number
  <2>1. i \in A!Reads(decoded) \/ (decoded \in A!Sets /\ i = 1)
    <3>1. n \in 0 .. 3 /\ A!arg_count(decoded) = n
      BY ArgCountType, SameWords
    <3> QED
      BY <1>2, <3>1 DEF A!Reads
  <2>2. A!V(i) = Val(i, m) /\ A!Arg(i) = Operand(i, m) /\ Val(i, m) \in Word
    BY <1>1, <1>2 DEF InFlight
  <2>3. \A j \in A!Reads(decoded) : A!V(j) \in Number
    BY <1>1, OperandsSpecified
  <2> QED
    BY <2>1, <2>2, <2>3
<1>3. ASSUME NEW m \in 1 .. 3, m = n, decoded \in A!Sets, NEW v, Store(m, v)
      PROVE  A!Set(v)
  BY <1>1, <1>3, SetStep
<1>4. ASSUME decoded = "HALT", inst_halt PROVE A!Control
  BY <1>1, <1>4, HaltStep DEF inst_halt, A!Control
<1>5. ASSUME decoded = "EQ", inst_eq PROVE A!Compute
  <2>1. n = 3 /\ decoded \in A!Sets
    BY <1>5 DEF arg_count, A!Sets
  <2>2. A!V(2) = Val(2, 3) /\ A!V(3) = Val(3, 3)
    BY <1>2, <2>1
  <2>3. A!Set(IF Val(2, 3) = Val(3, 3) THEN 1 ELSE 0)
    BY <1>3, <1>5, <2>1 DEF inst_eq
  <2> QED
    BY <1>1, <1>5, <2>2, <2>3 DEF A!Compute
<1>6. ASSUME decoded = "GT", inst_gt PROVE A!Compute
  <2>1. n = 3 /\ decoded \in A!Sets
    BY <1>6 DEF arg_count, A!Sets
  <2>2. A!V(2) = Val(2, 3) /\ A!V(3) = Val(3, 3)
    BY <1>2, <2>1
  <2>3. A!Set(IF Val(2, 3) > Val(3, 3) THEN 1 ELSE 0)
    BY <1>3, <1>6, <2>1 DEF inst_gt
  <2> QED
    BY <1>1, <1>6, <2>2, <2>3 DEF A!Compute
<1>7. ASSUME decoded = "ADD", inst_add PROVE A!Compute
  <2>1. n = 3 /\ decoded \in A!Sets
    BY <1>7 DEF arg_count, A!Sets
  <2>2. A!V(2) = Val(2, 3) /\ A!V(3) = Val(3, 3)
    BY <1>2, <2>1
  <2>3. A!Set((Val(2, 3) + Val(3, 3)) % MODULO)
    BY <1>3, <1>7, <2>1 DEF inst_add
  <2> QED
    BY <1>1, <1>7, <2>2, <2>3 DEF A!Compute
<1>8. ASSUME decoded = "MULT", inst_mult PROVE A!Compute
  <2>1. n = 3 /\ decoded \in A!Sets
    BY <1>8 DEF arg_count, A!Sets
  <2>2. A!V(2) = Val(2, 3) /\ A!V(3) = Val(3, 3)
    BY <1>2, <2>1
  <2>3. A!Set((Val(2, 3) * Val(3, 3)) % MODULO)
    BY <1>3, <1>8, <2>1 DEF inst_mult
  <2> QED
    BY <1>1, <1>8, <2>2, <2>3 DEF A!Compute
<1>9. ASSUME decoded = "AND", inst_and PROVE A!Compute
  <2>1. n = 3 /\ decoded \in A!Sets
    BY <1>9 DEF arg_count, A!Sets
  <2>2. A!V(2) = Val(2, 3) /\ A!V(3) = Val(3, 3)
    BY <1>2, <2>1
  <2>3. A!Set(BitAnd(Val(2, 3), Val(3, 3)))
    BY <1>3, <1>9, <2>1 DEF inst_and
  <2> QED
    BY <1>1, <1>9, <2>2, <2>3 DEF A!Compute
<1>10. ASSUME decoded = "OR", inst_or PROVE A!Compute
  <2>1. n = 3 /\ decoded \in A!Sets
    BY <1>10 DEF arg_count, A!Sets
  <2>2. A!V(2) = Val(2, 3) /\ A!V(3) = Val(3, 3)
    BY <1>2, <2>1
  <2>3. A!Set(BitOr(Val(2, 3), Val(3, 3)))
    BY <1>3, <1>10, <2>1 DEF inst_or
  <2> QED
    BY <1>1, <1>10, <2>2, <2>3 DEF A!Compute
<1>11. ASSUME decoded = "MOD", inst_mod PROVE A!Compute
  <2>1. n = 3 /\ decoded \in A!Sets
    BY <1>11 DEF arg_count, A!Sets
  <2>2. A!V(2) = Val(2, 3) /\ A!V(3) = Val(3, 3)
    BY <1>2, <2>1
  <2>3. Val(3, 3) # 0
    BY <1>1, <1>11, <2>2 DEF A!Specified
  <2>4. A!Set(Val(2, 3) % Val(3, 3))
    BY <1>3, <1>11, <2>1, <2>3 DEF inst_mod
  <2> QED
    BY <1>1, <1>11, <2>2, <2>4 DEF A!Compute
<1>12. ASSUME decoded = "SET", inst_set PROVE A!Compute
  <2>1. n = 2 /\ decoded \in A!Sets
    BY <1>12 DEF arg_count, A!Sets
  <2>2. A!V(2) = Val(2, 2) /\ A!Arg(1) = Operand(1, 2)
    BY <1>2, <2>1
  <2>3. is_register(Operand(1, 2))
    BY <1>1, <2>1, <2>2, OperandsSpecified
  <2>4. A!Set(Val(2, 2))
    BY <1>3, <1>12, <2>1, <2>3 DEF inst_set
  <2> QED
    BY <1>1, <1>12, <2>2, <2>4 DEF A!Compute
<1>13. ASSUME decoded = "NOT", inst_not PROVE A!Compute
  <2>1. n = 2 /\ decoded \in A!Sets
    BY <1>13 DEF arg_count, A!Sets
  <2>2. A!V(2) = Val(2, 2) /\ Val(2, 2) \in Number
    BY <1>2, <2>1
  <2>3. A!Set(BitNot15(Val(2, 2)))
    BY <1>3, <1>13, <2>1 DEF inst_not
  <2>4. BitNot15(Val(2, 2)) = MODULO - 1 - Val(2, 2)
    BY <2>2, ConstantFacts DEF BitNot15
  <2> QED
    BY <1>1, <1>13, <2>2, <2>3, <2>4 DEF A!Compute
<1>14. ASSUME decoded = "RMEM", inst_rmem PROVE A!Compute
  <2>1. n = 2 /\ decoded \in A!Sets
    BY <1>14 DEF arg_count, A!Sets
  <2>2. A!V(2) = Val(2, 2) /\ Val(2, 2) \in Address
    BY <1>2, <2>1
  <2>3. A!Set(memory[Val(2, 2)])
    BY <1>3, <1>14, <2>1, <2>2 DEF inst_rmem
  <2> QED
    BY <1>1, <1>14, <2>2, <2>3 DEF A!Compute
<1>15. ASSUME decoded = "IN", NEW c \in Input, inst_in(c) PROVE A!Compute
  <2>1. n = 1 /\ decoded \in A!Sets
    BY <1>15 DEF arg_count, A!Sets
  <2>2. CharRead(c) \in A!Char
    BY ConstantFacts, SameWords DEF CharRead
  <2>3. A!Set(CharRead(c))
    BY <1>1, <1>3, <1>15, <2>1 DEF inst_in
  <2> QED
    BY <1>1, <1>15, <2>2, <2>3 DEF A!Compute
<1>16. ASSUME decoded = "JMP", inst_jmp PROVE A!Control
  <2>1. n = 1
    BY <1>16 DEF arg_count
  <2>2. A!V(1) = Val(1, 1)
    BY <1>2, <2>1
  <2>3. A!Jump(Val(1, 1)) /\ UNCHANGED program_stack
    BY <1>16, JumpStep DEF inst_jmp
  <2> QED
    BY <1>1, <1>16, <2>2, <2>3 DEF A!Control
<1>17. ASSUME decoded = "JT", inst_jt PROVE A!Control
  <2>1. n = 2
    BY <1>17 DEF arg_count
  <2>2. A!V(1) = Val(1, 2) /\ A!V(2) = Val(2, 2)
    BY <1>2, <2>1
  <2>3. A!Jump(IF Val(1, 2) # 0 THEN Val(2, 2) ELSE instruction_ptr) /\ UNCHANGED program_stack
    BY <1>17, JumpStep DEF inst_jt
  <2> QED
    BY <1>1, <1>17, <2>2, <2>3 DEF A!Control
<1>18. ASSUME decoded = "JF", inst_jf PROVE A!Control
  <2>1. n = 2
    BY <1>18 DEF arg_count
  <2>2. A!V(1) = Val(1, 2) /\ A!V(2) = Val(2, 2)
    BY <1>2, <2>1
  <2>3. A!Jump(IF Val(1, 2) = 0 THEN Val(2, 2) ELSE instruction_ptr) /\ UNCHANGED program_stack
    BY <1>18, JumpStep DEF inst_jf
  <2> QED
    BY <1>1, <1>18, <2>2, <2>3 DEF A!Control
<1>19. ASSUME decoded = "CALL", inst_call PROVE A!Control
  <2>1. n = 1
    BY <1>19 DEF arg_count
  <2>2. A!V(1) = Val(1, 1)
    BY <1>2, <2>1
  <2>3. ~StackExhausted
    <3>1. Len(program_stack) < MaxStack /\ Len(program_stack) \in Nat /\ MaxStack \in Nat
      BY <1>1, <1>19, LenProperties, ConstantFacts DEF A!Specified, MachineTypeOK
    <3> QED
      BY <3>1 DEF StackExhausted
  <2>4. Push(instruction_ptr) /\ A!Jump(Val(1, 1))
    BY <1>19, <2>3, JumpStep DEF inst_call
  <2> QED
    BY <1>1, <1>19, <2>2, <2>4 DEF A!Control, Push
<1>20. ASSUME decoded = "RET", inst_ret PROVE A!Control
  <2>1. CASE program_stack # << >> /\ program_stack' = Pop(program_stack, 1) /\ Goto(0, Top(program_stack))
    <3>1. A!Jump(Top(program_stack))
      BY <2>1, JumpStep
    <3> QED
      BY <1>1, <1>20, <2>1, <3>1 DEF A!Control, Pop, Top
  <2>2. CASE program_stack = << >> /\ Exit("failure")
    BY <1>1, <1>20, <2>2, HaltStep DEF A!Control
  <2> QED
    BY <1>20, <2>1, <2>2 DEF inst_ret
<1>21. ASSUME decoded = "NOOP", inst_noop PROVE A!Control
  <2>1. UNCHANGED << registers, memory, program_stack, instruction_ptr, status, terminal >>
    BY <1>21 DEF inst_noop, machine
  <2>2. Running' /\ decoded' = "none"
    BY <2>1, NextOpcode DEF Running
  <2>3. A!Jump(instruction_ptr)
    BY <2>1, <2>2, NextOpcode DEF A!Jump
  <2> QED
    BY <1>1, <1>21, <2>1, <2>3 DEF A!Control
<1>22. ASSUME decoded = "PUSH", inst_push PROVE A!Storage
  <2>1. n = 1
    BY <1>22 DEF arg_count
  <2>2. A!V(1) = Val(1, 1)
    BY <1>2, <2>1
  <2>3. ~StackExhausted
    <3>1. Len(program_stack) < MaxStack /\ Len(program_stack) \in Nat /\ MaxStack \in Nat
      BY <1>1, <1>22, LenProperties, ConstantFacts DEF A!Specified, MachineTypeOK
    <3> QED
      BY <3>1 DEF StackExhausted
  <2>4. Push(Val(1, 1)) /\ A!Jump(instruction_ptr)
    BY <1>22, <2>3, JumpStep DEF inst_push
  <2> QED
    BY <1>1, <1>22, <2>2, <2>4 DEF A!Storage, Push
<1>23. ASSUME decoded = "POP", inst_pop PROVE A!Storage
  <2>1. n = 1 /\ decoded \in A!Sets
    BY <1>23 DEF arg_count, A!Sets
  <2>2. A!Arg(1) = Operand(1, 1) /\ is_register(Operand(1, 1))
    BY <1>1, <1>2, <2>1, OperandsSpecified
  <2>3. program_stack # << >> /\ Top(program_stack) \in Number
    BY <1>1, <1>23, SameWords DEF A!Specified, Top
  <2>4. is_valid(Top(program_stack)) /\ get_value(Top(program_stack)) = Top(program_stack)
    BY <2>3, ConstantFacts DEF is_valid, get_value, is_register
  <2>5. /\ program_stack' = Pop(program_stack, 1)
        /\ Assign(Operand(1, 1), Top(program_stack))
        /\ UNCHANGED << instruction_ptr, status, terminal >>
    BY <1>23, <2>3, <2>4 DEF inst_pop
  <2>6. Running' /\ decoded' = "none"
    BY <2>5, NextOpcode DEF Running
  <2>7. /\ registers' = [registers EXCEPT ![Operand(1, 1) - REGISTER0] = Top(program_stack)]
        /\ UNCHANGED memory
    BY <2>2, <2>5 DEF Assign
  <2> QED
    BY <1>1, <1>23, <2>2, <2>5, <2>6, <2>7, NextOpcode DEF A!Storage, A!REGISTER0, Pop, Top
<1>24. ASSUME decoded = "WMEM", inst_wmem PROVE A!Storage
  <2>1. n = 2 /\ decoded \notin A!Sets
    BY <1>24 DEF arg_count, A!Sets
  <2>2. /\ A!V(1) = Val(1, 2) /\ Val(1, 2) \in Number
        /\ A!V(2) = Val(2, 2) /\ Val(2, 2) \in Number
    BY <1>2, <2>1
  <2>3. /\ memory' = [memory EXCEPT ![Val(1, 2)] = Val(2, 2)]
        /\ UNCHANGED << registers, program_stack, instruction_ptr, status, terminal >>
    BY <1>24, <2>2, ConstantFacts DEF inst_wmem, is_value
  <2>4. Running' /\ decoded' = "none"
    BY <2>3, NextOpcode DEF Running
  <2> QED
    BY <1>1, <1>24, <2>2, <2>3, <2>4, NextOpcode DEF A!Storage
<1>25. ASSUME decoded = "OUT", inst_out PROVE A!Storage
  <2>1. n = 1
    BY <1>25 DEF arg_count
  <2>2. A!V(1) = Val(1, 1) /\ Val(1, 1) \in Char
    BY <1>1, <1>2, <1>25, <2>1, SameWords DEF A!Specified
  <2>3. Val(1, 1) % BYTE = Val(1, 1)
    BY <2>2, ConstantFacts
  <2>4. /\ terminal' = Val(1, 1)
        /\ UNCHANGED << registers, memory, program_stack, instruction_ptr, status >>
    BY <1>25, <2>3 DEF inst_out
  <2>5. Running' /\ decoded' = "none"
    BY <2>4, NextOpcode DEF Running
  <2> QED
    BY <1>1, <1>25, <2>2, <2>4, <2>5, NextOpcode DEF A!Storage
<1>26. Perform(decoded) \/ (decoded = "IN" /\ \E c \in Input : inst_in(c))
  BY <1>1 DEF Instruct, Execute
<1> HIDE DEF n
<1> QED
  BY <1>4, <1>5, <1>6, <1>7, <1>8, <1>9, <1>10, <1>11, <1>12, <1>13, <1>14,
     <1>15, <1>16, <1>17, <1>18, <1>19, <1>20, <1>21, <1>22, <1>23, <1>24, <1>25, <1>26
     DEF Perform

(***************************************************************************)
(* arch-spec.txt:24-79: VM implements the document.  A fetch is invisible, *)
(* every instruction is one step of it, whatever the program.              *)
(***************************************************************************)
THEOREM ImplementsTheDocument == Spec => ImplementsArch
<1>1. Init => A!ArchInit
  BY DEF Init, Running, A!ArchInit
<1>2. ASSUME AInv, [Next]_vars PROVE [A!ArchNext]_A!archVars
  <2>1. CASE Fetch
    <3>1. Running /\ decoded = "none"
      BY <2>1 DEF Fetch
    <3>2. CASE FetchOperands /\ decoded' = Fetched
      <4>1. PICK k : k = arg_count(Fetched)
        OBVIOUS
      <4>2. /\ k \in 0 .. 3 /\ instruction_ptr' = instruction_ptr + 1 + k /\ instruction_ptr \in Address
            /\ Fetched # "none"
        BY <1>2, <3>2, <4>1, ArgCountType, FetchFacts, NoneIsNoInstruction
           DEF AInv, IInv, TypeOK, FetchOperands, CanFetch
      <4>3. instruction_ptr' - 1 - k = instruction_ptr
        BY <4>2
      <4> QED
        BY <3>1, <3>2, <4>1, <4>2, <4>3 DEF FetchOperands, Running, A!archVars
    <3>3. CASE FetchFails
      <4>1. ~A!InCode
        BY <3>1, <3>3, SameWords DEF FetchFails, CanFetch, A!InCode, A!Op
      <4> QED
        BY <3>1, <4>1 DEF A!ArchNext, A!Specified
    <3> QED
      BY <2>1, <3>2, <3>3 DEF Fetch
  <2>2. CASE Instruct
    BY <1>2, <2>2, InstructStep, NextOpcode DEF A!ArchNext
  <2>3. CASE UNCHANGED vars
    BY <2>3 DEF vars, Running, A!archVars
  <2> QED
    BY <1>2, <2>1, <2>2, <2>3 DEF Next, Ended
<1> QED
  BY <1>1, <1>2, ArchInductive, PTL DEF Spec, ImplementsArch, A!ArchSpec
=============================================================================
