------------------------------ MODULE VMProofs ------------------------------
(***************************************************************************)
(* Theorems about VM for every memory size, number of registers and set of *)
(* program files.                                                          *)
(*                                                                         *)
(* Type correctness is not inductive: an instruction that found too few    *)
(* operands would index argument_stack below its bottom.  The inductive    *)
(* invariant IInv adds the operand discipline, and where the instruction   *)
(* pointer stands after a fetch.                                           *)
(***************************************************************************)
EXTENDS VM, MachineProofs

USE DEF Number, Word, Address, RegIndex, Char, REGISTER0, NEWLINE, EOF, Operandable

(* After a fetch the instruction pointer is at most one past the memory.   *)
FetchedPointer == Running /\ decoded # "none" => instruction_ptr \in 1 .. MODULO

(* The inductive invariant.                                                *)
IInv == TypeOK /\ OperandDiscipline /\ FetchedPointer

(* A machine that has loaded a readable file satisfies it.                 *)
LEMMA InitIInv == Init => IInv
<1> SUFFICES ASSUME Init PROVE IInv
  OBVIOUS
<1>1. PICK f \in Images : Loaded(f)
  BY DEF Init
<1>2. WellFormed(f)
  BY ImagesAssumption
<1>3. MachineTypeOK
  BY <1>1, <1>2, LoadedType DEF Init, MachineTypeOK
<1>4. argument_stack = residue /\ residue \in Seq(Word) /\ decoded = "none"
  BY <1>3 DEF Init, MachineTypeOK
<1>5. TypeOK
  BY <1>3, <1>4, EmptySeq DEF TypeOK, PendingOperands
<1>6. OperandDiscipline
  BY <1>4, ConcatEmptySeq DEF OperandDiscipline, PendingOperands
<1>7. FetchedPointer
  BY <1>4 DEF FetchedPointer
<1> QED
  BY <1>5, <1>6, <1>7 DEF IInv

(* A fetch adds the operands PendingOperands speaks of.                    *)
LEMMA FetchIInv == IInv /\ Fetch => IInv'
<1> SUFFICES ASSUME IInv, Fetch PROVE IInv'
  OBVIOUS
<1>1. MachineTypeOK /\ Running /\ decoded = "none" /\ residue' = residue
  BY DEF IInv, TypeOK, Fetch
<1>2. residue \in Seq(Word)
  BY DEF IInv, TypeOK
<1>3. argument_stack = residue
  BY <1>1, <1>2, ConcatEmptySeq DEF IInv, OperandDiscipline, PendingOperands
<1>4. CASE FetchOperands /\ decoded' = Fetched
  <2> DEFINE n  == arg_count(Fetched)
             os == OperandsAt(instruction_ptr, n)
  <2>1. /\ MachineTypeOK' /\ Fetched \in Instruction
        /\ instruction_ptr' \in 1 .. MODULO /\ instruction_ptr' = instruction_ptr + 1 + n
    BY <1>1, <1>4, FetchFacts
  <2>2. FetchedPointer'
    BY <2>1 DEF FetchedPointer
  <2>3. PendingOperands' = os
    <3>1. instruction_ptr' - 1 - n = instruction_ptr
      <4>1. n \in 0 .. 3
        BY ArgCountType
      <4>2. instruction_ptr \in Int
        BY <1>1, ConstantFacts DEF MachineTypeOK
      <4> HIDE DEF n
      <4> QED
        BY <2>1, <4>1, <4>2
    <3>2. decoded' # "none"
      BY <1>4, <2>1, NoneIsNoInstruction
    <3>3. PendingOperands' = [i \in 1 .. n |-> memory'[instruction_ptr' - 1 - n + i]]
      BY <1>4, <3>2 DEF PendingOperands, OperandsAt
    <3>4. memory' = memory
      BY <1>4 DEF FetchOperands
    <3> QED
      BY <3>1, <3>3, <3>4 DEF OperandsAt
  <2>4. TypeOK'
    <3>1. os \in Seq(Operandable)
      BY <1>1, <1>4, FetchFacts
    <3> QED
      BY <1>1, <1>2, <1>4, <2>1, <2>3, <3>1 DEF TypeOK
  <2>5. OperandDiscipline'
    BY <1>1, <1>3, <1>4, <2>3 DEF OperandDiscipline, FetchOperands
  <2> QED
    BY <2>2, <2>4, <2>5 DEF IInv
<1>5. CASE FetchFails /\ UNCHANGED decoded
  <2>1. ~Running' /\ MachineTypeOK'
    BY <1>1, <1>5, ExitLeaves DEF FetchFails, Exit, Running, Leaves
  <2> QED
    BY <1>1, <1>2, <1>5, <2>1
       DEF IInv, TypeOK, OperandDiscipline, FetchedPointer
<1> QED
  BY <1>4, <1>5 DEF Fetch

(* What is known when an instruction starts.                               *)
LEMMA ReadyToRun ==
  ASSUME IInv, Running, decoded # "none"
  PROVE  /\ MachineTypeOK /\ decoded \in Instruction
         /\ ~Underflow(decoded) /\ ~Rejected(decoded)
         /\ instruction_ptr \in 1 .. MODULO
         /\ residue \in Seq(Word)
         /\ \A i \in 1 .. arg_count(decoded) : Operand(i, arg_count(decoded)) \in Operandable
         /\ Pop(argument_stack, arg_count(decoded)) = residue
<1> DEFINE n == arg_count(decoded)
<1>1. /\ MachineTypeOK /\ decoded \in Instruction /\ residue \in Seq(Word)
      /\ PendingOperands \in Seq(Operandable)
  BY DEF IInv, TypeOK
<1>2. argument_stack = residue \o PendingOperands
  BY DEF IInv, OperandDiscipline
<1>3. n \in Nat /\ Len(PendingOperands) = n
  <2>1. PendingOperands = OperandsAt(instruction_ptr - 1 - n, n)
    BY DEF PendingOperands
  <2>2. n \in Nat /\ DOMAIN PendingOperands = 1 .. n
    BY <2>1, ArgCountType DEF OperandsAt
  <2> QED
    BY <1>1, <2>2, LenProperties
<1>4. PendingOperands \in Seq(Word)
  BY <1>1, ConstantFacts, SeqMonotonic
<1>5. /\ Len(argument_stack) = Len(residue) + n /\ Len(residue) \in Nat
      /\ \A i \in 1 .. n : argument_stack[Len(residue) + i] = PendingOperands[i]
  <2>1. /\ Len(argument_stack) = Len(residue) + Len(PendingOperands) /\ Len(residue) \in Nat
        /\ \A i \in Len(residue) + 1 .. Len(residue) + Len(PendingOperands) :
             argument_stack[i] = PendingOperands[i - Len(residue)]
    BY <1>1, <1>2, <1>4, ConcatProperties, LenProperties
  <2> HIDE DEF n
  <2> QED
    BY <1>3, <2>1
<1>6. ~Underflow(decoded)
  BY <1>3, <1>5 DEF Underflow
<1>7. \A i \in 1 .. n : Operand(i, n) \in Operandable
  <2>1. \A i \in 1 .. n : Operand(i, n) = PendingOperands[i]
    <3> HIDE DEF n
    <3> QED
      BY <1>3, <1>5 DEF Operand
  <2> QED
    BY <1>1, <1>3, <2>1, ElementOfSeq
<1>8. Pop(argument_stack, n) = residue
  BY <1>1, <1>2, <1>3, <1>4, PopConcat
<1>9. ~Rejected(decoded)
  BY <1>7, ConstantFacts DEF Rejected, is_valid
<1> QED
  BY <1>1, <1>6, <1>7, <1>8, <1>9 DEF IInv, FetchedPointer

(* An instruction takes away the operands its fetch added.                 *)
LEMMA InstructIInv == IInv /\ Instruct => IInv'
<1> SUFFICES ASSUME IInv, Instruct PROVE IInv'
  OBVIOUS
<1>1. Running /\ decoded # "none" /\ residue' = residue
  BY DEF Instruct
<1>2. Leaves(arg_count(decoded))
  BY <1>1, ReadyToRun, ExecuteLeaves DEF Instruct
<1>3. MachineTypeOK' /\ (Running' => argument_stack' = residue /\ decoded' = "none")
  BY <1>1, <1>2, ReadyToRun DEF Leaves, Instruct
<1>4. TypeOK'
  BY <1>1, <1>3, EmptySeq DEF IInv, TypeOK, Instruct, PendingOperands
<1>5. OperandDiscipline'
  <2>1. residue \o << >> = residue
    BY <1>1, ReadyToRun, ConcatEmptySeq
  <2> QED
    BY <1>1, <1>3, <2>1 DEF OperandDiscipline, PendingOperands
<1>6. FetchedPointer'
  BY <1>3 DEF FetchedPointer
<1> QED
  BY <1>4, <1>5, <1>6 DEF IInv

(* A step that changes nothing keeps IInv.                                 *)
LEMMA StutterIInv == IInv /\ UNCHANGED vars => IInv'
BY DEF IInv, TypeOK, MachineTypeOK, OperandDiscipline, PendingOperands, OperandsAt,
       FetchedPointer, Running, vars

(* IInv is inductive.                                                      *)
THEOREM Inductive == Spec => []IInv
<1>1. Init => IInv
  BY InitIInv
<1>2. IInv /\ [Next]_vars => IInv'
  BY FetchIInv, InstructIInv, StutterIInv DEF Next, Ended
<1> QED
  BY <1>1, <1>2, PTL DEF Spec

(* The types of the machine, whatever program it runs (vm.h:67-102).       *)
THEOREM TypeCorrect == Spec => []TypeOK
<1>1. IInv => TypeOK
  BY DEF IInv
<1> QED
  BY <1>1, Inductive, PTL

(***************************************************************************)
(* For every program: argument_stack never holds anything but what the     *)
(* file brought and the operands of the instruction in flight, so          *)
(* "INSTRUCTION STACK UNDERFLOW" (vm.cpp:265) cannot happen.               *)
(***************************************************************************)
THEOREM OperandsAreDisciplined == Spec => []OperandDiscipline
<1>1. IInv => OperandDiscipline
  BY DEF IInv
<1> QED
  BY <1>1, Inductive, PTL
-----------------------------------------------------------------------------
(* Plain registers and a plain stack stay so, but for RMEM.                *)

(* In a plain machine an operand's value is a number (vm.cpp:247-253).     *)
LEMMA PlainValue ==
  ASSUME Plain, NEW w \in Operandable
  PROVE  get_value(w) \in Number
<1>1. CASE is_register(w)
  <2>1. w - REGISTER0 \in RegIndex
    BY <1>1, ConstantFacts DEF is_register
  <2> QED
    BY <1>1, <2>1 DEF get_value, Plain
<1>2. CASE ~is_register(w)
  BY <1>2, ConstantFacts DEF get_value, is_register
<1> QED
  BY <1>1, <1>2

(* Assigning a number keeps the registers plain.                           *)
LEMMA PlainAssign ==
  ASSUME Plain, MachineTypeOK, NEW a, NEW v \in Number, Assign(a, v)
  PROVE  \A r \in RegIndex : registers'[r] \in Number
BY DEF Assign, Plain, MachineTypeOK

(* An instruction that stores a number keeps the machine plain.            *)
LEMMA PlainStore ==
  ASSUME Plain, MachineTypeOK, NEW n \in 1 .. 3, n <= Len(argument_stack),
         NEW v \in Number, Store(n, v)
  PROVE  Plain'
<1>1. \A r \in RegIndex : registers'[r] \in Number
  BY PlainAssign DEF Store
<1> QED
  BY <1>1 DEF Store, Plain

(* So does one that pushes a number, or the address after the last.        *)
LEMMA PlainPush ==
  ASSUME Plain, MachineTypeOK, NEW w \in Number \cup {MODULO}, Push(w), registers' = registers
  PROVE  Plain'
<1>1. Len(program_stack) \in Nat
  BY LenProperties DEF MachineTypeOK
<1>2. ASSUME NEW i \in 1 .. Len(program_stack')
      PROVE  program_stack'[i] \in Number \cup {MODULO}
  <2>1. Len(program_stack') = Len(program_stack) + 1
    BY DEF Push, MachineTypeOK
  <2>2. CASE i = Len(program_stack) + 1
    BY <2>2 DEF Push, MachineTypeOK
  <2>3. CASE i \in 1 .. Len(program_stack)
    BY <2>3 DEF Push, MachineTypeOK, Plain
  <2> QED
    BY <1>1, <2>1, <2>2, <2>3
<1> QED
  BY <1>2 DEF Plain

(* So does one that pops the stack and keeps the registers plain.          *)
LEMMA PlainPop ==
  ASSUME Plain, MachineTypeOK, program_stack # << >>, program_stack' = Pop(program_stack, 1),
         \A r \in RegIndex : registers'[r] \in Number
  PROVE  Plain'
<1>1. program_stack \in Seq(Word) /\ Len(program_stack) \in Nat \ {0}
  BY EmptySeq DEF MachineTypeOK
<1>2. 1 \in 0 .. Len(program_stack)
  BY <1>1
<1>3. /\ Len(program_stack') = Len(program_stack) - 1
      /\ \A i \in 1 .. Len(program_stack) - 1 : program_stack'[i] = program_stack[i]
  BY <1>1, <1>2, PopType
<1> QED
  BY <1>1, <1>3 DEF Plain

(* So does one that ends the process.                                      *)
LEMMA PlainExit ==
  ASSUME Plain, NEW how, Exit(how)
  PROVE  Plain'
BY DEF Exit, machine, Plain

(* Every instruction but RMEM keeps the machine plain.                     *)
LEMMA PlainInstruct ==
  ASSUME IInv, Plain, Instruct, decoded # "RMEM"
  PROVE  Plain'
<1> DEFINE n == arg_count(decoded)
<1>1. /\ MachineTypeOK /\ n \in 0 .. 3 /\ n <= Len(argument_stack)
      /\ instruction_ptr \in Number \cup {MODULO}
      /\ ~Rejected(decoded) /\ \A i \in 1 .. n : Operand(i, n) \in Operandable
  <2>1. Running /\ decoded # "none"
    BY DEF Instruct
  <2>2. /\ MachineTypeOK /\ ~Underflow(decoded) /\ instruction_ptr \in 1 .. MODULO
        /\ ~Rejected(decoded) /\ \A i \in 1 .. n : Operand(i, n) \in Operandable
    BY <2>1, ReadyToRun
  <2>3. n \in 0 .. 3 /\ Len(argument_stack) \in Nat
    BY <2>2, ArgCountType, LenProperties DEF MachineTypeOK
  <2> QED
    BY <2>2, <2>3, ConstantFacts DEF Underflow
<1>2. ASSUME NEW m \in 1 .. 3, m = n, NEW i \in 1 .. m
      PROVE  Val(i, m) \in Number
  BY <1>1, <1>2, PlainValue DEF Val
<1>3. ASSUME decoded = "HALT", inst_halt PROVE Plain'
  BY <1>3 DEF inst_halt, Exit, machine, Plain
<1>4. ASSUME decoded = "SET", inst_set PROVE Plain'
  <2>1. n = 2
    BY <1>4 DEF arg_count
  <2>2. CASE Store(2, Val(2, 2))
    BY <1>1, <1>2, <2>1, <2>2, PlainStore
  <2> QED
    BY <1>4, <2>2, PlainExit DEF inst_set
<1>5. ASSUME decoded = "PUSH", inst_push PROVE Plain'
  <2>1. n = 1
    BY <1>5 DEF arg_count
  <2>2. CASE Push(Val(1, 1)) /\ Goto(1, instruction_ptr)
    <3>1. Val(1, 1) \in Number
      BY <1>1, <1>2, <2>1
    <3> QED
      BY <1>1, <2>2, <3>1, PlainPush DEF Goto
  <2> QED
    BY <1>5, <2>2, PlainExit DEF inst_push, StackExhausted
<1>6. ASSUME decoded = "POP", inst_pop PROVE Plain'
  <2>1. n = 1
    BY <1>6 DEF arg_count
  <2>2. CASE /\ program_stack # << >> /\ is_valid(Top(program_stack))
             /\ program_stack' = Pop(program_stack, 1)
             /\ Assign(Operand(1, 1), get_value(Top(program_stack)))
    <3>1. Len(program_stack) \in 1 .. Len(program_stack)
      BY <1>1, <2>2, EmptySeq DEF MachineTypeOK
    <3>2. Top(program_stack) \in Operandable
      BY <3>1, ConstantFacts DEF Top, Plain
    <3>3. get_value(Top(program_stack)) \in Number
      BY <3>2, PlainValue
    <3>4. \A r \in RegIndex : registers'[r] \in Number
      BY <1>1, <1>2, <2>1, <2>2, <3>3, PlainAssign
    <3> QED
      BY <1>1, <2>2, <3>4, PlainPop
  <2> QED
    BY <1>6, <2>2, PlainExit DEF inst_pop
<1>7. ASSUME decoded = "EQ", inst_eq PROVE Plain'
  <2>1. n = 3
    BY <1>7 DEF arg_count
  <2>2. Val(2, 3) \in Number /\ Val(3, 3) \in Number
    BY <1>1, <1>2, <2>1
  <2>3. (IF Val(2, 3) = Val(3, 3) THEN 1 ELSE 0) \in Number
    BY <2>2, ConstantFacts
  <2> QED
    BY <1>1, <1>7, <2>1, <2>3, PlainStore DEF inst_eq
<1>8. ASSUME decoded = "GT", inst_gt PROVE Plain'
  <2>1. n = 3
    BY <1>8 DEF arg_count
  <2>2. Val(2, 3) \in Number /\ Val(3, 3) \in Number
    BY <1>1, <1>2, <2>1
  <2>3. (IF Val(2, 3) > Val(3, 3) THEN 1 ELSE 0) \in Number
    BY <2>2, ConstantFacts
  <2> QED
    BY <1>1, <1>8, <2>1, <2>3, PlainStore DEF inst_gt
<1>9. ASSUME decoded = "JMP", inst_jmp PROVE Plain'
  BY <1>9 DEF inst_jmp, Goto, Plain
<1>10. ASSUME decoded = "JT", inst_jt PROVE Plain'
  BY <1>10 DEF inst_jt, Goto, Plain
<1>11. ASSUME decoded = "JF", inst_jf PROVE Plain'
  BY <1>11 DEF inst_jf, Goto, Plain
<1>12. ASSUME decoded = "ADD", inst_add PROVE Plain'
  <2>1. n = 3
    BY <1>12 DEF arg_count
  <2>2. Val(2, 3) \in Number /\ Val(3, 3) \in Number
    BY <1>1, <1>2, <2>1
  <2>3. (Val(2, 3) + Val(3, 3)) % MODULO \in Number
    <3>1. Val(2, 3) \in Word /\ Val(3, 3) \in Word
      BY <2>2, ConstantFacts
    <3> QED
      BY <3>1, ArithmeticType
  <2> QED
    BY <1>1, <1>12, <2>1, <2>3, PlainStore DEF inst_add
<1>13. ASSUME decoded = "MULT", inst_mult PROVE Plain'
  <2>1. n = 3
    BY <1>13 DEF arg_count
  <2>2. Val(2, 3) \in Number /\ Val(3, 3) \in Number
    BY <1>1, <1>2, <2>1
  <2>3. (Val(2, 3) * Val(3, 3)) % MODULO \in Number
    <3>1. Val(2, 3) \in Word /\ Val(3, 3) \in Word
      BY <2>2, ConstantFacts
    <3> QED
      BY <3>1, ArithmeticType
  <2> QED
    BY <1>1, <1>13, <2>1, <2>3, PlainStore DEF inst_mult
<1>14. ASSUME decoded = "MOD", inst_mod PROVE Plain'
  <2>1. n = 3
    BY <1>14 DEF arg_count
  <2>2. CASE Val(3, 3) # 0 /\ Store(3, Val(2, 3) % Val(3, 3))
    <3>1. /\ Val(2, 3) \in Number /\ Val(3, 3) \in Number
          /\ Val(2, 3) \in Word /\ Val(3, 3) \in Word
      <4>1. Val(2, 3) \in Number /\ Val(3, 3) \in Number
        BY <1>1, <1>2, <2>1
      <4> QED
        BY <4>1, ConstantFacts
    <3>2. Val(2, 3) % Val(3, 3) \in 0 .. Val(3, 3) - 1
      BY <2>2, <3>1, ArithmeticType
    <3>3. Val(2, 3) % Val(3, 3) \in Number
      BY <3>1, <3>2, ConstantFacts
    <3> QED
      BY <1>1, <2>1, <2>2, <3>3, PlainStore
  <2> QED
    BY <1>14, <2>2, PlainExit DEF inst_mod
<1>15. ASSUME decoded = "AND", inst_and PROVE Plain'
  <2>1. n = 3
    BY <1>15 DEF arg_count
  <2>2. Val(2, 3) \in Number /\ Val(3, 3) \in Number
    BY <1>1, <1>2, <2>1
  <2>3. BitAnd(Val(2, 3), Val(3, 3)) \in Number
    BY <2>2, BitsAssumption
  <2> QED
    BY <1>1, <1>15, <2>1, <2>3, PlainStore DEF inst_and
<1>16. ASSUME decoded = "OR", inst_or PROVE Plain'
  <2>1. n = 3
    BY <1>16 DEF arg_count
  <2>2. Val(2, 3) \in Number /\ Val(3, 3) \in Number
    BY <1>1, <1>2, <2>1
  <2>3. BitOr(Val(2, 3), Val(3, 3)) \in Number
    BY <2>2, BitsAssumption
  <2> QED
    BY <1>1, <1>16, <2>1, <2>3, PlainStore DEF inst_or
<1>17. ASSUME decoded = "NOT", inst_not PROVE Plain'
  <2>1. n = 2
    BY <1>17 DEF arg_count
  <2>2. Val(2, 2) \in Number
    BY <1>1, <1>2, <2>1
  <2>3. BitNot15(Val(2, 2)) \in Number
    BY <2>2, ConstantFacts DEF BitNot15
  <2> QED
    BY <1>1, <1>17, <2>1, <2>3, PlainStore DEF inst_not
<1>18. ASSUME decoded = "WMEM", inst_wmem PROVE Plain'
  BY <1>18, PlainExit DEF inst_wmem, Plain
<1>19. ASSUME decoded = "CALL", inst_call PROVE Plain'
  <2>1. CASE Push(instruction_ptr) /\ Goto(1, Val(1, 1))
    BY <1>1, <2>1, PlainPush DEF Goto
  <2> QED
    BY <1>19, <2>1, PlainExit DEF inst_call, StackExhausted
<1>20. ASSUME decoded = "RET", inst_ret PROVE Plain'
  <2>1. CASE /\ program_stack # << >>
             /\ program_stack' = Pop(program_stack, 1)
             /\ Goto(0, Top(program_stack))
    <3>1. \A r \in RegIndex : registers'[r] \in Number
      BY <2>1 DEF Goto, Plain
    <3> QED
      BY <1>1, <2>1, <3>1, PlainPop
  <2> QED
    BY <1>20, <2>1, PlainExit DEF inst_ret
<1>21. ASSUME decoded = "OUT", inst_out PROVE Plain'
  BY <1>21 DEF inst_out, Plain
<1>22. ASSUME decoded = "NOOP", inst_noop PROVE Plain'
  BY <1>22 DEF inst_noop, machine, Plain
<1>23. ASSUME decoded = "IN", NEW c \in Input, inst_in(c) PROVE Plain'
  <2>1. n = 1
    BY <1>23 DEF arg_count
  <2>2. Store(1, CharRead(c))
    BY <1>1, <1>23 DEF inst_in
  <2>3. CharRead(c) \in Number
    BY ConstantFacts DEF CharRead
  <2> QED
    BY <1>1, <2>1, <2>2, <2>3, PlainStore
<1>24. Perform(decoded) \/ (decoded = "IN" /\ \E c \in Input : inst_in(c))
  BY <1>1 DEF Instruct, Execute
<1> QED
  BY <1>3, <1>4, <1>5, <1>6, <1>7, <1>8, <1>9, <1>10, <1>11, <1>12, <1>13, <1>14, <1>15,
     <1>16, <1>17, <1>18, <1>19, <1>20, <1>21, <1>22, <1>23, <1>24
     DEF Perform

(***************************************************************************)
(* For every program: numbers stay numbers (arch-spec.txt:13-14).  From    *)
(* plain registers and a plain stack, every instruction but RMEM leads to  *)
(* plain ones again, whatever memory holds.                                *)
(***************************************************************************)
THEOREM NumbersStayNumbers == Spec => OnlyRmemWidens
<1>1. IInv /\ [Next]_vars => [Plain /\ decoded # "RMEM" => Plain']_vars
  <2> SUFFICES ASSUME IInv, Next, Plain, decoded # "RMEM", ~UNCHANGED vars PROVE Plain'
    BY DEF Plain, vars
  <2>1. ASSUME Fetch PROVE Plain'
    BY <2>1, PlainExit DEF Fetch, FetchOperands, FetchFails, Plain
  <2>2. ASSUME Instruct PROVE Plain'
    BY <2>2, PlainInstruct
  <2> QED
    BY <2>1, <2>2 DEF Next, Ended
<1> QED
  BY <1>1, Inductive, PTL DEF Spec, OnlyRmemWidens
=============================================================================
