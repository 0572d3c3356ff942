---------------------------- MODULE MachineProofs ---------------------------
(***************************************************************************)
(* Facts about the instructions of Machine, whoever schedules them: a      *)
(* fetch pushes exactly the operands of the instruction, the instruction   *)
(* pops exactly as many, and both keep the machine's types.                *)
(***************************************************************************)
EXTENDS Machine, StateFileProofs

USE DEF Number, Word, Address, RegIndex, Char, REGISTER0, NEWLINE, EOF, Operandable

(* The words and the instruction table.                                    *)
LEMMA ConstantFacts ==
  /\ MODULO \in Nat /\ MODULO >= 11
  /\ NREGS \in Nat /\ 1 <= NREGS /\ NREGS <= MODULO
  /\ BYTE \in Nat /\ 11 <= BYTE /\ BYTE <= MODULO
  /\ MaxStack \in Nat /\ Input \subseteq Char \cup {EOF}
BY WordFacts, MachineAssumption

(* No instruction has more than three operands (vm.cpp:651-677).           *)
LEMMA ArgCountType ==
  \A inst : arg_count(inst) \in 0 .. 3
BY DEF arg_count

(* The table has an entry for every opcode is_instruction accepts.         *)
LEMMA DecodeType ==
  ASSUME NEW w \in Word, is_instruction(w)
  PROVE  Decode(w) \in Instruction
<1>1. w + 1 \in 1 .. 22
  BY ConstantFacts DEF is_instruction
<1> QED
  BY <1>1 DEF Decode, Instruction

(* The mark of an idle machine is not an instruction's name.               *)
LEMMA NoneIsNoInstruction == "none" \notin Instruction
<1>1. ASSUME NEW k \in 1 .. 22 PROVE decoder[k] # "none"
  <2>1. \/ k = 1 \/ k = 2 \/ k = 3 \/ k = 4 \/ k = 5 \/ k = 6 \/ k = 7 \/ k = 8
        \/ k = 9 \/ k = 10 \/ k = 11 \/ k = 12 \/ k = 13 \/ k = 14 \/ k = 15
        \/ k = 16 \/ k = 17 \/ k = 18 \/ k = 19 \/ k = 20 \/ k = 21 \/ k = 22
    OBVIOUS
  <2> QED
    BY <2>1 DEF decoder
<1> QED
  BY <1>1 DEF Instruction

-----------------------------------------------------------------------------
(* Taking the last elements off a sequence, and off a concatenation.       *)
LEMMA PopType ==
  ASSUME NEW S, NEW s \in Seq(S), NEW n \in 0 .. Len(s)
  PROVE  /\ Pop(s, n) \in Seq(S)
         /\ Len(Pop(s, n)) = Len(s) - n
         /\ \A i \in 1 .. Len(s) - n : Pop(s, n)[i] = s[i]
<1>1. Len(s) \in Nat /\ \A i \in 1 .. Len(s) - n : s[i] \in S
  BY LenProperties, ElementOfSeq
<1> QED
  BY <1>1, SubSeqProperties DEF Pop

(* Popping as many elements as were appended restores the sequence.        *)
LEMMA PopConcat ==
  ASSUME NEW S, NEW s \in Seq(S), NEW t \in Seq(S)
  PROVE  Pop(s \o t, Len(t)) = s
<1>1. /\ s \o t \in Seq(S) /\ Len(s \o t) = Len(s) + Len(t)
      /\ \A i \in 1 .. Len(s) : (s \o t)[i] = s[i]
  BY ConcatProperties, LenProperties
<1>2. Len(s) \in Nat /\ Len(t) \in Nat /\ Len(t) \in 0 .. Len(s \o t)
  BY <1>1, LenProperties
<1>3. Len(s \o t) - Len(t) = Len(s)
  BY <1>1, <1>2
<1>4. /\ Pop(s \o t, Len(t)) \in Seq(S) /\ Len(Pop(s \o t, Len(t))) = Len(s)
      /\ \A i \in 1 .. Len(s) : Pop(s \o t, Len(t))[i] = s[i]
  BY <1>1, <1>2, <1>3, PopType
<1> QED
  BY <1>2, <1>4, SeqEqual

(* Popping nothing changes nothing.                                        *)
LEMMA PopNothing ==
  ASSUME NEW S, NEW s \in Seq(S)
  PROVE  Pop(s, 0) = s
BY SubSeqFull, LenProperties DEF Pop

-----------------------------------------------------------------------------
(* The operands a fetch pushes are what memory has after the opcode, each  *)
(* of them valid.                                                          *)
LEMMA FetchFacts ==
  ASSUME MachineTypeOK, FetchOperands
  PROVE  /\ MachineTypeOK'
         /\ Fetched \in Instruction
         /\ OperandsAt(instruction_ptr, arg_count(Fetched)) \in Seq(Operandable)
         /\ Len(OperandsAt(instruction_ptr, arg_count(Fetched))) = arg_count(Fetched)
         /\ instruction_ptr' \in 1 .. MODULO
         /\ instruction_ptr' = instruction_ptr + 1 + arg_count(Fetched)
<1> DEFINE n  == arg_count(Fetched)
           os == OperandsAt(instruction_ptr, n)
<1>1. n \in 0 .. 3
  BY ArgCountType
<1>2. /\ instruction_ptr \in Address
      /\ is_instruction(memory[instruction_ptr])
      /\ \A i \in 1 .. n : instruction_ptr + i \in Address /\ is_valid(memory[instruction_ptr + i])
  BY DEF FetchOperands, CanFetch, Fetched
<1>3. Fetched \in Instruction
  BY <1>2, DecodeType DEF Fetched, MachineTypeOK
<1>4. \A i \in 1 .. n : memory[instruction_ptr + i] \in Operandable
  <2> SUFFICES ASSUME NEW i \in 1 .. n PROVE memory[instruction_ptr + i] \in Operandable
    OBVIOUS
  <2>1. instruction_ptr + i \in Address /\ is_valid(memory[instruction_ptr + i])
    BY <1>2
  <2>2. memory[instruction_ptr + i] \in Word
    BY <2>1 DEF MachineTypeOK
  <2> QED
    BY <2>1, <2>2, ConstantFacts DEF is_valid
<1>5. os \in Seq(Operandable) /\ Len(os) = n
  <2>1. os \in [1 .. n -> Operandable]
    BY <1>4 DEF OperandsAt
  <2>2. n \in Nat
    BY <1>1
  <2> QED
    BY <2>1, <2>2, FunctionIsSeq
<1>6. instruction_ptr' \in 1 .. MODULO /\ instruction_ptr' = instruction_ptr + 1 + n
  <2>1. instruction_ptr' = instruction_ptr + 1 + n
    BY DEF FetchOperands
  <2>2. n = 0 \/ instruction_ptr + n \in Address
    BY <1>1, <1>2
  <2> QED
    BY <2>1, <2>2, <1>1, <1>2, ConstantFacts
<1>7. argument_stack' \in Seq(Word)
  <2>1. os \in Seq(Word)
    BY <1>5, ConstantFacts, SeqMonotonic
  <2> QED
    BY <2>1, ConcatProperties DEF FetchOperands, MachineTypeOK
<1>8. MachineTypeOK'
  <2>1. instruction_ptr' \in Word
    BY <1>6, ConstantFacts
  <2>2. UNCHANGED << registers, memory, program_stack, status, terminal >>
    BY DEF FetchOperands
  <2> QED
    BY <1>7, <2>1, <2>2 DEF MachineTypeOK
<1> QED
  BY <1>3, <1>5, <1>6, <1>8
-----------------------------------------------------------------------------
(* What get_value yields.                                                  *)
LEMMA ValueType ==
  ASSUME MachineTypeOK, NEW w \in Word
  PROVE  get_value(w) \in Word
<1>1. CASE is_register(w)
  <2>1. w - REGISTER0 \in RegIndex
    BY <1>1, ConstantFacts DEF is_register
  <2>2. registers[w - REGISTER0] \in Word
    BY <2>1 DEF MachineTypeOK
  <2> QED
    BY <1>1, <2>2 DEF get_value
<1>2. CASE ~is_register(w)
  BY <1>2, ConstantFacts DEF get_value
<1> QED
  BY <1>1, <1>2

(* The operands of an instruction that has as many as it pops.             *)
LEMMA OperandType ==
  ASSUME MachineTypeOK, NEW n \in 1 .. 3, n <= Len(argument_stack), NEW i \in 1 .. n
  PROVE  /\ Operand(i, n) \in Word
         /\ Val(i, n) \in Word
<1>1. Len(argument_stack) \in Nat /\ argument_stack \in Seq(Word)
  BY LenProperties DEF MachineTypeOK
<1>2. Len(argument_stack) - n + i \in 1 .. Len(argument_stack)
  BY <1>1
<1>3. Operand(i, n) \in Word
  BY <1>1, <1>2, ElementOfSeq DEF Operand
<1>4. Val(i, n) \in Word
  BY <1>3, ValueType DEF Val
<1> QED
  BY <1>3, <1>4

(* What validate lets through (vm.cpp:239-245).                            *)
LEMMA ValidType ==
  ASSUME NEW w \in Word, is_valid(w)
  PROVE  w \in Operandable
BY ConstantFacts DEF is_valid

(* A word written through get_reg_or_mem keeps registers and memory typed  *)
(* (vm.cpp:255-261).                                                       *)
LEMMA AssignType ==
  ASSUME MachineTypeOK, NEW a \in Operandable, NEW v \in Word, Assign(a, v)
  PROVE  registers' \in [RegIndex -> Word] /\ memory' \in [Address -> Word]
<1>1. CASE is_register(a)
  BY <1>1 DEF Assign, MachineTypeOK
<1>2. CASE ~is_register(a)
  BY <1>2 DEF Assign, MachineTypeOK
<1> QED
  BY <1>1, <1>2

(* What an instruction leaves: the types, and, if the process goes on, the *)
(* argument stack without the operands of the instruction.                 *)
Leaves(n) ==
  /\ MachineTypeOK'
  /\ Running' => argument_stack' = Pop(argument_stack, n)

(* An instruction that pops n operands and stores a word leaves its n      *)
(* operands behind.                                                        *)
LEMMA StoreLeaves ==
  ASSUME MachineTypeOK, NEW n \in 1 .. 3, n <= Len(argument_stack), NEW v \in Word, Store(n, v),
         is_valid(Operand(1, n))
  PROVE  Leaves(n)
<1>1. Operand(1, n) \in Operandable
  BY OperandType, ValidType
<1>2. registers' \in [RegIndex -> Word] /\ memory' \in [Address -> Word]
  BY <1>1, AssignType DEF Store
<1>3. argument_stack' = Pop(argument_stack, n)
  BY DEF Store
<1>4. argument_stack' \in Seq(Word)
  <2>1. n \in 0 .. Len(argument_stack) /\ argument_stack \in Seq(Word)
    BY LenProperties DEF MachineTypeOK
  <2> QED
    BY <1>3, <2>1, PopType
<1> QED
  BY <1>2, <1>3, <1>4 DEF Store, Leaves, MachineTypeOK

(* So does one that pops n operands and continues at a word.               *)
LEMMA GotoLeaves ==
  ASSUME MachineTypeOK, NEW n \in 0 .. 3, n <= Len(argument_stack), NEW ip \in Word,
         Goto(n, ip), program_stack' \in Seq(Word)
  PROVE  Leaves(n)
<1>1. argument_stack' = Pop(argument_stack, n)
  BY DEF Goto
<1>2. argument_stack' \in Seq(Word)
  <2>1. n \in 0 .. Len(argument_stack) /\ argument_stack \in Seq(Word)
    BY LenProperties DEF MachineTypeOK
  <2> QED
    BY <1>1, <2>1, PopType
<1> QED
  BY <1>1, <1>2 DEF Goto, Leaves, MachineTypeOK

(* So does one that ends the process, for any n.                           *)
LEMMA ExitLeaves ==
  ASSUME MachineTypeOK, NEW n, NEW how \in {"success", "failure", "killed", "aborted"}, Exit(how)
  PROVE  Leaves(n)
BY DEF Exit, machine, Running, Leaves, MachineTypeOK

-----------------------------------------------------------------------------
(* The results of the instructions that compute are words.                 *)
LEMMA ArithmeticType ==
  ASSUME NEW x \in Word, NEW y \in Word
  PROVE  /\ (x + y) % MODULO \in Number
         /\ (x * y) % MODULO \in Number
         /\ y # 0 => x % y \in 0 .. y - 1
         /\ BitNot15(x) \in Word
         /\ Number \subseteq Word
<1>1. MODULO \in Nat \ {0} /\ x \in Nat /\ y \in Nat /\ x + y \in Nat /\ x * y \in Nat
  BY ConstantFacts
<1>2. (x + y) % MODULO \in Number /\ (x * y) % MODULO \in Number
  BY <1>1, RemainderType
<1>3. y # 0 => x % y \in 0 .. y - 1
  BY <1>1, RemainderType
<1>4. BitNot15(x) \in Word /\ Number \subseteq Word
  BY ConstantFacts DEF BitNot15
<1> QED
  BY <1>2, <1>3, <1>4
-----------------------------------------------------------------------------
(* Every instruction that finds its operands, valid ones, keeps the types  *)
(* and pops just those operands, or ends the process.                      *)
LEMMA PerformLeaves ==
  ASSUME MachineTypeOK, NEW inst \in Instruction, ~Underflow(inst), ~Rejected(inst),
         Perform(inst)
  PROVE  Leaves(arg_count(inst))
<1> DEFINE n == arg_count(inst)
<1>1. n <= Len(argument_stack) /\ n \in 0 .. 3 /\ Len(argument_stack) \in Nat
  BY ArgCountType, LenProperties DEF Underflow, MachineTypeOK
<1>2. ASSUME NEW m \in 1 .. 3, m <= Len(argument_stack), NEW i \in 1 .. m
      PROVE  Operand(i, m) \in Word /\ Val(i, m) \in Word
  BY <1>2, OperandType
<1>2a. ASSUME n >= 1 PROVE is_valid(Operand(1, n))
  BY <1>1, <1>2a DEF Rejected, Unused
<1>3. ASSUME inst_halt PROVE Leaves(n)
  BY <1>3, ExitLeaves DEF inst_halt
<1>4. ASSUME inst = "SET", inst_set PROVE Leaves(n)
  <2>1. n = 2
    BY <1>4 DEF arg_count
  <2>2. CASE Store(2, Val(2, 2))
    BY <1>1, <1>2, <2>1, <2>2, <1>2a, StoreLeaves
  <2>3. CASE Exit("failure")
    BY <2>3, ExitLeaves
  <2> QED
    BY <1>4, <2>2, <2>3 DEF inst_set
<1>5. ASSUME inst = "PUSH", inst_push PROVE Leaves(n)
  <2>1. n = 1
    BY <1>5 DEF arg_count
  <2>2. CASE Push(Val(1, 1)) /\ Goto(1, instruction_ptr)
    <3>1. program_stack' \in Seq(Word)
      BY <1>1, <1>2, <2>1, <2>2 DEF Push, MachineTypeOK
    <3> QED
      BY <1>1, <2>1, <2>2, <3>1, GotoLeaves DEF MachineTypeOK
  <2>3. CASE StackExhausted
    BY <2>3, ExitLeaves DEF StackExhausted
  <2> QED
    BY <1>5, <2>2, <2>3 DEF inst_push
<1>6. ASSUME inst = "POP", inst_pop PROVE Leaves(n)
  <2>1. n = 1
    BY <1>6 DEF arg_count
  <2>2. CASE /\ program_stack # << >> /\ is_valid(Top(program_stack))
             /\ argument_stack' = Pop(argument_stack, 1)
             /\ program_stack' = Pop(program_stack, 1)
             /\ Assign(Operand(1, 1), get_value(Top(program_stack)))
             /\ UNCHANGED << instruction_ptr, status, terminal >>
    <3>1. Len(program_stack) \in Nat \ {0}
      BY <2>2, EmptySeq DEF MachineTypeOK
    <3>2. Top(program_stack) \in Operandable
      <4>1. Len(program_stack) \in 1 .. Len(program_stack) /\ program_stack \in Seq(Word)
        BY <3>1 DEF MachineTypeOK
      <4>2. Top(program_stack) \in Word
        BY <4>1, ElementOfSeq DEF Top
      <4> QED
        BY <2>2, <4>2, ConstantFacts DEF is_valid
    <3>3. get_value(Top(program_stack)) \in Word
      BY <3>2, ConstantFacts, ValueType
    <3>4. registers' \in [RegIndex -> Word] /\ memory' \in [Address -> Word]
      BY <1>1, <1>2, <1>2a, <2>1, <2>2, <3>3, AssignType, ValidType
    <3>5. program_stack' \in Seq(Word)
      <4>1. 1 \in 0 .. Len(program_stack)
        BY <3>1
      <4> QED
        BY <2>2, <4>1, PopType DEF MachineTypeOK
    <3>6. argument_stack' \in Seq(Word)
      <4>1. 1 \in 0 .. Len(argument_stack)
        BY <1>1, <2>1
      <4> QED
        BY <2>2, <4>1, PopType DEF MachineTypeOK
    <3> QED
      BY <2>1, <2>2, <3>4, <3>5, <3>6 DEF Leaves, MachineTypeOK
  <2>3. CASE Exit("failure")
    BY <2>3, ExitLeaves
  <2> QED
    BY <1>6, <2>2, <2>3 DEF inst_pop
<1>7. ASSUME inst = "EQ", inst_eq PROVE Leaves(n)
  <2>1. n = 3
    BY <1>7 DEF arg_count
  <2> DEFINE v == IF Val(2, 3) = Val(3, 3) THEN 1 ELSE 0
  <2>2. v \in Word
    BY ConstantFacts
  <2>3. 3 <= Len(argument_stack) /\ Store(3, v)
    BY <1>1, <1>7, <2>1 DEF inst_eq
  <2> HIDE DEF v
  <2> QED
    BY <2>1, <2>2, <2>3, <1>2a, StoreLeaves
<1>8. ASSUME inst = "GT", inst_gt PROVE Leaves(n)
  <2>1. n = 3
    BY <1>8 DEF arg_count
  <2> DEFINE v == IF Val(2, 3) > Val(3, 3) THEN 1 ELSE 0
  <2>2. v \in Word
    BY ConstantFacts
  <2>3. 3 <= Len(argument_stack) /\ Store(3, v)
    BY <1>1, <1>8, <2>1 DEF inst_gt
  <2> HIDE DEF v
  <2> QED
    BY <2>1, <2>2, <2>3, <1>2a, StoreLeaves
<1>9. ASSUME inst = "JMP", inst_jmp PROVE Leaves(n)
  <2>1. n = 1
    BY <1>9 DEF arg_count
  <2>2. Val(1, 1) \in Word /\ Goto(1, Val(1, 1)) /\ program_stack' \in Seq(Word)
    BY <1>1, <1>2, <1>9, <2>1 DEF inst_jmp, MachineTypeOK
  <2> QED
    BY <1>1, <2>1, <2>2, GotoLeaves
<1>10. ASSUME inst = "JT", inst_jt PROVE Leaves(n)
  <2>1. n = 2
    BY <1>10 DEF arg_count
  <2> DEFINE ip == IF Val(1, 2) # 0 THEN Val(2, 2) ELSE instruction_ptr
  <2>2. ip \in Word
    BY <1>1, <1>2, <2>1 DEF MachineTypeOK
  <2>3. Goto(2, ip) /\ program_stack' \in Seq(Word)
    BY <1>10 DEF inst_jt, MachineTypeOK
  <2> QED
    BY <1>1, <2>1, <2>2, <2>3, GotoLeaves
<1>11. ASSUME inst = "JF", inst_jf PROVE Leaves(n)
  <2>1. n = 2
    BY <1>11 DEF arg_count
  <2> DEFINE ip == IF Val(1, 2) = 0 THEN Val(2, 2) ELSE instruction_ptr
  <2>2. ip \in Word
    BY <1>1, <1>2, <2>1 DEF MachineTypeOK
  <2>3. Goto(2, ip) /\ program_stack' \in Seq(Word)
    BY <1>11 DEF inst_jf, MachineTypeOK
  <2> QED
    BY <1>1, <2>1, <2>2, <2>3, GotoLeaves
<1>12. ASSUME inst = "ADD", inst_add PROVE Leaves(n)
  <2>1. n = 3
    BY <1>12 DEF arg_count
  <2>2. (Val(2, 3) + Val(3, 3)) % MODULO \in Word
    <3>1. Val(2, 3) \in Word /\ Val(3, 3) \in Word
      BY <1>1, <1>2, <2>1
    <3>2. (Val(2, 3) + Val(3, 3)) % MODULO \in Number
      BY <3>1, ArithmeticType
    <3> QED
      BY <3>2, ConstantFacts
  <2> QED
    BY <1>1, <1>12, <2>1, <2>2, <1>2a, StoreLeaves DEF inst_add
<1>13. ASSUME inst = "MULT", inst_mult PROVE Leaves(n)
  <2>1. n = 3
    BY <1>13 DEF arg_count
  <2>2. (Val(2, 3) * Val(3, 3)) % MODULO \in Word
    <3>1. Val(2, 3) \in Word /\ Val(3, 3) \in Word
      BY <1>1, <1>2, <2>1
    <3>2. (Val(2, 3) * Val(3, 3)) % MODULO \in Number
      BY <3>1, ArithmeticType
    <3> QED
      BY <3>2, ConstantFacts
  <2> QED
    BY <1>1, <1>13, <2>1, <2>2, <1>2a, StoreLeaves DEF inst_mult
<1>14. ASSUME inst = "MOD", inst_mod PROVE Leaves(n)
  <2>1. n = 3
    BY <1>14 DEF arg_count
  <2>2. CASE Val(3, 3) # 0 /\ Store(3, Val(2, 3) % Val(3, 3))
    <3>1. Val(2, 3) \in Word /\ Val(3, 3) \in Word
      BY <1>1, <1>2, <2>1
    <3>2. Val(2, 3) % Val(3, 3) \in 0 .. Val(3, 3) - 1
      BY <2>2, <3>1, ArithmeticType
    <3>3. Val(2, 3) % Val(3, 3) \in Word
      BY <3>1, <3>2, ConstantFacts
    <3> QED
      BY <1>1, <2>1, <2>2, <3>3, <1>2a, StoreLeaves
  <2>3. CASE Exit("killed")
    BY <2>3, ExitLeaves
  <2> QED
    BY <1>14, <2>2, <2>3 DEF inst_mod
<1>15. ASSUME inst = "AND", inst_and PROVE Leaves(n)
  <2>1. n = 3
    BY <1>15 DEF arg_count
  <2>2. BitAnd(Val(2, 3), Val(3, 3)) \in Word
    BY <1>1, <1>2, <2>1, BitsAssumption
  <2> QED
    BY <1>1, <1>15, <2>1, <2>2, <1>2a, StoreLeaves DEF inst_and
<1>16. ASSUME inst = "OR", inst_or PROVE Leaves(n)
  <2>1. n = 3
    BY <1>16 DEF arg_count
  <2>2. BitOr(Val(2, 3), Val(3, 3)) \in Word
    BY <1>1, <1>2, <2>1, BitsAssumption
  <2> QED
    BY <1>1, <1>16, <2>1, <2>2, <1>2a, StoreLeaves DEF inst_or
<1>17. ASSUME inst = "NOT", inst_not PROVE Leaves(n)
  <2>1. n = 2
    BY <1>17 DEF arg_count
  <2>2. BitNot15(Val(2, 2)) \in Word
    BY <1>1, <1>2, <2>1, ArithmeticType
  <2> QED
    BY <1>1, <1>17, <2>1, <2>2, <1>2a, StoreLeaves DEF inst_not
<1>18. ASSUME inst = "RMEM", inst_rmem PROVE Leaves(n)
  <2>1. n = 2
    BY <1>18 DEF arg_count
  <2>2. CASE Val(2, 2) \in Address /\ Store(2, memory[Val(2, 2)])
    <3>1. memory[Val(2, 2)] \in Word
      BY <2>2 DEF MachineTypeOK
    <3> QED
      BY <1>1, <2>1, <2>2, <3>1, <1>2a, StoreLeaves
  <2>3. CASE Exit("failure")
    BY <2>3, ExitLeaves
  <2> QED
    BY <1>18, <2>2, <2>3 DEF inst_rmem
<1>19. ASSUME inst = "WMEM", inst_wmem PROVE Leaves(n)
  <2>1. n = 2
    BY <1>19 DEF arg_count
  <2>2. CASE /\ is_value(Val(1, 2)) /\ is_value(Val(2, 2))
             /\ argument_stack' = Pop(argument_stack, 2)
             /\ memory' = [memory EXCEPT ![Val(1, 2)] = Val(2, 2)]
             /\ UNCHANGED << registers, program_stack, instruction_ptr, status, terminal >>
    <3>1. argument_stack' \in Seq(Word)
      <4>1. 2 \in 0 .. Len(argument_stack)
        BY <1>1, <2>1
      <4> QED
        BY <2>2, <4>1, PopType DEF MachineTypeOK
    <3>2. memory' \in [Address -> Word]
      <4>1. Val(1, 2) \in Word /\ Val(2, 2) \in Word
        BY <1>1, <1>2, <2>1
      <4> QED
        BY <2>2, <4>1 DEF MachineTypeOK
    <3> QED
      BY <2>1, <2>2, <3>1, <3>2 DEF Leaves, MachineTypeOK
  <2>3. CASE Exit("failure")
    BY <2>3, ExitLeaves
  <2> QED
    BY <1>19, <2>2, <2>3 DEF inst_wmem
<1>20. ASSUME inst = "CALL", inst_call PROVE Leaves(n)
  <2>1. n = 1
    BY <1>20 DEF arg_count
  <2>2. CASE Push(instruction_ptr) /\ Goto(1, Val(1, 1))
    <3>1. program_stack' \in Seq(Word)
      BY <2>2 DEF Push, MachineTypeOK
    <3> QED
      BY <1>1, <1>2, <2>1, <2>2, <3>1, GotoLeaves
  <2>3. CASE StackExhausted
    BY <2>3, ExitLeaves DEF StackExhausted
  <2> QED
    BY <1>20, <2>2, <2>3 DEF inst_call
<1>21. ASSUME inst = "RET", inst_ret PROVE Leaves(n)
  <2>1. n = 0
    BY <1>21 DEF arg_count
  <2>2. CASE /\ program_stack # << >>
             /\ program_stack' = Pop(program_stack, 1)
             /\ Goto(0, Top(program_stack))
    <3>1. Len(program_stack) \in Nat \ {0}
      BY <2>2, EmptySeq DEF MachineTypeOK
    <3>2. program_stack' \in Seq(Word)
      <4>1. 1 \in 0 .. Len(program_stack)
        BY <3>1
      <4> QED
        BY <2>2, <4>1, PopType DEF MachineTypeOK
    <3>3. Top(program_stack) \in Word
      <4>1. Len(program_stack) \in 1 .. Len(program_stack) /\ program_stack \in Seq(Word)
        BY <3>1 DEF MachineTypeOK
      <4> QED
        BY <4>1, ElementOfSeq DEF Top
    <3> QED
      BY <1>1, <2>1, <2>2, <3>2, <3>3, GotoLeaves
  <2>3. CASE Exit("failure")
    BY <2>3, ExitLeaves
  <2> QED
    BY <1>21, <2>2, <2>3 DEF inst_ret
<1>22. ASSUME inst = "OUT", inst_out PROVE Leaves(n)
  <2>1. n = 1
    BY <1>22 DEF arg_count
  <2>2. terminal' \in Char
    <3>1. Val(1, 1) \in Nat /\ BYTE \in Nat \ {0}
      BY <1>1, <1>2, <2>1, ConstantFacts
    <3> QED
      BY <1>22, <3>1, RemainderType DEF inst_out
  <2>3. argument_stack' \in Seq(Word)
    <3>1. 1 \in 0 .. Len(argument_stack)
      BY <1>1, <2>1
    <3> QED
      BY <1>22, <3>1, PopType DEF inst_out, MachineTypeOK
  <2> QED
    BY <1>22, <2>1, <2>2, <2>3 DEF inst_out, Leaves, MachineTypeOK
<1>23. ASSUME inst = "NOOP", inst_noop PROVE Leaves(n)
  <2>1. n = 0
    BY <1>23 DEF arg_count
  <2>2. Pop(argument_stack, 0) = argument_stack
    BY PopNothing DEF MachineTypeOK
  <2> QED
    BY <1>23, <2>1, <2>2 DEF inst_noop, machine, Leaves, MachineTypeOK
<1> QED
  BY <1>3, <1>4, <1>5, <1>6, <1>7, <1>8, <1>9, <1>10, <1>11, <1>12, <1>13, <1>14, <1>15, <1>16,
     <1>17, <1>18, <1>19, <1>20, <1>21, <1>22, <1>23
     DEF Perform

(* So does IN, whatever getchar( ) returns.                                *)
LEMMA ReadLeaves ==
  ASSUME MachineTypeOK, ~Underflow("IN"), NEW c \in Input, inst_in(c)
  PROVE  Leaves(1)
<1>1. 1 <= Len(argument_stack)
  BY LenProperties DEF Underflow, arg_count, MachineTypeOK
<1>2. CASE ~Rejected("IN") /\ Store(1, CharRead(c))
  <2>1. is_valid(Operand(1, 1))
    BY <1>2 DEF Rejected, Unused, arg_count
  <2>2. CharRead(c) \in Word
    BY ConstantFacts DEF CharRead
  <2> QED
    BY <1>1, <1>2, <2>1, <2>2, StoreLeaves
<1>3. CASE Exit("failure")
  BY <1>3, ExitLeaves
<1> QED
  BY <1>2, <1>3 DEF inst_in

(***************************************************************************)
(* Every instruction that finds its operands, whatever they are, keeps the *)
(* types and pops just those operands, or ends the process.                *)
(***************************************************************************)
THEOREM ExecuteLeaves ==
  ASSUME MachineTypeOK, NEW inst \in Instruction, ~Underflow(inst),
         Execute(inst) \/ (inst = "IN" /\ \E c \in Input : inst_in(c))
  PROVE  Leaves(arg_count(inst))
<1>1. CASE ~Rejected(inst) /\ Perform(inst)
  BY <1>1, PerformLeaves
<1>2. CASE Rejects(inst)
  BY <1>2, ExitLeaves DEF Rejects, StackExhausted
<1>3. CASE inst = "IN" /\ \E c \in Input : inst_in(c)
  BY <1>3, ReadLeaves DEF arg_count
<1> QED
  BY <1>1, <1>2, <1>3 DEF Execute
-----------------------------------------------------------------------------
(* What load_state reads from a file it can read to the end is a state of  *)
(* the machine.                                                            *)
LEMMA LoadedType ==
  ASSUME NEW f, WellFormed(f), Loaded(f)
  PROVE  /\ registers \in [RegIndex -> Word] /\ memory \in [Address -> Word]
         /\ argument_stack \in Seq(Word) /\ program_stack \in Seq(Word)
         /\ instruction_ptr \in Word
BY FileType DEF Loaded
=============================================================================
