------------------------------ MODULE Machine ------------------------------
(***************************************************************************)
(* The state of virtual_machine_t and the instructions of vm.cpp, without  *)
(* the loop that runs them: VM and Debugger schedule these actions.        *)
(*                                                                         *)
(* tick( ) fetches an opcode, pushes its operand words on argument_stack   *)
(* and calls the instruction, which pops them again (last operand first).  *)
(* A reference returned by get_value / get_reg_or_mem is modelled by the   *)
(* read or the write made through it.                                      *)
(***************************************************************************)
EXTENDS StateFile

CONSTANTS
  MaxStack,  (* program_stack elements the host has memory for             *)
  Input      (* what getchar( ) may return: characters and EOF             *)

ASSUME MachineAssumption ==
  /\ MaxStack \in Nat
  /\ Input \subseteq Char \cup {EOF}

VARIABLES
  registers, memory, argument_stack, program_stack, instruction_ptr,
  status,    (* "running", or how the process ended: exit(EXIT_SUCCESS) is *)
             (* "success", exit(EXIT_FAILURE) "failure", a failed assert    *)
             (* "aborted", another signal or an uncaught exception "killed" *)
  terminal   (* the last character written to stdout, -1 before the first  *)

machine == << registers, memory, argument_stack, program_stack, instruction_ptr >>

Running == status = "running"

(* What validate lets through to argument_stack.                           *)
Operandable == 0 .. REGISTER0 + NREGS - 1

MachineTypeOK ==
  /\ registers \in [RegIndex -> Word]
  /\ memory \in [Address -> Word]
  /\ argument_stack \in Seq(Word)
  /\ program_stack \in Seq(Word)
  /\ instruction_ptr \in Word
  /\ status \in {"running", "success", "failure", "killed", "aborted"}
  /\ terminal \in Char \cup {-1}

(* load_state: clear( ), then whatever the file has.                       *)
Loaded(f) ==
  /\ registers = FileRegisters(f)
  /\ memory = FileMemory(f)
  /\ argument_stack = FileArgumentStack(f)
  /\ program_stack = FileProgramStack(f)
  /\ instruction_ptr = FileInstructionPtr(f)

(* exit( ), abort( ) or a fatal signal.  The memory of a process that is   *)
(* gone is not modelled: the machine keeps its last state.                 *)
Exit(how) ==
  /\ status' = how
  /\ UNCHANGED << machine, terminal >>

-----------------------------------------------------------------------------
(* Fetching.  virtual_memory_t::operator[] exits on an address out of      *)
(* range, fetch_opcode on an unknown opcode, validate on a bad operand.    *)

OperandsAt(ip, n) == [i \in 1 .. n |-> memory[ip + i]]

CanFetch ==
  /\ instruction_ptr \in Address
  /\ is_instruction(memory[instruction_ptr])
  /\ \A i \in 1 .. arg_count(Decode(memory[instruction_ptr])) :
       instruction_ptr + i \in Address /\ is_valid(memory[instruction_ptr + i])

Fetched == Decode(memory[instruction_ptr])

FetchOperands ==
  /\ CanFetch
  /\ argument_stack' = argument_stack \o OperandsAt(instruction_ptr, arg_count(Fetched))
  /\ instruction_ptr' = instruction_ptr + 1 + arg_count(Fetched)
  /\ UNCHANGED << registers, memory, program_stack, status, terminal >>

FetchFails == ~CanFetch /\ Exit("failure")

-----------------------------------------------------------------------------
(* Operand i of the n an instruction pops, the value it denotes, and the   *)
(* effects instructions share.                                             *)

Operand(i, n) == argument_stack[Len(argument_stack) - n + i]

get_value(w) == IF is_register(w) THEN registers[w - REGISTER0] ELSE w

Val(i, n) == get_value(Operand(i, n))

Pop(stack, n) == SubSeq(stack, 1, Len(stack) - n)

Top(stack) == stack[Len(stack)]

(* vm.get_reg_or_mem( a ) = v                                              *)
Assign(a, v) ==
  IF is_register(a)
  THEN registers' = [registers EXCEPT ![a - REGISTER0] = v] /\ UNCHANGED memory
  ELSE memory' = [memory EXCEPT ![a] = v] /\ UNCHANGED registers

(* Pop n operands and assign v to the first of them.                       *)
Store(n, v) ==
  /\ argument_stack' = Pop(argument_stack, n)
  /\ Assign(Operand(1, n), v)
  /\ UNCHANGED << program_stack, instruction_ptr, status, terminal >>

(* Pop n operands and continue at ip.                                      *)
Goto(n, ip) ==
  /\ argument_stack' = Pop(argument_stack, n)
  /\ instruction_ptr' = ip
  /\ UNCHANGED << registers, memory, status, terminal >>

(* Beyond MaxStack, push_back throws std::bad_alloc; nothing catches it.   *)
Push(w) == Len(program_stack) < MaxStack /\ program_stack' = Append(program_stack, w)

StackExhausted == Len(program_stack) >= MaxStack /\ Exit("killed")

-----------------------------------------------------------------------------
(* The instructions.                                                       *)

inst_halt == Exit("success")

(* get_register exits unless the destination is a register.                *)
inst_set ==
  \/ is_register(Operand(1, 2)) /\ Store(2, Val(2, 2))
  \/ ~is_register(Operand(1, 2)) /\ Exit("failure")

inst_push ==
  \/ /\ Push(Val(1, 1))
     /\ Goto(1, instruction_ptr)
  \/ StackExhausted

(* The popped element itself goes through get_value: a word that names a   *)
(* register is replaced by that register's content.                        *)
inst_pop ==
  \/ /\ program_stack # << >>
     /\ is_valid(Top(program_stack))
     /\ argument_stack' = Pop(argument_stack, 1)
     /\ program_stack' = Pop(program_stack, 1)
     /\ Assign(Operand(1, 1), get_value(Top(program_stack)))
     /\ UNCHANGED << instruction_ptr, status, terminal >>
  \/ /\ program_stack # << >> => ~is_valid(Top(program_stack))
     /\ Exit("failure")

inst_eq == Store(3, IF Val(2, 3) = Val(3, 3) THEN 1 ELSE 0)

(* Mutant of inst_gt: >= for >.                                            *)
inst_gt_OrEqual == Store(3, IF Val(2, 3) >= Val(3, 3) THEN 1 ELSE 0)

inst_gt == Store(3, IF Val(2, 3) > Val(3, 3) THEN 1 ELSE 0)

inst_jmp == Goto(1, Val(1, 1)) /\ UNCHANGED program_stack

(* Mutant of inst_jt: the target is popped only when the jump is taken.    *)
inst_jt_LeavesTarget ==
  /\ Goto(IF Val(1, 2) # 0 THEN 2 ELSE 1, IF Val(1, 2) # 0 THEN Val(2, 2) ELSE instruction_ptr)
  /\ UNCHANGED program_stack

inst_jt ==
  /\ Goto(2, IF Val(1, 2) # 0 THEN Val(2, 2) ELSE instruction_ptr)
  /\ UNCHANGED program_stack

inst_jf ==
  /\ Goto(2, IF Val(1, 2) = 0 THEN Val(2, 2) ELSE instruction_ptr)
  /\ UNCHANGED program_stack

inst_add == Store(3, (Val(2, 3) + Val(3, 3)) % MODULO)

inst_mult == Store(3, (Val(2, 3) * Val(3, 3)) % MODULO)

(* Division by zero: the build's processor raises SIGFPE.                  *)
inst_mod ==
  \/ Val(3, 3) # 0 /\ Store(3, Val(2, 3) % Val(3, 3))
  \/ Val(3, 3) = 0 /\ Exit("killed")

inst_and == Store(3, BitAnd(Val(2, 3), Val(3, 3)))

inst_or == Store(3, BitOr(Val(2, 3), Val(3, 3)))

inst_not == Store(2, BitNot15(Val(2, 2)))

inst_rmem ==
  \/ Val(2, 2) \in Address /\ Store(2, memory[Val(2, 2)])
  \/ Val(2, 2) \notin Address /\ Exit("failure")

inst_wmem ==
  \/ /\ is_value(Val(1, 2)) /\ is_value(Val(2, 2))
     /\ argument_stack' = Pop(argument_stack, 2)
     /\ memory' = [memory EXCEPT ![Val(1, 2)] = Val(2, 2)]
     /\ UNCHANGED << registers, program_stack, instruction_ptr, status, terminal >>
  \/ ~(is_value(Val(1, 2)) /\ is_value(Val(2, 2))) /\ Exit("failure")

inst_call ==
  \/ /\ Push(instruction_ptr)
     /\ Goto(1, Val(1, 1))
  \/ StackExhausted

inst_ret ==
  \/ /\ program_stack # << >>
     /\ program_stack' = Pop(program_stack, 1)
     /\ Goto(0, Top(program_stack))
  \/ program_stack = << >> /\ Exit("failure")

inst_out ==
  /\ terminal' = Val(1, 1) % BYTE
  /\ argument_stack' = Pop(argument_stack, 1)
  /\ UNCHANGED << registers, memory, program_stack, instruction_ptr, status >>

inst_noop == UNCHANGED << machine, status, terminal >>

(* The character inst_in stores for what getchar( ) returned.              *)
CharRead(c) == IF c = EOF THEN NEWLINE ELSE c

(* What an instruction does with operands that are valid.                  *)
Perform(inst) ==
  \/ inst = "HALT" /\ inst_halt
  \/ inst = "SET"  /\ inst_set
  \/ inst = "PUSH" /\ inst_push
  \/ inst = "POP"  /\ inst_pop
  \/ inst = "EQ"   /\ inst_eq
  \/ inst = "GT"   /\ inst_gt
  \/ inst = "JMP"  /\ inst_jmp
  \/ inst = "JT"   /\ inst_jt
  \/ inst = "JF"   /\ inst_jf
  \/ inst = "ADD"  /\ inst_add
  \/ inst = "MULT" /\ inst_mult
  \/ inst = "MOD"  /\ inst_mod
  \/ inst = "AND"  /\ inst_and
  \/ inst = "OR"   /\ inst_or
  \/ inst = "NOT"  /\ inst_not
  \/ inst = "RMEM" /\ inst_rmem
  \/ inst = "WMEM" /\ inst_wmem
  \/ inst = "CALL" /\ inst_call
  \/ inst = "RET"  /\ inst_ret
  \/ inst = "OUT"  /\ inst_out
  \/ inst = "NOOP" /\ inst_noop

-----------------------------------------------------------------------------
(* Every instruction pops its operands first, and exits if there are too   *)
(* few ("INSTRUCTION STACK UNDERFLOW").                                    *)
Underflow(inst) == Len(argument_stack) < arg_count(inst)

(* get_value and get_reg_or_mem exit on a word that validate rejects; only *)
(* a file can bring one to argument_stack.  A jump that is not taken does  *)
(* not look at its target.                                                 *)
Unused(inst, i) ==
  /\ i = 2
  /\ \/ inst = "JT" /\ Val(1, 2) = 0
     \/ inst = "JF" /\ Val(1, 2) # 0

Rejected(inst) ==
  \E i \in 1 .. arg_count(inst) :
    ~is_valid(Operand(i, arg_count(inst))) /\ ~Unused(inst, i)

(* CALL pushes before it looks at its operand; MOD may divide before it    *)
(* looks at where the remainder goes.                                      *)
Rejects(inst) ==
  \/ (inst = "CALL" => Len(program_stack) < MaxStack) /\ Exit("failure")
  \/ inst = "CALL" /\ StackExhausted
  \/ /\ inst = "MOD" /\ Val(3, 3) = 0
     /\ is_valid(Operand(2, 3)) /\ is_valid(Operand(3, 3))
     /\ Exit("killed")

(* inst_in when getchar( ) returned c and nothing is typed at a console.   *)
inst_in(c) ==
  \/ ~Rejected("IN") /\ Store(1, CharRead(c))
  \/ Rejected("IN") /\ Exit("failure")

(* An instruction other than IN.                                           *)
Execute(inst) ==
  \/ ~Rejected(inst) /\ Perform(inst)
  \/ Rejected(inst) /\ inst # "IN" /\ Rejects(inst)
=============================================================================
