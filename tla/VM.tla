--------------------------------- MODULE VM ---------------------------------
(***************************************************************************)
(* The machine running a program to its end: main( ) without DEBUG, which  *)
(* loads the file it is given and calls tick( ) for ever.  A tick is two   *)
(* steps, the fetch and the instruction, so that what happens between them *)
(* (Debugger) can be added without changing either.                        *)
(***************************************************************************)
EXTENDS Machine

CONSTANT Images   (* the files the program may be started with             *)

ASSUME ImagesAssumption == \A f \in Images : WellFormed(f)

VARIABLES
  decoded,  (* the instruction fetched and not yet executed, or "none"     *)
  residue   (* history: the argument stack the file brought; never changes *)

vars == << registers, memory, argument_stack, program_stack, instruction_ptr,
           status, terminal, decoded, residue >>

(* The operands of the fetched instruction, as they stand in memory.       *)
PendingOperands ==
  IF decoded = "none" THEN << >>
  ELSE OperandsAt(instruction_ptr - 1 - arg_count(decoded), arg_count(decoded))

(* What the members of virtual_machine_t can hold (vm.h:67-102): words are *)
(* 16 bits, the operands in flight have passed validate.                   *)
TypeOK ==
  /\ MachineTypeOK
  /\ decoded \in Instruction \cup {"none"}
  /\ residue \in Seq(Word)
  /\ Running => PendingOperands \in Seq(Operandable)

Init ==
  /\ \E f \in Images : Loaded(f)
  /\ residue = argument_stack
  /\ status = "running"
  /\ terminal = -1
  /\ decoded = "none"

Fetch ==
  /\ Running /\ decoded = "none"
  /\ \/ FetchOperands /\ decoded' = Fetched
     \/ FetchFails /\ UNCHANGED decoded
  /\ UNCHANGED residue

Instruct ==
  /\ Running /\ decoded # "none"
  /\ \/ Execute(decoded)
     \/ decoded = "IN" /\ \E c \in Input : inst_in(c)
  /\ decoded' = IF Running' THEN "none" ELSE decoded
  /\ UNCHANGED residue

(* The process is gone.                                                    *)
Ended == ~Running /\ UNCHANGED vars

Next == Fetch \/ Instruct \/ Ended

Spec == Init /\ [][Next]_vars

-----------------------------------------------------------------------------
(***************************************************************************)
(* Operand discipline (vm.cpp:201 pushes, every inst_* pops): at any time  *)
(* argument_stack is what the file brought plus exactly the operands of    *)
(* the instruction in flight.  No instruction leaves one behind or takes   *)
(* one of another: "INSTRUCTION STACK UNDERFLOW" cannot happen, operand 0  *)
(* of a dump's argument stack is never consumed.                           *)
(***************************************************************************)
OperandDiscipline ==
  Running => argument_stack = residue \o PendingOperands

(* Registers and stack hold numbers, or the address after the last.        *)
Plain ==
  /\ \A r \in RegIndex : registers[r] \in Number
  /\ \A i \in 1 .. Len(program_stack) : program_stack[i] \in Number \cup {MODULO}

(***************************************************************************)
(* arch-spec.txt:13-14, "all numbers are unsigned integers 0..32767", "all *)
(* math is modulo 32768": once registers and stack are plain, only an RMEM *)
(* of a word that is not a number can bring a 16-bit word into them.  The  *)
(* address after the last cell, which CALL may push, is the one exception. *)
(***************************************************************************)
OnlyRmemWidens == [][Plain /\ decoded # "RMEM" => Plain']_vars

-----------------------------------------------------------------------------
(* This module's machine as Arch sees it.                                  *)
A == INSTANCE Arch WITH
       reg <- registers, mem <- memory, stack <- program_stack,
       pc <- IF decoded = "none" THEN instruction_ptr
             ELSE instruction_ptr - 1 - arg_count(decoded),
       halted <- ~Running, screen <- terminal, Capacity <- MaxStack

(***************************************************************************)
(* arch-spec.txt:24-79: a fetch is invisible and every instruction does    *)
(* what the document says, in one step.  While an instruction is in flight *)
(* the abstract pc is still at its opcode.  Any way for the process to end *)
(* counts as halted, a RET on an empty stack among them (vm.cpp:276).      *)
(***************************************************************************)
ImplementsArch == A!ArchSpec

(* arch-spec.txt:43, "remove the top element from the stack and write it   *)
(* into <a>": a POP into register 0 leaves there what was on the stack.    *)
PopWritesTop ==
  [][decoded = "POP" /\ Operand(1, 1) = REGISTER0 /\ Running'
       => registers'[0] = Top(program_stack)]_vars
=============================================================================
