-------------------------------- MODULE Arch --------------------------------
(***************************************************************************)
(* What arch-spec.txt promises of the machine: an abstract specification   *)
(* in which an instruction is one atomic step over three storage regions.  *)
(* It says nothing (Unspecified) where the document says nothing: code     *)
(* outside memory, invalid words, a destination that is not a register,    *)
(* operands that are not numbers, a remainder by 0, a host out of memory.  *)
(***************************************************************************)
EXTENDS Words

CONSTANT Capacity   (* stack elements the host has memory for              *)

VARIABLES reg, mem, stack, pc, halted, screen

archVars == << reg, mem, stack, pc, halted, screen >>

Op     == Decode(mem[pc])
Arg(i) == mem[pc + i]

(* "Encountering a register as an operation argument should be taken as    *)
(* reading from the register".                                             *)
V(i) == IF is_register(Arg(i)) THEN reg[Arg(i) - REGISTER0] ELSE Arg(i)

InCode ==
  /\ pc \in Address /\ is_instruction(mem[pc])
  /\ \A i \in 1 .. arg_count(Op) : pc + i \in Address /\ is_valid(mem[pc + i])

(* The instructions whose first argument is a destination, and the         *)
(* arguments an instruction reads.                                         *)
Sets == {"SET", "POP", "EQ", "GT", "ADD", "MULT", "MOD", "AND", "OR", "NOT", "RMEM", "IN"}
Reads(inst) == (IF inst \in Sets THEN 2 ELSE 1) .. arg_count(inst)

Specified ==
  /\ InCode
  /\ Op \in Sets => is_register(Arg(1))
  /\ \A i \in Reads(Op) : V(i) \in Number
  /\ Op = "MOD" => V(3) # 0
  /\ Op = "POP" => stack # << >> /\ stack[Len(stack)] \in Number
  /\ Op = "OUT" => V(1) \in Char
  /\ Op \in {"PUSH", "CALL"} => Len(stack) < Capacity

-----------------------------------------------------------------------------
NextPc == pc + 1 + arg_count(Op)

(* "the next instruction to read is immediately after the last argument"   *)
Set(v) ==
  /\ reg' = [reg EXCEPT ![Arg(1) - REGISTER0] = v]
  /\ pc' = NextPc
  /\ UNCHANGED << mem, stack, halted, screen >>

Jump(target) == pc' = target /\ UNCHANGED << reg, mem, halted, screen >>

Halt == halted' = TRUE /\ UNCHANGED << reg, mem, stack, pc, screen >>

Compute ==
  \/ Op = "SET"  /\ Set(V(2))
  \/ Op = "EQ"   /\ Set(IF V(2) = V(3) THEN 1 ELSE 0)
  \/ Op = "GT"   /\ Set(IF V(2) > V(3) THEN 1 ELSE 0)
  \/ Op = "ADD"  /\ Set((V(2) + V(3)) % MODULO)
  \/ Op = "MULT" /\ Set((V(2) * V(3)) % MODULO)
  \/ Op = "MOD"  /\ Set(V(2) % V(3))
  \/ Op = "AND"  /\ Set(BitAnd(V(2), V(3)))
  \/ Op = "OR"   /\ Set(BitOr(V(2), V(3)))
  \/ Op = "NOT"  /\ Set(MODULO - 1 - V(2))
  \/ Op = "RMEM" /\ Set(mem[V(2)])
  \/ Op = "IN"   /\ \E c \in Char : Set(c)

Control ==
  \/ Op = "HALT" /\ Halt
  \/ Op = "JMP"  /\ Jump(V(1)) /\ UNCHANGED stack
  \/ Op = "JT"   /\ Jump(IF V(1) # 0 THEN V(2) ELSE NextPc) /\ UNCHANGED stack
  \/ Op = "JF"   /\ Jump(IF V(1) = 0 THEN V(2) ELSE NextPc) /\ UNCHANGED stack
  \/ Op = "CALL" /\ Jump(V(1)) /\ stack' = Append(stack, NextPc)
  \/ Op = "RET"  /\ stack # << >> /\ Jump(stack[Len(stack)])
                 /\ stack' = SubSeq(stack, 1, Len(stack) - 1)
  \/ Op = "RET"  /\ stack = << >> /\ Halt
  \/ Op = "NOOP" /\ Jump(NextPc) /\ UNCHANGED stack

Storage ==
  \/ /\ Op = "PUSH" /\ stack' = Append(stack, V(1))
     /\ Jump(NextPc)
  \/ /\ Op = "POP" /\ stack' = SubSeq(stack, 1, Len(stack) - 1)
     /\ reg' = [reg EXCEPT ![Arg(1) - REGISTER0] = stack[Len(stack)]]
     /\ pc' = NextPc
     /\ UNCHANGED << mem, halted, screen >>
  \/ /\ Op = "WMEM" /\ mem' = [mem EXCEPT ![V(1)] = V(2)]
     /\ pc' = NextPc
     /\ UNCHANGED << reg, stack, halted, screen >>
  \/ /\ Op = "OUT" /\ screen' = V(1)
     /\ pc' = NextPc
     /\ UNCHANGED << reg, mem, stack, halted >>

ArchInit == halted = FALSE

ArchNext == ~halted /\ (~Specified \/ Compute \/ Control \/ Storage)

ArchSpec == ArchInit /\ [][ArchNext]_archVars
=============================================================================
