-------------------------------- MODULE MCVM --------------------------------
(***************************************************************************)
(* Instances of VM for TLC: 5-bit numbers, 6-bit words, two registers.     *)
(***************************************************************************)
EXTENDS Listings, MCWords

(***************************************************************************)
(* Every instruction alone, over operands at the edges of each range and   *)
(* registers that hold a small number, the largest and a 16-bit word.      *)
(***************************************************************************)
Operands == {0, 31, R0, R1}

OneInstruction ==
  UNION { { << Opcode(inst) >> \o args : args \in [1 .. arg_count(inst) -> Operands] }
          : inst \in Instruction }

SweepImages ==
  { DumpOf(code, regs, 0, ps, << >>) :
      code \in OneInstruction,
      regs \in { << 0, 31 >>, << 3, 2 >>, << 41, 33 >> },
      ps \in { << >>, << 7 >>, << 2, R1 >>, << Bad, Bad >> } }

(***************************************************************************)
(* Where fetching goes wrong: words that are neither instruction nor       *)
(* operand, instructions cut off by the end of memory, an instruction      *)
(* pointer outside it; with operands left over in the file.                *)
(***************************************************************************)
AtEnd(code) ==
  [a \in Address |-> IF a >= MODULO - Len(code) THEN code[a - MODULO + Len(code) + 1] ELSE 21]

EdgeImages ==
  { DumpOf(code, << 3, 33 >>, 0, << 7 >>, astack) :
      code \in { << 22 >>, << R0 >>, << Opcode("SET"), R0, Bad >>, << Opcode("ADD"), Bad, 1, 1 >>,
                << Opcode("JMP"), R1 >>, << Opcode("OUT"), 63 >>,
                << Opcode("OUT"), 19, Opcode("OUT"), R0, Opcode("HALT") >> },
      astack \in { << >>, << 4, Bad, 0 >> } }
  \cup
  { Dump(AtEnd(code), [r \in RegIndex |-> 3 * r], ip, << 31 >>, << 9 >>) :
      code \in { << >>, << Opcode("SET"), R0 >>, << Opcode("CALL"), 2 >>, << Opcode("JT"), 1 >>,
                << Opcode("EQ"), R0, 31, R1 >>, << Opcode("IN"), R1 >>,
                << Opcode("OUT"), 7, Opcode("OUT"), 9 >> },
      ip \in { 26, 28, 31, 32, 63 } }

(***************************************************************************)
(* Every program of three instructions out of a menu that makes them       *)
(* interact through the stack, the registers, memory and the code itself.  *)
(***************************************************************************)
Menu ==
  { << Opcode("PUSH"), R0 >>, << Opcode("PUSH"), 7 >>, << Opcode("POP"), R1 >>,
    << Opcode("CALL"), 2 >>, << Opcode("RET") >>, << Opcode("JF"), R1, 0 >>,
    << Opcode("ADD"), R0, R0, 31 >>, << Opcode("NOT"), R1, R0 >>,
    << Opcode("RMEM"), R1, R0 >>, << Opcode("WMEM"), 4, R0 >>, << Opcode("IN"), R0 >> }

ProgramImages ==
  { DumpOf(p \o q \o r, << 1, 0 >>, 0, << >>, << >>) : p, q, r \in Menu }
VMImages == SweepImages \cup EdgeImages \cup ProgramImages
=============================================================================
