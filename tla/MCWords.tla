------------------------------ MODULE MCWords ------------------------------
(***************************************************************************)
(* Values for TLC shared by the instances: & and | of 6-bit words as       *)
(* tables, names for the registers, and dumps built from a program.        *)
(***************************************************************************)
EXTENDS StateFile

\* The bits of two words combined by op, from the lowest.
Bits(op(_, _), x, y) ==
  LET Bit(w, i) == (w \div 2^i) % 2
      Sum[i \in 0 .. 6] ==
        IF i = 0 THEN 0 ELSE Sum[i - 1] + 2^(i - 1) * op(Bit(x, i - 1), Bit(y, i - 1))
  IN Sum[6]

AndTable == [x, y \in Word |-> Bits(LAMBDA a, b : a * b, x, y)]
OrTable  == [x, y \in Word |-> Bits(LAMBDA a, b : IF a + b > 0 THEN 1 ELSE 0, x, y)]
MCBitAnd(x, y) == AndTable[x, y]
MCBitOr(x, y)  == OrTable[x, y]

MCInput == {EOF, 5}

R0 == REGISTER0
R1 == REGISTER0 + 1
Bad == REGISTER0 + 2     \* the first word that is neither value nor register

Opcode(inst) == (CHOOSE k \in 1 .. 22 : decoder[k] = inst) - 1

\* A dump with the given code at address 0.
DumpOf(code, regs, ip, pstack, astack) ==
  Dump([a \in Address |-> IF a < Len(code) THEN code[a + 1] ELSE 0],
       [r \in RegIndex |-> regs[r + 1]], ip, pstack, astack)
=============================================================================
