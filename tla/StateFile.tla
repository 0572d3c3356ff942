----------------------------- MODULE StateFile -----------------------------
(***************************************************************************)
(* The files the machine reads and writes: virtual_machine_t::save_state   *)
(* and ::load_state.  A file is a sequence of words.  One of at most       *)
(* MODULO words is a bare memory image (the contest format); a longer one  *)
(* is a full dump:                                                         *)
(*                                                                         *)
(*    memory, registers, instruction_ptr,                                  *)
(*    size of program_stack, program_stack,                                *)
(*    size of argument_stack, argument_stack                               *)
(***************************************************************************)
EXTENDS Words

IsDump(f) == Len(f) > MODULO

FileMemory(f) == [a \in Address |-> IF a < Len(f) THEN f[a + 1] ELSE 0]

FileRegisters(f) ==
  [r \in RegIndex |-> IF IsDump(f) THEN f[MODULO + 1 + r] ELSE 0]

FileInstructionPtr(f) == IF IsDump(f) THEN f[MODULO + NREGS + 1] ELSE 0

(* The position of the size field of the program stack, of the size field  *)
(* of the argument stack that follows it, and of the last word.            *)
ProgramAt(f)  == MODULO + NREGS + 2
ArgumentAt(f) == ProgramAt(f) + f[ProgramAt(f)] + 1
EndAt(f)      == ArgumentAt(f) + f[ArgumentAt(f)]

FileProgramStack(f) ==
  IF IsDump(f) THEN SubSeq(f, ProgramAt(f) + 1, ArgumentAt(f) - 1) ELSE << >>

(* Mutant of FileArgumentStack: the last element is not copied.            *)
FileArgumentStack_Short(f) ==
  IF IsDump(f) THEN SubSeq(f, ArgumentAt(f) + 1, EndAt(f) - 1) ELSE << >>

FileArgumentStack(f) ==
  IF IsDump(f) THEN SubSeq(f, ArgumentAt(f) + 1, EndAt(f)) ELSE << >>

(***************************************************************************)
(* load_state reads such a file without running past the end of the        *)
(* mapping.                                                                *)
(***************************************************************************)
InFile(f) == ProgramAt(f) < Len(f) /\ ArgumentAt(f) <= Len(f) /\ EndAt(f) <= Len(f)

WellFormed(f) == f \in Seq(Word) /\ (IsDump(f) => InFile(f))

(***************************************************************************)
(* save_state: the sizes of the stacks are cast to uint16_t.               *)
(***************************************************************************)
Dump(mem, regs, ip, pstack, astack) ==
  [i \in 1 .. MODULO |-> mem[i - 1]] \o [i \in 1 .. NREGS |-> regs[i - 1]]
    \o << ip, Len(pstack) % (2 * MODULO) >> \o pstack
    \o << Len(astack) % (2 * MODULO) >> \o astack
=============================================================================
