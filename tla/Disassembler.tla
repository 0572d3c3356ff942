---------------------------- MODULE Disassembler ----------------------------
(***************************************************************************)
(* dump_memory: the listing that showasm, saveasm, tick <n> and the        *)
(* program to_assembler print.  A listing is the sequence of the addresses *)
(* its lines start at; consecutive OUTs share a line.  A line that needs a *)
(* cell past the end of memory ends the process: the listing then ends     *)
(* with Unfinished.                                                        *)
(***************************************************************************)
EXTENDS Words

OUT        == 19
All        == 2 * MODULO - 1   (* numeric_limits<uint16_t>::max( )          *)
Unfinished == -1

(* Mutant of AfterOuts: the opcode that was peeked at is not skipped.      *)
AfterOuts_NoSkip(mem, a) ==
  LET after[b \in Address] ==
        IF b + 2 >= MODULO THEN Unfinished
        ELSE IF mem[b + 2] = OUT THEN b + 3
        ELSE b + 2
  IN after[a]

(* From the OUT at a: its character, and a look at the next word, which    *)
(* must be there; another OUT goes on the same line.                       *)
AfterOuts(mem, a) ==
  LET after[b \in Address] ==
        IF b + 2 >= MODULO THEN Unfinished
        ELSE IF mem[b + 2] = OUT THEN after[b + 2]
        ELSE b + 2
  IN after[a]

(* Mutant of AfterLine: the end of memory is one cell early.               *)
AfterLine_ShortMemory(mem, a) ==
  IF ~is_instruction(mem[a]) THEN (IF a + 1 >= MODULO THEN Unfinished ELSE a + 1)
  ELSE IF mem[a] = OUT THEN AfterOuts(mem, a)
  ELSE IF a + arg_count(Decode(mem[a])) >= MODULO THEN Unfinished
  ELSE a + 1 + arg_count(Decode(mem[a]))

AfterLine(mem, a) ==
  IF ~is_instruction(mem[a]) THEN a + 1
  ELSE IF mem[a] = OUT THEN AfterOuts(mem, a)
  ELSE IF a + arg_count(Decode(mem[a])) >= MODULO THEN Unfinished
  ELSE a + 1 + arg_count(Decode(mem[a]))

(* dump_memory( vm, from_address, to_address )                             *)
Listing(mem, from, to) ==
  LET stop  == IF to > MODULO THEN MODULO ELSE to
      start == IF from > stop THEN stop ELSE from
      lines[a \in Address \cup {MODULO, Unfinished}] ==
        IF a = Unfinished THEN << Unfinished >>
        ELSE IF a >= stop THEN << >>
        ELSE << a >> \o lines[AfterLine(mem, a)]
  IN lines[start]

EndsProcess(listing) == listing # << >> /\ listing[Len(listing)] = Unfinished

(* Mutant of calc_range: the width of the subtraction is forgotten.        *)
calc_range_Signed(ip, num_lines) ==
  << IF ip > num_lines THEN ip - num_lines ELSE 0,
     IF MODULO - 1 - ip > num_lines THEN ip + num_lines ELSE ip >>

(* The range tick <num_lines> lists.  memory.size( ) is a size_t: the      *)
(* difference is huge when ip is outside memory.                           *)
calc_range(ip, num_lines) ==
  << IF ip > num_lines THEN ip - num_lines ELSE 0,
     IF ip >= MODULO \/ MODULO - 1 - ip > num_lines
     THEN (ip + num_lines) % (2 * MODULO) ELSE All >>
=============================================================================
