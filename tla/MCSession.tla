----------------------------- MODULE MCSession -----------------------------
(***************************************************************************)
(* Instances of Session for TLC, over the numbers of MCVM: 5-bit numbers,  *)
(* 6-bit words, two registers.                                             *)
(***************************************************************************)
EXTENDS Session, MCWords

SaveNames == {0, 1, 2}
Leftovers == {0, 40}

Typing(cmd, words) == [cmd |-> cmd, words |-> words]

\* A program that pushes, with almost as many elements on its stack as a size
\* field can count and a number of them near the one that is lost; and one
\* with an instruction at the end of memory that a listing runs out in.
Full ==
  DumpOf(<< Opcode("PUSH"), R0, Opcode("NOOP"), Opcode("HALT") >>, << 3, 41 >>, 0,
         [i \in 1 .. 2 * MODULO - 1 |-> i % MODULO], << >>)

AtTheEnd ==
  Dump([a \in Address |-> CASE a = 0 -> Opcode("IN") [] a = 1 -> R0
                            [] a = MODULO - 2 -> Opcode("SET") [] OTHER -> 0],
       [r \in RegIndex |-> 7], 0, << 5 >>, << 9 >>)

SessionImages == {Full, AtTheEnd}

SessionLines ==
  { Repeat, Typing("go", << >>), Typing("quit", << >>),
    Typing("setip", << 2 >>), Typing("setip", << 2, 30 >>), Typing("setip", << 0, 40 >>),
    Typing("get_mem", << 0, Letters >>), Typing("setreg", << 0, 1, Empty >>),
    Typing("set_mem", << 1, 9 >>), Typing("set_mem", << 0, 1, 200 >>),
    Typing("showasm", << >>), Typing("showasm", << 0, 0, 4 >>), Typing("saveasm", << Empty >>),
    Typing("savestate", << >>), Typing("savestate", << Empty >>), Typing("savestate", << 2 >>),
    Typing("loadstate", << 2 >>), Typing("loadstate", << Empty >>) }

\* A save, and what makes something of it.
SavingLines ==
  { Typing("go", << >>), Typing("quit", << >>), Typing("savestate", << 2 >>),
    Typing("loadstate", << 2 >>) }

DocumentedLines ==
  { Typing("setip", << 2 >>), Typing("set_mem", << 1, 9 >>), Typing("setreg", << 1, 4 >>) }
=============================================================================
