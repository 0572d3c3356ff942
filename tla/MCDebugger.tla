----------------------------- MODULE MCDebugger -----------------------------
(***************************************************************************)
(* Instances of Debugger for TLC, over the numbers of MCVM: 5-bit numbers, *)
(* 6-bit words, two registers.                                             *)
(***************************************************************************)
EXTENDS Debugger, MCWords

LoadFrom(code, astack) == DumpOf(code, << 3, 0 >>, 0, << 7 >>, astack)

\* Calls and returns, stores through a register, reads, prints, loops.
Transparent ==
  { LoadFrom(<< Opcode("CALL"), 6, Opcode("IN"), R1, Opcode("HALT"), 21,
                Opcode("SET"), R0, 5, Opcode("RMEM"), R1, R0, Opcode("RET") >>, << >>),
    LoadFrom(<< Opcode("POP"), R1, Opcode("OUT"), R1, Opcode("EQ"), R0, R1, 7,
                Opcode("WMEM"), 11, R0, Opcode("JT"), R0, 4, Opcode("HALT") >>, << >>) }

\* The same with a store the trace does not see.
Stores == { LoadFrom(<< Opcode("SET"), R0, 9, Opcode("WMEM"), R0, 4, Opcode("HALT") >>, << >>) }

\* A word at the end of memory.
WithLast(f, w) == [f EXCEPT ![MODULO] = w]

\* IN and an instruction whose change a trace records, or not; the second with
\* an opcode at the end of memory that has no room for its operand.
Nested ==
  { LoadFrom(<< Opcode("IN"), R0, Opcode("SET"), R1, 4, Opcode("NOOP"), Opcode("IN"), 12 >>,
             << >>),
    WithLast(LoadFrom(<< Opcode("JMP"), 2, Opcode("POP"), R0, Opcode("HALT") >>, << Bad >>),
             Opcode("JMP")) }

\* What leaves the program alone, and what does not.
Breakable ==
  {"setbp", "clearbp", "clearbps", "setmtrap", "setitrap", "clearmtrap", "clearmtraps",
   "savestate", "starttrace", "savetrace", "get_mem", "quit"}

Meddling ==
  {"tick", "setip", "set_mem", "setreg", "loadstate", "setbp", "starttrace", "stoptrace",
   "showasm"}
\* The commands of one story each.
Setbp      == {"setbp"}
Stepping   == {"tick"}
Tracing    == {"starttrace"}
StepTraced == {"tick", "starttrace"}
=============================================================================
