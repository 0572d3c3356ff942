----------------------------- MODULE Interrupt ------------------------------
(***************************************************************************)
(* How SIGINT stops the program (main.cpp, DEBUG build).  Two threads      *)
(* share an atomic_flag, clear when a request to break is waiting, and     *)
(* vm.debugging.should_break: the thread that runs io_service handles one  *)
(* signal at a time, main( ) looks at the flag after each tick( ).         *)
(*                                                                         *)
(* A step is one access to what the threads share.  should_break is a      *)
(* plain bool that only main writes; the handler reads it once, before or  *)
(* after each write.  Consoles that open inside a console (Debugger) are   *)
(* one console here.                                                       *)
(***************************************************************************)
EXTENDS Integers

CONSTANT MaxSignals   (* SIGINTs explored                                  *)

ASSUME InterruptAssumption == MaxSignals \in Nat

VARIABLES
  main,          (* where main( ) is                                       *)
  handler,       (* where the io_service thread is                         *)
  flag,          (* the atomic_flag should_break of main( ): set or clear  *)
  should_break,  (* vm.debugging.should_break                              *)
  pending,       (* SIGINTs queued by the signal_set                       *)
  sent,          (* history: SIGINTs sent                                  *)
  breaks,        (* history: consoles opened because should_break was set  *)
  ended          (* "no", "EXITING" printed by the handler, or "program"   *)

vars == << main, handler, flag, should_break, pending, sent, breaks, ended >>

Alive == ended = "no"

(***************************************************************************)
(* main is at:                                                             *)
(*   start    signals are handled, should_break is not set yet (line 68)   *)
(*   check    the break check of tick( )                                   *)
(*   console  the console of a break                                       *)
(*   run      the instruction, and reading: IN waiting in getchar( )       *)
(*   eof      the console of IN                                            *)
(*   poll     test_and_set (line 73), and request: after it (line 74)      *)
(***************************************************************************)
TypeOK ==
  /\ main \in {"start", "check", "console", "run", "reading", "eof", "poll", "request"}
  /\ handler \in {"wait", "look", "clear"}
  /\ flag \in {"set", "clear"}
  /\ should_break \in BOOLEAN
  /\ pending \in 0 .. MaxSignals /\ sent \in 0 .. MaxSignals
  /\ breaks \in Nat
  /\ ended \in {"no", "EXITING", "program"}

(* Mutant of Init: the flag is not set before the handler is installed.    *)
Init_FlagClear ==
  /\ main = "start" /\ handler = "wait"
  /\ flag = "clear" /\ should_break = FALSE
  /\ pending = 0 /\ sent = 0 /\ breaks = 0
  /\ ended = "no"

Init ==
  /\ main = "start" /\ handler = "wait"
  /\ flag = "set" /\ should_break = FALSE
  /\ pending = 0 /\ sent = 0 /\ breaks = 0
  /\ ended = "no"

-----------------------------------------------------------------------------
At(pc) == Alive /\ main = pc

Begin ==
  /\ At("start") /\ main' = "check"
  /\ should_break' = TRUE
  /\ UNCHANGED << handler, flag, pending, sent, breaks, ended >>

(* The break check; without a break line 210 clears what is clear.         *)
Check ==
  /\ At("check")
  /\ IF should_break THEN main' = "console" /\ breaks' = breaks + 1
     ELSE main' = "run" /\ UNCHANGED breaks
  /\ UNCHANGED << handler, flag, should_break, pending, sent, ended >>

(* A breakpoint or a memory trap opens the console without should_break.   *)
Breakpoint ==
  /\ At("check") /\ ~should_break /\ main' = "console"
  /\ UNCHANGED << handler, flag, should_break, pending, sent, breaks, ended >>

(* go, or the end of the input; then line 210.                             *)
Go ==
  /\ At("console") /\ main' = "run" /\ should_break' = FALSE
  /\ UNCHANGED << handler, flag, pending, sent, breaks, ended >>

(* The tick command runs line 210 with the console still open; an IN under *)
(* it may set should_break again.                                          *)
ConsoleTick ==
  /\ Alive /\ main \in {"console", "eof"}
  /\ should_break' \in BOOLEAN
  /\ UNCHANGED << main, handler, flag, pending, sent, breaks, ended >>

Instruction ==
  /\ At("run") /\ main' \in {"poll", "reading"}
  /\ UNCHANGED << handler, flag, should_break, pending, sent, breaks, ended >>

(* A fetch that fails, quit, an instruction that exits.                    *)
Exits ==
  /\ Alive /\ main \in {"check", "console", "run", "eof"}
  /\ ended' = "program"
  /\ UNCHANGED << main, handler, flag, should_break, pending, sent, breaks >>

(* getchar( ) returns a character, or EOF: the end of the input, or a      *)
(* SIGINT that interrupted it.                                             *)
Read ==
  /\ At("reading")
  /\ \/ main' = "poll" /\ UNCHANGED should_break
     \/ main' = "eof" /\ should_break' = TRUE
  /\ UNCHANGED << handler, flag, pending, sent, breaks, ended >>

LeaveEOF ==
  /\ At("eof") /\ main' = "poll" /\ should_break' = FALSE
  /\ UNCHANGED << handler, flag, pending, sent, breaks, ended >>

(* Mutant of Poll: main only looks at the flag.                            *)
Poll_Load ==
  /\ At("poll")
  /\ main' = IF flag = "clear" THEN "request" ELSE "check"
  /\ UNCHANGED << handler, flag, should_break, pending, sent, breaks, ended >>

(* if( !should_break.test_and_set( ) )                                     *)
Poll ==
  /\ At("poll")
  /\ main' = IF flag = "clear" THEN "request" ELSE "check"
  /\ flag' = "set"
  /\ UNCHANGED << handler, should_break, pending, sent, breaks, ended >>

(* Mutant of Request: the machine is not told.                             *)
Request_Lost ==
  /\ At("request") /\ main' = "check"
  /\ UNCHANGED << handler, flag, should_break, pending, sent, breaks, ended >>

Request ==
  /\ At("request") /\ main' = "check" /\ should_break' = TRUE
  /\ UNCHANGED << handler, flag, pending, sent, breaks, ended >>

-----------------------------------------------------------------------------
Sigint ==
  /\ Alive /\ sent < MaxSignals
  /\ sent' = sent + 1 /\ pending' = pending + 1
  /\ UNCHANGED << main, handler, flag, should_break, breaks, ended >>

(* Mutant of Handle: the handler also runs for a wait that failed.         *)
Handle_OnError ==
  /\ Alive /\ handler = "wait"
  /\ pending' = pending - 1
  /\ IF flag = "clear" THEN ended' = "EXITING" /\ UNCHANGED handler
     ELSE handler' = "look" /\ UNCHANGED ended
  /\ flag' = "set"
  /\ UNCHANGED << main, should_break, sent, breaks >>

(* A request that is still waiting: "EXITING".                             *)
Handle ==
  /\ Alive /\ handler = "wait" /\ pending > 0
  /\ pending' = pending - 1
  /\ IF flag = "clear" THEN ended' = "EXITING" /\ UNCHANGED handler
     ELSE handler' = "look" /\ UNCHANGED ended
  /\ flag' = "set"
  /\ UNCHANGED << main, should_break, sent, breaks >>

(* if( !vm.debugging.should_break )                                        *)
Look ==
  /\ Alive /\ handler = "look"
  /\ handler' = IF should_break THEN "wait" ELSE "clear"
  /\ UNCHANGED << main, flag, should_break, pending, sent, breaks, ended >>

(* Mutant of Clear: async_wait is not called again.                        *)
Clear_NotRearmed ==
  /\ Alive /\ handler = "clear"
  /\ flag' = "clear"
  /\ UNCHANGED << main, handler, should_break, pending, sent, breaks, ended >>

Clear ==
  /\ Alive /\ handler = "clear" /\ handler' = "wait"
  /\ flag' = "clear"
  /\ UNCHANGED << main, should_break, pending, sent, breaks, ended >>

-----------------------------------------------------------------------------
User == Go \/ ConsoleTick \/ Read \/ LeaveEOF \/ Sigint

Main == Begin \/ Check \/ Instruction \/ Poll \/ Request

Handler == Handle \/ Look \/ Clear

Ended == ~Alive /\ UNCHANGED vars

Next == User \/ Main \/ Breakpoint \/ Exits \/ Handler \/ Ended

(* Both threads are scheduled; the user, and the input, may never come.    *)
Spec == Init /\ [][Next]_vars /\ WF_vars(Main \/ Breakpoint) /\ WF_vars(Handler)

-----------------------------------------------------------------------------
(* main.cpp:51-54: the handler ends the process only at a second SIGINT,   *)
(* when the request of the first is still waiting: neither of the two made *)
(* a break.                                                                *)
ExitNeedsTwo == ended = "EXITING" => sent >= 2 /\ breaks <= sent - 1

(* main.cpp:55-56, :73-74: a SIGINT makes at most one break; main( ) adds  *)
(* the one it starts with.                                                 *)
OneBreakEach == breaks <= sent + 1

(* main.cpp:73: a request the handler has left opens a console, unless the *)
(* process ends or the user keeps main( ) from finishing its ticks.        *)
RequestServed ==
  []<>(main = "poll") => (flag = "clear" ~> (main = "console" /\ should_break) \/ ~Alive)

(* main.cpp:58: no SIGINT stays in the queue.                              *)
SignalsHandled == pending > 0 ~> pending = 0 \/ ~Alive
=============================================================================
