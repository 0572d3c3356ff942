--------------------------- MODULE InterruptProofs ---------------------------
(***************************************************************************)
(* The safety of the SIGINT protocol, for any number of signals.           *)
(*                                                                         *)
(* A request to break is one token that is handed on: from the queue to    *)
(* the handler, to the atomic flag, to main between its two lines, to      *)
(* should_break, and ends as a break or is dropped.  main starts with one  *)
(* more.  Nobody makes a token, which Conserved says, and no invariant of  *)
(* the protocol is inductive without it: types included, for the queue     *)
(* must not be longer than the signals sent.                               *)
(***************************************************************************)
EXTENDS Interrupt, TLAPS

One(p) == IF p THEN 1 ELSE 0

(* What main holds, up to and with the breaks it has made.                 *)
MainHolds == One(main \in {"start", "request"}) + One(main = "check" /\ should_break) + breaks

(* What the handler, the flag and the queue hold, and what an exit took.   *)
OthersHold ==
  pending + One(handler # "wait") + One(flag = "clear")
    + (IF ended = "EXITING" THEN 2 ELSE 0)

Conserved == 1 <= MainHolds /\ MainHolds + OthersHold <= sent + 1

(* Where should_break is clear: wherever main holds nothing and no console *)
(* is open (line 210 of vm.cpp), so that the flag alone tells a request.   *)
ClearOutsideConsole ==
  main \in {"start", "run", "reading", "poll", "request"} => ~should_break

IInv == TypeOK /\ Conserved /\ ClearOutsideConsole

USE DEF One

-----------------------------------------------------------------------------
(* The program starts with main's own token, and nobody else has one.      *)
LEMMA InitIInv == Init => IInv
<1> SUFFICES ASSUME Init PROVE IInv
  OBVIOUS
<1>1. TypeOK
  <2>1. 0 \in 0 .. MaxSignals
    BY InterruptAssumption
  <2> QED
    BY <2>1 DEF Init, TypeOK
<1>2. MainHolds = 1 /\ OthersHold = 0
  BY DEF Init, MainHolds, OthersHold
<1>3. Conserved
  BY <1>2 DEF Init, Conserved
<1>4. ClearOutsideConsole
  BY DEF Init, ClearOutsideConsole
<1> QED
  BY <1>1, <1>3, <1>4 DEF IInv

(* Each step of main keeps IInv: a token goes from the flag to line 74, to *)
(* should_break, to a break, or is dropped by line 210.                    *)
LEMMA MainIInv == IInv /\ (Main \/ Breakpoint \/ Exits) => IInv'
<1> SUFFICES ASSUME IInv, Main \/ Breakpoint \/ Exits PROVE IInv'
  OBVIOUS
<1> USE DEF IInv, TypeOK, Conserved, MainHolds, OthersHold, ClearOutsideConsole, At, Alive
<1>1. CASE Begin
  BY <1>1 DEF Begin
<1>2. CASE Check
  BY <1>2 DEF Check
<1>3. CASE Instruction
  BY <1>3 DEF Instruction
<1>4. CASE Poll
  BY <1>4 DEF Poll
<1>5. CASE Request
  BY <1>5 DEF Request
<1>6. CASE Breakpoint
  BY <1>6 DEF Breakpoint
<1>7. CASE Exits
  BY <1>7 DEF Exits
<1> QED
  BY <1>1, <1>2, <1>3, <1>4, <1>5, <1>6, <1>7 DEF Main

(* So does each step of the user and of the input; a signal adds a token   *)
(* and is counted.                                                         *)
LEMMA UserIInv == IInv /\ User => IInv'
<1> SUFFICES ASSUME IInv, User PROVE IInv'
  OBVIOUS
<1> USE DEF IInv, TypeOK, Conserved, MainHolds, OthersHold, ClearOutsideConsole, At, Alive
<1>1. CASE Go
  BY <1>1 DEF Go
<1>2. CASE ConsoleTick
  BY <1>2 DEF ConsoleTick
<1>3. CASE Read
  <2>1. CASE main' = "poll" /\ UNCHANGED should_break
    BY <1>3, <2>1 DEF Read
  <2>2. CASE main' = "eof" /\ should_break' = TRUE
    <3>1. TypeOK' /\ ClearOutsideConsole'
      BY <1>3, <2>2 DEF Read
    <3>2. MainHolds' = MainHolds /\ OthersHold' = OthersHold
      BY <1>3, <2>2 DEF Read
    <3> QED
      BY <1>3, <3>1, <3>2 DEF Read
  <2> QED
    BY <1>3, <2>1, <2>2 DEF Read
<1>4. CASE LeaveEOF
  BY <1>4 DEF LeaveEOF
<1>5. CASE Sigint
  BY <1>5, InterruptAssumption DEF Sigint
<1> QED
  BY <1>1, <1>2, <1>3, <1>4, <1>5 DEF User

(* So does each step of the handler: it takes one token from the queue and *)
(* puts at most one into the flag; an exit takes that of the flag too.     *)
LEMMA HandlerIInv == IInv /\ Handler => IInv'
<1> SUFFICES ASSUME IInv, Handler PROVE IInv'
  OBVIOUS
<1> USE DEF IInv, TypeOK, Conserved, MainHolds, OthersHold, ClearOutsideConsole, Alive
<1>1. CASE Handle
  BY <1>1, InterruptAssumption DEF Handle
<1>2. CASE Look
  BY <1>2 DEF Look
<1>3. CASE Clear
  BY <1>3 DEF Clear
<1> QED
  BY <1>1, <1>2, <1>3 DEF Handler

(* IInv is inductive.                                                      *)
THEOREM Inductive == Spec => []IInv
<1>1. IInv /\ UNCHANGED vars => IInv'
  BY DEF vars, IInv, TypeOK, Conserved, MainHolds, OthersHold, ClearOutsideConsole
<1>2. IInv /\ [Next]_vars => IInv'
  BY <1>1, MainIInv, UserIInv, HandlerIInv DEF Next, Ended
<1> QED
  BY <1>2, InitIInv, PTL DEF Spec

(* For any number of signals the protocol's variables keep their types.    *)
THEOREM TypeCorrect == Spec => []TypeOK
<1>1. IInv => TypeOK
  BY DEF IInv
<1> QED
  BY <1>1, Inductive, PTL

(***************************************************************************)
(* For any number of signals and any interleaving of the two threads, a    *)
(* SIGINT makes at most one break (main.cpp:55-56, 73-74).                 *)
(***************************************************************************)
THEOREM SignalsBreakOnce == Spec => []OneBreakEach
<1>1. IInv => OneBreakEach
  BY DEF IInv, TypeOK, Conserved, MainHolds, OthersHold, OneBreakEach
<1> QED
  BY <1>1, Inductive, PTL

(***************************************************************************)
(* For any number of signals, the handler exits only on a SIGINT that      *)
(* finds the request of another one waiting (main.cpp:51-54).              *)
(***************************************************************************)
THEOREM OneSignalNeverExits == Spec => []ExitNeedsTwo
<1>1. IInv => ExitNeedsTwo
  BY DEF IInv, TypeOK, Conserved, MainHolds, OthersHold, ExitNeedsTwo
<1> QED
  BY <1>1, Inductive, PTL
=============================================================================
