---------------------------- MODULE ParseAction ----------------------------
(***************************************************************************)
(* How a line typed at a console becomes a call: parse_action_t::parse and *)
(* the convert< uint16_t > of its words.                                   *)
(*                                                                         *)
(* A line is its first word and those after it.  A word is a natural       *)
(* number (or the name of a file, numbered too), Letters or, between two   *)
(* separators and after a last one, Empty.                                 *)
(***************************************************************************)
EXTENDS Words

CONSTANT Garbage   (* what a uint16_t nobody wrote to may hold              *)

ASSUME GarbageAssumption == Garbage \subseteq Word

Empty   == -1
Letters == -2

Line == [cmd : STRING, words : Seq(Nat \cup {Empty, Letters})]

Blank  == [cmd |-> "", words |-> << >>]
Repeat == [cmd |-> "r", words |-> << >>]

(* What parse looks at, and keeps as last_line: r is the line before it,   *)
(* blank if there is none.                                                 *)
Spoken(line, last_line) == IF line = Repeat THEN last_line ELSE line

(***************************************************************************)
(* The commands that take the rest of the line as it is; parse copies it   *)
(* from behind a separator that must be there (substr throws).             *)
(***************************************************************************)
Untokenized == {"saveasm", "savestate", "loadstate"}

NoRest(line) == line.cmd \in Untokenized /\ line.words = << >>

(***************************************************************************)
(* The number of tokens an operation asks for.  parse has erased the       *)
(* command, and the operations look for their operands from tokens[1] on:  *)
(* words[1] is read by none.                                               *)
(***************************************************************************)
Asked == [setip |-> 2, get_mem |-> 2, setreg |-> 3]

Answered(line) == line.cmd \in DOMAIN Asked => Len(line.words) = Asked[line.cmd]

(* Mutant of convert: a number wider than 16 bits keeps its width.         *)
convert_Wide(word) ==
  IF word = Empty THEN Garbage ELSE IF word = Letters THEN {0} ELSE {word}

(* The values convert may return: operator>> saturates, gives 0 for what   *)
(* is no number, and does not touch its result when there is nothing.      *)
convert(word) ==
  IF word = Empty THEN Garbage
  ELSE IF word = Letters THEN {0}
  ELSE IF word >= 2 * MODULO THEN {2 * MODULO - 1} ELSE {word}

(* convert( tokens[k] ) without a look at tokens.size( ).                  *)
Unchecked(words, k) == IF k <= Len(words) THEN convert(words[k]) ELSE Garbage
=============================================================================
