------------------------------- MODULE Words -------------------------------
(***************************************************************************)
(* The number system and the instruction table of the virtual machine of   *)
(* vm.h / vm.cpp.                                                          *)
(*                                                                         *)
(* A memory cell, a register and a stack element are all uint16_t.  The    *)
(* program has MODULO = 32768, so a word is below 2 * MODULO; the models   *)
(* that TLC explores use a smaller MODULO and keep every relation between  *)
(* the widths: words have one bit more than numbers, the registers are     *)
(* named by the first words above the numbers.                             *)
(***************************************************************************)
EXTENDS Integers, Sequences

CONSTANTS
  MODULO,        (* 32768: numbers, and addresses, are below it            *)
  NREGS,         (* 8: how many registers there are                        *)
  BYTE,          (* 256: how many values a char has                        *)
  BitAnd(_, _),  (* the & of two uint16_t                                  *)
  BitOr(_, _)    (* the | of two uint16_t                                  *)

Number   == 0 .. MODULO - 1
Word     == 0 .. 2 * MODULO - 1
Address  == 0 .. MODULO - 1
RegIndex == 0 .. NREGS - 1
Char     == 0 .. BYTE - 1

NEWLINE == 10
EOF     == -1

ASSUME WordsAssumption ==
  /\ MODULO \in Nat
  /\ NREGS \in 1 .. MODULO
  /\ BYTE \in 1 .. MODULO
  /\ NEWLINE \in Char

(* & and | of two words are words, and of two numbers are numbers.         *)
ASSUME BitsAssumption ==
  /\ \A x, y \in Word : BitAnd(x, y) \in Word /\ BitOr(x, y) \in Word
  /\ \A x, y \in Number : BitAnd(x, y) \in Number /\ BitOr(x, y) \in Number

(***************************************************************************)
(* How a word is read: below REGISTER0 it is a literal, the NREGS words    *)
(* from REGISTER0 name registers, and validate rejects the rest.           *)
(***************************************************************************)
REGISTER0 == MODULO

(* Mutant of is_valid: validate lets one word too many through.            *)
is_valid_OffByOne(w) == w <= REGISTER0 + NREGS

is_value(w)    == w < REGISTER0
is_register(w) == REGISTER0 <= w /\ w < REGISTER0 + NREGS
is_valid(w)    == w < REGISTER0 + NREGS

(* Mutant of BitNot15: ~ of all the bits of the word.                      *)
BitNot15_AllBits(w) == 2 * MODULO - 1 - w

(* ~val on the low 15 bits, the top bit of val kept (inst_not).            *)
BitNot15(w) == IF w < MODULO THEN MODULO - 1 - w ELSE 3 * MODULO - 1 - w

(***************************************************************************)
(* instructions::decoder( ): position k + 1 holds the instruction of       *)
(* opcode k.                                                               *)
(***************************************************************************)
decoder ==
  << "HALT", "SET", "PUSH", "POP", "EQ", "GT", "JMP", "JT", "JF", "ADD", "MULT",
     "MOD", "AND", "OR", "NOT", "RMEM", "WMEM", "CALL", "RET", "OUT", "IN", "NOOP" >>

Instruction == { decoder[k] : k \in 1 .. 22 }

is_instruction(w) == w < 22

Decode(w) == decoder[w + 1]

(* decoded_inst_t::arg_count                                               *)
arg_count(inst) ==
  CASE inst \in {"HALT", "RET", "NOOP"} -> 0
    [] inst \in {"PUSH", "POP", "JMP", "CALL", "OUT", "IN"} -> 1
    [] inst \in {"SET", "JT", "JF", "NOT", "RMEM", "WMEM"} -> 2
    [] OTHER -> 3

(* decoded_inst_t::do_memory_trace                                         *)
do_memory_trace(inst) ==
  inst \in {"SET", "POP", "EQ", "GT", "ADD", "MULT", "MOD", "AND", "OR", "NOT",
            "RMEM", "WMEM", "IN"}
=============================================================================
