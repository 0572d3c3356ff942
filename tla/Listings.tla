------------------------------ MODULE Listings ------------------------------
(***************************************************************************)
(* What the listings of Disassembler show of the memory of a running       *)
(* machine, self-modified code included.                                   *)
(***************************************************************************)
EXTENDS VM, Disassembler

(***************************************************************************)
(* vm.cpp:344-371: a listing from instruction_ptr breaks its lines where   *)
(* the machine fetches its instructions: it is one line, and the listing   *)
(* from where the machine goes on; only that an OUT shares the line of one *)
(* before it, and the last OUT of memory ends the process.                 *)
(***************************************************************************)
ListingFollowsFetch ==
  [][ decoded = "none" /\ decoded' # "none" =>
        LET lines == Listing(memory, instruction_ptr, All)
            next  == instruction_ptr'
            rest  == Listing(memory, next, All)
        IN /\ lines[1] = instruction_ptr
           /\ Tail(lines) = IF decoded' # "OUT" THEN rest
                            ELSE IF next = MODULO THEN << Unfinished >>
                            ELSE IF memory[next] = OUT THEN Tail(rest) ELSE rest ]_vars

(***************************************************************************)
(* vm.cpp:310-313: listing all of memory (saveasm, to_assembler) ends the  *)
(* process only when one of the last three cells holds an opcode that      *)
(* wants more cells than there are; an OUT wants one more than it has.     *)
(***************************************************************************)
ListingEndsAtEdge ==
  EndsProcess(Listing(memory, 0, All)) =>
    \E k \in 1 .. 3 :
      LET w == memory[MODULO - k]
      IN is_instruction(w) /\ (arg_count(Decode(w)) >= k \/ (w = OUT /\ k = 2))

(***************************************************************************)
(* console.cpp:33-42: what tick <n> lists, for every n and wherever        *)
(* instruction_ptr points, counted in addresses (console.cpp:90 calls them *)
(* lines).  It is never more than n from instruction_ptr, and everything   *)
(* in memory that is less than n from it, but for one case: the sum of     *)
(* line 39 has 16 bits.  It leaves them only when instruction_ptr is       *)
(* outside memory, and then the range ends 65536 too early, perhaps before *)
(* it starts: what is nearest is not shown.                                *)
(***************************************************************************)
RangeAround ==
  \A n \in Word :
    LET range   == calc_range(instruction_ptr, n)
        Shown   == { a \in Address : range[1] <= a /\ a < range[2] }
        Near(d) == { a \in Address : instruction_ptr - d <= a /\ a <= instruction_ptr + d }
    IN /\ Shown \subseteq Near(n)
       /\ IF instruction_ptr < MODULO \/ instruction_ptr + n <= All
          THEN Near(n - 1) \subseteq Shown
          ELSE Shown = { a \in Near(n) : a < instruction_ptr + n - 2 * MODULO }
=============================================================================
