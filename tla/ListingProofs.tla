---------------------------- MODULE ListingProofs ----------------------------
(***************************************************************************)
(* Theorems about the listings of a running machine's memory, for every    *)
(* memory size and every program.  What a listing is, a recursive          *)
(* function, is reasoned about by taking the lowest place where the claim  *)
(* would fail (Smallest, of StateFileProofs).                              *)
(***************************************************************************)
EXTENDS Listings, VMProofs

USE DEF Word, Address

(* A sum that fits 16 bits is not changed by storing it in 16 bits.        *)
LEMMA SumThatFits ==
  ASSUME NEW x \in Nat, x <= All
  PROVE  x % (2 * MODULO) = x
BY ConstantFacts DEF All

-----------------------------------------------------------------------------
(* The recursive functions of dump_memory.                                 *)

(* The equation of the function in AfterOuts, on the last n addresses.     *)
OutsUpTo(g, mem, n) ==
  \A b \in Address : b >= MODULO - n =>
    g[b] = IF b + 2 >= MODULO THEN Unfinished
           ELSE IF mem[b + 2] = OUT THEN g[b + 2]
           ELSE b + 2

(* It has a solution.                                                      *)
LEMMA OutsSolved ==
  ASSUME NEW mem
  PROVE  \E g \in [Address -> Int] : OutsUpTo(g, mem, MODULO)
<1> SUFFICES ASSUME ~ \E g \in [Address -> Int] : OutsUpTo(g, mem, MODULO) PROVE FALSE
  OBVIOUS
<1> MODULO \in Nat
  BY ConstantFacts
<1>1. PICK T : T = { n \in Nat : n <= MODULO /\ ~ \E g \in [Address -> Int] : OutsUpTo(g, mem, n) }
  OBVIOUS
<1>2. MODULO \in T /\ T \in SUBSET Nat
  BY <1>1
<1>3. PICK n \in T : \A m \in T : n <= m
  BY <1>1, <1>2, Smallest
<1>4. n \in Nat /\ n <= MODULO /\ ~ \E g \in [Address -> Int] : OutsUpTo(g, mem, n)
  BY <1>1, <1>3
<1>5. n # 0
  <2>1. [b \in Address |-> 0] \in [Address -> Int]
    OBVIOUS
  <2>2. OutsUpTo([b \in Address |-> 0], mem, 0)
    BY DEF OutsUpTo
  <2> QED
    BY <1>4, <2>1, <2>2
<1>6. n - 1 \in Nat /\ n - 1 <= MODULO /\ n - 1 \notin T
  BY <1>3, <1>4, <1>5
<1>7. PICK g \in [Address -> Int] : OutsUpTo(g, mem, n - 1)
  BY <1>1, <1>6
<1>8. PICK a : a = MODULO - n
  OBVIOUS
<1>9. PICK v : v = IF a + 2 >= MODULO THEN Unfinished
                   ELSE IF mem[a + 2] = OUT THEN g[a + 2] ELSE a + 2
  OBVIOUS
<1>10. a \in Address /\ v \in Int
  BY <1>4, <1>5, <1>7, <1>8, <1>9 DEF Unfinished
<1>11. PICK h : h = [g EXCEPT ![a] = v]
  OBVIOUS
<1>12. h \in [Address -> Int] /\ h[a] = v /\ \A b \in Address : b # a => h[b] = g[b]
  BY <1>7, <1>10, <1>11
<1>13. OutsUpTo(h, mem, n)
  <2> SUFFICES ASSUME NEW b \in Address, b >= MODULO - n
               PROVE  h[b] = IF b + 2 >= MODULO THEN Unfinished
                             ELSE IF mem[b + 2] = OUT THEN h[b + 2] ELSE b + 2
    BY DEF OutsUpTo
  <2>1. b + 2 < MODULO => b + 2 \in Address /\ h[b + 2] = g[b + 2]
    BY <1>8, <1>10, <1>12
  <2>2. CASE b = a
    BY <1>9, <1>12, <2>1, <2>2
  <2>3. CASE b # a
    <3>1. h[b] = g[b] /\ b >= MODULO - (n - 1)
      BY <1>4, <1>8, <1>12, <2>3
    <3> QED
      BY <1>7, <2>1, <3>1 DEF OutsUpTo
  <2> QED
    BY <2>2, <2>3
<1> QED
  BY <1>4, <1>12, <1>13

(* Consecutive OUTs share a line (vm.cpp:353-362).                         *)
LEMMA AfterOutsStep ==
  ASSUME NEW mem, NEW a \in Address
  PROVE  AfterOuts(mem, a) = IF a + 2 >= MODULO THEN Unfinished
                             ELSE IF mem[a + 2] = OUT THEN AfterOuts(mem, a + 2)
                             ELSE a + 2
<1> DEFINE after == CHOOSE f : f = [b \in Address |->
                      IF b + 2 >= MODULO THEN Unfinished
                      ELSE IF mem[b + 2] = OUT THEN f[b + 2] ELSE b + 2]
<1>1. PICK g \in [Address -> Int] : OutsUpTo(g, mem, MODULO)
  BY OutsSolved
<1>2. MODULO \in Nat /\ \A b \in Address : b >= MODULO - MODULO
  BY ConstantFacts
<1>3. g = [b \in Address |-> IF b + 2 >= MODULO THEN Unfinished
                             ELSE IF mem[b + 2] = OUT THEN g[b + 2] ELSE b + 2]
  BY <1>1, <1>2 DEF OutsUpTo
<1>4. after = [b \in Address |-> IF b + 2 >= MODULO THEN Unfinished
                                 ELSE IF mem[b + 2] = OUT THEN after[b + 2] ELSE b + 2]
  BY <1>3
<1>5. \A b : AfterOuts(mem, b) = after[b]
  BY DEF AfterOuts
<1> HIDE DEF after
<1>6. after[a] = IF a + 2 >= MODULO THEN Unfinished
                 ELSE IF mem[a + 2] = OUT THEN after[a + 2] ELSE a + 2
  BY <1>4
<1> QED
  BY <1>5, <1>6

(* Where a line that starts at a ends: behind a, or not at all.            *)
LEMMA AfterOutsType ==
  ASSUME NEW mem, NEW a \in Address
  PROVE  AfterOuts(mem, a) \in {Unfinished} \cup (a + 1 .. MODULO)
<1> DEFINE Good(b) == AfterOuts(mem, b) \in {Unfinished} \cup (b + 1 .. MODULO)
<1> SUFFICES ASSUME ~Good(a) PROVE FALSE
  OBVIOUS
<1> MODULO \in Nat
  BY ConstantFacts
<1>1. PICK T : T = { n \in 0 .. MODULO : \E b \in Address : n = MODULO - b /\ ~Good(b) }
  OBVIOUS
<1>2. MODULO - a \in T /\ T \in SUBSET Nat
  BY <1>1
<1>3. PICK n \in T : \A m \in T : n <= m
  BY <1>2, Smallest
<1>4. PICK b \in Address : n = MODULO - b /\ ~Good(b)
  BY <1>1, <1>3
<1>5. b + 2 < MODULO /\ mem[b + 2] = OUT /\ AfterOuts(mem, b) = AfterOuts(mem, b + 2)
  BY <1>4, AfterOutsStep
<1> HIDE DEF Good
<1>6. b + 2 \in Address /\ MODULO - (b + 2) \in 0 .. MODULO /\ ~(n <= MODULO - (b + 2))
  BY <1>4, <1>5
<1>7. Good(b + 2)
  BY <1>1, <1>3, <1>6
<1> QED
  BY <1>4, <1>5, <1>6, <1>7 DEF Good

LEMMA AfterLineType ==
  ASSUME NEW mem, NEW a \in Address
  PROVE  AfterLine(mem, a) \in {Unfinished} \cup (a + 1 .. MODULO)
<1>1. MODULO \in Nat /\ arg_count(Decode(mem[a])) \in 0 .. 3
  BY ConstantFacts, ArgCountType
<1>2. AfterOuts(mem, a) \in {Unfinished} \cup (a + 1 .. MODULO)
  BY AfterOutsType
<1> QED
  BY <1>1, <1>2 DEF AfterLine

(* Where a listing may go on, or has ended.                                *)
Places == Address \cup {MODULO, Unfinished}

(* The equation of the function in Listing, for all of memory, on the last *)
(* n addresses.                                                            *)
LinesUpTo(g, mem, n) ==
  \A a \in Places : a = Unfinished \/ a >= MODULO - n =>
    g[a] = IF a = Unfinished THEN << Unfinished >>
           ELSE IF a >= MODULO THEN << >>
           ELSE << a >> \o g[AfterLine(mem, a)]

(* It has a solution.                                                      *)
LEMMA LinesSolved ==
  ASSUME NEW mem
  PROVE  \E g \in [Places -> Seq(Int)] : LinesUpTo(g, mem, MODULO)
<1> SUFFICES ASSUME ~ \E g \in [Places -> Seq(Int)] : LinesUpTo(g, mem, MODULO) PROVE FALSE
  OBVIOUS
<1> MODULO \in Nat
  BY ConstantFacts
<1>1. PICK T : T = { n \in Nat : n <= MODULO /\ ~ \E g \in [Places -> Seq(Int)] : LinesUpTo(g, mem, n) }
  OBVIOUS
<1>2. MODULO \in T /\ T \in SUBSET Nat
  BY <1>1
<1>3. PICK n \in T : \A m \in T : n <= m
  BY <1>2, Smallest
<1>4. n \in Nat /\ n <= MODULO /\ ~ \E g \in [Places -> Seq(Int)] : LinesUpTo(g, mem, n)
  BY <1>1, <1>3
<1>5. n # 0
  <2>1. PICK g : g = [a \in Places |-> IF a = Unfinished THEN << Unfinished >> ELSE << >>]
    OBVIOUS
  <2>2. << Unfinished >> \in Seq(Int) /\ << >> \in Seq(Int)
    BY EmptySeq DEF Unfinished
  <2>3. g \in [Places -> Seq(Int)]
    BY <2>1, <2>2
  <2>4. LinesUpTo(g, mem, 0)
    <3> SUFFICES ASSUME NEW a \in Places, a = Unfinished \/ a >= MODULO - 0
                 PROVE  g[a] = IF a = Unfinished THEN << Unfinished >>
                               ELSE IF a >= MODULO THEN << >>
                               ELSE << a >> \o g[AfterLine(mem, a)]
      BY DEF LinesUpTo
    <3> QED
      BY <2>1
  <2> QED
    BY <1>4, <2>3, <2>4
<1>6. n - 1 \in Nat /\ n - 1 <= MODULO /\ n - 1 \notin T
  BY <1>3, <1>4, <1>5
<1>7. PICK g \in [Places -> Seq(Int)] : LinesUpTo(g, mem, n - 1)
  BY <1>1, <1>6
<1>8. PICK a : a = MODULO - n
  OBVIOUS
<1>9. a \in Address /\ a \in Places /\ a # Unfinished /\ a < MODULO
  BY <1>4, <1>5, <1>8 DEF Places, Unfinished
<1>10. PICK v : v = << a >> \o g[AfterLine(mem, a)]
  OBVIOUS
<1>11. \A b \in Address : AfterLine(mem, b) \in Places /\ AfterLine(mem, b) # b
                          /\ (AfterLine(mem, b) = Unfinished \/ AfterLine(mem, b) > b)
  BY AfterLineType DEF Places, Unfinished
<1>12. v \in Seq(Int)
  <2>1. a \in Int /\ AfterLine(mem, a) \in Places
    BY <1>9, <1>11
  <2>2. << a >> \in Seq(Int) /\ g[AfterLine(mem, a)] \in Seq(Int)
    BY <1>7, <2>1
  <2> QED
    BY <1>10, <2>2, ConcatProperties
<1>13. PICK h : h = [g EXCEPT ![a] = v]
  OBVIOUS
<1>14. h \in [Places -> Seq(Int)] /\ h[a] = v /\ \A b \in Places : b # a => h[b] = g[b]
  BY <1>7, <1>9, <1>12, <1>13
<1>15. LinesUpTo(h, mem, n)
  <2> SUFFICES ASSUME NEW b \in Places, b = Unfinished \/ b >= MODULO - n
               PROVE  h[b] = IF b = Unfinished THEN << Unfinished >>
                             ELSE IF b >= MODULO THEN << >>
                             ELSE << b >> \o h[AfterLine(mem, b)]
    BY DEF LinesUpTo
  <2>1. CASE b = a
    <3>1. h[AfterLine(mem, a)] = g[AfterLine(mem, a)]
      BY <1>9, <1>11, <1>14
    <3> QED
      BY <1>9, <1>10, <1>14, <2>1, <3>1
  <2>2. CASE b # a
    <3>1. h[b] = g[b] /\ (b = Unfinished \/ b >= MODULO - (n - 1))
      BY <1>4, <1>8, <1>14, <2>2 DEF Places
    <3>2. g[b] = IF b = Unfinished THEN << Unfinished >>
                 ELSE IF b >= MODULO THEN << >>
                 ELSE << b >> \o g[AfterLine(mem, b)]
      BY <1>7, <3>1 DEF LinesUpTo
    <3>3. b # Unfinished /\ b < MODULO => h[AfterLine(mem, b)] = g[AfterLine(mem, b)]
      <4> SUFFICES ASSUME b # Unfinished, b < MODULO
                   PROVE  h[AfterLine(mem, b)] = g[AfterLine(mem, b)]
        OBVIOUS
      <4>1. b \in Address /\ b > a
        BY <1>8, <2>2 DEF Places, Unfinished
      <4>2. AfterLine(mem, b) \in Places /\ AfterLine(mem, b) # a
        BY <1>9, <1>11, <4>1
      <4> QED
        BY <1>14, <4>2
    <3> QED
      BY <3>1, <3>2, <3>3
  <2> QED
    BY <2>1, <2>2
<1> QED
  BY <1>4, <1>14, <1>15

(* Every solution is made of listings.                                     *)
LEMMA LinesType ==
  ASSUME NEW mem, NEW f, NEW a \in Address \cup {MODULO},
         f[MODULO] = << >>, f[Unfinished] = << Unfinished >>,
         \A b \in Address : f[b] = << b >> \o f[AfterLine(mem, b)]
  PROVE  f[a] \in Seq(Int)
<1> SUFFICES ASSUME f[a] \notin Seq(Int) PROVE FALSE
  OBVIOUS
<1> MODULO \in Nat
  BY ConstantFacts
<1>1. PICK T : T = { n \in 0 .. MODULO : f[MODULO - n] \notin Seq(Int) }
  OBVIOUS
<1>2. MODULO - a \in T /\ T \in SUBSET Nat
  <2>1. MODULO - (MODULO - a) = a /\ MODULO - a \in 0 .. MODULO
    OBVIOUS
  <2> QED
    BY <1>1, <2>1
<1>3. PICK n \in T : \A m \in T : n <= m
  BY <1>2, Smallest
<1>4. PICK b : b = MODULO - n
  OBVIOUS
<1>5. n \in 0 .. MODULO /\ f[b] \notin Seq(Int) /\ b \in 0 .. MODULO
  BY <1>1, <1>3, <1>4
<1>6. << >> \in Seq(Int) /\ << Unfinished >> \in Seq(Int)
  BY EmptySeq DEF Unfinished
<1>7. b \in Address
  <2>1. b # MODULO
    BY <1>5, <1>6
  <2> QED
    BY <1>5, <2>1
<1>8. f[AfterLine(mem, b)] \in Seq(Int)
  <2>1. CASE AfterLine(mem, b) = Unfinished
    BY <1>6, <2>1
  <2>2. CASE AfterLine(mem, b) \in b + 1 .. MODULO
    <3>1. PICK c : c = AfterLine(mem, b)
      OBVIOUS
    <3>2. MODULO - c \in 0 .. MODULO /\ ~(n <= MODULO - c) /\ MODULO - (MODULO - c) = c
      BY <1>4, <1>5, <1>7, <2>2, <3>1
    <3>3. MODULO - c \notin T
      BY <1>3, <3>2
    <3>4. f[c] \in Seq(Int)
      BY <1>1, <3>2, <3>3
    <3> QED
      BY <3>1, <3>4
  <2> QED
    BY <1>7, <2>1, <2>2, AfterLineType
<1>9. << b >> \in Seq(Int) /\ f[b] = << b >> \o f[AfterLine(mem, b)]
  <2>1. b \in Int
    BY <1>7
  <2>2. << b >> \in Seq(Int)
    BY ONLY <2>1
  <2> QED
    BY <1>7, <2>2
<1> QED
  BY <1>5, <1>8, <1>9, ConcatProperties

(* A listing to the end of memory: a line, and the listing from where that *)
(* line ends (vm.cpp:298-372).                                             *)
LEMMA ListingStep ==
  ASSUME NEW mem
  PROVE  /\ Listing(mem, MODULO, All) = << >>
         /\ \A a \in Address \cup {MODULO} : Listing(mem, a, All) \in Seq(Int)
         /\ \A a \in Address :
              Listing(mem, a, All) =
                << a >> \o (IF AfterLine(mem, a) = Unfinished THEN << Unfinished >>
                            ELSE Listing(mem, AfterLine(mem, a), All))
<1> DEFINE stop  == IF All > MODULO THEN MODULO ELSE All
           lines == CHOOSE f : f = [a \in Address \cup {MODULO, Unfinished} |->
                      IF a = Unfinished THEN << Unfinished >>
                      ELSE IF a >= stop THEN << >>
                      ELSE << a >> \o f[AfterLine(mem, a)]]
<1>1. MODULO \in Nat /\ MODULO >= 11 /\ All > MODULO /\ stop = MODULO
  BY ConstantFacts DEF All
<1>2. PICK g \in [Places -> Seq(Int)] : LinesUpTo(g, mem, MODULO)
  BY LinesSolved
<1>3. \A a \in Places : a = Unfinished \/ a >= MODULO - MODULO
  BY <1>1 DEF Places
<1> HIDE DEF stop
<1>4. g = [a \in Address \cup {MODULO, Unfinished} |->
             IF a = Unfinished THEN << Unfinished >>
             ELSE IF a >= stop THEN << >>
             ELSE << a >> \o g[AfterLine(mem, a)]]
  BY <1>1, <1>2, <1>3 DEF LinesUpTo, Places
<1>5. lines = [a \in Address \cup {MODULO, Unfinished} |->
                 IF a = Unfinished THEN << Unfinished >>
                 ELSE IF a >= stop THEN << >>
                 ELSE << a >> \o lines[AfterLine(mem, a)]]
  BY <1>4
<1>6. \A a : Listing(mem, a, All) = lines[IF a > stop THEN stop ELSE a]
  BY DEF Listing, stop
<1>6a. \A a \in Address \cup {MODULO} : Listing(mem, a, All) = lines[a]
  <2> HIDE DEF lines
  <2> QED
    BY <1>1, <1>6
<1> HIDE DEF lines
<1>7. lines[MODULO] = << >> /\ lines[Unfinished] = << Unfinished >>
  BY <1>1, <1>5 DEF Unfinished
<1>8. \A a \in Address : lines[a] = << a >> \o lines[AfterLine(mem, a)]
  <2> SUFFICES ASSUME NEW a \in Address
               PROVE  lines[a] = << a >> \o lines[AfterLine(mem, a)]
    OBVIOUS
  <2>1. a \in Address \cup {MODULO, Unfinished} /\ a # Unfinished /\ ~(a >= stop)
    BY <1>1 DEF Unfinished
  <2>2. PICK e : e = << a >> \o lines[AfterLine(mem, a)]
    OBVIOUS
  <2>3. lines[a] = IF a = Unfinished THEN << Unfinished >>
                   ELSE IF a >= stop THEN << >> ELSE e
    BY <1>5, <2>1, <2>2
  <2> QED
    BY <2>1, <2>2, <2>3
<1>9. \A a \in Address : AfterLine(mem, a) = Unfinished \/ AfterLine(mem, a) \in Address \cup {MODULO}
  BY <1>1, AfterLineType
<1> QED
  <2>1. ASSUME NEW a \in Address \cup {MODULO}
        PROVE  lines[a] \in Seq(Int)
    BY <1>7, <1>8, LinesType
  <2>2. MODULO \in Address \cup {MODULO}
    OBVIOUS
  <2>3. ASSUME NEW a \in Address
        PROVE  Listing(mem, a, All) =
                << a >> \o (IF AfterLine(mem, a) = Unfinished THEN << Unfinished >>
                            ELSE Listing(mem, AfterLine(mem, a), All))
    BY <1>6a, <1>7, <1>8, <1>9
  <2> QED
    BY <1>6a, <1>7, <2>1, <2>2, <2>3

(* A sum of two words that does not fit loses 65536.                       *)
LEMMA SumThatWraps ==
  ASSUME NEW x \in Nat, x > All, x < 4 * MODULO
  PROVE  x % (2 * MODULO) = x - 2 * MODULO
BY ConstantFacts DEF All

(***************************************************************************)
(* console.cpp:33-42, for every program and every n a word can hold: the   *)
(* range tick <n> lists is what lies around instruction_ptr, and what is   *)
(* missing when the sum of line 39 leaves its 16 bits.                     *)
(***************************************************************************)
THEOREM RangeIsAround == Spec => []RangeAround
<1>1. TypeOK => RangeAround
  <2> SUFFICES ASSUME TypeOK, NEW n \in Word
               PROVE  LET range == calc_range(instruction_ptr, n)
                          Shown == { a \in Address : range[1] <= a /\ a < range[2] }
                          Near(d) == { a \in Address :
                                         instruction_ptr - d <= a /\ a <= instruction_ptr + d }
                      IN /\ Shown \subseteq Near(n)
                         /\ IF instruction_ptr < MODULO \/ instruction_ptr + n <= All
                            THEN Near(n - 1) \subseteq Shown
                            ELSE Shown = { a \in Near(n) :
                                             a < instruction_ptr + n - 2 * MODULO }
    BY DEF RangeAround
  <2>1. /\ instruction_ptr \in Nat /\ instruction_ptr < 2 * MODULO
        /\ n \in Nat /\ n < 2 * MODULO /\ instruction_ptr + n \in Nat
        /\ MODULO \in Nat /\ All = 2 * MODULO - 1
    <3>1. instruction_ptr \in Word
      BY DEF TypeOK, MachineTypeOK
    <3>2. MODULO \in Nat /\ MODULO >= 11
      BY ConstantFacts
    <3> QED
      BY <3>1, <3>2 DEF All
  <2>2. (instruction_ptr + n) % (2 * MODULO) =
         IF instruction_ptr + n <= All THEN instruction_ptr + n
         ELSE instruction_ptr + n - 2 * MODULO
    <3>1. instruction_ptr + n <= All => (instruction_ptr + n) % (2 * MODULO) = instruction_ptr + n
      BY <2>1, SumThatFits
    <3>2. ~(instruction_ptr + n <= All)
            => (instruction_ptr + n) % (2 * MODULO) = instruction_ptr + n - 2 * MODULO
      <4>1. instruction_ptr + n < 4 * MODULO
        BY <2>1
      <4>2. ~(instruction_ptr + n <= All) => instruction_ptr + n > All
        BY <2>1
      <4> QED
        BY <2>1, <4>1, <4>2, SumThatWraps
    <3> QED
      BY <3>1, <3>2
  <2> DEFINE from == calc_range(instruction_ptr, n)[1]
             to   == calc_range(instruction_ptr, n)[2]
  <2>3. from = IF instruction_ptr > n THEN instruction_ptr - n ELSE 0
    BY DEF calc_range
  <2>4. to = IF instruction_ptr >= MODULO \/ MODULO - 1 - instruction_ptr > n
             THEN IF instruction_ptr + n <= All THEN instruction_ptr + n
                  ELSE instruction_ptr + n - 2 * MODULO
             ELSE All
    BY <2>2 DEF calc_range
  <2> HIDE DEF from, to
  <2>5. ASSUME NEW a \in Address
        PROVE  a \in Nat /\ a < MODULO
    BY <2>1
  <2>6. ASSUME NEW a \in Address, from <= a, a < to
        PROVE  instruction_ptr - n <= a /\ a <= instruction_ptr + n
    BY <2>1, <2>3, <2>4, <2>5, <2>6
  <2>7. ASSUME instruction_ptr < MODULO \/ instruction_ptr + n <= All, NEW a \in Address,
               instruction_ptr - (n - 1) <= a, a <= instruction_ptr + (n - 1)
        PROVE  from <= a /\ a < to
    BY <2>1, <2>3, <2>4, <2>5, <2>7
  <2>8. ASSUME ~(instruction_ptr < MODULO \/ instruction_ptr + n <= All), NEW a \in Address
        PROVE  from <= a /\ a < to <=>
                 /\ instruction_ptr - n <= a /\ a <= instruction_ptr + n
                 /\ a < instruction_ptr + n - 2 * MODULO
    BY <2>1, <2>3, <2>4, <2>5, <2>8
  <2> QED
    BY <2>6, <2>7, <2>8 DEF from, to
<1> QED
  BY <1>1, TypeCorrect, PTL

-----------------------------------------------------------------------------
(* OUT is the instruction of one opcode only.                              *)
LEMMA DecodeOut ==
  ASSUME NEW w \in Word, is_instruction(w)
  PROVE  Decode(w) = "OUT" <=> w = OUT
<1>1. \/ w = 0 \/ w = 1 \/ w = 2 \/ w = 3 \/ w = 4 \/ w = 5 \/ w = 6 \/ w = 7
      \/ w = 8 \/ w = 9 \/ w = 10 \/ w = 11 \/ w = 12 \/ w = 13 \/ w = 14
      \/ w = 15 \/ w = 16 \/ w = 17 \/ w = 18 \/ w = 19 \/ w = 20 \/ w = 21
  BY ConstantFacts DEF is_instruction
<1> QED
  BY <1>1 DEF Decode, decoder, OUT

(* A line, and the rest of the listing.                                    *)
LEMMA FirstLine ==
  ASSUME NEW a \in Int, NEW rest \in Seq(Int), NEW s, s = << a >> \o rest
  PROVE  s[1] = a /\ Tail(s) = rest
<1>1. s \in Seq(Int) /\ Len(s) = 1 + Len(rest) /\ Len(rest) \in Nat
  BY ConcatProperties, LenProperties
<1>2. \A i \in 1 .. Len(s) : s[i] = IF i <= 1 THEN a ELSE rest[i - 1]
  BY ConcatProperties
<1>3. s # << >>
  BY <1>1, EmptySeq
<1>4. Tail(s) \in Seq(Int) /\ Len(Tail(s)) = Len(s) - 1
      /\ \A i \in 1 .. Len(Tail(s)) : Tail(s)[i] = s[i + 1]
  BY <1>1, <1>3, HeadTailProperties
<1>5. \A i \in 1 .. Len(rest) : Tail(s)[i] = rest[i]
  BY <1>1, <1>2, <1>4
<1>6. Tail(s) = rest
  BY <1>1, <1>4, <1>5, SeqEqual
<1> QED
  BY <1>1, <1>2, <1>6

(* The listing from an address, taken apart.                               *)
LEMMA ListingParts ==
  ASSUME NEW mem, NEW a \in Address
  PROVE  /\ Listing(mem, a, All)[1] = a
         /\ Tail(Listing(mem, a, All)) =
              IF AfterLine(mem, a) = Unfinished THEN << Unfinished >>
              ELSE Listing(mem, AfterLine(mem, a), All)
<1>1. PICK rest : rest = IF AfterLine(mem, a) = Unfinished THEN << Unfinished >>
                         ELSE Listing(mem, AfterLine(mem, a), All)
  OBVIOUS
<1>2. Listing(mem, a, All) = << a >> \o rest
  BY <1>1, ListingStep
<1>3. rest \in Seq(Int)
  <2>1. << Unfinished >> \in Seq(Int)
    BY DEF Unfinished
  <2>2. CASE AfterLine(mem, a) \in a + 1 .. MODULO
    <3>1. AfterLine(mem, a) \in Address \cup {MODULO}
      BY <2>2, ConstantFacts
    <3>2. Listing(mem, AfterLine(mem, a), All) \in Seq(Int)
      BY <3>1, ListingStep
    <3> QED
      BY <1>1, <2>1, <3>2
  <2>3. CASE AfterLine(mem, a) = Unfinished
    BY <1>1, <2>1, <2>3
  <2> QED
    BY <2>2, <2>3, AfterLineType
<1>4. a \in Int
  BY ConstantFacts
<1> QED
  BY <1>1, <1>2, <1>3, <1>4, FirstLine

(***************************************************************************)
(* For every program, self-modified or not, and every memory size: a       *)
(* listing from instruction_ptr breaks its lines where the machine fetches *)
(* its instructions (vm.cpp:344-371).                                      *)
(***************************************************************************)
THEOREM ListingShowsExecution == Spec => ListingFollowsFetch
<1> DEFINE next == instruction_ptr'
           rest == Listing(memory, next, All)
<1>1. ASSUME TypeOK, [Next]_vars, decoded = "none", decoded' # "none"
      PROVE  LET lines == Listing(memory, instruction_ptr, All)
             IN /\ lines[1] = instruction_ptr
                /\ Tail(lines) = IF decoded' # "OUT" THEN rest
                                 ELSE IF next = MODULO THEN << Unfinished >>
                                 ELSE IF memory[next] = OUT THEN Tail(rest) ELSE rest
  <2>1. FetchOperands /\ decoded' = Fetched
    BY <1>1 DEF Next, Fetch, Instruct, Ended, vars
  <2>2. PICK a : a = instruction_ptr
    OBVIOUS
  <2>3. PICK n : n = arg_count(Fetched)
    OBVIOUS
  <2>4. /\ a \in Address /\ is_instruction(memory[a]) /\ Fetched = Decode(memory[a])
        /\ \A i \in 1 .. n : a + i \in Address
        /\ next = a + 1 + n
    BY <2>1, <2>2, <2>3 DEF FetchOperands, CanFetch, Fetched
  <2>5. n \in 0 .. 3 /\ MODULO \in Nat /\ memory[a] \in Word
    BY <1>1, <2>3, <2>4, ArgCountType, ConstantFacts DEF TypeOK, MachineTypeOK
  <2>6. a + n < MODULO
    BY <2>4, <2>5
  <2>7. /\ Listing(memory, a, All)[1] = a
        /\ Tail(Listing(memory, a, All)) =
             IF AfterLine(memory, a) = Unfinished THEN << Unfinished >>
             ELSE Listing(memory, AfterLine(memory, a), All)
    BY <2>4, ListingParts
  <2>8. decoded' = "OUT" <=> memory[a] = OUT
    BY <2>1, <2>4, <2>5, DecodeOut
  <2> HIDE DEF next
  <2>9. CASE decoded' # "OUT"
    <3>1. AfterLine(memory, a) = next
      BY <2>3, <2>4, <2>5, <2>6, <2>8, <2>9 DEF AfterLine
    <3>2. next # Unfinished
      BY <2>4, <2>5 DEF Unfinished
    <3> QED
      BY <2>2, <2>7, <2>9, <3>1, <3>2
  <2>10. CASE decoded' = "OUT"
    <3>1. n = 1 /\ next = a + 2 /\ next \in Address \cup {MODULO}
      BY <2>1, <2>3, <2>4, <2>5, <2>6, <2>10 DEF arg_count
    <3>2. AfterLine(memory, a) = AfterOuts(memory, a)
      BY <2>4, <2>8, <2>10 DEF AfterLine
    <3>3. AfterOuts(memory, a) = IF a + 2 >= MODULO THEN Unfinished
                                 ELSE IF memory[a + 2] = OUT THEN AfterOuts(memory, a + 2)
                                 ELSE a + 2
      BY <2>4, AfterOutsStep
    <3>4. CASE next = MODULO
      <4>1. AfterLine(memory, a) = Unfinished
        BY <2>5, <3>1, <3>2, <3>3, <3>4
      <4> QED
        BY <2>2, <2>7, <2>10, <3>4, <4>1
    <3>5. CASE next # MODULO /\ memory[next] = OUT
      <4>1. AfterLine(memory, a) = AfterOuts(memory, next) /\ next \in Address
        BY <2>5, <3>1, <3>2, <3>3, <3>5
      <4>2. AfterLine(memory, next) = AfterOuts(memory, next)
        BY <3>5 DEF AfterLine, OUT, is_instruction
      <4>3. Tail(rest) = IF AfterLine(memory, next) = Unfinished THEN << Unfinished >>
                         ELSE Listing(memory, AfterLine(memory, next), All)
        BY <4>1, ListingParts
      <4> QED
        BY <2>2, <2>7, <2>10, <3>5, <4>1, <4>2, <4>3
    <3>6. CASE next # MODULO /\ memory[next] # OUT
      <4>1. AfterLine(memory, a) = next /\ next # Unfinished
        BY <2>4, <2>5, <3>1, <3>2, <3>3, <3>6 DEF Unfinished
      <4> QED
        BY <2>2, <2>7, <2>10, <3>6, <4>1
    <3> QED
      BY <3>4, <3>5, <3>6
  <2> QED
    BY <2>9, <2>10
<1>2. TypeOK /\ [Next]_vars =>
        [ decoded = "none" /\ decoded' # "none" =>
            LET lines == Listing(memory, instruction_ptr, All)
            IN /\ lines[1] = instruction_ptr
               /\ Tail(lines) = IF decoded' # "OUT" THEN rest
                                ELSE IF next = MODULO THEN << Unfinished >>
                                ELSE IF memory[next] = OUT THEN Tail(rest) ELSE rest ]_vars
  BY <1>1
<1> QED
  BY <1>2, TypeCorrect, PTL DEF Spec, ListingFollowsFetch

-----------------------------------------------------------------------------
(* An opcode that wants more cells than memory has after it.               *)
Cut(mem, k) ==
  /\ is_instruction(mem[MODULO - k])
  /\ arg_count(Decode(mem[MODULO - k])) >= k \/ (mem[MODULO - k] = OUT /\ k = 2)

(* A line of OUTs that ends the process ends at one of the last two cells. *)
LEMMA OutsEndAtEdge ==
  ASSUME NEW mem, NEW a \in Address, mem[a] = OUT, AfterOuts(mem, a) = Unfinished
  PROVE  \E k \in 1 .. 2 : mem[MODULO - k] = OUT
<1> MODULO \in Nat
  BY ConstantFacts
<1>1. PICK T : T = { n \in 0 .. MODULO : \E b \in Address : /\ n = MODULO - b /\ mem[b] = OUT
                                                            /\ AfterOuts(mem, b) = Unfinished }
  OBVIOUS
<1>2. MODULO - a \in T /\ T \in SUBSET Nat
  BY <1>1
<1>3. PICK n \in T : \A m \in T : n <= m
  BY <1>2, Smallest
<1>4. PICK b \in Address : n = MODULO - b /\ mem[b] = OUT /\ AfterOuts(mem, b) = Unfinished
  BY <1>1, <1>3
<1>5. CASE b + 2 >= MODULO
  <2>1. MODULO - b \in 1 .. 2 /\ MODULO - (MODULO - b) = b
    BY <1>5
  <2> QED
    BY <1>4, <2>1
<1>6. CASE ~(b + 2 >= MODULO)
  <2>1. b + 2 \in Address /\ MODULO - (b + 2) \in 0 .. MODULO /\ ~(n <= MODULO - (b + 2))
        /\ b + 2 # Unfinished
    BY <1>4, <1>6 DEF Unfinished
  <2>2. mem[b + 2] = OUT /\ AfterOuts(mem, b + 2) = Unfinished
    BY <1>4, <1>6, <2>1, AfterOutsStep
  <2>3. MODULO - (b + 2) \in T
    BY <1>1, <2>1, <2>2
  <2> QED
    BY <1>3, <2>1, <2>3
<1> QED
  BY <1>5, <1>6

(* So does a line of anything.                                             *)
LEMMA LineEndsAtEdge ==
  ASSUME NEW mem \in [Address -> Word], NEW a \in Address, AfterLine(mem, a) = Unfinished
  PROVE  \E k \in 1 .. 3 : Cut(mem, k)
<1>1. MODULO \in Nat /\ MODULO >= 11 /\ a # -2 /\ mem[a] \in Word
  BY ConstantFacts
<1>2. is_instruction(mem[a])
  BY <1>1 DEF AfterLine, Unfinished
<1>3. CASE mem[a] = OUT
  <2>1. AfterOuts(mem, a) = Unfinished
    BY <1>2, <1>3 DEF AfterLine
  <2>2. PICK k \in 1 .. 2 : mem[MODULO - k] = OUT
    BY <1>3, <2>1, OutsEndAtEdge
  <2>3. OUT \in Word /\ is_instruction(OUT)
    BY <1>1 DEF OUT, is_instruction
  <2>4. arg_count(Decode(OUT)) = 1
    BY <2>3, DecodeOut DEF arg_count
  <2> QED
    BY <2>2, <2>3, <2>4 DEF Cut
<1>4. CASE mem[a] # OUT
  <2>1. PICK n : n = arg_count(Decode(mem[a]))
    OBVIOUS
  <2>2. n \in 0 .. 3
    BY <2>1, ArgCountType
  <2>3. a + n >= MODULO
    BY <1>1, <1>2, <1>4, <2>1, <2>2 DEF AfterLine, Unfinished
  <2>4. MODULO - a \in 1 .. 3 /\ MODULO - (MODULO - a) = a /\ n >= MODULO - a
    BY <1>1, <2>2, <2>3
  <2> QED
    BY <1>2, <2>1, <2>4 DEF Cut
<1> QED
  BY <1>3, <1>4

(* Without such an opcode no listing ends the process.                     *)
LEMMA NoCutNoEnd ==
  ASSUME NEW mem \in [Address -> Word], ~ \E k \in 1 .. 3 : Cut(mem, k),
         NEW a \in Address \cup {MODULO}
  PROVE  ~EndsProcess(Listing(mem, a, All))
<1> SUFFICES ASSUME EndsProcess(Listing(mem, a, All)) PROVE FALSE
  OBVIOUS
<1> MODULO \in Nat
  BY ConstantFacts
<1>1. PICK T : T = { n \in 0 .. MODULO : EndsProcess(Listing(mem, MODULO - n, All)) }
  OBVIOUS
<1>2. MODULO - a \in T /\ T \in SUBSET Nat
  <2>1. MODULO - (MODULO - a) = a /\ MODULO - a \in 0 .. MODULO
    OBVIOUS
  <2> QED
    BY <1>1, <2>1
<1>3. PICK n \in T : \A m \in T : n <= m
  BY <1>2, Smallest
<1>4. PICK b : b = MODULO - n
  OBVIOUS
<1>5. n \in 0 .. MODULO /\ EndsProcess(Listing(mem, b, All)) /\ b \in 0 .. MODULO
  BY <1>1, <1>3, <1>4
<1>6. b \in Address
  <2>1. b # MODULO
    BY <1>5, ListingStep DEF EndsProcess
  <2> QED
    BY <1>5, <2>1
<1>7. PICK c : c = AfterLine(mem, b)
  OBVIOUS
<1>8. c \in b + 1 .. MODULO /\ c # Unfinished
  BY <1>6, <1>7, LineEndsAtEdge, AfterLineType
<1>9. PICK rest : rest = Listing(mem, c, All)
  OBVIOUS
<1>10. rest \in Seq(Int) /\ Listing(mem, b, All) = << b >> \o rest
  <2>1. c \in Address \cup {MODULO}
    BY <1>6, <1>8
  <2> QED
    BY <1>6, <1>7, <1>8, <1>9, <2>1, ListingStep
<1>11. ~EndsProcess(rest)
  <2>1. MODULO - c \in 0 .. MODULO /\ ~(n <= MODULO - c) /\ MODULO - (MODULO - c) = c
    BY <1>4, <1>5, <1>6, <1>8
  <2>2. MODULO - c \notin T
    BY <1>3, <2>1
  <2> QED
    BY <1>1, <1>9, <2>1, <2>2
<1>12. PICK s : s = << b >> \o rest
  OBVIOUS
<1>13. Len(rest) \in Nat /\ Len(s) = 1 + Len(rest)
       /\ s[Len(s)] = IF Len(s) = 1 THEN b ELSE rest[Len(rest)]
  <2>1. b \in Int
    BY <1>6
  <2>2. << b >> \in Seq(Int)
    BY ONLY <2>1
  <2>3. Len(s) = 1 + Len(rest) /\ Len(rest) \in Nat
        /\ \A i \in 1 .. 1 + Len(rest) : s[i] = IF i <= 1 THEN b ELSE rest[i - 1]
    BY <1>10, <1>12, <2>2, ConcatProperties, LenProperties
  <2>4. 1 + Len(rest) \in 1 .. 1 + Len(rest) /\ 1 + Len(rest) - 1 = Len(rest)
    BY <2>3
  <2> QED
    BY <2>3, <2>4
<1>14. rest # << >> <=> Len(rest) # 0
  BY <1>10, EmptySeq
<1>15. s[Len(s)] = Unfinished
  BY <1>5, <1>10, <1>12 DEF EndsProcess
<1> QED
  BY <1>6, <1>11, <1>13, <1>14, <1>15 DEF EndsProcess, Unfinished

(***************************************************************************)
(* For every program, self-modified or not, and every memory size: listing *)
(* all of memory ends the process only when one of its last three cells    *)
(* holds an opcode that wants more cells than there are (vm.cpp:310-313).  *)
(***************************************************************************)
THEOREM ListingEndsOnlyAtEdge == Spec => []ListingEndsAtEdge
<1>1. TypeOK => ListingEndsAtEdge
  <2> SUFFICES ASSUME TypeOK, EndsProcess(Listing(memory, 0, All))
               PROVE  \E k \in 1 .. 3 : Cut(memory, k)
    BY DEF ListingEndsAtEdge, Cut
  <2>1. memory \in [Address -> Word] /\ 0 \in Address
    BY ConstantFacts DEF TypeOK, MachineTypeOK
  <2> QED
    BY <2>1, NoCutNoEnd
<1> QED
  BY <1>1, TypeCorrect, PTL
=============================================================================
