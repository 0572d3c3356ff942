-------------------------- MODULE StateFileProofs --------------------------
(***************************************************************************)
(* What save_state writes and load_state reads, for every memory size,     *)
(* number of registers and size of the stacks: also for stacks whose size  *)
(* does not fit the 16 bits save_state casts it to, and for a file that is *)
(* written only in part.                                                   *)
(***************************************************************************)
EXTENDS StateFile, SequenceTheorems, WellFoundedInduction, TLAPS

USE DEF Number, Word, Address, RegIndex, Char, NEWLINE, EOF

(* The words.                                                              *)
LEMMA WordFacts ==
  /\ MODULO \in Nat /\ MODULO >= 11
  /\ NREGS \in Nat /\ 1 <= NREGS /\ NREGS <= MODULO
  /\ BYTE \in Nat /\ 11 <= BYTE /\ BYTE <= MODULO
BY WordsAssumption

(* What all arithmetic ends with, "% vm.MODULO", and a character written.  *)
LEMMA RemainderType ==
  ASSUME NEW x \in Nat, NEW m \in Nat \ {0}
  PROVE  x % m \in 0 .. m - 1
OBVIOUS

(* Any set of natural numbers has a least one: what the proofs about       *)
(* recursive functions have for induction.                                 *)
LEMMA Smallest ==
  ASSUME NEW T \in SUBSET Nat, T # {}
  PROVE  \E x \in T : \A y \in T : x <= y
<1> DEFINE R == { ss \in Nat \X Nat : ss[1] < ss[2] }
<1>0. IsWellFoundedOn(R, Nat)
  BY NatLessThanWellFounded DEF OpToRel
<1>1. PICK x \in T : \A y \in T : ~ (<< y, x >> \in R)
  <2> HIDE DEF R
  <2> QED
    BY <1>0, WFMin
<1>2. ASSUME NEW y \in T PROVE x <= y
  <2>1. << y, x >> \in Nat \X Nat /\ y \in Nat /\ x \in Nat
    OBVIOUS
  <2>2. ~(y < x)
    BY <1>1, <2>1
  <2> QED
    BY <2>1, <2>2
<1> QED
  BY <1>2

(* A function on 1 .. n is a sequence of length n.                         *)
LEMMA FunctionIsSeq ==
  ASSUME NEW S, NEW n \in Nat, NEW f \in [1 .. n -> S]
  PROVE  f \in Seq(S) /\ Len(f) = n
OBVIOUS

(***************************************************************************)
(* What load_state reads from a file it can read to the end is a state of  *)
(* the machine (vm.cpp:133-157).                                           *)
(***************************************************************************)
THEOREM FileType ==
  ASSUME NEW f, WellFormed(f)
  PROVE  /\ FileRegisters(f) \in [RegIndex -> Word] /\ FileMemory(f) \in [Address -> Word]
         /\ FileArgumentStack(f) \in Seq(Word) /\ FileProgramStack(f) \in Seq(Word)
         /\ FileInstructionPtr(f) \in Word
<1>1. f \in Seq(Word) /\ Len(f) \in Nat /\ \A i \in 1 .. Len(f) : f[i] \in Word
  BY LenProperties, ElementOfSeq DEF WellFormed
<1>2. FileMemory(f) \in [Address -> Word]
  <2>1. \A a \in Address : (IF a < Len(f) THEN f[a + 1] ELSE 0) \in Word
    BY <1>1, WordFacts
  <2> QED
    BY <2>1 DEF FileMemory
<1>3. CASE ~IsDump(f)
  <2>1. 0 \in Word
    BY WordFacts
  <2>2. FileRegisters(f) \in [RegIndex -> Word] /\ FileInstructionPtr(f) \in Word
    BY <1>3, <2>1 DEF FileRegisters, FileInstructionPtr
  <2>3. FileArgumentStack(f) = << >> /\ FileProgramStack(f) = << >>
    BY <1>3 DEF FileArgumentStack, FileProgramStack
  <2> QED
    BY <1>2, <2>2, <2>3, EmptySeq
<1>4. CASE IsDump(f)
  <2> DEFINE p == ProgramAt(f)
             a == ArgumentAt(f)
             e == EndAt(f)
  <2>1. /\ p = MODULO + NREGS + 2 /\ p \in 1 .. Len(f) /\ f[p] \in Nat
        /\ a = p + f[p] + 1 /\ a \in 1 .. Len(f) /\ f[a] \in Nat
        /\ e = a + f[a] /\ e \in 1 .. Len(f)
    <3>1. p = MODULO + NREGS + 2 /\ p \in 1 .. Len(f)
      BY <1>1, <1>4, WordFacts DEF ProgramAt, WellFormed, InFile
    <3>2. f[p] \in Nat
      BY <1>1, <3>1, WordFacts
    <3>3. a = p + f[p] + 1 /\ a \in 1 .. Len(f)
      <4>1. a = p + f[p] + 1 /\ a <= Len(f)
        BY <1>4 DEF ArgumentAt, WellFormed, InFile
      <4> HIDE DEF a, p
      <4> QED
        BY <1>1, <3>1, <3>2, <4>1
    <3>4. f[a] \in Nat
      BY <1>1, <3>3, WordFacts
    <3>5. e = a + f[a] /\ e \in 1 .. Len(f)
      BY <1>1, <1>4, <3>3, <3>4 DEF EndAt, WellFormed, InFile
    <3> QED
      BY <3>1, <3>2, <3>3, <3>4, <3>5
  <2> HIDE DEF p, a, e
  <2>2. FileRegisters(f) \in [RegIndex -> Word] /\ FileInstructionPtr(f) \in Word
    <3>1. \A r \in RegIndex : MODULO + 1 + r \in 1 .. Len(f)
      BY <1>1, <2>1, WordFacts
    <3>2. MODULO + NREGS + 1 \in 1 .. Len(f)
      BY <1>1, <2>1, WordFacts
    <3> QED
      BY <1>1, <1>4, <3>1, <3>2 DEF FileRegisters, FileInstructionPtr
  <2>3. FileProgramStack(f) \in Seq(Word)
    <3>1. FileProgramStack(f) = SubSeq(f, p + 1, a - 1)
      BY <1>4 DEF FileProgramStack, p, a
    <3>2. \A i \in p + 1 .. a - 1 : f[i] \in Word
      <4>1. p \in Nat /\ a \in 1 .. Len(f)
        BY <1>1, <2>1
      <4>2. \A i \in p + 1 .. a - 1 : i \in 1 .. Len(f)
        BY <1>1, <4>1
      <4> QED
        BY <1>1, <4>2
    <3>3. p + 1 \in Int /\ a - 1 \in Int
      BY <2>1
    <3> QED
      BY <3>1, <3>2, <3>3, SubSeqProperties
  <2>4. FileArgumentStack(f) \in Seq(Word)
    <3>1. FileArgumentStack(f) = SubSeq(f, a + 1, e)
      BY <1>4 DEF FileArgumentStack, a, e
    <3>2. \A i \in a + 1 .. e : f[i] \in Word
      <4>1. a \in Nat /\ e \in 1 .. Len(f)
        BY <1>1, <2>1
      <4>2. \A i \in a + 1 .. e : i \in 1 .. Len(f)
        BY <1>1, <4>1
      <4> QED
        BY <1>1, <4>2
    <3>3. a + 1 \in Int /\ e \in Int
      BY <2>1
    <3> QED
      BY <3>1, <3>2, <3>3, SubSeqProperties
  <2> QED
    BY <1>2, <2>2, <2>3, <2>4
<1> QED
  BY <1>3, <1>4
-----------------------------------------------------------------------------
(* A file of the size save_state asks for, the first k of its seven        *)
(* sections written and zeros after them (vm.cpp:81-99).                   *)
SavedUpTo(f, k, mem, regs, ip, pstack, astack) ==
  LET p == MODULO + NREGS + 2
      a == p + Len(pstack) + 1
  IN /\ f \in Seq(Word) /\ Len(f) = a + Len(astack)
     /\ \A i \in 1 .. MODULO : f[i] = IF k >= 1 THEN mem[i - 1] ELSE 0
     /\ \A i \in 1 .. NREGS : f[MODULO + i] = IF k >= 2 THEN regs[i - 1] ELSE 0
     /\ f[p - 1] = IF k >= 3 THEN ip ELSE 0
     /\ f[p] = IF k >= 4 THEN Len(pstack) % (2 * MODULO) ELSE 0
     /\ \A i \in 1 .. Len(pstack) : f[p + i] = IF k >= 5 THEN pstack[i] ELSE 0
     /\ f[a] = IF k >= 6 THEN Len(astack) % (2 * MODULO) ELSE 0
     /\ \A i \in 1 .. Len(astack) : f[a + i] = IF k >= 7 THEN astack[i] ELSE 0

(* A size cast to 16 bits: itself if it fits, and otherwise short of the   *)
(* size by what 16 bits can count, at least.                               *)
LEMMA CastSize ==
  ASSUME NEW n \in Nat
  PROVE  /\ n % (2 * MODULO) \in Word /\ n % (2 * MODULO) \in 0 .. n
         /\ n < 2 * MODULO => n % (2 * MODULO) = n
         /\ n >= 2 * MODULO => n % (2 * MODULO) <= n - 2 * MODULO
<1> DEFINE w == 2 * MODULO
<1>1. w \in Nat \ {0}
  BY WordFacts
<1>2. ASSUME NEW m \in Nat \ {0}
      PROVE  /\ n % m \in 0 .. m - 1 /\ n % m \in 0 .. n
             /\ n < m => n % m = n
             /\ n >= m => n % m <= n - m
  OBVIOUS
<1>3. /\ n % w \in 0 .. w - 1 /\ n % w \in 0 .. n
      /\ n < w => n % w = n
      /\ n >= w => n % w <= n - w
  BY <1>1, <1>2
<1> QED
  BY <1>3

(* The elements of a concatenation, by their distance from where it        *)
(* joins.                                                                  *)
LEMMA ConcatAt ==
  ASSUME NEW S, NEW s \in Seq(S), NEW t \in Seq(S), NEW n \in Nat, Len(s) = n
  PROVE  /\ s \o t \in Seq(S) /\ Len(s \o t) = n + Len(t)
         /\ \A i \in 1 .. n : (s \o t)[i] = s[i]
         /\ \A i \in 1 .. Len(t) : (s \o t)[n + i] = t[i]
<1>1. Len(t) \in Nat
  BY LenProperties
<1>2. /\ s \o t \in Seq(S) /\ Len(s \o t) = n + Len(t)
      /\ \A i \in 1 .. n + Len(t) : (s \o t)[i] = IF i <= n THEN s[i] ELSE t[i - n]
  BY ConcatProperties
<1>3. ASSUME NEW i \in 1 .. Len(t) PROVE (s \o t)[n + i] = t[i]
  <2>1. n + i \in 1 .. n + Len(t) /\ ~(n + i <= n) /\ n + i - n = i
    BY <1>1
  <2> QED
    BY <1>2, <2>1
<1> QED
  BY <1>1, <1>2, <1>3

(* f has six parts one after the other, the third of two elements, at p,   *)
(* and the fifth of one, at a, like the sections of a file.                *)
HasParts(S, f, m, r, x, y, s, z, t, p, a) ==
  /\ f \in Seq(S) /\ Len(f) = a + Len(t)
  /\ \A i \in 1 .. Len(m) : f[i] = m[i]
  /\ \A i \in 1 .. Len(r) : f[Len(m) + i] = r[i]
  /\ f[p - 1] = x /\ f[p] = y
  /\ \A i \in 1 .. Len(s) : f[p + i] = s[i]
  /\ f[a] = z
  /\ \A i \in 1 .. Len(t) : f[a + i] = t[i]

(* Six sequences, concatenated.                                            *)
LEMMA SixParts ==
  ASSUME NEW S, NEW m, NEW r, NEW x, NEW y, NEW s, NEW z, NEW t, NEW p, NEW a, NEW f
  PROVE  /\ m \in Seq(S) /\ r \in Seq(S) /\ x \in S /\ y \in S
         /\ s \in Seq(S) /\ z \in S /\ t \in Seq(S)
         /\ p = Len(m) + Len(r) + 2 /\ a = p + Len(s) + 1
         /\ f = m \o r \o << x, y >> \o s \o << z >> \o t
         => HasParts(S, f, m, r, x, y, s, z, t, p, a)
<1> DEFINE xy == << x, y >>
           zz == << z >>
<1>0. SUFFICES ASSUME m \in Seq(S), r \in Seq(S), x \in S, y \in S, s \in Seq(S), z \in S,
                      t \in Seq(S), p = Len(m) + Len(r) + 2, a = p + Len(s) + 1,
                      f = m \o r \o xy \o s \o zz \o t
               PROVE  HasParts(S, f, m, r, x, y, s, z, t, p, a)
  OBVIOUS
<1>1. /\ Len(m) \in Nat /\ Len(r) \in Nat /\ Len(s) \in Nat /\ Len(t) \in Nat
      /\ p \in Nat /\ p - 2 \in Nat /\ p - 2 = Len(m) + Len(r) /\ p - 2 + 2 = p
      /\ p - 2 + 1 = p - 1 /\ a \in Nat /\ a - 1 \in Nat /\ a - 1 = p + Len(s) /\ a - 1 + 1 = a
  <2>1. Len(m) \in Nat /\ Len(r) \in Nat /\ Len(s) \in Nat /\ Len(t) \in Nat
    BY <1>0, LenProperties
  <2> QED
    BY <1>0, <2>1
<1>2. xy \in Seq(S) /\ Len(xy) = 2 /\ xy[1] = x /\ xy[2] = y
  BY <1>0
<1>3. zz \in Seq(S) /\ Len(zz) = 1 /\ zz[1] = z
  BY <1>0
<1> HIDE DEF xy, zz
<1>4. PICK s1 : s1 = m \o r
  OBVIOUS
<1>5. /\ s1 \in Seq(S) /\ Len(s1) = p - 2
      /\ \A i \in 1 .. Len(m) : s1[i] = m[i]
      /\ \A i \in 1 .. Len(r) : s1[Len(m) + i] = r[i]
  <2>1. m \in Seq(S) /\ r \in Seq(S) /\ Len(m) \in Nat
    BY <1>0, <1>1
  <2>2. /\ s1 \in Seq(S) /\ Len(s1) = Len(m) + Len(r)
        /\ \A i \in 1 .. Len(m) : s1[i] = m[i]
        /\ \A i \in 1 .. Len(r) : s1[Len(m) + i] = r[i]
    BY <1>4, <2>1, ConcatAt
  <2> QED
    BY <1>1, <2>2
<1>6. PICK s2 : s2 = s1 \o xy
  OBVIOUS
<1>7. /\ s2 \in Seq(S) /\ Len(s2) = p
      /\ \A i \in 1 .. p - 2 : s2[i] = s1[i]
      /\ s2[p - 1] = x /\ s2[p] = y
  <2>1. PICK b \in Nat : b = p - 2
    BY <1>1
  <2>2. s1 \in Seq(S) /\ Len(s1) = b /\ xy \in Seq(S)
    BY <1>2, <1>5, <2>1
  <2>3. /\ s2 \in Seq(S) /\ Len(s2) = b + Len(xy)
        /\ \A i \in 1 .. b : s2[i] = s1[i]
        /\ \A i \in 1 .. Len(xy) : s2[b + i] = xy[i]
    BY <1>6, <2>2, ConcatAt
  <2> QED
    BY <1>1, <1>2, <2>1, <2>3
<1>8. PICK s3 : s3 = s2 \o s
  OBVIOUS
<1>9. /\ s3 \in Seq(S) /\ Len(s3) = a - 1
      /\ \A i \in 1 .. p : s3[i] = s2[i]
      /\ \A i \in 1 .. Len(s) : s3[p + i] = s[i]
  <2>1. s2 \in Seq(S) /\ Len(s2) = p /\ p \in Nat /\ s \in Seq(S)
    BY <1>0, <1>1, <1>7
  <2>2. /\ s3 \in Seq(S) /\ Len(s3) = p + Len(s)
        /\ \A i \in 1 .. p : s3[i] = s2[i]
        /\ \A i \in 1 .. Len(s) : s3[p + i] = s[i]
    <3>1. PICK b \in Nat : b = p
      BY <2>1
    <3>2. s2 \in Seq(S) /\ Len(s2) = b /\ s \in Seq(S)
      BY <2>1, <3>1
    <3>3. /\ s3 \in Seq(S) /\ Len(s3) = b + Len(s)
          /\ \A i \in 1 .. b : s3[i] = s2[i]
          /\ \A i \in 1 .. Len(s) : s3[b + i] = s[i]
      BY <1>8, <3>2, ConcatAt
    <3> QED
      BY ONLY <3>1, <3>3
  <2>3. Len(s3) = a - 1
    <3>1. Len(s3) = p + Len(s)
      BY <2>2
    <3>2. a - 1 = p + Len(s)
      BY <1>1
    <3> QED
      BY ONLY <3>1, <3>2
  <2> QED
    BY ONLY <2>2, <2>3
<1>10. PICK s4 : s4 = s3 \o zz
  OBVIOUS
<1>11. /\ s4 \in Seq(S) /\ Len(s4) = a
       /\ \A i \in 1 .. a - 1 : s4[i] = s3[i]
       /\ s4[a] = z
  <2>1. PICK b \in Nat : b = a - 1
    BY <1>1
  <2>2. s3 \in Seq(S) /\ Len(s3) = b /\ zz \in Seq(S)
    BY <1>3, <1>9, <2>1
  <2>3. /\ s4 \in Seq(S) /\ Len(s4) = b + Len(zz)
        /\ \A i \in 1 .. b : s4[i] = s3[i]
        /\ \A i \in 1 .. Len(zz) : s4[b + i] = zz[i]
    BY <1>10, <2>2, ConcatAt
  <2> QED
    BY <1>1, <1>3, <2>1, <2>3
<1>12. f = s4 \o t
  BY <1>0, <1>4, <1>6, <1>8, <1>10
<1>13. /\ f \in Seq(S) /\ Len(f) = a + Len(t)
       /\ \A i \in 1 .. a : f[i] = s4[i]
       /\ \A i \in 1 .. Len(t) : f[a + i] = t[i]
  <2>1. s4 \in Seq(S) /\ Len(s4) = a /\ a \in Nat /\ t \in Seq(S)
    BY <1>0, <1>1, <1>11
  <2> QED
    BY <1>12, <2>1, ConcatAt
<1>14. \A i \in 1 .. a - 1 : f[i] = s3[i]
  BY <1>1, <1>11, <1>13
<1>15. \A i \in 1 .. p : f[i] = s2[i]
  <2>1. \A i \in 1 .. p : i \in 1 .. a - 1
    <3>1. PICK n \in Nat : n = Len(s)
      BY <1>1
    <3>2. p \in Nat /\ a - 1 = p + n
      BY <1>1, <3>1
    <3> QED
      BY ONLY <3>1, <3>2
  <2> QED
    BY ONLY <1>9, <1>14, <2>1
<1>16. \A i \in 1 .. p - 2 : f[i] = s1[i]
  BY <1>1, <1>7, <1>15
<1>17. /\ \A i \in 1 .. Len(m) : f[i] = m[i]
       /\ \A i \in 1 .. Len(r) : f[Len(m) + i] = r[i]
  <2>1. /\ \A i \in 1 .. Len(m) : i \in 1 .. p - 2
        /\ \A i \in 1 .. Len(r) : Len(m) + i \in 1 .. p - 2
    <3>1. PICK u, v \in Nat : u = Len(m) /\ v = Len(r)
      BY <1>1
    <3>2. p - 2 = u + v
      BY <1>1, <3>1
    <3> QED
      BY ONLY <3>1, <3>2
  <2> QED
    BY ONLY <1>5, <1>16, <2>1
<1>18. f[p - 1] = x /\ f[p] = y
  BY <1>1, <1>7, <1>15
<1>19. \A i \in 1 .. Len(s) : f[p + i] = s[i]
  BY <1>1, <1>9, <1>14
<1>20. f[a] = z
  BY <1>1, <1>11, <1>13
<1> QED
  BY <1>13, <1>17, <1>18, <1>19, <1>20 DEF HasParts

(* A whole file has every section where load_state looks for it.           *)
LEMMA DumpLayout ==
  ASSUME NEW mem \in [Address -> Word], NEW regs \in [RegIndex -> Word], NEW ip \in Word,
         NEW pstack \in Seq(Word), NEW astack \in Seq(Word)
  PROVE  SavedUpTo(Dump(mem, regs, ip, pstack, astack), 7, mem, regs, ip, pstack, astack)
<1>1. PICK m : m = [i \in 1 .. MODULO |-> mem[i - 1]]
  OBVIOUS
<1>2. PICK r : r = [i \in 1 .. NREGS |-> regs[i - 1]]
  OBVIOUS
<1>3. m \in Seq(Word) /\ Len(m) = MODULO /\ \A i \in 1 .. MODULO : m[i] = mem[i - 1]
  <2>1. \A i \in 1 .. MODULO : mem[i - 1] \in Word
    BY WordFacts
  <2>2. m \in [1 .. MODULO -> Word]
    BY <1>1, <2>1
  <2>3. MODULO \in Nat
    BY WordFacts
  <2>4. m \in Seq(Word) /\ Len(m) = MODULO
    BY <2>2, <2>3, FunctionIsSeq
  <2> QED
    BY <1>1, <2>4
<1>4. r \in Seq(Word) /\ Len(r) = NREGS /\ \A i \in 1 .. NREGS : r[i] = regs[i - 1]
  <2>1. \A i \in 1 .. NREGS : regs[i - 1] \in Word
    BY WordFacts
  <2>2. r \in [1 .. NREGS -> Word]
    BY <1>2, <2>1
  <2>3. NREGS \in Nat
    BY WordFacts
  <2>4. r \in Seq(Word) /\ Len(r) = NREGS
    BY <2>2, <2>3, FunctionIsSeq
  <2> QED
    BY <1>2, <2>4
<1>5. PICK sp : sp = Len(pstack) % (2 * MODULO)
  OBVIOUS
<1>6. PICK sa : sa = Len(astack) % (2 * MODULO)
  OBVIOUS
<1>7. /\ Len(pstack) \in Nat /\ Len(astack) \in Nat /\ MODULO \in Nat /\ NREGS \in Nat
      /\ sp \in Word /\ sa \in Word
  BY <1>5, <1>6, LenProperties, CastSize, WordFacts
<1>8. PICK f : f = Dump(mem, regs, ip, pstack, astack)
  OBVIOUS
<1>9. f = m \o r \o << ip, sp >> \o pstack \o << sa >> \o astack
  BY <1>1, <1>2, <1>5, <1>6, <1>8 DEF Dump
<1>10. PICK p \in Nat : p = MODULO + NREGS + 2
  BY <1>7
<1>11. PICK a \in Nat : a = p + Len(pstack) + 1
  BY <1>7
<1>12. HasParts(Word, f, m, r, ip, sp, pstack, sa, astack, p, a)
  <2> HIDE DEF Word
  <2>1. /\ m \in Seq(Word) /\ r \in Seq(Word) /\ ip \in Word /\ sp \in Word
        /\ pstack \in Seq(Word) /\ sa \in Word /\ astack \in Seq(Word)
        /\ p = Len(m) + Len(r) + 2 /\ a = p + Len(pstack) + 1
    BY <1>3, <1>4, <1>7, <1>10, <1>11
  <2> QED
    BY <1>9, <2>1, SixParts
<1>13. /\ \A i \in 1 .. MODULO : f[i] = mem[i - 1]
       /\ \A i \in 1 .. NREGS : f[MODULO + i] = regs[i - 1]
  BY <1>3, <1>4, <1>12 DEF HasParts
<1> QED
  BY <1>5, <1>6, <1>8, <1>10, <1>11, <1>12, <1>13 DEF SavedUpTo, HasParts

-----------------------------------------------------------------------------
(* Where load_state takes the stacks of such a file from: the argument     *)
(* stack starts behind the program stack, unless the size of that, n, does *)
(* not fit or was not written yet.                                         *)
SizesIn(f, k, pstack, astack, p, a, n) ==
  /\ Len(f) = a + Len(astack) /\ p \in Nat /\ a \in Nat
  /\ n \in 0 .. Len(pstack) /\ ArgumentAt(f) = p + n + 1
  /\ k >= 4 /\ Len(pstack) < 2 * MODULO => n = Len(pstack)
  /\ k >= 4 /\ Len(pstack) >= 2 * MODULO => n <= Len(pstack) - 2 * MODULO
  /\ k < 4 => n = 0
  /\ n < Len(pstack) => f[ArgumentAt(f)] = IF k >= 5 THEN pstack[n + 1] ELSE 0
  /\ n = Len(pstack) =>
       /\ ArgumentAt(f) = a /\ f[a] \in 0 .. Len(astack)
       /\ k >= 6 /\ Len(astack) < 2 * MODULO => f[a] = Len(astack)
       /\ k >= 6 /\ Len(astack) >= 2 * MODULO => f[a] <= Len(astack) - 2 * MODULO
       /\ k < 6 => f[a] = 0

(* These are the sizes a file saved up to section k has.                   *)
LEMMA SizesRead ==
  ASSUME NEW k \in 0 .. 7, NEW mem, NEW regs, NEW ip, NEW pstack \in Seq(Word),
         NEW astack \in Seq(Word), NEW f, SavedUpTo(f, k, mem, regs, ip, pstack, astack),
         NEW p, p = MODULO + NREGS + 2, NEW a, a = p + Len(pstack) + 1
  PROVE  SizesIn(f, k, pstack, astack, p, a, f[p])
<1>3. /\ Len(pstack) \in Nat /\ Len(astack) \in Nat /\ MODULO \in Nat /\ p \in Nat /\ a \in Nat
  BY LenProperties, WordFacts
<1>4. /\ Len(f) = a + Len(astack)
      /\ f[p] = IF k >= 4 THEN Len(pstack) % (2 * MODULO) ELSE 0
      /\ \A i \in 1 .. Len(pstack) : f[p + i] = IF k >= 5 THEN pstack[i] ELSE 0
      /\ f[a] = IF k >= 6 THEN Len(astack) % (2 * MODULO) ELSE 0
  BY DEF SavedUpTo
<1>5. PICK n : n = f[p]
  OBVIOUS
<1>6. ArgumentAt(f) = p + n + 1
  BY <1>5 DEF ArgumentAt, ProgramAt
<1>7. /\ n \in 0 .. Len(pstack)
      /\ k >= 4 /\ Len(pstack) < 2 * MODULO => n = Len(pstack)
      /\ k >= 4 /\ Len(pstack) >= 2 * MODULO => n <= Len(pstack) - 2 * MODULO
      /\ k < 4 => n = 0
  <2>1. CASE k >= 4
    <3>1. n = Len(pstack) % (2 * MODULO)
      BY <1>4, <1>5, <2>1
    <3>2. Len(pstack) \in Nat
      BY <1>3
    <3>3. /\ n \in 0 .. Len(pstack)
          /\ Len(pstack) < 2 * MODULO => n = Len(pstack)
          /\ Len(pstack) >= 2 * MODULO => n <= Len(pstack) - 2 * MODULO
      BY <3>1, <3>2, CastSize
    <3> QED
      BY <2>1, <3>3
  <2>2. CASE k < 4
    BY <1>3, <1>4, <1>5, <2>2
  <2> QED
    BY <2>1, <2>2
<1>8. n < Len(pstack) => f[ArgumentAt(f)] = IF k >= 5 THEN pstack[n + 1] ELSE 0
  <2> SUFFICES ASSUME n < Len(pstack)
               PROVE  f[p + (n + 1)] = IF k >= 5 THEN pstack[n + 1] ELSE 0
    <3>1. p + n + 1 = p + (n + 1)
      BY <1>3, <1>7
    <3> QED
      BY <1>6, <3>1
  <2>1. n + 1 \in 1 .. Len(pstack)
    BY <1>3, <1>7
  <2> QED
    BY <1>4, <2>1
<1>9. /\ f[a] \in 0 .. Len(astack)
      /\ k >= 6 /\ Len(astack) < 2 * MODULO => f[a] = Len(astack)
      /\ k >= 6 /\ Len(astack) >= 2 * MODULO => f[a] <= Len(astack) - 2 * MODULO
      /\ k < 6 => f[a] = 0
  <2>1. CASE k >= 6
    <3>1. f[a] = Len(astack) % (2 * MODULO)
      BY <1>4, <2>1
    <3>2. Len(astack) \in Nat
      BY <1>3
    <3>3. /\ f[a] \in 0 .. Len(astack)
          /\ Len(astack) < 2 * MODULO => f[a] = Len(astack)
          /\ Len(astack) >= 2 * MODULO => f[a] <= Len(astack) - 2 * MODULO
      BY <3>1, <3>2, CastSize
    <3> QED
      BY <2>1, <3>3
  <2>2. CASE k < 6
    BY <1>3, <1>4, <2>2
  <2> QED
    BY <2>1, <2>2
<1>10. n = Len(pstack) => ArgumentAt(f) = a
  BY <1>3, <1>6
<1> QED
  BY <1>3, <1>4, <1>5, <1>6, <1>7, <1>8, <1>9, <1>10 DEF SizesIn

(***************************************************************************)
(* However a save was cut off, and whatever the sizes of the stacks,       *)
(* load_state reads nothing past the end of the file (vm.cpp:141-155).  A  *)
(* size that does not fit makes it take a word of the program stack for    *)
(* the size of the argument stack, but by then it is short of the end by   *)
(* more than a word can say.                                               *)
(***************************************************************************)
THEOREM PartIsInFile ==
  ASSUME NEW k \in 0 .. 7, NEW mem, NEW regs, NEW ip, NEW pstack \in Seq(Word),
         NEW astack \in Seq(Word), NEW f, SavedUpTo(f, k, mem, regs, ip, pstack, astack)
  PROVE  IsDump(f) /\ InFile(f) /\ WellFormed(f)
<1>1. PICK p : p = MODULO + NREGS + 2
  OBVIOUS
<1>2. PICK a : a = p + Len(pstack) + 1
  OBVIOUS
<1>3. PICK n : n = f[p]
  OBVIOUS
<1>4. /\ Len(f) = a + Len(astack) /\ p \in Nat /\ a \in Nat
      /\ n \in 0 .. Len(pstack) /\ ArgumentAt(f) = p + n + 1
      /\ k >= 4 /\ Len(pstack) < 2 * MODULO => n = Len(pstack)
      /\ k >= 4 /\ Len(pstack) >= 2 * MODULO => n <= Len(pstack) - 2 * MODULO
      /\ n < Len(pstack) => f[ArgumentAt(f)] = IF k >= 5 THEN pstack[n + 1] ELSE 0
      /\ n = Len(pstack) => ArgumentAt(f) = a /\ f[a] \in 0 .. Len(astack)
  <2>1. SizesIn(f, k, pstack, astack, p, a, n)
    BY <1>1, <1>2, <1>3, SizesRead
  <2> QED
    BY <2>1 DEF SizesIn
<1>5. /\ Len(pstack) \in Nat /\ Len(astack) \in Nat /\ MODULO \in Nat /\ MODULO > 0
      /\ NREGS \in Nat
  BY LenProperties, WordFacts
<1>6. f \in Seq(Word) /\ IsDump(f) /\ ProgramAt(f) < Len(f)
  <2>1. f \in Seq(Word)
    BY DEF SavedUpTo
  <2>2. p = ProgramAt(f)
    BY <1>1 DEF ProgramAt
  <2>3. MODULO < p /\ p < Len(f)
    BY <1>1, <1>2, <1>4, <1>5
  <2> QED
    BY <1>4, <1>5, <2>1, <2>2, <2>3 DEF IsDump
<1>7. CASE n = Len(pstack)
  <2>1. ArgumentAt(f) <= Len(f) /\ EndAt(f) <= Len(f)
    BY <1>4, <1>5, <1>7 DEF EndAt
  <2> QED
    BY <1>6, <2>1 DEF InFile, WellFormed
<1>8. CASE n < Len(pstack)
  <2>1. ArgumentAt(f) <= Len(f)
    BY <1>2, <1>4, <1>5, <1>8
  <2>2. CASE k < 5
    <3>1. f[ArgumentAt(f)] = 0
      BY <1>4, <1>8, <2>2
    <3>2. EndAt(f) = ArgumentAt(f)
      BY <1>4, <1>5, <3>1 DEF EndAt
    <3> QED
      BY <1>6, <2>1, <3>2 DEF InFile, WellFormed
  <2>3. CASE k >= 5
    <3>1. PICK w : w = f[ArgumentAt(f)]
      OBVIOUS
    <3>2. w \in 0 .. 2 * MODULO - 1
      <4>1. n + 1 \in 1 .. Len(pstack)
        BY <1>4, <1>5, <1>8
      <4>2. w = pstack[n + 1]
        BY <1>4, <1>8, <2>3, <3>1
      <4> QED
        BY <4>1, <4>2, ElementOfSeq
    <3>3. n <= Len(pstack) - 2 * MODULO
      BY <1>4, <1>5, <1>8, <2>3
    <3>4. EndAt(f) = p + n + 1 + w
      BY <1>4, <3>1 DEF EndAt
    <3>5. EndAt(f) <= Len(f)
      BY <1>2, <1>4, <1>5, <3>2, <3>3, <3>4
    <3> QED
      BY <1>6, <2>1, <3>5 DEF InFile, WellFormed
  <2> QED
    BY <2>2, <2>3
<1> QED
  BY <1>4, <1>5, <1>7, <1>8

-----------------------------------------------------------------------------
(* The n elements of a sequence behind its first i.                        *)
LEMMA Slice ==
  ASSUME NEW S, NEW f \in Seq(S), NEW i \in Nat, NEW n \in Nat, i + n <= Len(f)
  PROVE  /\ SubSeq(f, i + 1, i + n) \in Seq(S) /\ Len(SubSeq(f, i + 1, i + n)) = n
         /\ \A j \in 1 .. n : SubSeq(f, i + 1, i + n)[j] = f[i + j]
<1>1. Len(f) \in Nat /\ \A j \in i + 1 .. i + n : f[j] \in S
  BY LenProperties, ElementOfSeq
<1>2. i + 1 \in Int /\ i + n \in Int
  OBVIOUS
<1>3. /\ SubSeq(f, i + 1, i + n) \in Seq(S)
      /\ Len(SubSeq(f, i + 1, i + n)) = IF i + 1 <= i + n THEN i + n - (i + 1) + 1 ELSE 0
      /\ \A j \in 1 .. i + n - (i + 1) + 1 : SubSeq(f, i + 1, i + n)[j] = f[i + 1 + j - 1]
  BY <1>1, <1>2, SubSeqProperties
<1>4. i + n - (i + 1) + 1 = n /\ \A j \in 1 .. n : i + 1 + j - 1 = i + j
  OBVIOUS
<1> QED
  BY <1>3, <1>4

(* What stands before the stacks, and what is read when it is not there.   *)
LEMMA CellsRead ==
  ASSUME NEW k \in 0 .. 7, NEW mem \in [Address -> Word], NEW regs \in [RegIndex -> Word],
         NEW ip, NEW pstack \in Seq(Word), NEW astack \in Seq(Word), NEW f,
         SavedUpTo(f, k, mem, regs, ip, pstack, astack)
  PROVE  /\ k >= 1 => FileMemory(f) = mem
         /\ k >= 2 => FileRegisters(f) = regs
         /\ FileInstructionPtr(f) = IF k >= 3 THEN ip ELSE 0
<1>1. /\ Len(f) = MODULO + NREGS + 2 + Len(pstack) + 1 + Len(astack)
      /\ \A i \in 1 .. MODULO : f[i] = IF k >= 1 THEN mem[i - 1] ELSE 0
      /\ \A i \in 1 .. NREGS : f[MODULO + i] = IF k >= 2 THEN regs[i - 1] ELSE 0
      /\ f[MODULO + NREGS + 1] = IF k >= 3 THEN ip ELSE 0
  <2>1. PICK p : p = MODULO + NREGS + 2
    OBVIOUS
  <2>2. PICK a : a = p + Len(pstack) + 1
    OBVIOUS
  <2>3. /\ Len(f) = a + Len(astack)
        /\ \A i \in 1 .. MODULO : f[i] = IF k >= 1 THEN mem[i - 1] ELSE 0
        /\ \A i \in 1 .. NREGS : f[MODULO + i] = IF k >= 2 THEN regs[i - 1] ELSE 0
        /\ f[p - 1] = IF k >= 3 THEN ip ELSE 0
    BY <2>1, <2>2 DEF SavedUpTo
  <2>4. Len(f) = MODULO + NREGS + 2 + Len(pstack) + 1 + Len(astack)
    BY <2>1, <2>2, <2>3
  <2>5. f[MODULO + NREGS + 1] = IF k >= 3 THEN ip ELSE 0
    <3>1. p - 1 = MODULO + NREGS + 1
      BY <2>1, WordFacts
    <3> QED
      BY <2>3, <3>1
  <2> QED
    BY <2>3, <2>4, <2>5
<1>2. IsDump(f)
  BY PartIsInFile
<1>3. MODULO \in Nat /\ NREGS \in Nat /\ Len(pstack) \in Nat /\ Len(astack) \in Nat
  BY WordFacts, LenProperties
<1>4. ASSUME k >= 1 PROVE FileMemory(f) = mem
  <2>1. ASSUME NEW a \in Address PROVE (IF a < Len(f) THEN f[a + 1] ELSE 0) = mem[a]
    <3>1. a + 1 \in 1 .. MODULO /\ a < Len(f) /\ a + 1 - 1 = a
      BY <1>1, <1>3
    <3> QED
      BY <1>1, <1>4, <3>1
  <2>2. mem = [a \in Address |-> mem[a]]
    OBVIOUS
  <2> QED
    BY <2>1, <2>2 DEF FileMemory
<1>5. ASSUME k >= 2 PROVE FileRegisters(f) = regs
  <2>1. ASSUME NEW r \in RegIndex PROVE f[MODULO + 1 + r] = regs[r]
    <3>1. r + 1 \in 1 .. NREGS /\ MODULO + 1 + r = MODULO + (r + 1) /\ r + 1 - 1 = r
      BY <1>3
    <3> QED
      BY <1>1, <1>5, <3>1
  <2>2. regs = [r \in RegIndex |-> regs[r]]
    OBVIOUS
  <2> QED
    BY <1>2, <2>1, <2>2 DEF FileRegisters
<1>6. FileInstructionPtr(f) = IF k >= 3 THEN ip ELSE 0
  BY <1>1, <1>2 DEF FileInstructionPtr
<1> QED
  BY <1>4, <1>5, <1>6

(* The program stack that is read: as long as its size says, and the saved *)
(* one if that fits and both are there.                                    *)
LEMMA ProgramStackRead ==
  ASSUME NEW k \in 0 .. 7, NEW mem, NEW regs, NEW ip, NEW pstack \in Seq(Word),
         NEW astack \in Seq(Word), NEW f, SavedUpTo(f, k, mem, regs, ip, pstack, astack)
  PROVE  /\ k < 4 => FileProgramStack(f) = << >>
         /\ k >= 5 /\ Len(pstack) < 2 * MODULO => FileProgramStack(f) = pstack
         /\ k >= 4 /\ Len(pstack) >= 2 * MODULO => FileProgramStack(f) # pstack
<1>1. PICK p : p = MODULO + NREGS + 2
  OBVIOUS
<1>2. PICK a : a = p + Len(pstack) + 1
  OBVIOUS
<1>3. PICK n : n = f[p]
  OBVIOUS
<1>4. SizesIn(f, k, pstack, astack, p, a, n)
  BY <1>1, <1>2, <1>3, SizesRead
<1>5. Len(pstack) \in Nat /\ Len(astack) \in Nat /\ MODULO \in Nat /\ MODULO > 0
  BY LenProperties, WordFacts
<1>6. /\ p \in Nat /\ n \in Nat /\ n <= Len(pstack) /\ p + n <= Len(f)
      /\ ArgumentAt(f) - 1 = p + n
  BY <1>2, <1>4, <1>5 DEF SizesIn
<1>7. PICK s : s = SubSeq(f, p + 1, p + n)
  OBVIOUS
<1>8. FileProgramStack(f) = s
  BY <1>1, <1>6, <1>7, PartIsInFile DEF FileProgramStack, ProgramAt
<1>9. s \in Seq(Word) /\ Len(s) = n /\ \A j \in 1 .. n : s[j] = f[p + j]
  <2>1. f \in Seq(Word)
    BY DEF SavedUpTo
  <2> HIDE DEF Word
  <2>2. /\ SubSeq(f, p + 1, p + n) \in Seq(Word) /\ Len(SubSeq(f, p + 1, p + n)) = n
        /\ \A j \in 1 .. n : SubSeq(f, p + 1, p + n)[j] = f[p + j]
    BY <1>6, <2>1, Slice
  <2> QED
    BY <1>7, <2>2
<1>10. ASSUME k < 4 PROVE s = << >>
  BY <1>4, <1>9, <1>10, EmptySeq DEF SizesIn
<1>11. ASSUME k >= 5, Len(pstack) < 2 * MODULO PROVE s = pstack
  <2>1. n = Len(pstack)
    BY <1>4, <1>11 DEF SizesIn
  <2>2. \A j \in 1 .. n : f[p + j] = pstack[j]
    BY <1>1, <1>11, <2>1 DEF SavedUpTo
  <2> QED
    BY <1>9, <2>1, <2>2, SeqEqual
<1>12. ASSUME k >= 4, Len(pstack) >= 2 * MODULO PROVE s # pstack
  <2>1. n < Len(pstack)
    BY <1>4, <1>5, <1>6, <1>12 DEF SizesIn
  <2> QED
    BY <1>9, <2>1
<1> QED
  BY <1>8, <1>10, <1>11, <1>12

(* The same for the argument stack, behind a program stack that fits.      *)
LEMMA ArgumentStackRead ==
  ASSUME NEW k \in 0 .. 7, NEW mem, NEW regs, NEW ip, NEW pstack \in Seq(Word),
         NEW astack \in Seq(Word), NEW f, SavedUpTo(f, k, mem, regs, ip, pstack, astack),
         Len(pstack) < 2 * MODULO
  PROVE  /\ k < 6 => FileArgumentStack(f) = << >>
         /\ k = 7 /\ Len(astack) < 2 * MODULO => FileArgumentStack(f) = astack
         /\ k >= 6 /\ Len(astack) >= 2 * MODULO => FileArgumentStack(f) # astack
<1>1. PICK p : p = MODULO + NREGS + 2
  OBVIOUS
<1>2. PICK a : a = p + Len(pstack) + 1
  OBVIOUS
<1>3. PICK n : n = f[p]
  OBVIOUS
<1>4. SizesIn(f, k, pstack, astack, p, a, n)
  BY <1>1, <1>2, <1>3, SizesRead
<1>5. /\ Len(pstack) \in Nat /\ Len(astack) \in Nat /\ MODULO \in Nat /\ MODULO > 0
      /\ f \in Seq(Word) /\ IsDump(f)
  <2>1. Len(pstack) \in Nat /\ Len(astack) \in Nat /\ MODULO \in Nat /\ MODULO > 0
    BY LenProperties, WordFacts
  <2>2. f \in Seq(Word)
    BY DEF SavedUpTo
  <2> QED
    BY <2>1, <2>2, PartIsInFile
<1>6. CASE n < Len(pstack)
  <2>1. k < 5 /\ f[ArgumentAt(f)] = 0 /\ ArgumentAt(f) \in Nat
    BY <1>4, <1>5, <1>6 DEF SizesIn
  <2>2. EndAt(f) = ArgumentAt(f)
    BY <2>1 DEF EndAt
  <2>3. FileArgumentStack(f) = << >>
    BY <1>5, <2>1, <2>2, SubSeqEmpty DEF FileArgumentStack
  <2> QED
    BY <2>1, <2>3
<1>7. CASE n = Len(pstack)
  <2>1. PICK m : m = f[a]
    OBVIOUS
  <2>2. /\ a \in Nat /\ Len(f) = a + Len(astack) /\ ArgumentAt(f) = a
        /\ m \in 0 .. Len(astack)
        /\ k >= 6 /\ Len(astack) < 2 * MODULO => m = Len(astack)
        /\ k >= 6 /\ Len(astack) >= 2 * MODULO => m < Len(astack)
        /\ k < 6 => m = 0
    <3>1. /\ a \in Nat /\ Len(f) = a + Len(astack) /\ ArgumentAt(f) = a
          /\ m \in 0 .. Len(astack)
          /\ k >= 6 /\ Len(astack) < 2 * MODULO => m = Len(astack)
          /\ k >= 6 /\ Len(astack) >= 2 * MODULO => m <= Len(astack) - 2 * MODULO
          /\ k < 6 => m = 0
      BY <1>4, <1>7, <2>1 DEF SizesIn
    <3> QED
      BY <1>5, <3>1
  <2>3. PICK s : s = SubSeq(f, a + 1, a + m)
    OBVIOUS
  <2>4. FileArgumentStack(f) = s
    BY <1>5, <2>1, <2>2, <2>3 DEF FileArgumentStack, EndAt
  <2>5. s \in Seq(Word) /\ Len(s) = m /\ \A j \in 1 .. m : s[j] = f[a + j]
    <3> HIDE DEF Word
    <3>1. f \in Seq(Word) /\ a \in Nat /\ m \in Nat /\ a + m <= Len(f)
      BY <1>5, <2>2
    <3>2. /\ SubSeq(f, a + 1, a + m) \in Seq(Word) /\ Len(SubSeq(f, a + 1, a + m)) = m
          /\ \A j \in 1 .. m : SubSeq(f, a + 1, a + m)[j] = f[a + j]
      BY <3>1, Slice
    <3> QED
      BY <2>3, <3>2
  <2>6. ASSUME k < 6 PROVE s = << >>
    BY <2>2, <2>5, <2>6, EmptySeq
  <2>7. ASSUME k = 7, Len(astack) < 2 * MODULO PROVE s = astack
    <3>1. m = Len(astack)
      BY <2>2, <2>7
    <3>2. \A j \in 1 .. m : f[a + j] = astack[j]
      BY <1>1, <1>2, <2>7, <3>1 DEF SavedUpTo
    <3> QED
      BY <2>5, <3>1, <3>2, SeqEqual
  <2>8. ASSUME k >= 6, Len(astack) >= 2 * MODULO PROVE s # astack
    BY <1>5, <2>2, <2>5, <2>8
  <2> QED
    BY <2>4, <2>6, <2>7, <2>8
<1>8. n \in 0 .. Len(pstack)
  BY <1>4 DEF SizesIn
<1> QED
  BY <1>5, <1>6, <1>7, <1>8

(***************************************************************************)
(* load_state gives back what save_state wrote if, and only if, the sizes  *)
(* of both stacks fit 16 bits (vm.cpp:91, :95).                            *)
(***************************************************************************)
THEOREM WholeReadsBack ==
  ASSUME NEW mem \in [Address -> Word], NEW regs \in [RegIndex -> Word], NEW ip,
         NEW pstack \in Seq(Word), NEW astack \in Seq(Word), NEW f,
         SavedUpTo(f, 7, mem, regs, ip, pstack, astack)
  PROVE  (/\ FileMemory(f) = mem /\ FileRegisters(f) = regs /\ FileInstructionPtr(f) = ip
          /\ FileProgramStack(f) = pstack /\ FileArgumentStack(f) = astack)
         <=> Len(pstack) < 2 * MODULO /\ Len(astack) < 2 * MODULO
<1>1. /\ FileMemory(f) = mem /\ FileRegisters(f) = regs /\ FileInstructionPtr(f) = ip
  <2>1. PICK k \in 0 .. 7 : k = 7
    OBVIOUS
  <2>2. SavedUpTo(f, k, mem, regs, ip, pstack, astack)
    BY <2>1
  <2>3. /\ k >= 1 => FileMemory(f) = mem
        /\ k >= 2 => FileRegisters(f) = regs
        /\ FileInstructionPtr(f) = IF k >= 3 THEN ip ELSE 0
    <3> HIDE DEF Word, Address, RegIndex
    <3> QED
      BY <2>2, CellsRead
  <2> QED
    BY <2>1, <2>3
<1>2. Len(pstack) \in Nat /\ Len(astack) \in Nat /\ MODULO \in Nat
  BY LenProperties, WordFacts
<1>3. CASE Len(pstack) >= 2 * MODULO
  BY <1>2, <1>3, ProgramStackRead
<1>4. CASE Len(pstack) < 2 * MODULO
  <2>1. FileProgramStack(f) = pstack
    BY <1>4, ProgramStackRead
  <2>2. FileArgumentStack(f) = astack <=> Len(astack) < 2 * MODULO
    BY <1>2, <1>4, ArgumentStackRead
  <2> QED
    BY <1>1, <1>4, <2>1, <2>2
<1> QED
  BY <1>2, <1>3, <1>4

(* What is seen to be there vouches for what was written before it.        *)
ReadsInOrder(f, mem, regs, ip, pstack) ==
  /\ \/ FileInstructionPtr(f) # 0
     \/ FileProgramStack(f) # << >> \/ FileArgumentStack(f) # << >>
     => FileRegisters(f) = regs /\ FileMemory(f) = mem
  /\ FileProgramStack(f) # << >> \/ FileArgumentStack(f) # << >>
     => FileInstructionPtr(f) = ip
  /\ FileArgumentStack(f) # << >> => FileProgramStack(f) = pstack

(***************************************************************************)
(* A save that was cut off reads as the saved machine up to some point     *)
(* and as nothing from there on (vm.cpp:87-97).                            *)
(***************************************************************************)
THEOREM PartReadsInOrder ==
  ASSUME NEW k \in 0 .. 7, NEW mem \in [Address -> Word], NEW regs \in [RegIndex -> Word],
         NEW ip, NEW pstack \in Seq(Word), NEW astack \in Seq(Word), NEW f,
         SavedUpTo(f, k, mem, regs, ip, pstack, astack), Len(pstack) < 2 * MODULO
  PROVE  ReadsInOrder(f, mem, regs, ip, pstack)
<1>1. /\ k >= 1 => FileMemory(f) = mem
      /\ k >= 2 => FileRegisters(f) = regs
      /\ FileInstructionPtr(f) = IF k >= 3 THEN ip ELSE 0
  BY CellsRead
<1>2. /\ k < 4 => FileProgramStack(f) = << >>
      /\ k >= 5 => FileProgramStack(f) = pstack
  BY ProgramStackRead
<1>3. k < 6 => FileArgumentStack(f) = << >>
  BY ArgumentStackRead
<1> QED
  BY <1>1, <1>2, <1>3 DEF ReadsInOrder
=============================================================================
