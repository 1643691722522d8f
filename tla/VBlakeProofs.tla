---------------------------- MODULE VBlakeProofs ----------------------------
(***************************************************************************)
(* That mixing loses nothing and that the search meets the reference, for  *)
(* every header and every range of nonces.  The sum of 64-bit words is     *)
(* read bit by bit, with the carries as a set, and what holds of all its   *)
(* bits is shown by induction over that set.                               *)
(***************************************************************************)
EXTENDS VBlake, FiniteSetTheorems, TLAPS

\* Induction over a set of bits: the library's rule takes a predicate, this one a set.
LEMMA EveryBit ==
  ASSUME NEW T \in SUBSET Bits, 0 \in T, \A i \in 0..62 : i \in T => i + 1 \in T
  PROVE  T = Bits
<1>. SUFFICES ASSUME Bits \ T # {} PROVE FALSE
  OBVIOUS
<1>. DEFINE Less == {p \in Nat \X Nat : p[1] < p[2]}
            W == Bits \ T
<1>1. IsWellFoundedOn(Less, Nat)
  BY NatLessThanWellFounded, Zenon DEF OpToRel
<1>2. W \subseteq Nat /\ W # {}
  BY DEF Bits
<1>3. PICK x \in W : \A y \in W : ~ (<<y, x>> \in Less)
  <2>. HIDE DEF Less, W
  <2>1. QED
    BY <1>1, <1>2, WFMin
<1>4. x \in 1..63
  BY DEF Bits
<1>5. x - 1 \in W /\ <<x - 1, x>> \in Less
  BY <1>4 DEF Bits
<1>6. QED
  <2>. HIDE DEF Less, W
  <2>1. QED
    BY <1>3, <1>5

LEMMA CarryUp ==
  ASSUME NEW a \in Words, NEW b \in Words, NEW i \in 0..62
  PROVE  i + 1 \in Carries(a, b) <=>
           \/ i \in a /\ i \in b
           \/ i \in a \cup b /\ i \in Carries(a, b)
<1>. i \in Bits /\ i + 1 \in Bits /\ a \subseteq Bits /\ b \subseteq Bits
  BY DEF Bits, Words
<1>. USE DEF Bits, Carries
<1>1. ASSUME i \in a /\ i \in b
      PROVE  i + 1 \in Carries(a, b)
  BY <1>1
<1>2. ASSUME i \in a \cup b, i \in Carries(a, b)
      PROVE  i + 1 \in Carries(a, b)
  <2>1. PICK j \in a \cap b : j < i /\ \A k \in j + 1 .. i - 1 : k \in a \cup b
    BY <1>2
  <2>2. j \in Int /\ j < i + 1 /\ \A k \in j + 1 .. (i + 1) - 1 : k \in a \cup b
    BY <1>2, <2>1
  <2>3. QED
    BY <2>1, <2>2
<1>3. ASSUME i + 1 \in Carries(a, b), ~(i \in a /\ i \in b)
      PROVE  i \in a \cup b /\ i \in Carries(a, b)
  <2>1. PICK j \in a \cap b : j < i + 1 /\ \A k \in j + 1 .. (i + 1) - 1 : k \in a \cup b
    BY <1>3
  <2>2. j \in Int /\ j < i
    BY <1>3, <2>1
  <2>3. i \in a \cup b /\ \A k \in j + 1 .. i - 1 : k \in a \cup b
    BY <2>1, <2>2
  <2>4. QED
    BY <2>1, <2>2, <2>3
<1>4. QED
  BY <1>1, <1>2, <1>3

LEMMA CarryZero ==
  ASSUME NEW a \in Words, NEW b \in Words
  PROVE  0 \notin Carries(a, b)
BY DEF Carries, Words, Bits

LEMMA XorBits ==
  ASSUME NEW a, NEW b
  PROVE  \A i : i \in Xor(a, b) <=> ~(i \in a <=> i \in b)
BY DEF Xor

\* The bits of a sum, each with the carry from below.
LEMMA AddBits ==
  ASSUME NEW a \in Words, NEW b \in Words
  PROVE  /\ Add(a, b) \in Words /\ Carries(a, b) \in Words
         /\ \A i : i \in Add(a, b) <=> ((i \in a <=> i \in b) <=> i \in Carries(a, b))
<1>1. Carries(a, b) \in Words
  BY DEF Carries, Words
<1>2. \A i : i \in Add(a, b) <=> ((i \in a <=> i \in b) <=> i \in Carries(a, b))
  BY XorBits DEF Add
<1>3. Add(a, b) \subseteq Bits
  BY <1>1, <1>2 DEF Words
<1>4. QED
  BY <1>1, <1>2, <1>3 DEF Words

\* Of five bits, two carries of one order of adding are as many as those of the other.
Balanced(c, e, f, g) ==
  /\ (c <=> e) <=> (f <=> g)
  /\ c /\ e <=> f /\ g

\* Adding 64-bit words is associative: the two carries into a bit are as many
\* whichever sum is taken first.
LEMMA AddAssociates ==
  ASSUME NEW a \in Words, NEW b \in Words, NEW d \in Words
  PROVE  Add(Add(a, b), d) = Add(a, Add(b, d))
<1>. DEFINE s == Add(a, b)
            u == Add(b, d)
            C(i) == i \in Carries(a, b)
            E(i) == i \in Carries(s, d)
            F(i) == i \in Carries(b, d)
            G(i) == i \in Carries(a, u)
            T == {i \in Bits : Balanced(C(i), E(i), F(i), G(i))}
<1>1. s \in Words /\ u \in Words
  BY AddBits
<1>2. 0 \in T
  BY <1>1, CarryZero DEF Balanced, Bits
<1>3. ASSUME NEW i \in 0..62, i \in T
      PROVE  i + 1 \in T
  <2>1. i + 1 \in Bits
    BY DEF Bits
  <2>2. Balanced(C(i), E(i), F(i), G(i))
    BY <1>3
  <2>3. /\ C(i + 1) <=> (i \in a /\ i \in b) \/ ((i \in a \/ i \in b) /\ C(i))
        /\ E(i + 1) <=> (i \in s /\ i \in d) \/ ((i \in s \/ i \in d) /\ E(i))
        /\ F(i + 1) <=> (i \in b /\ i \in d) \/ ((i \in b \/ i \in d) /\ F(i))
        /\ G(i + 1) <=> (i \in a /\ i \in u) \/ ((i \in a \/ i \in u) /\ G(i))
    <3>. HIDE DEF s, u
    <3>1. QED
      BY <1>1, CarryUp
  <2>4. /\ i \in s <=> ((i \in a <=> i \in b) <=> C(i))
        /\ i \in u <=> ((i \in b <=> i \in d) <=> F(i))
    BY AddBits
  <2>5. Balanced(C(i + 1), E(i + 1), F(i + 1), G(i + 1))
    <3>. HIDE DEF C, E, F, G, s, u, T
    <3>1. QED
      BY <2>2, <2>3, <2>4 DEF Balanced
  <2>6. QED
    BY <2>1, <2>5
<1>4. T = Bits
  <2>. HIDE DEF T
  <2>1. QED
    BY <1>2, <1>3, EveryBit DEF T
<1>5. ASSUME NEW i
      PROVE  i \in Add(s, d) <=> i \in Add(a, u)
  <2>1. i \in Add(s, d) <=> ((((i \in a <=> i \in b) <=> C(i)) <=> i \in d) <=> E(i))
    BY <1>1, AddBits
  <2>2. i \in Add(a, u) <=> ((i \in a <=> ((i \in b <=> i \in d) <=> F(i))) <=> G(i))
    BY <1>1, AddBits
  <2>3. (C(i) <=> E(i)) <=> (F(i) <=> G(i))
    <3>1. CASE i \in Bits
      BY <1>4, <3>1 DEF Balanced
    <3>2. CASE i \notin Bits
      BY <3>2 DEF Carries
    <3>3. QED
      BY <3>1, <3>2
  <2>4. QED
    <3>. HIDE DEF C, E, F, G, s, u
    <3>1. QED
      BY <2>1, <2>2, <2>3
<1>6. QED
  BY <1>5

LEMMA AddZero ==
  ASSUME NEW a \in Words
  PROVE  Add(a, {}) = a
<1>1. Carries(a, {}) = {} /\ {} \in Words
  BY DEF Carries, Words
<1>2. \A i : i \in Add(a, {}) <=> i \in a
  BY <1>1, AddBits
<1>3. QED
  BY <1>2

\* All ones and one more is zero.
LEMMA AddWraps ==
  Add(Bits, {0}) = {}
<1>1. Bits \in Words /\ {0} \in Words
  BY DEF Words, Bits
<1>2. ASSUME NEW i \in 1..63
      PROVE  i \in Carries(Bits, {0})
  BY DEF Carries, Bits
<1>3. Carries(Bits, {0}) = 1..63
  BY <1>1, <1>2, CarryZero DEF Carries, Bits
<1>4. QED
  BY <1>1, <1>3, AddBits DEF Bits

LEMMA AddComplement ==
  ASSUME NEW b \in Words
  PROVE  Add(b, Bits \ b) = Bits
<1>1. Bits \ b \in Words /\ b \subseteq Bits
  BY DEF Words
<1>2. Carries(b, Bits \ b) = {}
  BY DEF Carries
<1>3. \A i : i \in Add(b, Bits \ b) <=> ((i \in b <=> i \in Bits \ b) <=> i \in {})
  <2>. DEFINE n == Bits \ b
  <2>. HIDE DEF n
  <2>1. \A i : i \in Add(b, n) <=> ((i \in b <=> i \in n) <=> i \in Carries(b, n))
    BY <1>1, AddBits DEF n
  <2>2. QED
    BY <1>2, <2>1 DEF n
<1>4. QED
  BY <1>1, <1>3

\* What Unmixed takes off is what was added, although the sum wraps at 2^64.
LEMMA SubtractUndoes ==
  ASSUME NEW a \in Words, NEW b \in Words
  PROVE  Subtract(Add(a, b), b) = a
<1>1. Bits \ b \in Words /\ {0} \in Words
  BY DEF Words, Bits
<1>. DEFINE n == Add(Bits \ b, {0})
<1>2. n \in Words
  BY <1>1, AddBits
<1>3. Add(b, n) = Add(Add(b, Bits \ b), {0})
  BY <1>1, AddAssociates
<1>4. Add(b, n) = {}
  BY <1>3, AddComplement, AddWraps
<1>5. Subtract(Add(a, b), b) = Add(Add(a, b), n)
  BY DEF Subtract
<1>6. Add(Add(a, b), n) = Add(a, Add(b, n))
  <2>. HIDE DEF n
  <2>1. QED
    BY <1>2, AddAssociates
<1>7. QED
  BY <1>4, <1>5, <1>6, AddZero

-----------------------------------------------------------------------------
(* Exclusive or and rotation.                                              *)

LEMMA XorUndoes ==
  ASSUME NEW a \in Words, NEW b \in Words
  PROVE  Xor(a, b) \in Words /\ Xor(Xor(a, b), b) = a /\ Xor(Xor(a, b), a) = b
BY DEF Xor, Words

LEMMA RotateIsWord ==
  ASSUME NEW x \in Words, NEW n \in 1..63
  PROVE  ROTR64(x, n) \in Words
BY DEF ROTR64, Words, Bits

LEMMA RotateUndoes ==
  ASSUME NEW x \in Words, NEW n \in 1..63
  PROVE  ROTL64(ROTR64(x, n), n) = x
<1>. DEFINE y == ROTR64(x, n)
            P(i) == (i + 64 - n) % 64
            Q(i) == (i + 64 - (64 - n)) % 64
<1>1. x \subseteq Bits
  BY DEF Words
<1>2. ASSUME NEW i \in Bits
      PROVE  P(i) \in Int /\ Q(P(i)) = i
  BY DEF Bits
<1>3. y = {P(i) : i \in x} /\ ROTL64(y, n) = {Q(j) : j \in y}
  BY DEF ROTR64, ROTL64
<1>4. QED
  <2>. HIDE DEF P, Q, y
  <2>1. ASSUME NEW i \in x
        PROVE  i \in ROTL64(y, n)
    BY <1>1, <1>2, <1>3
  <2>2. ASSUME NEW k \in ROTL64(y, n)
        PROVE  k \in x
    BY <1>1, <1>2, <1>3
  <2>3. QED
    BY <2>1, <2>2 DEF y

LEMMA AtMostThree ==
  ASSUME NEW S, S \subseteq {1, 2, 3}
  PROVE  Cardinality(S) \in {0, 1, 2, 3}
<1>1. {1, 2, 3} = 1..3
  OBVIOUS
<1>2. IsFiniteSet(1..3) /\ Cardinality(1..3) = 3
  <2>1. 1 \in Int /\ 3 \in Int /\ ~(1 > 3) /\ 3 - 1 + 1 = 3
    OBVIOUS
  <2>2. QED
    BY <2>1, FS_Interval
<1>3. IsFiniteSet(S) /\ Cardinality(S) <= Cardinality(1..3)
  <2>1. S \in SUBSET (1..3)
    BY <1>1
  <2>2. QED
    BY <1>2, <2>1, FS_Subset
<1>4. QED
  BY <1>2, <1>3, FS_CardinalityType

\* The two last lines of B2B_G flip every bit between them.
LEMMA LinesComplement ==
  ASSUME NEW x \in Words, NEW a, NEW b, NEW c
  PROVE  Xor(Xor(x, SetIn(a, b, c, {0, 2})), SetIn(a, b, c, {1, 3})) = Bits \ x
<1>. DEFINE K(i) == {k \in {1, 2, 3} : i \in <<a, b, c>>[k]}
            even == SetIn(a, b, c, {0, 2})
            odd == SetIn(a, b, c, {1, 3})
<1>1. /\ even = {i \in Bits : Cardinality(K(i)) \in {0, 2}}
      /\ odd = {i \in Bits : Cardinality(K(i)) \in {1, 3}}
  BY Zenon DEF SetIn
<1>2. ASSUME NEW i
      PROVE  Cardinality(K(i)) \in {0, 1, 2, 3}
  <2>1. K(i) \subseteq {1, 2, 3}
    BY Zenon
  <2>. HIDE DEF K
  <2>2. QED
    BY <2>1, AtMostThree
<1>3. ASSUME NEW i \in Bits
      PROVE  i \in even <=> i \notin odd
  <2>. HIDE DEF K, even, odd
  <2>1. QED
    BY <1>1, <1>2
<1>4. even \subseteq Bits /\ odd \subseteq Bits
  <2>. HIDE DEF K, even, odd
  <2>1. QED
    BY <1>1
<1>5. QED
  <2>. HIDE DEF K, even, odd
  <2>1. Xor(Xor(x, even), odd) = Bits \ x
    BY <1>3, <1>4 DEF Xor, Words
  <2>2. QED
    BY <2>1 DEF even, odd

-----------------------------------------------------------------------------
(* The constants are words.                                                *)

LEMMA SigmaType ==
  ASSUME NEW i \in 0..15, NEW k \in Index
  PROVE  sigma[i][k] \in Index
<1>1. i % 10 \in 0..9
  OBVIOUS
<1>2. \A r \in 0..9 : r \in {0, 1, 2, 3, 4, 5, 6, 7, 8, 9}
  OBVIOUS
<1>3. k \in {0, 1, 2, 3, 4, 5, 6, 7, 8, 9, 10, 11, 12, 13, 14, 15}
  BY DEF Index
<1>4. QED
  BY <1>1, <1>2, <1>3 DEF sigma, Index

LEMMA WordType ==
  ASSUME NEW a, NEW b, NEW c, NEW d
  PROVE  Word(a, b, c, d) \in Words
BY DEF OnesOf, Word, Words, Bits

LEMMA U512Type ==
  ASSUME NEW k \in Index
  PROVE  u512[k] \in Words
<1>1. k \in {0, 1, 2, 3, 4, 5, 6, 7, 8, 9, 10, 11, 12, 13, 14, 15}
  BY DEF Index
<1>2. QED
  BY <1>1, WordType DEF u512

LEMMA IvType ==
  ASSUME NEW k \in 0..7
  PROVE  vBlake_iv[k] \in Words
<1>1. k \in {0, 1, 2, 3, 4, 5, 6, 7}
  OBVIOUS
<1>2. QED
  BY <1>1, WordType DEF vBlake_iv

LEMMA MixedType ==
  ASSUME NEW n, NEW k \in Index
  PROVE  Mixed(n, k) \in Words
<1>1. OnesOf(n, 32, 31) \subseteq Bits
  BY DEF OnesOf, Bits
<1>2. {} \in Words /\ \A j \in 0..7 : Header[j] \in Words
  BY VBlakeAssumption DEF Words, VBlakeAssumption
<1>3. Message(n)[k] \in Words
  BY <1>1, <1>2 DEF Message, Words, Index
<1>4. QED
  BY <1>3, U512Type, XorUndoes DEF Mixed

LEMMA V0Type ==
  V0 \in [Index -> Words]
<1>1. \A k \in 0..7 : h0[k] \in Words
  BY IvType, WordType DEF h0, Xor, vBlake_iv, Words
<1>2. {6} \in Words /\ Bits \in Words
  BY DEF Words, Bits
<1>3. \A a, b \in Words : Xor(a, b) \in Words
  BY DEF Xor, Words
<1>4. QED
  BY <1>1, <1>2, <1>3, IvType DEF V0, Index

-----------------------------------------------------------------------------
(* Mixing.                                                                 *)

\* One use of B2B_G on four different words, undone.
LEMMA UnmixedIsBefore ==
  ASSUME NEW w \in [Index -> Words], NEW x \in Words, NEW y \in Words,
         NEW a \in Index, NEW b \in Index, NEW c \in Index, NEW d \in Index,
         a # b, a # c, a # d, b # c, b # d, c # d
  PROVE  LET m == B2B_G(w, a, b, c, d, x, y)
         IN  m \in [Index -> Words] /\ Unmixed(m, a, b, c, d, x, y) = w
<1>. DEFINE a1 == Add(Add(w[a], w[b]), x)
            e1 == Xor(w[d], a1)
            d1 == ROTR64(e1, 60)
            c1 == Add(w[c], d1)
            f1 == Xor(w[b], c1)
            b1 == ROTR64(f1, 43)
            a2 == Add(Add(a1, b1), y)
            e2 == Xor(d1, a2)
            d2 == ROTR64(e2, 5)
            c2 == Add(c1, d2)
            f2 == Xor(b1, c2)
            b2 == ROTR64(f2, 18)
            d4 == Xor(Xor(d2, SetIn(a2, b2, c2, {0, 2})), SetIn(a2, b2, c2, {1, 3}))
            m == B2B_G(w, a, b, c, d, x, y)
<1>1. m = [w EXCEPT ![a] = a2, ![b] = b2, ![c] = c2, ![d] = d4]
  BY Zenon DEF B2B_G
<1>. HIDE DEF a1, e1, d1, c1, f1, b1, a2, e2, d2, c2, f2, b2, d4, m
<1>2. w[a] \in Words /\ w[b] \in Words /\ w[c] \in Words /\ w[d] \in Words
  OBVIOUS
<1>3. a1 \in Words /\ Add(w[a], w[b]) \in Words
  BY <1>2, AddBits DEF a1
<1>4. e1 \in Words /\ d1 \in Words
  BY <1>2, <1>3, XorUndoes, RotateIsWord DEF e1, d1
<1>5. c1 \in Words /\ f1 \in Words /\ b1 \in Words
  BY <1>2, <1>4, AddBits, XorUndoes, RotateIsWord DEF c1, f1, b1
<1>6. Add(a1, b1) \in Words /\ a2 \in Words
  BY <1>3, <1>5, AddBits DEF a2
<1>7. e2 \in Words /\ d2 \in Words
  BY <1>4, <1>6, XorUndoes, RotateIsWord DEF e2, d2
<1>8. c2 \in Words /\ f2 \in Words /\ b2 \in Words
  BY <1>5, <1>7, AddBits, XorUndoes, RotateIsWord DEF c2, f2, b2
<1>9. m = [w EXCEPT ![a] = a2, ![b] = b2, ![c] = c2, ![d] = Bits \ d2]
  BY <1>1, <1>7, LinesComplement DEF d4
<1>10. Bits \ d2 \in Words /\ Bits \ (Bits \ d2) = d2
  BY <1>7 DEF Words
<1>11. /\ m \in [Index -> Words]
       /\ m[a] = a2 /\ m[b] = b2 /\ m[c] = c2 /\ m[d] = Bits \ d2
       /\ \A k \in Index \ {a, b, c, d} : m[k] = w[k]
  BY <1>6, <1>8, <1>9, <1>10
\* Unmixed() goes the same way back.
<1>12. Xor(ROTL64(b2, 18), c2) = b1
  BY <1>5, <1>8, XorUndoes, RotateUndoes DEF b2, f2
<1>13. Subtract(c2, d2) = c1
  BY <1>5, <1>7, SubtractUndoes DEF c2
<1>14. Xor(ROTL64(d2, 5), a2) = d1
  BY <1>4, <1>6, <1>7, XorUndoes, RotateUndoes DEF d2, e2
<1>15. Subtract(Subtract(a2, y), b1) = a1
  BY <1>3, <1>5, <1>6, SubtractUndoes DEF a2
<1>16. Xor(ROTL64(b1, 43), c1) = w[b]
  BY <1>2, <1>5, XorUndoes, RotateUndoes DEF b1, f1
<1>17. Subtract(Subtract(a1, x), w[b]) = w[a]
  BY <1>2, <1>3, SubtractUndoes DEF a1
<1>18. Subtract(c1, d1) = w[c]
  BY <1>2, <1>4, SubtractUndoes DEF c1
<1>19. Xor(ROTL64(d1, 60), a1) = w[d]
  BY <1>2, <1>3, <1>4, XorUndoes, RotateUndoes DEF d1, e1
<1>20. Unmixed(m, a, b, c, d, x, y) = [m EXCEPT ![a] = w[a], ![b] = w[b], ![c] = w[c], ![d] = w[d]]
  BY <1>10, <1>11, <1>12, <1>13, <1>14, <1>15, <1>16, <1>17, <1>18, <1>19 DEF Unmixed
<1>21. [m EXCEPT ![a] = w[a], ![b] = w[b], ![c] = w[c], ![d] = w[d]] = w
  BY <1>11
<1>22. QED
  BY <1>11, <1>20, <1>21 DEF m

LEMMA LanesDiffer ==
  ASSUME NEW k \in 0..7
  PROVE  LET L == Lanes[k]
         IN  /\ L[1] \in Index /\ L[2] \in Index /\ L[3] \in Index /\ L[4] \in Index
             /\ L[1] # L[2] /\ L[1] # L[3] /\ L[1] # L[4]
             /\ L[2] # L[3] /\ L[2] # L[4] /\ L[3] # L[4]
<1>1. k \in {0, 1, 2, 3, 4, 5, 6, 7}
  OBVIOUS
<1>2. QED
  BY <1>1 DEF Lanes, Index

LEMMA MessageWords ==
  ASSUME NEW n, NEW i \in 0..15, NEW k \in 0..7
  PROVE  Mixed(n, sigma[i][2 * k + 1]) \in Words /\ Mixed(n, sigma[i][2 * k]) \in Words
<1>1. 2 * k + 1 \in Index /\ 2 * k \in Index
  BY DEF Index
<1>2. QED
  BY <1>1, SigmaType, MixedType

\* The working state is always sixteen words, and a reported hash is folded from it.
WorkingState ==
  /\ v \in [Index -> Words]
  /\ round \in 0..15 /\ column \in 0..7
  /\ pc = "found" => hash = Folded(v)

LEMMA MixIsUndone ==
  ASSUME WorkingState, Mix
  PROVE  LET L == Lanes[column]
         IN  v' \in [Index -> Words] /\ Unmixed(v', L[1], L[2], L[3], L[4], First, Second) = v
<1>. DEFINE L == Lanes[column]
<1>1. v \in [Index -> Words] /\ column \in 0..7 /\ First \in Words /\ Second \in Words
  BY MessageWords DEF WorkingState, First, Second
<1>2. v' = B2B_G(v, L[1], L[2], L[3], L[4], First, Second)
  BY DEF Mix
<1>3. /\ L[1] \in Index /\ L[2] \in Index /\ L[3] \in Index /\ L[4] \in Index
      /\ L[1] # L[2] /\ L[1] # L[3] /\ L[1] # L[4]
      /\ L[2] # L[3] /\ L[2] # L[4] /\ L[3] # L[4]
  BY <1>1, LanesDiffer
<1>4. QED
  <2>. HIDE DEF L
  <2>1. /\ v' \in [Index -> Words]
        /\ Unmixed(v', L[1], L[2], L[3], L[4], First, Second) = v
    BY <1>1, <1>2, <1>3, UnmixedIsBefore
  <2>2. QED
    BY <2>1 DEF L

LEMMA WorkingStateStep ==
  ASSUME WorkingState, [Next]_vars
  PROVE  WorkingState'
<1>1. CASE Mix
  <2>1. v' \in [Index -> Words]
    BY <1>1, MixIsUndone
  <2>2. round' \in 0..15 /\ column' \in 0..7 /\ pc' # "found"
    BY <1>1 DEF Mix, WorkingState
  <2>3. QED
    BY <2>1, <2>2 DEF WorkingState
<1>2. CASE Found
  BY <1>2 DEF Found, WorkingState, Folded
<1>3. CASE NextNonce
  BY <1>3, V0Type DEF NextNonce, WorkingState
<1>4. CASE UNCHANGED vars
  BY <1>4 DEF vars, WorkingState, Folded
<1>5. QED
  BY <1>1, <1>2, <1>3, <1>4 DEF Next

LEMMA WorkingStateInvariant ==
  Spec => []WorkingState
<1>1. Init => WorkingState
  BY V0Type DEF Init, WorkingState
<1>2. QED
  BY <1>1, WorkingStateStep, PTL DEF Spec

\* For every header and every nonce, each of the 128 uses of B2B_G (veri-fm2l.cpp 69)
\* can be undone, however the additions wrap: under one message, two working states
\* never become one.
THEOREM MixingLosesNothing ==
  Spec => MixingCanBeUndone
<1>1. ASSUME WorkingState, [Next]_vars
      PROVE  [pc = "mix" =>
                LET L == Lanes[column]
                IN  Unmixed(v', L[1], L[2], L[3], L[4], First, Second) = v]_vars
  <2>1. CASE Mix
    BY <1>1, <2>1, MixIsUndone
  <2>2. CASE pc # "mix"
    BY <2>2
  <2>3. CASE UNCHANGED vars
    BY <2>3
  <2>4. QED
    BY <1>1, <2>1, <2>2, <2>3 DEF Next, Found, NextNonce
<1>2. QED
  BY <1>1, WorkingStateInvariant, PTL DEF Spec, MixingCanBeUndone

-----------------------------------------------------------------------------
(* The reference.                                                          *)

LEMMA FoldedIsFirst ==
  ASSUME NEW w
  PROVE  ReferenceWords(w)[0] = Folded(w)
BY DEF ReferenceWords, Folded

LEMMA FirstBytes ==
  ASSUME NEW w, NEW i \in 0..7
  PROVE  ReferenceByte(w, i) = {b \in 0..7 : 8 * i + b \in Folded(w)}
<1>1. i % 8 = i /\ i \div 8 = 0
  OBVIOUS
<1>2. QED
  BY <1>1, FoldedIsFirst DEF ReferenceByte

\* The lower half of a word is zero when its first four bytes are.
LEMMA LowerHalf ==
  ASSUME NEW x
  PROVE  x \cap 0..31 = {} <=> \A i \in 0..3 : {b \in 0..7 : 8 * i + b \in x} = {}
<1>1. ASSUME x \cap 0..31 = {}, NEW i \in 0..3
      PROVE  {b \in 0..7 : 8 * i + b \in x} = {}
  <2>1. \A b \in 0..7 : 8 * i + b \in 0..31
    OBVIOUS
  <2>2. QED
    BY <1>1, <2>1
<1>2. ASSUME \A i \in 0..3 : {b \in 0..7 : 8 * i + b \in x} = {}, NEW k \in 0..31
      PROVE  k \notin x
  <2>1. k \div 8 \in 0..3 /\ k % 8 \in 0..7 /\ 8 * (k \div 8) + (k % 8) = k
    OBVIOUS
  <2>2. QED
    BY <1>2, <2>1
<1>3. QED
  BY <1>1, <1>2

\* For every header and every nonce the search takes a nonce exactly when the
\* reference's hash begins with four zero bytes, and reports its first eight.
THEOREM SearchMeetsReference ==
  Spec => []ReferenceAgrees
<1>1. ASSUME WorkingState
      PROVE  ReferenceAgrees
  <2>1. \A i \in 0..7 : ReferenceByte(v, i) = {b \in 0..7 : 8 * i + b \in Folded(v)}
    BY FirstBytes
  <2>2. (Folded(v) \cap 0..31 = {}) <=> \A i \in 0..3 : {b \in 0..7 : 8 * i + b \in Folded(v)} = {}
    BY LowerHalf
  <2>3. (Folded(v) \cap 0..31 = {}) <=> \A i \in 0..3 : ReferenceByte(v, i) = {}
    <3>1. \A i \in 0..3 : i \in 0..7
      OBVIOUS
    <3>2. QED
      BY <2>1, <2>2, <3>1
  <2>4. pc = "found" => \A i \in 0..7 : {b \in 0..7 : 8 * i + b \in hash} = ReferenceByte(v, i)
    BY <1>1, <2>1 DEF WorkingState
  <2>5. QED
    BY <2>3, <2>4 DEF ReferenceAgrees
<1>2. QED
  BY <1>1, WorkingStateInvariant, PTL
=============================================================================
