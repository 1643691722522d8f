------------------------------- MODULE VBlake -------------------------------
(***************************************************************************)
(* The software hash of veri-fm2l.cpp: vBlake and the search for a nonce   *)
(* in kernel_vblake(), built for 64-bit longs.  miner_thread() leaves the  *)
(* search to the card; its own call of kernel_vblake() is commented out.   *)
(*                                                                         *)
(* A word is the set of the positions of its one bits.  One step is one    *)
(* use of B2B_G or one test of a finished hash.                            *)
(***************************************************************************)
EXTENDS Integers, Sequences, FiniteSets

CONSTANTS
  Header,      \* headerIn: a function on 0..7
  FirstNonce,  \* where the search starts: 0 in the code
  LastNonce    \* the last nonce that is tried: 2^24 - 2 in the code

Bits == 0..63
Words == SUBSET Bits
Index == 0..15

ASSUME VBlakeAssumption ==
  /\ Header \in [0..7 -> Words]
  /\ FirstNonce \in Nat /\ LastNonce \in Nat /\ FirstNonce <= LastNonce

VARIABLES
  pc,     \* "mix", "test", "found" or "none"
  nonce,  \* n
  v,      \* the working state of vblake512_compress()
  round,  \* i
  column, \* which of a round's eight uses of B2B_G comes next
  hash    \* hashStartOut[0], when found

vars == <<pc, nonce, v, round, column, hash>>

-----------------------------------------------------------------------------
(* Words.                                                                  *)

\* The lowest bits of n, moved up.
OnesOf(n, from, size) ==
  {i \in from .. from + size - 1 : (n \div 2^(i - from)) % 2 = 1}

\* A constant of 64 bits, 16 at a time.
Word(a, b, c, d) ==
  OnesOf(a, 48, 16) \cup OnesOf(b, 32, 16) \cup OnesOf(c, 16, 16) \cup OnesOf(d, 0, 16)

Xor(a, b) == (a \cup b) \ (a \cap b)

ROTR64(x, n) == {(i + 64 - n) % 64 : i \in x}

\* Where adding a and b carries into: a carry is generated below and propagated.
Carries(a, b) ==
  {i \in Bits : \E j \in a \cap b : j < i /\ \A k \in j + 1 .. i - 1 : k \in a \cup b}

Add(a, b) == Xor(Xor(a, b), Carries(a, b))

\* The bits that are set in `wanted` of the three words.
SetIn(a, b, c, wanted) ==
  {i \in Bits : Cardinality({k \in {1, 2, 3} : i \in <<a, b, c>>[k]}) \in wanted}

-----------------------------------------------------------------------------
(* The hash.                                                               *)

sigma ==
  LET S == << <<0, 1, 2, 3, 4, 5, 6, 7, 8, 9, 10, 11, 12, 13, 14, 15>>,
              <<14, 10, 4, 8, 9, 15, 13, 6, 1, 12, 0, 2, 11, 7, 5, 3>>,
              <<11, 8, 12, 0, 5, 2, 15, 13, 10, 14, 3, 6, 7, 1, 9, 4>>,
              <<7, 9, 3, 1, 13, 12, 11, 14, 2, 6, 5, 10, 4, 0, 15, 8>>,
              <<9, 0, 5, 7, 2, 4, 10, 15, 14, 1, 11, 12, 6, 8, 3, 13>>,
              <<2, 12, 6, 10, 0, 11, 8, 3, 4, 13, 7, 5, 15, 14, 1, 9>>,
              <<12, 5, 1, 15, 14, 13, 4, 10, 0, 7, 6, 3, 9, 2, 8, 11>>,
              <<13, 11, 7, 14, 12, 1, 3, 9, 5, 0, 15, 4, 8, 6, 2, 10>>,
              <<6, 15, 14, 9, 11, 3, 0, 8, 12, 2, 13, 7, 1, 4, 10, 5>>,
              <<10, 2, 8, 4, 7, 6, 1, 5, 15, 11, 9, 14, 3, 12, 13, 0>> >>
  IN  [i \in 0..15 |-> [k \in Index |-> S[(i % 10) + 1][k + 1]]]

u512 ==
  LET U == <<Word(\hA51B, \h6A89, \hD489, \hE800), Word(\hD35B, \h2E0E, \h0B72, \h3800),
             Word(\hA47B, \h39A2, \hAE9F, \h9000), Word(\h0C0E, \hFA33, \hE77E, \h6488),
             Word(\h4F45, \h2FEC, \h3099, \h11EB), Word(\h3CFC, \hC66F, \h74E1, \h022C),
             Word(\h4606, \hAD36, \h4DC8, \h79DD), Word(\hBBA0, \h55B5, \h3D47, \hC800),
             Word(\h5316, \h55D9, \h0C59, \hEB1B), Word(\hD1A0, \h0BA6, \hDAE5, \hB800),
             Word(\h2FE4, \h52DA, \h9632, \h463E), Word(\h98A7, \hB549, \h6226, \hF800),
             Word(\hBAFC, \hD004, \hF92C, \hA000), Word(\h64A3, \h9957, \h8395, \h25E7),
             Word(\hD859, \hE6F0, \h81AA, \hE000), Word(\h63D9, \h8059, \h7B56, \h0E6B)>>
  IN  [k \in Index |-> U[k + 1]]

vBlake_iv ==
  LET V == <<Word(\h4BBF, \h42C1, \hF006, \hAD9D), Word(\h5D11, \hA8C3, \hB5AE, \hB12E),
             Word(\hA64A, \hB78D, \hC277, \h4652), Word(\hC675, \h9572, \h4658, \hF253),
             Word(\hB886, \h4E79, \hCB89, \h1E56), Word(\h12ED, \h593E, \h29FB, \h41A1),
             Word(\hB1DA, \h3AB6, \h3C60, \hBAA8), Word(\h6D20, \hE50C, \h1F95, \h4DED)>>
  IN  [k \in 0..7 |-> V[k + 1]]

\* Mutant of B2B_G: the first word added replaces v[a].
B2B_GReplaces(w, a, b, c, d, x, y) ==
  LET a1 == Add(w[b], x)
      d1 == ROTR64(Xor(w[d], a1), 60)
      c1 == Add(w[c], d1)
      b1 == ROTR64(Xor(w[b], c1), 43)
      a2 == Add(Add(a1, b1), y)
      d2 == ROTR64(Xor(d1, a2), 5)
      c2 == Add(c1, d2)
      b2 == ROTR64(Xor(b1, c2), 18)
  IN  [w EXCEPT ![a] = a2, ![b] = b2, ![c] = c2, ![d] = Bits \ d2]

\* x and y are the message's words with their constants already mixed in.
B2B_G(w, a, b, c, d, x, y) ==
  LET a1 == Add(Add(w[a], w[b]), x)
      d1 == ROTR64(Xor(w[d], a1), 60)
      c1 == Add(w[c], d1)
      b1 == ROTR64(Xor(w[b], c1), 43)
      a2 == Add(Add(a1, b1), y)
      d2 == ROTR64(Xor(d1, a2), 5)
      c2 == Add(c1, d2)
      b2 == ROTR64(Xor(b1, c2), 18)
      d3 == Xor(d2, SetIn(a2, b2, c2, {0, 2}))
      d4 == Xor(d3, SetIn(a2, b2, c2, {1, 3}))
  IN  [w EXCEPT ![a] = a2, ![b] = b2, ![c] = c2, ![d] = d4]

\* The four words of v that a use of B2B_G works on: a column or a diagonal.
Lanes ==
  LET L == << <<0, 4, 8, 12>>, <<1, 5, 9, 13>>, <<2, 6, 10, 14>>, <<3, 7, 11, 15>>,
              <<0, 5, 10, 15>>, <<1, 6, 11, 12>>, <<2, 7, 8, 13>>, <<3, 4, 9, 14>> >>
  IN  [k \in 0..7 |-> L[k + 1]]

\* vBlake2(): the hash is 0x18 bytes long.
h0 == [vBlake_iv EXCEPT ![0] = Xor(@, Word(0, 0, \h0101, \h0018))]

\* Mutant of Message: the nonce goes into the lower half.
MessageLow(n) ==
  [k \in Index |-> IF k = 7 THEN (Header[7] \cap 32..63) \cup OnesOf(n, 0, 31)
                   ELSE IF k < 7 THEN Header[k] ELSE {}]

\* kernel_vblake() puts the nonce into the upper half of the last word; the message's
\* other eight words are zero.
Message(n) ==
  [k \in Index |-> IF k = 7 THEN (Header[7] \cap 0..31) \cup OnesOf(n, 32, 31)
                   ELSE IF k < 7 THEN Header[k] ELSE {}]

V0 == [k \in Index |->
         CASE k < 8  -> h0[k]
           [] k = 12 -> Xor(vBlake_iv[4], {6})
           [] k = 14 -> Xor(vBlake_iv[6], Bits)
           [] OTHER  -> vBlake_iv[k - 8]]

\* A word of the message with the constant of its own index.
Mixed(n, k) == Xor(Message(n)[k], u512[k])

\* Mutant of Folded: without h[6].
FoldedShort(w) ==
  LET h(k) == Xor(h0[k], Xor(w[k], w[k + 8]))
  IN  Xor(h(0), h(3))

\* Only the three words that the first word of the result needs.
Folded(w) ==
  LET h(k) == Xor(h0[k], Xor(w[k], w[k + 8]))
  IN  Xor(h(0), Xor(h(3), h(6)))

-----------------------------------------------------------------------------
(* The search.                                                             *)

Init ==
  /\ pc = "mix" /\ nonce = FirstNonce
  /\ v = V0 /\ round = 0 /\ column = 0
  /\ hash = {}

\* The words of the message that this use of B2B_G takes.
First == Mixed(nonce, sigma[round][2 * column + 1])
Second == Mixed(nonce, sigma[round][2 * column])

Mix ==
  /\ pc = "mix"
  /\ LET L == Lanes[column] IN v' = B2B_G(v, L[1], L[2], L[3], L[4], First, Second)
  /\ column' = (column + 1) % 8
  /\ round' = IF column = 7 THEN (round + 1) % 16 ELSE round
  /\ pc' = IF round = 15 /\ column = 7 THEN "test" ELSE "mix"
  /\ UNCHANGED <<nonce, hash>>

\* The lower half of the hash must be zero.
Found ==
  /\ pc = "test" /\ Folded(v) \cap 0..31 = {}
  /\ pc' = "found" /\ hash' = Folded(v)
  /\ UNCHANGED <<nonce, v, round, column>>

NextNonce ==
  /\ pc = "test" /\ Folded(v) \cap 0..31 # {}
  /\ IF nonce < LastNonce
       THEN nonce' = nonce + 1 /\ v' = V0 /\ pc' = "mix"
       ELSE pc' = "none" /\ UNCHANGED <<nonce, v>>
  /\ UNCHANGED <<round, column, hash>>

Next == Mix \/ Found \/ NextNonce

Spec == Init /\ [][Next]_vars

-----------------------------------------------------------------------------
(* reference/vBlake.java: it folds all eight words, keeps three and writes *)
(* each with its lowest byte first.                                        *)

ReferenceWords(w) ==
  LET h == [k \in 0..7 |-> Xor(h0[k], Xor(w[k], w[k + 8]))]
  IN  [k \in 0..2 |-> CASE k = 0 -> Xor(h[0], Xor(h[3], h[6]))
                        [] k = 1 -> Xor(h[1], Xor(h[4], h[7]))
                        [] k = 2 -> Xor(h[2], h[5])]

ReferenceByte(w, i) == {b \in 0..7 : 8 * (i % 8) + b \in ReferenceWords(w)[i \div 8]}

-----------------------------------------------------------------------------
(* Properties.                                                             *)

\* A nonce is taken exactly when the first four bytes of the reference's hash are zero,
\* although vblake512_compress() (veri-fm2l.cpp 168) computes three of its eight
\* words, and the word that is reported has the reference's first eight bytes.
ReferenceAgrees ==
  /\ pc = "test" =>
       ((Folded(v) \cap 0..31 = {}) <=> \A i \in 0..3 : ReferenceByte(v, i) = {})
  /\ pc = "found" =>
       \A i \in 0..7 : {b \in 0..7 : 8 * i + b \in hash} = ReferenceByte(v, i)

Subtract(a, b) == Add(a, Add(Bits \ b, {0}))
ROTL64(x, n) == ROTR64(x, 64 - n)

\* What B2B_G was given, from what it has made of it.
Unmixed(w, a, b, c, d, x, y) ==
  LET d2 == Bits \ w[d]
      b1 == Xor(ROTL64(w[b], 18), w[c])
      c1 == Subtract(w[c], d2)
      d1 == Xor(ROTL64(d2, 5), w[a])
      a1 == Subtract(Subtract(w[a], y), b1)
      b0 == Xor(ROTL64(b1, 43), c1)
  IN  [w EXCEPT ![a] = Subtract(Subtract(a1, x), b0), ![b] = b0,
                ![c] = Subtract(c1, d1), ![d] = Xor(ROTL64(d1, 60), a1)]

\* Mixing loses nothing: a use of B2B_G (veri-fm2l.cpp 69), its additions wrapping at
\* 2^64 and its last two lines being each the other's complement, can be undone, so
\* under one message two working states never become one.
MixingCanBeUndone ==
  [][pc = "mix" =>
       LET L == Lanes[column] IN Unmixed(v', L[1], L[2], L[3], L[4], First, Second) = v]_vars
=============================================================================
