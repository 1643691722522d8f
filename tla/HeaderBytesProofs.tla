------------------------- MODULE HeaderBytesProofs -------------------------
(***************************************************************************)
(* For every job, root, time, nonce and startNonce: no nonce changes       *)
(* between the card and the share, which nonces are never submitted, what  *)
(* the card hashes is the header that the pool rebuilds, and only a text   *)
(* that is not hexadecimal, or too short, ends the process.                *)
(***************************************************************************)
EXTENDS HeaderBytes, SequenceTheorems, TLAPS

-----------------------------------------------------------------------------
(* The nonce.                                                              *)

LEMMA NoneIsNoNonce == None \notin Nonces
BY DEF None, Nonces

\* What miner_thread() takes off undoes what the card adds: for every nonce the
\* subtraction of 129 modulo 2^32, byte by byte, gives the nonce back.
THEOREM OffsetCancels ==
  ASSUME NEW n \in Nonces
  PROVE  SubtractOffset(AddOffset(n)) = n
<1> DEFINE a == AddOffset(n)
           s == SubtractOffset(a)
           carry(i) == n[4] > 126 /\ \A k \in i + 1 .. 3 : n[k] = 255
           borrow(i) == a[4] < 129 /\ \A k \in i + 1 .. 3 : a[k] = 0
<1>1. /\ \A i \in 1..4 : n[i] \in 0..255
      /\ n = [i \in 1..4 |-> n[i]]
  BY DEF Nonces, Bytes
<1>2. a[4] = IF n[4] > 126 THEN n[4] - 127 ELSE n[4] + 129
  BY <1>1 DEF AddOffset
<1>3. ASSUME NEW i \in 1..3
      PROVE  a[i] = IF carry(i) THEN (IF n[i] = 255 THEN 0 ELSE n[i] + 1) ELSE n[i]
  <2>1. i \in 1..4 /\ i # 4 /\ n[i] \in 0..255
    BY <1>1
  <2>2. a[i] = IF n[i] + (IF carry(i) THEN 1 ELSE 0) > 255
                 THEN n[i] + (IF carry(i) THEN 1 ELSE 0) - 256
                 ELSE n[i] + (IF carry(i) THEN 1 ELSE 0)
    BY <2>1 DEF AddOffset
  <2> HIDE DEF a, carry
  <2>3. CASE carry(i)
    BY <2>1, <2>2, <2>3
  <2>4. CASE ~carry(i)
    BY <2>1, <2>2, <2>4
  <2> QED BY <2>3, <2>4
<1>4. s[4] = IF a[4] < 129 THEN a[4] + 127 ELSE a[4] - 129
  BY <1>1, <1>2 DEF SubtractOffset
<1>5. ASSUME NEW i \in 1..3
      PROVE  a[i] \in 0..255
  <2>1. n[i] \in 0..255
    BY <1>1
  <2> HIDE DEF a, carry
  <2> QED BY <1>3, <2>1
<1>6. ASSUME NEW i \in 1..3
      PROVE  s[i] = IF borrow(i) THEN (IF a[i] = 0 THEN 255 ELSE a[i] - 1) ELSE a[i]
  <2>1. i \in 1..4 /\ i # 4 /\ a[i] \in 0..255
    BY <1>5
  <2>2. s[i] = IF a[i] - (IF borrow(i) THEN 1 ELSE 0) < 0
                 THEN a[i] - (IF borrow(i) THEN 1 ELSE 0) + 256
                 ELSE a[i] - (IF borrow(i) THEN 1 ELSE 0)
    <3> HIDE DEF a
    <3> QED BY <2>1 DEF SubtractOffset
  <2> HIDE DEF a, s, borrow
  <2>3. CASE borrow(i)
    BY <2>1, <2>2, <2>3
  <2>4. CASE ~borrow(i)
    BY <2>1, <2>2, <2>4
  <2> QED BY <2>3, <2>4
<1>7. a[4] < 129 <=> n[4] > 126
  BY <1>1, <1>2
<1> HIDE DEF a, s
<1>8. s[4] = n[4] /\ (carry(3) <=> borrow(3))
  BY <1>1, <1>2, <1>4, <1>7
<1>9. s[3] = n[3] /\ (carry(2) <=> borrow(2))
  BY <1>1, <1>3, <1>6, <1>7
<1>10. s[2] = n[2] /\ (carry(1) <=> borrow(1))
  BY <1>1, <1>3, <1>6, <1>7
<1>11. s[1] = n[1]
  BY <1>1, <1>3, <1>6, <1>10
<1>12. s = [i \in 1..4 |-> s[i]]
  BY DEF s, SubtractOffset
<1>13. \A i \in 1..4 : s[i] = n[i]
  BY <1>8, <1>9, <1>10, <1>11
<1> QED BY <1>1, <1>12, <1>13 DEF s, a

LEMMA SwappedTwice == ASSUME NEW n \in Nonces PROVE Swapped(Swapped(n)) = n
BY DEF Swapped, Nonces

LEMMA AnswersMean ==
  ASSUME NEW n \in Nonces
  PROVE  /\ AddOffset(n) = Zero => n = AnswersZero
         /\ AddOffset(n) = Exhausted => n = AnswersExhausted
<1>1. SubtractOffset(Zero) = AnswersZero
  <2>1. /\ SubtractOffset(Zero)[1] = 255 /\ SubtractOffset(Zero)[2] = 255
        /\ SubtractOffset(Zero)[3] = 255 /\ SubtractOffset(Zero)[4] = 127
    BY DEF SubtractOffset, Zero
  <2>2. SubtractOffset(Zero) = [i \in 1..4 |-> SubtractOffset(Zero)[i]]
    BY DEF SubtractOffset
  <2> QED BY <2>1, <2>2 DEF AnswersZero
<1>2. SubtractOffset(Exhausted) = AnswersExhausted
  <2>1. /\ SubtractOffset(Exhausted)[1] = 63 /\ SubtractOffset(Exhausted)[2] = 255
        /\ SubtractOffset(Exhausted)[3] = 255 /\ SubtractOffset(Exhausted)[4] = 126
    BY DEF SubtractOffset, Exhausted
  <2>2. SubtractOffset(Exhausted) = [i \in 1..4 |-> SubtractOffset(Exhausted)[i]]
    BY DEF SubtractOffset
  <2> QED BY <2>1, <2>2 DEF AnswersExhausted
<1> QED BY <1>1, <1>2, OffsetCancels

LEMMA NonceInit == ASSUME Init PROVE NonceInv
BY DEF Init, NonceInv, OnlyThreeNoncesAreWithheld

LEMMA NonceStep == ASSUME NonceInv, [Next]_vars PROVE NonceInv'
<1>1. ASSUME NEW j \in Jobs, MiningJob(j)
      PROVE  NonceInv'
  BY <1>1 DEF NonceInv, MiningJob, Terminate, OnlyThreeNoncesAreWithheld
<1>2. ASSUME NEW hex \in Roots, MiningMempoolUpdate(hex)
      PROVE  NonceInv'
  BY <1>2 DEF NonceInv, MiningMempoolUpdate, Terminate, OnlyThreeNoncesAreWithheld
<1>3. ASSUME NEW t \in Times, getWork(t)
      PROVE  NonceInv'
  BY <1>3 DEF NonceInv, getWork, OnlyThreeNoncesAreWithheld
<1>4. CASE WriteWord
  <2>1. UNCHANGED <<answer, nonce, lastNonce1, found, withheld>> /\ pc = "write"
        /\ pc' \in {"write", "wait"}
    BY <1>4 DEF WriteWord
  <2> QED BY <2>1 DEF NonceInv, OnlyThreeNoncesAreWithheld
<1>5. CASE Answer
  BY <1>5, NoneIsNoNonce, HeaderAssumption DEF NonceInv, Answer, OnlyThreeNoncesAreWithheld
<1>6. CASE recvserial
  <2>1. /\ pc = "wait" /\ answer # None /\ answer' = None
        /\ UNCHANGED <<lastNonce1, found>>
        /\ withheld \subseteq {AnswersZero}
        /\ answer = IF found = None THEN Exhausted ELSE AddOffset(found)
    BY <1>6 DEF recvserial, NonceInv
  <2>2. found = None \/ found \in Nonces
    BY HeaderAssumption DEF NonceInv
  <2>3. CASE answer = Zero /\ Withhold /\ UNCHANGED <<pc, nonce>>
    <3>1. found # None => found = AnswersZero
      BY <2>1, <2>2, <2>3, AnswersMean
    <3> QED BY <2>1, <2>3, <3>1 DEF Withhold, NonceInv, OnlyThreeNoncesAreWithheld
  <2>4. CASE answer = Exhausted /\ pc' = "work" /\ Withhold /\ UNCHANGED nonce
    <3>1. found # None => found = AnswersExhausted
      BY <2>1, <2>2, <2>4, AnswersMean
    <3> QED BY <2>1, <2>4, <3>1 DEF Withhold, NonceInv, OnlyThreeNoncesAreWithheld
  <2>5. CASE /\ answer \notin {Zero, Exhausted} /\ pc' = "found"
             /\ nonce' = Swapped(SubtractOffset(answer)) /\ UNCHANGED withheld
    <3>1. found # None /\ nonce' = Swapped(found)
      BY <2>1, <2>2, <2>5, OffsetCancels
    <3> QED BY <2>1, <2>5, <3>1 DEF NonceInv, OnlyThreeNoncesAreWithheld
  <2> QED BY <1>6, <2>3, <2>4, <2>5 DEF recvserial
<1>7. CASE submitWork
  <2>1. /\ pc' = "work" /\ UNCHANGED <<found, answer, nonce>>
        /\ found \in Nonces /\ nonce = Swapped(found) /\ withheld \subseteq {AnswersZero}
    BY <1>7, HeaderAssumption DEF submitWork, NonceInv
  <2>2. withheld' \subseteq {AnswersZero, Swapped(lastNonce1')}
    BY <1>7, <2>1, SwappedTwice DEF submitWork, Withhold
  <2> QED BY <2>1, <2>2 DEF NonceInv, OnlyThreeNoncesAreWithheld
<1>8. CASE UNCHANGED vars
  BY <1>8 DEF vars, client, NonceInv, OnlyThreeNoncesAreWithheld
<1> QED BY <1>1, <1>2, <1>3, <1>4, <1>5, <1>6, <1>7, <1>8 DEF Next

\* Whatever the pool sends, the clock shows and the card finds, a nonce is kept
\* from the pool only for one of the three reasons that recvserial() and the
\* comparison with lastNonce1 have.
THEOREM OnlyThreeAreWithheld == Spec => []OnlyThreeNoncesAreWithheld
<1>1. NonceInv => OnlyThreeNoncesAreWithheld
  BY DEF NonceInv
<1> QED BY <1>1, NonceInit, NonceStep, PTL DEF Spec

-----------------------------------------------------------------------------
(* Bytes.                                                                  *)

LEMMA PowersAre ==
  ASSUME NEW i \in 1..4
  PROVE  PowersOf256[i] \in Nat \ {0}
BY DEF PowersOf256

LEMMA BigEndianType ==
  ASSUME NEW n \in Int, NEW size \in 1..4
  PROVE  BigEndian(n, size) \in [1..size -> Bytes]
<1>1. ASSUME NEW k \in 1..size
      PROVE  (n \div PowersOf256[size - k + 1]) % 256 \in Bytes
  <2>. DEFINE p == PowersOf256[size - k + 1]
  <2>1. size - k + 1 \in 1..4
    OBVIOUS
  <2>2. p \in Nat /\ p > 0
    BY <2>1, PowersAre
  <2>. HIDE DEF p
  <2>3. n \div p \in Int
    BY <2>2
  <2>4. QED
    BY <2>3 DEF Bytes, p
<1>2. QED
  BY <1>1 DEF BigEndian

\* A hexadecimal digit, in a capital or not, stands for less than 16.
LEMMA DigitType ==
  ASSUME NEW c \in Bytes, isLowerCaseHexCharacter(tolower(c))
  PROVE  /\ getValueFromLowerCaseHex(tolower(c)) \in 0..15
         /\ getValueFromLowerCaseHex(tolower(c)) = Digit(c)
         /\ c \in ToSet(Digits)
<1>1. ASSUME NEW k \in 1..22
      PROVE  Digits[k] = IF k <= 10 THEN 47 + k ELSE IF k <= 16 THEN 86 + k ELSE 48 + k
  <2>1. k \in {1, 2, 3, 4, 5, 6, 7, 8, 9, 10, 11, 12, 13, 14, 15, 16, 17, 18, 19, 20, 21, 22}
    OBVIOUS
  <2>2. QED
    BY <2>1 DEF Digits
<1>2. DOMAIN Digits = 1..22
  BY DEF Digits
<1>. DEFINE pos == IF c <= 57 THEN c - 47 ELSE IF c >= 97 THEN c - 86 ELSE c - 48
<1>3. c \in 48..57 \cup 97..102 \cup 65..70
  BY DEF isLowerCaseHexCharacter, tolower, Bytes
<1>4. pos \in 1..22 /\ Digits[pos] = c
  BY <1>1, <1>3
<1>5. \A k \in 1..22 : Digits[k] = c => k = pos
  BY <1>1, <1>3
<1>. DEFINE chosen == CHOOSE k \in DOMAIN Digits : Digits[k] = c
<1>6. Digit(c) = IF chosen <= 16 THEN chosen - 1 ELSE chosen - 7
  BY Zenon DEF Digit
<1>7. chosen = pos
  <2>. HIDE DEF pos
  <2>1. pos \in DOMAIN Digits /\ Digits[pos] = c
    BY <1>2, <1>4
  <2>2. \A k \in DOMAIN Digits : Digits[k] = c => k = pos
    BY <1>2, <1>5
  <2>3. QED
    BY <2>1, <2>2
<1>8. c \in ToSet(Digits)
  BY <1>2, <1>4 DEF ToSet
<1>9. QED
  <2>. HIDE DEF chosen
  <2>1. QED
    BY <1>3, <1>6, <1>7, <1>8 DEF getValueFromLowerCaseHex, tolower

\* And every digit of the table is one.
LEMMA DigitExtracts ==
  ASSUME NEW c \in ToSet(Digits)
  PROVE  c \in Bytes /\ isLowerCaseHexCharacter(tolower(c))
BY DEF ToSet, Digits, Bytes, isLowerCaseHexCharacter, tolower

LEMMA ByteIsDecoded ==
  ASSUME NEW hex \in Text, NEW i \in Nat, Extracts(hex, i)
  PROVE  /\ extractByteFromHex(hex, i) \in Bytes
         /\ extractByteFromHex(hex, i) = 16 * Digit(hex[2 * i + 1]) + Digit(hex[2 * i + 2])
<1>1. hex[2 * i + 1] \in Bytes /\ hex[2 * i + 2] \in Bytes
  BY DEF Extracts, Text
<1>2. /\ isLowerCaseHexCharacter(tolower(hex[2 * i + 1]))
      /\ isLowerCaseHexCharacter(tolower(hex[2 * i + 2]))
  BY DEF Extracts
<1>. DEFINE x == getValueFromLowerCaseHex(tolower(hex[2 * i + 1]))
            y == getValueFromLowerCaseHex(tolower(hex[2 * i + 2]))
<1>3. /\ x \in 0..15 /\ y \in 0..15
      /\ x = Digit(hex[2 * i + 1]) /\ y = Digit(hex[2 * i + 2])
  BY <1>1, <1>2, DigitType
<1>4. extractByteFromHex(hex, i) = 16 * x + y
  BY DEF extractByteFromHex
<1>5. 16 * x + y \in Bytes
  <2>. HIDE DEF x, y
  <2>1. QED
    BY <1>3 DEF Bytes
<1>6. QED
  BY <1>3, <1>4, <1>5

\* A text that is hexadecimal and long enough gives each of its bytes.
LEMMA WellFormedExtracts ==
  ASSUME NEW hex \in Text, NEW size \in Nat, WellFormed(hex, size), NEW i \in 0 .. size - 1
  PROVE  Extracts(hex, i)
<1>1. Len(hex) % 2 = 0 /\ 2 * i + 2 <= Len(hex)
  BY DEF WellFormed, Text
<1>2. ASSUME NEW k \in {1, 2}
      PROVE  isLowerCaseHexCharacter(tolower(hex[2 * i + k]))
  <2>1. 2 * i + k \in DOMAIN hex
    BY <1>1 DEF Text
  <2>2. hex[2 * i + k] \in ToSet(Digits)
    BY <2>1 DEF WellFormed, ToSet
  <2>3. QED
    BY <2>2, DigitExtracts
<1>3. QED
  BY <1>1, <1>2 DEF Extracts

LEMMA ExtractType ==
  ASSUME NEW hex \in Text, NEW a \in Nat, NEW b \in Nat, \A i \in a..b : Extracts(hex, i)
  PROVE  /\ Extract(hex, a, b) \in [1 .. b - a + 1 -> Bytes]
         /\ Extract(hex, a, b) = Decoded(hex, a + 1, b + 1)
<1>1. ASSUME NEW k \in 1 .. b - a + 1
      PROVE  /\ extractByteFromHex(hex, a + k - 1) \in Bytes
             /\ extractByteFromHex(hex, a + k - 1)
                  = 16 * Digit(hex[2 * ((a + 1) + k) - 3]) + Digit(hex[2 * ((a + 1) + k) - 2])
  <2>1. a + k - 1 \in a..b /\ a + k - 1 \in Nat
    OBVIOUS
  <2>2. /\ 2 * (a + k - 1) + 1 = 2 * ((a + 1) + k) - 3
        /\ 2 * (a + k - 1) + 2 = 2 * ((a + 1) + k) - 2
    OBVIOUS
  <2>3. QED
    BY <2>1, <2>2, ByteIsDecoded
<1>2. (b + 1) - (a + 1) + 1 = b - a + 1
  OBVIOUS
<1>3. QED
  BY <1>1, <1>2 DEF Extract, Decoded

-----------------------------------------------------------------------------
(* The fields of a header.                                                 *)

Headers == [0..63 -> Bytes]

\* The n bytes of a header from `at` on.
Field(h, at, n, bytes) == \A k \in 1..n : h[at + k - 1] = bytes[k]

LEMMA PutIs ==
  ASSUME NEW h \in Headers, NEW at \in Nat, NEW n \in Nat, NEW bytes \in [1..n -> Bytes]
  PROVE  /\ Put(h, at, bytes) \in Headers
         /\ \A i \in 0..63 :
              Put(h, at, bytes)[i] = IF at <= i /\ i < at + n THEN bytes[i - at + 1] ELSE h[i]
<1>1. DOMAIN h = 0..63 /\ DOMAIN bytes = 1..n
  BY DEF Headers
<1>. DEFINE new(i) == IF i - at + 1 \in 1..n THEN bytes[i - at + 1] ELSE h[i]
<1>2. Put(h, at, bytes) = [i \in 0..63 |-> new(i)]
  BY <1>1 DEF Put
<1>3. ASSUME NEW i \in 0..63
      PROVE  new(i) \in Bytes
  BY DEF Headers
<1>4. ASSUME NEW i \in 0..63
      PROVE  new(i) = IF at <= i /\ i < at + n THEN bytes[i - at + 1] ELSE h[i]
  <2>1. i - at + 1 \in 1..n <=> (at <= i /\ i < at + n)
    OBVIOUS
  <2>2. QED
    BY <2>1
<1>5. /\ Put(h, at, bytes) \in [0..63 -> Bytes]
      /\ \A i \in 0..63 : Put(h, at, bytes)[i] = new(i)
  <2>. HIDE DEF new
  <2>1. QED
    BY <1>2, <1>3
<1>6. QED
  BY <1>4, <1>5 DEF Headers

\* A field is what was put there.
LEMMA PutField ==
  ASSUME NEW h \in Headers, NEW at \in Nat, NEW n \in Nat, NEW bytes \in [1..n -> Bytes], at + n <= 64
  PROVE  Field(Put(h, at, bytes), at, n, bytes)
<1>. DEFINE g == Put(h, at, bytes)
<1>1. \A i \in 0..63 : g[i] = IF at <= i /\ i < at + n THEN bytes[i - at + 1] ELSE h[i]
  BY PutIs
<1>. HIDE DEF g
<1>2. ASSUME NEW k \in 1..n
      PROVE  g[at + k - 1] = bytes[k]
  <2>1. /\ at + k - 1 \in 0..63 /\ (at + k - 1) - at + 1 = k
        /\ at <= at + k - 1 /\ at + k - 1 < at + n
    OBVIOUS
  <2>2. g[at + k - 1] = bytes[(at + k - 1) - at + 1]
    BY <1>1, <2>1
  <2>3. QED
    BY <2>1, <2>2
<1>3. QED
  BY <1>2 DEF Field, g

\* A put elsewhere leaves a field alone.
LEMMA PutKeeps ==
  ASSUME NEW h \in Headers, NEW at \in Nat, NEW n \in Nat, NEW bytes \in [1..n -> Bytes],
         NEW from \in Nat, NEW size \in Nat, NEW b, Field(h, from, size, b),
         from + size <= 64, from + size <= at \/ at + n <= from
  PROVE  Field(Put(h, at, bytes), from, size, b)
<1>. DEFINE g == Put(h, at, bytes)
<1>1. \A i \in 0..63 : g[i] = IF at <= i /\ i < at + n THEN bytes[i - at + 1] ELSE h[i]
  BY PutIs
<1>. HIDE DEF g
<1>2. ASSUME NEW k \in 1..size
      PROVE  g[from + k - 1] = b[k]
  <2>1. from + k - 1 \in 0..63 /\ ~(at <= from + k - 1 /\ from + k - 1 < at + n)
    OBVIOUS
  <2>2. g[from + k - 1] = h[from + k - 1]
    BY <1>1, <2>1
  <2>3. QED
    BY <2>2 DEF Field
<1>3. QED
  BY <1>2 DEF Field, g

\* What headerToHash holds of a job and a root.
Layout(h, j, r) ==
  /\ Field(h, 0, 4, BigEndian(j.height, 4))
  /\ Field(h, 4, 2, BigEndian(j.version, 2))
  /\ Field(h, 6, 12, Extract(j.previous, 12, 23))
  /\ Field(h, 18, 9, Extract(j.second, 15, 23))
  /\ Field(h, 27, 9, Extract(j.third, 15, 23))
  /\ Field(h, 36, 16, Extract(r, 0, 15))
  /\ Field(h, 56, 4, BigEndian(j.difficulty, 4))

LEMMA RootType ==
  ASSUME NEW r \in Text, RootExtracts(r)
  PROVE  Extract(r, 0, 15) \in [1..16 -> Bytes]
<1>1. Extract(r, 0, 15) \in [1 .. 15 - 0 + 1 -> Bytes]
  BY ExtractType DEF RootExtracts
<1>2. 15 - 0 + 1 = 16
  OBVIOUS
<1>3. QED
  BY <1>1, <1>2

LEMMA FieldTypes ==
  ASSUME NEW j \in JobsOfAnyKind, JobExtracts(j)
  PROVE  /\ BigEndian(j.height, 4) \in [1..4 -> Bytes]
         /\ BigEndian(j.version, 2) \in [1..2 -> Bytes]
         /\ BigEndian(j.difficulty, 4) \in [1..4 -> Bytes]
         /\ Extract(j.previous, 12, 23) \in [1..12 -> Bytes]
         /\ Extract(j.second, 15, 23) \in [1..9 -> Bytes]
         /\ Extract(j.third, 15, 23) \in [1..9 -> Bytes]
         /\ Extract(j.root, 0, 15) \in [1..16 -> Bytes]
<1>1. /\ j.height \in Int /\ j.version \in Int /\ j.difficulty \in Int
      /\ j.previous \in Text /\ j.second \in Text /\ j.third \in Text /\ j.root \in Text
  BY DEF JobsOfAnyKind
<1>2. /\ BigEndian(j.height, 4) \in [1..4 -> Bytes]
      /\ BigEndian(j.version, 2) \in [1..2 -> Bytes]
      /\ BigEndian(j.difficulty, 4) \in [1..4 -> Bytes]
  BY <1>1, BigEndianType
<1>3. Extract(j.previous, 12, 23) \in [1 .. 23 - 12 + 1 -> Bytes]
  BY <1>1, ExtractType DEF JobExtracts
<1>4. /\ Extract(j.second, 15, 23) \in [1 .. 23 - 15 + 1 -> Bytes]
      /\ Extract(j.third, 15, 23) \in [1 .. 23 - 15 + 1 -> Bytes]
  BY <1>1, ExtractType DEF JobExtracts
<1>5. Extract(j.root, 0, 15) \in [1..16 -> Bytes]
  BY <1>1, RootType DEF JobExtracts
<1>6. 23 - 12 + 1 = 12 /\ 23 - 15 + 1 = 9
  OBVIOUS
<1>7. QED
  BY <1>2, <1>3, <1>4, <1>5, <1>6

\* MINING_JOB leaves a header of bytes that holds the whole job.
LEMMA StoreJobStores ==
  ASSUME NEW h \in Headers, NEW j \in JobsOfAnyKind, JobExtracts(j)
  PROVE  StoreJob(h, j) \in Headers /\ Layout(StoreJob(h, j), j, j.root)
<1>. DEFINE height == BigEndian(j.height, 4)
            version == BigEndian(j.version, 2)
            difficulty == BigEndian(j.difficulty, 4)
            previous == Extract(j.previous, 12, 23)
            second == Extract(j.second, 15, 23)
            third == Extract(j.third, 15, 23)
            top == Extract(j.root, 0, 15)
            h1 == Put(h, 0, height)
            h2 == Put(h1, 4, version)
            h3 == Put(h2, 56, difficulty)
            h4 == Put(h3, 6, previous)
            h5 == Put(h4, 18, second)
            h6 == Put(h5, 27, third)
            h7 == Put(h6, 36, top)
<1>1. /\ height \in [1..4 -> Bytes] /\ version \in [1..2 -> Bytes] /\ difficulty \in [1..4 -> Bytes]
      /\ previous \in [1..12 -> Bytes] /\ second \in [1..9 -> Bytes] /\ third \in [1..9 -> Bytes]
      /\ top \in [1..16 -> Bytes]
  BY FieldTypes
<1>2. StoreJob(h, j) = h7
  BY Zenon DEF StoreJob
<1>. HIDE DEF height, version, difficulty, previous, second, third, top
<1>. HIDE DEF h1, h2, h3, h4, h5, h6, h7
<1>3. /\ h1 \in Headers
      /\ Field(h1, 0, 4, height)
  <2>1. h1 \in Headers
    BY <1>1, PutIs DEF h1
  <2>2. Field(h1, 0, 4, height)
    <3>1. 0 + 4 <= 64
      OBVIOUS
    <3>2. QED
      BY <1>1, <3>1, PutField DEF h1
  <2>3. QED
    BY <2>1, <2>2
<1>4. /\ h2 \in Headers
      /\ Field(h2, 4, 2, version)
      /\ Field(h2, 0, 4, height)
  <2>1. h2 \in Headers
    BY <1>1, <1>3, PutIs DEF h2
  <2>2. Field(h2, 4, 2, version)
    <3>1. 4 + 2 <= 64
      OBVIOUS
    <3>2. QED
      BY <1>1, <1>3, <3>1, PutField DEF h2
  <2>3. Field(h2, 0, 4, height)
    <3>1. 0 + 4 <= 64 /\ 0 + 4 <= 4
      OBVIOUS
    <3>2. QED
      BY <1>1, <1>3, <3>1, PutKeeps DEF h2
  <2>4. QED
    BY <2>1, <2>2, <2>3
<1>5. /\ h3 \in Headers
      /\ Field(h3, 56, 4, difficulty)
      /\ Field(h3, 0, 4, height)
      /\ Field(h3, 4, 2, version)
  <2>1. h3 \in Headers
    BY <1>1, <1>4, PutIs DEF h3
  <2>2. Field(h3, 56, 4, difficulty)
    <3>1. 56 + 4 <= 64
      OBVIOUS
    <3>2. QED
      BY <1>1, <1>4, <3>1, PutField DEF h3
  <2>3. Field(h3, 0, 4, height)
    <3>1. 0 + 4 <= 64 /\ 0 + 4 <= 56
      OBVIOUS
    <3>2. QED
      BY <1>1, <1>4, <3>1, PutKeeps DEF h3
  <2>4. Field(h3, 4, 2, version)
    <3>1. 4 + 2 <= 64 /\ 4 + 2 <= 56
      OBVIOUS
    <3>2. QED
      BY <1>1, <1>4, <3>1, PutKeeps DEF h3
  <2>5. QED
    BY <2>1, <2>2, <2>3, <2>4
<1>6. /\ h4 \in Headers
      /\ Field(h4, 6, 12, previous)
      /\ Field(h4, 0, 4, height)
      /\ Field(h4, 4, 2, version)
      /\ Field(h4, 56, 4, difficulty)
  <2>1. h4 \in Headers
    BY <1>1, <1>5, PutIs DEF h4
  <2>2. Field(h4, 6, 12, previous)
    <3>1. 6 + 12 <= 64
      OBVIOUS
    <3>2. QED
      BY <1>1, <1>5, <3>1, PutField DEF h4
  <2>3. Field(h4, 0, 4, height)
    <3>1. 0 + 4 <= 64 /\ 0 + 4 <= 6
      OBVIOUS
    <3>2. QED
      BY <1>1, <1>5, <3>1, PutKeeps DEF h4
  <2>4. Field(h4, 4, 2, version)
    <3>1. 4 + 2 <= 64 /\ 4 + 2 <= 6
      OBVIOUS
    <3>2. QED
      BY <1>1, <1>5, <3>1, PutKeeps DEF h4
  <2>5. Field(h4, 56, 4, difficulty)
    <3>1. 56 + 4 <= 64 /\ 6 + 12 <= 56
      OBVIOUS
    <3>2. QED
      BY <1>1, <1>5, <3>1, PutKeeps DEF h4
  <2>6. QED
    BY <2>1, <2>2, <2>3, <2>4, <2>5
<1>7. /\ h5 \in Headers
      /\ Field(h5, 18, 9, second)
      /\ Field(h5, 0, 4, height)
      /\ Field(h5, 4, 2, version)
      /\ Field(h5, 56, 4, difficulty)
      /\ Field(h5, 6, 12, previous)
  <2>1. h5 \in Headers
    BY <1>1, <1>6, PutIs DEF h5
  <2>2. Field(h5, 18, 9, second)
    <3>1. 18 + 9 <= 64
      OBVIOUS
    <3>2. QED
      BY <1>1, <1>6, <3>1, PutField DEF h5
  <2>3. Field(h5, 0, 4, height)
    <3>1. 0 + 4 <= 64 /\ 0 + 4 <= 18
      OBVIOUS
    <3>2. QED
      BY <1>1, <1>6, <3>1, PutKeeps DEF h5
  <2>4. Field(h5, 4, 2, version)
    <3>1. 4 + 2 <= 64 /\ 4 + 2 <= 18
      OBVIOUS
    <3>2. QED
      BY <1>1, <1>6, <3>1, PutKeeps DEF h5
  <2>5. Field(h5, 56, 4, difficulty)
    <3>1. 56 + 4 <= 64 /\ 18 + 9 <= 56
      OBVIOUS
    <3>2. QED
      BY <1>1, <1>6, <3>1, PutKeeps DEF h5
  <2>6. Field(h5, 6, 12, previous)
    <3>1. 6 + 12 <= 64 /\ 6 + 12 <= 18
      OBVIOUS
    <3>2. QED
      BY <1>1, <1>6, <3>1, PutKeeps DEF h5
  <2>7. QED
    BY <2>1, <2>2, <2>3, <2>4, <2>5, <2>6
<1>8. /\ h6 \in Headers
      /\ Field(h6, 27, 9, third)
      /\ Field(h6, 0, 4, height)
      /\ Field(h6, 4, 2, version)
      /\ Field(h6, 56, 4, difficulty)
      /\ Field(h6, 6, 12, previous)
      /\ Field(h6, 18, 9, second)
  <2>1. h6 \in Headers
    BY <1>1, <1>7, PutIs DEF h6
  <2>2. Field(h6, 27, 9, third)
    <3>1. 27 + 9 <= 64
      OBVIOUS
    <3>2. QED
      BY <1>1, <1>7, <3>1, PutField DEF h6
  <2>3. Field(h6, 0, 4, height)
    <3>1. 0 + 4 <= 64 /\ 0 + 4 <= 27
      OBVIOUS
    <3>2. QED
      BY <1>1, <1>7, <3>1, PutKeeps DEF h6
  <2>4. Field(h6, 4, 2, version)
    <3>1. 4 + 2 <= 64 /\ 4 + 2 <= 27
      OBVIOUS
    <3>2. QED
      BY <1>1, <1>7, <3>1, PutKeeps DEF h6
  <2>5. Field(h6, 56, 4, difficulty)
    <3>1. 56 + 4 <= 64 /\ 27 + 9 <= 56
      OBVIOUS
    <3>2. QED
      BY <1>1, <1>7, <3>1, PutKeeps DEF h6
  <2>6. Field(h6, 6, 12, previous)
    <3>1. 6 + 12 <= 64 /\ 6 + 12 <= 27
      OBVIOUS
    <3>2. QED
      BY <1>1, <1>7, <3>1, PutKeeps DEF h6
  <2>7. Field(h6, 18, 9, second)
    <3>1. 18 + 9 <= 64 /\ 18 + 9 <= 27
      OBVIOUS
    <3>2. QED
      BY <1>1, <1>7, <3>1, PutKeeps DEF h6
  <2>8. QED
    BY <2>1, <2>2, <2>3, <2>4, <2>5, <2>6, <2>7
<1>9. /\ h7 \in Headers
      /\ Field(h7, 36, 16, top)
      /\ Field(h7, 0, 4, height)
      /\ Field(h7, 4, 2, version)
      /\ Field(h7, 56, 4, difficulty)
      /\ Field(h7, 6, 12, previous)
      /\ Field(h7, 18, 9, second)
      /\ Field(h7, 27, 9, third)
  <2>1. h7 \in Headers
    BY <1>1, <1>8, PutIs DEF h7
  <2>2. Field(h7, 36, 16, top)
    <3>1. 36 + 16 <= 64
      OBVIOUS
    <3>2. QED
      BY <1>1, <1>8, <3>1, PutField DEF h7
  <2>3. Field(h7, 0, 4, height)
    <3>1. 0 + 4 <= 64 /\ 0 + 4 <= 36
      OBVIOUS
    <3>2. QED
      BY <1>1, <1>8, <3>1, PutKeeps DEF h7
  <2>4. Field(h7, 4, 2, version)
    <3>1. 4 + 2 <= 64 /\ 4 + 2 <= 36
      OBVIOUS
    <3>2. QED
      BY <1>1, <1>8, <3>1, PutKeeps DEF h7
  <2>5. Field(h7, 56, 4, difficulty)
    <3>1. 56 + 4 <= 64 /\ 36 + 16 <= 56
      OBVIOUS
    <3>2. QED
      BY <1>1, <1>8, <3>1, PutKeeps DEF h7
  <2>6. Field(h7, 6, 12, previous)
    <3>1. 6 + 12 <= 64 /\ 6 + 12 <= 36
      OBVIOUS
    <3>2. QED
      BY <1>1, <1>8, <3>1, PutKeeps DEF h7
  <2>7. Field(h7, 18, 9, second)
    <3>1. 18 + 9 <= 64 /\ 18 + 9 <= 36
      OBVIOUS
    <3>2. QED
      BY <1>1, <1>8, <3>1, PutKeeps DEF h7
  <2>8. Field(h7, 27, 9, third)
    <3>1. 27 + 9 <= 64 /\ 27 + 9 <= 36
      OBVIOUS
    <3>2. QED
      BY <1>1, <1>8, <3>1, PutKeeps DEF h7
  <2>9. QED
    BY <2>1, <2>2, <2>3, <2>4, <2>5, <2>6, <2>7, <2>8
<1>10. QED
  BY <1>2, <1>9 DEF Layout, height, version, difficulty, previous, second, third, top

\* A put into the root or the time leaves the rest of a job alone.
LEMMA PutKeepsJob ==
  ASSUME NEW h \in Headers, NEW at \in Nat, NEW n \in Nat, NEW bytes \in [1..n -> Bytes],
         36 <= at, at + n <= 56, NEW j, NEW r, Layout(h, j, r),
         NEW q, Field(Put(h, at, bytes), 36, 16, Extract(q, 0, 15))
  PROVE  Layout(Put(h, at, bytes), j, q)
<1>. DEFINE g == Put(h, at, bytes)
<1>1. Field(g, 0, 4, BigEndian(j.height, 4))
  <2>1. 0 + 4 <= 64 /\ 0 + 4 <= at
    OBVIOUS
  <2>2. Field(h, 0, 4, BigEndian(j.height, 4))
    BY Zenon DEF Layout
  <2>3. QED
    BY <2>1, <2>2, PutKeeps
<1>2. Field(g, 4, 2, BigEndian(j.version, 2))
  <2>1. 4 + 2 <= 64 /\ 4 + 2 <= at
    OBVIOUS
  <2>2. Field(h, 4, 2, BigEndian(j.version, 2))
    BY Zenon DEF Layout
  <2>3. QED
    BY <2>1, <2>2, PutKeeps
<1>3. Field(g, 6, 12, Extract(j.previous, 12, 23))
  <2>1. 6 + 12 <= 64 /\ 6 + 12 <= at
    OBVIOUS
  <2>2. Field(h, 6, 12, Extract(j.previous, 12, 23))
    BY Zenon DEF Layout
  <2>3. QED
    BY <2>1, <2>2, PutKeeps
<1>4. Field(g, 18, 9, Extract(j.second, 15, 23))
  <2>1. 18 + 9 <= 64 /\ 18 + 9 <= at
    OBVIOUS
  <2>2. Field(h, 18, 9, Extract(j.second, 15, 23))
    BY Zenon DEF Layout
  <2>3. QED
    BY <2>1, <2>2, PutKeeps
<1>5. Field(g, 27, 9, Extract(j.third, 15, 23))
  <2>1. 27 + 9 <= 64 /\ 27 + 9 <= at
    OBVIOUS
  <2>2. Field(h, 27, 9, Extract(j.third, 15, 23))
    BY Zenon DEF Layout
  <2>3. QED
    BY <2>1, <2>2, PutKeeps
<1>6. Field(g, 56, 4, BigEndian(j.difficulty, 4))
  <2>1. 56 + 4 <= 64 /\ at + n <= 56
    OBVIOUS
  <2>2. Field(h, 56, 4, BigEndian(j.difficulty, 4))
    BY Zenon DEF Layout
  <2>3. QED
    BY <2>1, <2>2, PutKeeps
<1>. HIDE DEF g
<1>7. Field(g, 36, 16, Extract(q, 0, 15))
  BY DEF g
<1>8. Layout(g, j, q)
  BY Zenon, <1>1, <1>2, <1>3, <1>4, <1>5, <1>6, <1>7 DEF Layout
<1>9. QED
  BY <1>8 DEF g

\* MINING_MEMPOOL_UPDATE changes the root and nothing else of the job.
LEMMA StoreRootStores ==
  ASSUME NEW h \in Headers, NEW hex \in Text, RootExtracts(hex)
  PROVE  /\ StoreRoot(h, hex) \in Headers
         /\ \A j, r : Layout(h, j, r) => Layout(StoreRoot(h, hex), j, hex)
<1>. DEFINE top == Extract(hex, 0, 15)
            g == Put(h, 36, top)
<1>1. top \in [1..16 -> Bytes]
  BY RootType
<1>2. 36 <= 36 /\ 36 + 16 <= 56 /\ 36 + 16 <= 64
  OBVIOUS
<1>. HIDE DEF top
<1>3. g \in Headers /\ Field(g, 36, 16, top)
  BY <1>1, <1>2, PutIs, PutField
<1>4. ASSUME NEW j, NEW r, Layout(h, j, r)
      PROVE  Layout(g, j, hex)
  <2>1. Field(g, 36, 16, Extract(hex, 0, 15))
    BY <1>3 DEF top
  <2>2. QED
    BY <1>1, <1>2, <1>4, <2>1, PutKeepsJob
<1>5. QED
  BY <1>3, <1>4 DEF StoreRoot, top

\* getWork() changes the time and nothing else of the job and the root.
LEMMA EmbedKeeps ==
  ASSUME NEW h \in Headers, NEW t \in Int
  PROVE  /\ embedTimestampInHeader(h, t) \in Headers
         /\ Field(embedTimestampInHeader(h, t), 52, 4, BigEndian(t, 4))
         /\ \A j, r : Layout(h, j, r) => Layout(embedTimestampInHeader(h, t), j, r)
<1>. DEFINE time == BigEndian(t, 4)
            g == Put(h, 52, time)
<1>1. time \in [1..4 -> Bytes]
  BY BigEndianType
<1>2. 36 <= 52 /\ 52 + 4 <= 56 /\ 52 + 4 <= 64 /\ 36 + 16 <= 52 /\ 36 + 16 <= 64
  OBVIOUS
<1>. HIDE DEF time
<1>3. g \in Headers /\ Field(g, 52, 4, time)
  BY <1>1, <1>2, PutIs, PutField
<1>4. ASSUME NEW j, NEW r, Layout(h, j, r)
      PROVE  Layout(g, j, r)
  <2>1. Field(h, 36, 16, Extract(r, 0, 15))
    BY Zenon, <1>4 DEF Layout
  <2>2. Field(g, 36, 16, Extract(r, 0, 15))
    BY <1>1, <1>2, <2>1, PutKeeps
  <2>3. QED
    BY <1>1, <1>2, <1>4, <2>2, PutKeepsJob
<1>5. QED
  BY <1>3, <1>4 DEF embedTimestampInHeader, time

-----------------------------------------------------------------------------
(* The rounds.                                                             *)

\* The job and the root in hand give headerToHash, or one of them has ended the
\* process.
JobInv ==
  /\ job = None => pc = "work" /\ meant = None
  /\ job # None => root \in Roots \cup {job.root}
  /\ job # None /\ pc # "terminated" =>
       JobExtracts(job) /\ RootExtracts(root) /\ Layout(headerToHash, job, root)
  /\ pc = "terminated" => ~RootExtracts(root) \/ (root = job.root /\ ~JobExtracts(job))

\* The miner's copy is that of the round's job, root and time, ...
CopyInv ==
  /\ pc \in {"write", "wait", "found"} => meant # None
  /\ meant = None => sent = <<>>
  /\ meant # None =>
       /\ JobExtracts(meant.job) /\ RootExtracts(meant.root)
       /\ Layout(header, meant.job, meant.root)
       /\ Field(header, 52, 4, BigEndian(meant.time, 4))

\* ... what is written of it are whole words, highest byte first, ...
SentInv ==
  /\ Len(sent) % 8 = 0
  /\ pc = "write" => Len(sent) < 64
  /\ \A i \in 0 .. Len(sent) - 1 : sent[8 * (i \div 8) + 8 - (i % 8)] = header[i]

\* ... and the share is the nonce that the card found.
ShareInv ==
  /\ pc \in {"write", "wait", "found"} => share = None
  /\ share # None => found # None /\ share = Swapped(found)

RoundInv == TypeOK /\ NonceInv /\ JobInv /\ CopyInv /\ SentInv /\ ShareInv

LEMMA RoundInit == ASSUME Init PROVE RoundInv
<1>1. TypeOK
  <2>1. Zero \in Nonces
    BY DEF Zero, Nonces, Bytes
  <2>2. [i \in 0..63 |-> Unset] \in [0..63 -> Bytes] /\ StartNonce \in Nonces
    BY HeaderAssumption
  <2>3. QED
    BY <2>1, <2>2 DEF Init, TypeOK, None
<1>2. NonceInv
  BY NonceInit
<1>3. JobInv /\ CopyInv
  BY DEF Init, JobInv, CopyInv, None
<1>4. SentInv /\ ShareInv
  BY DEF Init, SentInv, ShareInv, None
<1>5. QED
  BY <1>1, <1>2, <1>3, <1>4 DEF RoundInv

LEMMA AddOffsetType == ASSUME NEW n \in Nonces PROVE AddOffset(n) \in Nonces
<1>. DEFINE carry(i) == n[4] > 126 /\ \A k \in i + 1 .. 3 : n[k] = 255
            added(i) == n[i] + IF i = 4 THEN 129 ELSE IF carry(i) THEN 1 ELSE 0
<1>1. ASSUME NEW i \in 1..4
      PROVE  (IF added(i) > 255 THEN added(i) - 256 ELSE added(i)) \in Bytes
  <2>1. n[i] \in 0..255
    BY DEF Nonces, Bytes
  <2>. HIDE DEF carry
  <2>2. QED
    BY <2>1 DEF Bytes
<1>2. AddOffset(n) = [i \in 1..4 |-> IF added(i) > 255 THEN added(i) - 256 ELSE added(i)]
  BY DEF AddOffset
<1>. HIDE DEF added
<1>3. QED
  BY <1>1, <1>2 DEF Nonces

LEMMA SwappedType == ASSUME NEW n \in Nonces PROVE Swapped(n) \in Nonces
BY DEF Swapped, Nonces

\* A word of the copy, its highest byte first.
LEMMA WordSent ==
  ASSUME NEW h \in Headers, NEW k \in 0..7
  PROVE  /\ unpack_uint64(Uint64(h, k)) \in [1..8 -> Bytes]
         /\ \A m \in 1..8 : unpack_uint64(Uint64(h, k))[m] = h[8 * k + (8 - m)]
<1>1. ASSUME NEW m \in 1..8
      PROVE  Uint64(h, k)[8 - m] = h[8 * k + (8 - m)] /\ h[8 * k + (8 - m)] \in Bytes
  <2>1. 8 - m \in 0..7 /\ 8 * k + (8 - m) \in 0..63
    OBVIOUS
  <2>2. QED
    BY <2>1 DEF Uint64, Headers
<1>2. QED
  BY <1>1 DEF unpack_uint64

LEMMA JobTexts ==
  ASSUME NEW j \in Jobs
  PROVE  /\ j \in JobsOfAnyKind
         /\ j.previous \in Text /\ j.second \in Text /\ j.third \in Text
         /\ j.root \in Text /\ j.target \in Text
         /\ j.height \in Int /\ j.version \in Int /\ j.difficulty \in Int
BY HeaderAssumption DEF JobsOfAnyKind

LEMMA JobIsNotNone == ASSUME NEW j \in Jobs PROVE j # None
<1>1. DOMAIN j = {"height", "version", "previous", "second", "third", "root", "difficulty", "target"}
  BY JobTexts DEF JobsOfAnyKind
<1>2. DOMAIN None = {}
  BY DEF None
<1>3. QED
  BY <1>1, <1>2

LEMMA MiningJobStep ==
  ASSUME RoundInv, NEW j \in Jobs, MiningJob(j), NonceInv'
  PROVE  RoundInv'
<1>. USE DEF RoundInv
<1>1. /\ pc = "work" /\ job' = j /\ root' = j.root
      /\ UNCHANGED <<header, sent, answer, nonce, lastNonce1, meant, found, share, withheld>>
  BY DEF MiningJob
<1>2. headerToHash \in Headers
  BY DEF TypeOK, Headers
<1>3. CASE JobExtracts(j)
  <2>1. headerToHash' = StoreJob(headerToHash, j) /\ pc' = "work"
    BY <1>1, <1>3 DEF MiningJob
  <2>2. headerToHash' \in Headers /\ Layout(headerToHash, job, root)'
    BY <1>1, <1>2, <1>3, <2>1, JobTexts, StoreJobStores
  <2>3. TypeOK'
    BY <1>1, <2>1, <2>2 DEF TypeOK, Headers
  <2>4. JobInv'
    BY <1>1, <1>3, <2>1, <2>2, JobIsNotNone DEF JobInv, JobExtracts
  <2>5. CopyInv' /\ SentInv' /\ ShareInv'
    BY <1>1, <2>1 DEF CopyInv, SentInv, ShareInv
  <2>6. QED
    BY <2>3, <2>4, <2>5
<1>4. CASE ~JobExtracts(j)
  <2>1. UNCHANGED headerToHash /\ pc' = "terminated"
    BY <1>1, <1>4 DEF MiningJob, Terminate
  <2>3. TypeOK'
    BY <1>1, <2>1 DEF TypeOK
  <2>4. JobInv'
    BY <1>1, <1>4, <2>1, JobIsNotNone DEF JobInv
  <2>5. CopyInv' /\ SentInv' /\ ShareInv'
    BY <1>1, <2>1 DEF CopyInv, SentInv, ShareInv
  <2>6. QED
    BY <2>3, <2>4, <2>5
<1>5. QED
  BY <1>3, <1>4

LEMMA MiningMempoolUpdateStep ==
  ASSUME RoundInv, NEW hex \in Roots, MiningMempoolUpdate(hex), NonceInv'
  PROVE  RoundInv'
<1>. USE DEF RoundInv
<1>1. /\ pc = "work" /\ root' = hex /\ job # None
      /\ UNCHANGED <<job, header, sent, answer, nonce, lastNonce1, meant, found, share, withheld>>
  BY DEF MiningMempoolUpdate
<1>2. headerToHash \in Headers /\ hex \in Text
  BY HeaderAssumption DEF TypeOK, Headers
<1>3. CASE RootExtracts(hex)
  <2>1. headerToHash' = StoreRoot(headerToHash, hex) /\ pc' = "work"
    BY <1>1, <1>3 DEF MiningMempoolUpdate
  <2>2. headerToHash' \in Headers /\ Layout(headerToHash, job, root)'
    <3>1. Layout(headerToHash, job, root)
      BY <1>1 DEF JobInv
    <3>2. QED
      BY <1>1, <1>2, <1>3, <2>1, <3>1, StoreRootStores
  <2>3. TypeOK'
    BY <1>1, <2>1, <2>2 DEF TypeOK, Headers
  <2>4. JobInv'
    BY <1>1, <1>3, <2>1, <2>2 DEF JobInv
  <2>5. CopyInv' /\ SentInv' /\ ShareInv'
    BY <1>1, <2>1 DEF CopyInv, SentInv, ShareInv
  <2>6. QED
    BY <2>3, <2>4, <2>5
<1>4. CASE ~RootExtracts(hex)
  <2>1. UNCHANGED headerToHash /\ pc' = "terminated"
    BY <1>1, <1>4 DEF MiningMempoolUpdate, Terminate
  <2>2. TypeOK'
    BY <1>1, <2>1 DEF TypeOK
  <2>3. JobInv'
    BY <1>1, <1>4, <2>1 DEF JobInv
  <2>4. CopyInv' /\ SentInv' /\ ShareInv'
    BY <1>1, <2>1 DEF CopyInv, SentInv, ShareInv
  <2>5. QED
    BY <2>2, <2>3, <2>4
<1>5. QED
  BY <1>3, <1>4

LEMMA getWorkStep ==
  ASSUME RoundInv, NEW t \in Times, getWork(t), NonceInv'
  PROVE  RoundInv'
<1>. USE DEF RoundInv
<1>1. /\ pc = "work" /\ job # None /\ pc' = "write"
      /\ header' = embedTimestampInHeader(headerToHash, t)
      /\ meant' = [job |-> job, root |-> root, time |-> t]
      /\ sent' = <<>> /\ answer' = None /\ found' = None /\ share' = None /\ withheld' = {}
      /\ UNCHANGED <<client, nonce, lastNonce1>>
  BY DEF getWork
<1>2. headerToHash \in Headers /\ t \in Int
  BY HeaderAssumption DEF TypeOK, Headers
<1>3. /\ job \in Jobs /\ root \in Roots \cup {job.root}
      /\ JobExtracts(job) /\ RootExtracts(root) /\ Layout(headerToHash, job, root)
  BY <1>1 DEF JobInv, TypeOK
<1>4. /\ header' \in Headers /\ Layout(header', job, root)
      /\ Field(header', 52, 4, BigEndian(t, 4))
  BY <1>1, <1>2, <1>3, EmbedKeeps
<1>5. meant'.job = job /\ meant'.root = root /\ meant'.time = t /\ meant' # None
  BY <1>1 DEF None
<1>6. TypeOK'
  <2>1. meant' \in [job : Jobs, root : Roots \cup {j.root : j \in Jobs}, time : Times]
    BY <1>1, <1>3
  <2>2. QED
    BY <1>1, <1>4, <2>1 DEF TypeOK, Headers, client, None
<1>7. JobInv'
  BY <1>1, <1>3 DEF JobInv, client
<1>8. CopyInv'
  BY <1>1, <1>3, <1>4, <1>5 DEF CopyInv
<1>9. SentInv' /\ ShareInv'
  BY <1>1 DEF SentInv, ShareInv
<1>10. QED
  BY <1>6, <1>7, <1>8, <1>9

LEMMA WriteWordStep ==
  ASSUME RoundInv, WriteWord, NonceInv'
  PROVE  RoundInv'
<1>. USE DEF RoundInv
<1>. DEFINE k == Len(sent) \div 8
            word == unpack_uint64(Uint64(header, k))
<1>1. /\ pc = "write" /\ sent' = sent \o word
      /\ pc' = IF Len(sent') = 64 THEN "wait" ELSE "write"
      /\ UNCHANGED <<client, header, answer, nonce, lastNonce1, meant, found, share, withheld>>
  BY DEF WriteWord
<1>2. header \in Headers /\ sent \in Seq(Bytes) /\ Len(sent) \in Nat
  BY DEF TypeOK, Headers
<1>3. k \in 0..7 /\ Len(sent) = 8 * k
  <2>1. Len(sent) % 8 = 0 /\ Len(sent) < 64
    BY <1>1 DEF SentInv
  <2>2. QED
    BY <1>2, <2>1
<1>. HIDE DEF k
<1>4. /\ word \in [1..8 -> Bytes]
      /\ \A m \in 1..8 : word[m] = header[8 * k + (8 - m)]
  BY <1>2, <1>3, WordSent
<1>. HIDE DEF word
<1>5. word \in Seq(Bytes) /\ Len(word) = 8
  <2>1. word \in Seq(Bytes)
    BY <1>4, SeqDef
  <2>2. Len(word) \in Nat /\ DOMAIN word = 1 .. Len(word) /\ DOMAIN word = 1..8
    BY <1>4, <2>1, LenProperties
  <2>3. 8 \in 1 .. Len(word)
    BY <2>2
  <2>4. Len(word) \in 1..8
    <3>1. Len(word) \in 1 .. Len(word)
      BY <2>2, <2>3
    <3>2. QED
      BY Zenon, <2>2, <3>1
  <2>5. Len(word) = 8
    <3>. DEFINE l == Len(word)
    <3>1. l \in 1..8 /\ 8 \in 1..l
      BY <2>3, <2>4
    <3>. HIDE DEF l
    <3>2. l = 8
      BY <3>1
    <3>3. QED
      BY <3>2 DEF l
  <2>6. QED
    BY <2>1, <2>5
<1>6. /\ sent' \in Seq(Bytes) /\ Len(sent') = 8 * k + 8
      /\ \A q \in 1 .. 8 * k + 8 : sent'[q] = IF q <= 8 * k THEN sent[q] ELSE word[q - 8 * k]
  <2>1. /\ sent \o word \in Seq(Bytes) /\ Len(sent \o word) = Len(sent) + Len(word)
        /\ \A q \in 1 .. Len(sent) + Len(word) :
             (sent \o word)[q] = IF q <= Len(sent) THEN sent[q] ELSE word[q - Len(sent)]
    BY <1>2, <1>5, ConcatProperties
  <2>2. QED
    BY <1>1, <1>3, <1>5, <2>1
<1>7. ASSUME NEW i \in 0 .. Len(sent') - 1
      PROVE  sent'[8 * (i \div 8) + 8 - (i % 8)] = header[i]
  <2>. DEFINE p == 8 * (i \div 8) + 8 - (i % 8)
  <2>1. i \in Nat /\ i < 8 * k + 8
    BY <1>3, <1>6
  <2>2. CASE i < 8 * k
    <3>1. p \in 1 .. 8 * k
      BY <1>3, <2>1, <2>2
    <3>2. sent'[p] = sent[p]
      <4>. HIDE DEF p
      <4>1. QED
        BY <1>3, <1>6, <3>1
    <3>3. sent[p] = header[i]
      BY <1>3, <2>1, <2>2 DEF SentInv
    <3>4. QED
      BY <3>2, <3>3
  <2>3. CASE i >= 8 * k
    <3>1. i \div 8 = k /\ i % 8 = i - 8 * k
      BY <1>3, <2>1, <2>3
    <3>2. p = 8 * k + 8 - (i - 8 * k)
      BY <3>1
    <3>3. /\ p \in 1 .. 8 * k + 8 /\ p > 8 * k
          /\ p - 8 * k \in 1..8 /\ 8 * k + (8 - (p - 8 * k)) = i
      <4>. HIDE DEF p
      <4>1. QED
        BY <1>3, <2>1, <2>3, <3>2
    <3>. HIDE DEF p
    <3>4. sent'[p] = word[p - 8 * k]
      BY <1>3, <1>6, <3>3
    <3>5. word[p - 8 * k] = header[i]
      BY <1>4, <3>3
    <3>6. QED
      BY <3>4, <3>5 DEF p
  <2>4. QED
    BY <1>3, <2>1, <2>2, <2>3
<1>8. TypeOK'
  <2>1. sent' \in Seq(Bytes) /\ Len(sent') <= 64
    BY <1>3, <1>6
  <2>2. pc' \in {"write", "wait"}
    BY <1>1
  <2>3. QED
    BY <1>1, <2>1, <2>2 DEF TypeOK, client
<1>9. JobInv'
  BY <1>1 DEF JobInv, client
<1>10. CopyInv'
  BY <1>1 DEF CopyInv
<1>11. SentInv'
  <2>1. (8 * k + 8) % 8 = 0 /\ (pc' = "write" => 8 * k + 8 < 64)
    BY <1>1, <1>3, <1>6
  <2>2. header' = header
    BY <1>1
  <2>3. QED
    BY <1>6, <1>7, <2>1, <2>2 DEF SentInv
<1>12. ShareInv'
  BY <1>1 DEF ShareInv
<1>13. QED
  BY <1>8, <1>9, <1>10, <1>11, <1>12

LEMMA AnswerStep ==
  ASSUME RoundInv, Answer, NonceInv'
  PROVE  RoundInv'
<1>. USE DEF RoundInv
<1>1. /\ pc = "wait" /\ UNCHANGED <<pc, client, header, sent, nonce, lastNonce1, meant, share, withheld>>
      /\ (found' \in Finds /\ answer' = AddOffset(found')) \/ (found' = None /\ answer' = Exhausted)
  BY DEF Answer
<1>2. answer' \in Nonces
  <2>1. Exhausted \in Nonces
    BY DEF Exhausted, Nonces, Bytes
  <2>2. QED
    BY <1>1, <2>1, AddOffsetType, HeaderAssumption
<1>3. TypeOK'
  BY <1>1, <1>2 DEF TypeOK, client
<1>4. JobInv'
  BY <1>1 DEF JobInv, client
<1>5. CopyInv' /\ SentInv' /\ ShareInv'
  BY <1>1 DEF CopyInv, SentInv, ShareInv
<1>6. QED
  BY <1>3, <1>4, <1>5

LEMMA recvserialStep ==
  ASSUME RoundInv, recvserial, NonceInv'
  PROVE  RoundInv'
<1>. USE DEF RoundInv
<1>1. /\ pc = "wait" /\ answer' = None
      /\ UNCHANGED <<client, header, sent, lastNonce1, meant, found, share>>
      /\ pc' \in {"wait", "work", "found"}
      /\ (pc' # "found" /\ nonce' = nonce) \/ pc' = "found"
  BY DEF recvserial
<1>2. /\ found \in Finds \cup {None}
      /\ withheld' = withheld \/ (withheld' = withheld \cup {found} /\ found # None)
  <2>1. withheld' = withheld \/ Withhold
    BY DEF recvserial
  <2>2. QED
    BY <2>1 DEF Withhold, TypeOK
<1>3. nonce' \in Nonces
  <2>1. CASE pc' = "found"
    BY <1>1, <1>2, <2>1, SwappedType, HeaderAssumption DEF NonceInv
  <2>2. CASE pc' # "found"
    BY <1>1, <2>2 DEF TypeOK
  <2>3. QED
    BY <2>1, <2>2
<1>4. TypeOK'
  BY <1>1, <1>2, <1>3 DEF TypeOK, client
<1>5. JobInv'
  BY <1>1 DEF JobInv, client
<1>6. CopyInv' /\ SentInv' /\ ShareInv'
  BY <1>1 DEF CopyInv, SentInv, ShareInv
<1>7. QED
  BY <1>4, <1>5, <1>6

LEMMA submitWorkStep ==
  ASSUME RoundInv, submitWork, NonceInv'
  PROVE  RoundInv'
<1>. USE DEF RoundInv
<1>1. /\ pc = "found" /\ pc' = "work"
      /\ UNCHANGED <<client, header, sent, answer, nonce, meant, found>>
      /\ (share' = nonce /\ lastNonce1' = nonce) \/ UNCHANGED <<share, lastNonce1>>
      /\ withheld' \in {withheld, withheld \cup {found}}
  BY DEF submitWork, Withhold
<1>2. found # None /\ found \in Finds /\ nonce = Swapped(found) /\ nonce \in Nonces
  BY <1>1 DEF NonceInv, TypeOK
<1>3. TypeOK'
  BY <1>1, <1>2 DEF TypeOK, client
<1>4. JobInv'
  BY <1>1 DEF JobInv, client
<1>5. CopyInv' /\ SentInv'
  BY <1>1 DEF CopyInv, SentInv
<1>6. ShareInv'
  BY <1>1, <1>2 DEF ShareInv
<1>7. QED
  BY <1>3, <1>4, <1>5, <1>6

LEMMA RoundStep == ASSUME RoundInv, [Next]_vars PROVE RoundInv'
<1>1. NonceInv'
  BY NonceStep DEF RoundInv
<1>2. ASSUME NEW j \in Jobs, MiningJob(j)
      PROVE  RoundInv'
  BY <1>1, <1>2, MiningJobStep
<1>3. ASSUME NEW hex \in Roots, MiningMempoolUpdate(hex)
      PROVE  RoundInv'
  BY <1>1, <1>3, MiningMempoolUpdateStep
<1>4. ASSUME NEW t \in Times, getWork(t)
      PROVE  RoundInv'
  BY <1>1, <1>4, getWorkStep
<1>5. CASE WriteWord
  BY <1>1, <1>5, WriteWordStep
<1>6. CASE Answer
  BY <1>1, <1>6, AnswerStep
<1>7. CASE recvserial
  BY <1>1, <1>7, recvserialStep
<1>8. CASE submitWork
  BY <1>1, <1>8, submitWorkStep
<1>9. CASE UNCHANGED vars
  BY <1>1, <1>9 DEF vars, client, RoundInv, TypeOK, JobInv, CopyInv, SentInv, ShareInv
<1>10. QED
  BY <1>2, <1>3, <1>4, <1>5, <1>6, <1>7, <1>8, <1>9 DEF Next

LEMMA RoundAlways == Spec => []RoundInv
BY RoundInit, RoundStep, PTL DEF Spec

-----------------------------------------------------------------------------
(* The theorems.                                                           *)

\* Neither the text of a job, nor the bytes of a number, nor the offset of a
\* nonce leaves a value that is not a byte.
THEOREM TypesAreKept == Spec => []TypeOK
<1>1. RoundInv => TypeOK
  BY DEF RoundInv
<1>2. QED
  BY <1>1, RoundAlways, PTL

\* What has ended the process is a text that no correct pool sends: not
\* hexadecimal, of an odd length or too short.
THEOREM EndsForBadText == Spec => []EndsOnlyOnBadText
<1>1. ASSUME RoundInv, pc = "terminated"
      PROVE  \/ ~WellFormed(root, 16)
             \/ \E hex \in {job.previous, job.second, job.third, job.target} : ~WellFormed(hex, 24)
  <2>1. /\ job # None /\ job \in Jobs /\ root \in Roots \cup {job.root}
        /\ ~RootExtracts(root) \/ (root = job.root /\ ~JobExtracts(job))
    BY <1>1 DEF RoundInv, JobInv, TypeOK
  <2>2. /\ job.previous \in Text /\ job.second \in Text /\ job.third \in Text
        /\ job.target \in Text /\ root \in Text
    BY <2>1, JobTexts, HeaderAssumption
  <2>3. WellFormed(root, 16) => RootExtracts(root)
    <3>1. 16 - 1 = 15
      OBVIOUS
    <3>2. QED
      BY <2>2, <3>1, WellFormedExtracts DEF RootExtracts
  <2>4. ASSUME NEW hex \in {job.previous, job.second, job.third, job.target}, WellFormed(hex, 24)
        PROVE  \A i \in 0..23 : Extracts(hex, i)
    <3>1. 24 - 1 = 23 /\ hex \in Text
      BY <2>2
    <3>2. QED
      BY <2>4, <3>1, WellFormedExtracts
  <2>5. QED
    BY <2>1, <2>3, <2>4 DEF JobExtracts
<1>2. RoundInv => EndsOnlyOnBadText
  BY <1>1 DEF EndsOnlyOnBadText
<1>3. QED
  BY <1>2, RoundAlways, PTL

\* The bytes of a number, two by two, are its two halves.
LEMMA HalvesAre ==
  ASSUME NEW n \in Int
  PROVE  /\ 256 * BigEndian(n, 4)[1] + BigEndian(n, 4)[2] = (n \div 65536) % 65536
         /\ 256 * BigEndian(n, 4)[3] + BigEndian(n, 4)[4] = n % 65536
         /\ 256 * BigEndian(n, 2)[1] + BigEndian(n, 2)[2] = n % 65536
<1>1. /\ PowersOf256[1] = 1 /\ PowersOf256[2] = 256
      /\ PowersOf256[3] = 65536 /\ PowersOf256[4] = 16777216
  BY SMT DEF PowersOf256
<1>2. /\ BigEndian(n, 4)[1] = (n \div 16777216) % 256 /\ BigEndian(n, 4)[2] = (n \div 65536) % 256
      /\ BigEndian(n, 4)[3] = (n \div 256) % 256 /\ BigEndian(n, 4)[4] = (n \div 1) % 256
  BY SMT, <1>1 DEF BigEndian
<1>3. BigEndian(n, 2)[1] = (n \div 256) % 256 /\ BigEndian(n, 2)[2] = (n \div 1) % 256
  BY SMT, <1>1 DEF BigEndian
<1>4. ASSUME NEW m \in Int
      PROVE  256 * ((m \div 256) % 256) + (m % 256) = m % 65536
  <2>. DEFINE q == m \div 256
              a == m \div 65536
              b == q % 256
              low == m % 256
  <2>1. /\ q \in Int /\ a \in Int /\ low \in Int /\ q \div 256 = a
        /\ low = m - 256 * q /\ m % 65536 = m - 65536 * a
    BY SMT
  <2>. HIDE DEF q, a, low
  <2>2. b \in Int /\ b = q - 256 * (q \div 256)
    BY SMT, <2>1
  <2>. HIDE DEF b
  <2>3. b = q - 256 * a
    BY SMT, <2>1, <2>2
  <2>4. 256 * b + low = m - 65536 * a
    BY SMT, <2>1, <2>2, <2>3
  <2>5. 256 * b + low = m % 65536
    BY SMT, <2>1, <2>4
  <2>6. QED
    BY <2>5 DEF b, low, q
<1>5. /\ n \div 1 = n /\ n \div 65536 \in Int
      /\ n \div 16777216 = (n \div 65536) \div 256
  BY SMT
<1>6. 256 * BigEndian(n, 4)[1] + BigEndian(n, 4)[2] = (n \div 65536) % 65536
  <2>1. 256 * (((n \div 65536) \div 256) % 256) + ((n \div 65536) % 256) = (n \div 65536) % 65536
    BY <1>4, <1>5
  <2>2. BigEndian(n, 4)[1] = ((n \div 65536) \div 256) % 256
    BY SMT, <1>2, <1>5
  <2>3. QED
    BY SMT, <1>2, <2>1, <2>2
<1>7. 256 * ((n \div 256) % 256) + (n % 256) = n % 65536
  BY <1>4
<1>8. (n \div 1) % 256 = n % 256
  BY SMT, <1>5
<1>9. /\ BigEndian(n, 4)[3] = (n \div 256) % 256 /\ BigEndian(n, 4)[4] = n % 256
      /\ BigEndian(n, 2)[1] = (n \div 256) % 256 /\ BigEndian(n, 2)[2] = n % 256
  BY SMT, <1>2, <1>3, <1>8
<1>10. ASSUME NEW x \in Int, NEW y \in Int, x = (n \div 256) % 256, y = n % 256
       PROVE  256 * x + y = n % 65536
  BY SMT, <1>7, <1>10
<1>11. (n \div 256) % 256 \in Int /\ n % 256 \in Int
  BY SMT
<1>12. /\ BigEndian(n, 4)[3] \in Int /\ BigEndian(n, 4)[4] \in Int
       /\ BigEndian(n, 2)[1] \in Int /\ BigEndian(n, 2)[2] \in Int
  BY <1>9, <1>11
<1>13. 256 * BigEndian(n, 4)[3] + BigEndian(n, 4)[4] = n % 65536
  <2>. DEFINE x == BigEndian(n, 4)[3]
              y == BigEndian(n, 4)[4]
  <2>1. x \in Int /\ y \in Int /\ x = (n \div 256) % 256 /\ y = n % 256
    BY <1>9, <1>12
  <2>. HIDE DEF x, y
  <2>2. 256 * x + y = n % 65536
    BY <1>10, <2>1
  <2>3. QED
    BY <2>2 DEF x, y
<1>14. 256 * BigEndian(n, 2)[1] + BigEndian(n, 2)[2] = n % 65536
  <2>. DEFINE x == BigEndian(n, 2)[1]
              y == BigEndian(n, 2)[2]
  <2>1. x \in Int /\ y \in Int /\ x = (n \div 256) % 256 /\ y = n % 256
    BY <1>9, <1>12
  <2>. HIDE DEF x, y
  <2>2. 256 * x + y = n % 65536
    BY <1>10, <2>1
  <2>3. QED
    BY <2>2 DEF x, y
<1>15. QED
  BY <1>6, <1>13, <1>14

LEMMA WholeHeaderIsHashed ==
  ASSUME RoundInv, Len(sent) = 64, NEW i \in 0..59
  PROVE  Hashed(i) = header[i]
BY DEF RoundInv, SentInv, Hashed

\* A field of the copy is hashed as it is.
LEMMA FieldIsHashed ==
  ASSUME RoundInv, Len(sent) = 64, NEW at \in Nat, NEW n \in Nat, at + n <= 60,
         NEW bytes, Field(header, at, n, bytes)
  PROVE  \A k \in 1..n : Hashed(at + k - 1) = bytes[k]
<1>1. ASSUME NEW k \in 1..n
      PROVE  Hashed(at + k - 1) = bytes[k]
  <2>1. at + k - 1 \in 0..59
    OBVIOUS
  <2>2. header[at + k - 1] = bytes[k]
    BY DEF Field
  <2>3. QED
    BY <2>1, <2>2, WholeHeaderIsHashed
<1>2. QED
  BY <1>1

LEMMA TextIsHashed ==
  ASSUME RoundInv, Len(sent) = 64, NEW at \in Nat, NEW n \in Nat, at + n <= 60,
         NEW bytes \in [1..n -> Bytes], Field(header, at, n, bytes)
  PROVE  HashedBytes(at, at + n - 1) = bytes
<1>1. \A k \in 1..n : Hashed(at + k - 1) = bytes[k]
  BY FieldIsHashed
<1>2. (at + n - 1) - at + 1 = n
  OBVIOUS
<1>3. QED
  BY <1>1, <1>2 DEF HashedBytes

LEMMA NumberIsHashed ==
  ASSUME RoundInv, Len(sent) = 64, NEW at \in {0, 52, 56}, NEW n \in Int,
         Field(header, at, 4, BigEndian(n, 4))
  PROVE  Shows(at, n)
<1>1. /\ Hashed(at + 1 - 1) = BigEndian(n, 4)[1] /\ Hashed(at + 2 - 1) = BigEndian(n, 4)[2]
      /\ Hashed(at + 3 - 1) = BigEndian(n, 4)[3] /\ Hashed(at + 4 - 1) = BigEndian(n, 4)[4]
  <2>1. at + 4 <= 60
    OBVIOUS
  <2>2. BigEndian(n, 4) \in [1..4 -> Bytes]
    BY BigEndianType
  <2>3. \A k \in 1..4 : Hashed(at + k - 1) = BigEndian(n, 4)[k]
    BY <2>1, <2>2, FieldIsHashed
  <2>4. QED
    BY <2>3
<1>2. /\ at + 1 - 1 = at /\ at + 2 - 1 = at + 1 /\ at + 3 - 1 = at + 2
      /\ at + 4 - 1 = (at + 2) + 1
  OBVIOUS
<1>3. QED
  BY <1>1, <1>2, HalvesAre DEF Shows, Pair

\* Whatever job and root the pool sends, at whatever time, and whatever nonce the
\* card finds, the header that the card hashes is the one that the pool rebuilds
\* from the share: no conversion of a text, a number or a nonce loses, moves or
\* turns a byte.
THEOREM TheCardHashesTheJob == Spec => []HashedAsMeant
<1>1. ASSUME RoundInv, Len(sent) = 64
      PROVE  /\ Shows(0, meant.job.height)
             /\ Pair(4) = meant.job.version % 65536
             /\ HashedBytes(6, 17) = Decoded(meant.job.previous, 13, 24)
             /\ HashedBytes(18, 26) = Decoded(meant.job.second, 16, 24)
             /\ HashedBytes(27, 35) = Decoded(meant.job.third, 16, 24)
             /\ HashedBytes(36, 51) = Decoded(meant.root, 1, 16)
             /\ Shows(52, meant.time)
             /\ Shows(56, meant.job.difficulty)
  <2>. DEFINE j == meant.job
              r == meant.root
  <2>1. meant # None
    <3>1. Len(<<>>) = 0
      OBVIOUS
    <3>2. QED
      BY <1>1, <3>1 DEF RoundInv, CopyInv
  <2>2. /\ j \in Jobs /\ r \in Roots \cup {q.root : q \in Jobs} /\ meant.time \in Times
    BY <1>1, <2>1 DEF RoundInv, TypeOK
  <2>3. /\ JobExtracts(j) /\ RootExtracts(r) /\ Layout(header, j, r)
        /\ Field(header, 52, 4, BigEndian(meant.time, 4))
    BY <1>1, <2>1 DEF RoundInv, CopyInv
  <2>. HIDE DEF j, r
  <2>4. /\ j \in JobsOfAnyKind /\ r \in Text /\ meant.time \in Int
        /\ j.previous \in Text /\ j.second \in Text /\ j.third \in Text
        /\ j.height \in Int /\ j.version \in Int /\ j.difficulty \in Int
    BY <2>2, JobTexts, HeaderAssumption
  <2>5. Shows(0, j.height) /\ Shows(52, meant.time) /\ Shows(56, j.difficulty)
    <3>1. Field(header, 0, 4, BigEndian(j.height, 4)) /\ Field(header, 56, 4, BigEndian(j.difficulty, 4))
      BY <2>3 DEF Layout
    <3>2. QED
      BY <1>1, <2>3, <2>4, <3>1, NumberIsHashed
  <2>6. Pair(4) = j.version % 65536
    <3>1. Field(header, 4, 2, BigEndian(j.version, 2)) /\ BigEndian(j.version, 2) \in [1..2 -> Bytes]
      BY <2>3, <2>4, FieldTypes DEF Layout
    <3>2. 4 + 2 <= 60
      OBVIOUS
    <3>3. \A k \in 1..2 : Hashed(4 + k - 1) = BigEndian(j.version, 2)[k]
      BY <1>1, <3>1, <3>2, FieldIsHashed
    <3>4. Hashed(4 + 1 - 1) = BigEndian(j.version, 2)[1] /\ Hashed(4 + 2 - 1) = BigEndian(j.version, 2)[2]
      BY <3>3
    <3>5. 4 + 1 - 1 = 4 /\ 4 + 2 - 1 = 4 + 1
      OBVIOUS
    <3>6. QED
      BY <2>4, <3>4, <3>5, HalvesAre DEF Pair
  <2>7. HashedBytes(6, 17) = Decoded(j.previous, 13, 24)
    <3>1. Field(header, 6, 12, Extract(j.previous, 12, 23)) /\ Extract(j.previous, 12, 23) \in [1..12 -> Bytes]
      BY <2>3, <2>4, FieldTypes DEF Layout
    <3>2. HashedBytes(6, 17) = Extract(j.previous, 12, 23)
      <4>1. 6 \in Nat /\ 12 \in Nat /\ 6 + 12 <= 60
        OBVIOUS
      <4>2. HashedBytes(6, 6 + 12 - 1) = Extract(j.previous, 12, 23)
        BY <1>1, <3>1, <4>1, TextIsHashed
      <4>3. QED
        BY <4>2
    <3>3. Extract(j.previous, 12, 23) = Decoded(j.previous, 12 + 1, 23 + 1)
      <4>1. \A i \in 12..23 : Extracts(j.previous, i)
        BY Zenon, <2>3 DEF JobExtracts
      <4>2. QED
        BY <2>4, <4>1, ExtractType
    <3>4. 12 + 1 = 13 /\ 23 + 1 = 24
      OBVIOUS
    <3>5. QED
      BY <3>2, <3>3, <3>4
  <2>8. HashedBytes(18, 26) = Decoded(j.second, 16, 24)
    <3>1. Field(header, 18, 9, Extract(j.second, 15, 23)) /\ Extract(j.second, 15, 23) \in [1..9 -> Bytes]
      BY <2>3, <2>4, FieldTypes DEF Layout
    <3>2. HashedBytes(18, 26) = Extract(j.second, 15, 23)
      <4>1. 18 \in Nat /\ 9 \in Nat /\ 18 + 9 <= 60
        OBVIOUS
      <4>2. HashedBytes(18, 18 + 9 - 1) = Extract(j.second, 15, 23)
        BY <1>1, <3>1, <4>1, TextIsHashed
      <4>3. QED
        BY <4>2
    <3>3. Extract(j.second, 15, 23) = Decoded(j.second, 15 + 1, 23 + 1)
      <4>1. \A i \in 15..23 : Extracts(j.second, i)
        BY Zenon, <2>3 DEF JobExtracts
      <4>2. QED
        BY <2>4, <4>1, ExtractType
    <3>4. 15 + 1 = 16 /\ 23 + 1 = 24
      OBVIOUS
    <3>5. QED
      BY <3>2, <3>3, <3>4
  <2>9. HashedBytes(27, 35) = Decoded(j.third, 16, 24)
    <3>1. Field(header, 27, 9, Extract(j.third, 15, 23)) /\ Extract(j.third, 15, 23) \in [1..9 -> Bytes]
      BY <2>3, <2>4, FieldTypes DEF Layout
    <3>2. HashedBytes(27, 35) = Extract(j.third, 15, 23)
      <4>1. 27 \in Nat /\ 9 \in Nat /\ 27 + 9 <= 60
        OBVIOUS
      <4>2. HashedBytes(27, 27 + 9 - 1) = Extract(j.third, 15, 23)
        BY <1>1, <3>1, <4>1, TextIsHashed
      <4>3. QED
        BY <4>2
    <3>3. Extract(j.third, 15, 23) = Decoded(j.third, 15 + 1, 23 + 1)
      <4>1. \A i \in 15..23 : Extracts(j.third, i)
        BY Zenon, <2>3 DEF JobExtracts
      <4>2. QED
        BY <2>4, <4>1, ExtractType
    <3>4. 15 + 1 = 16 /\ 23 + 1 = 24
      OBVIOUS
    <3>5. QED
      BY <3>2, <3>3, <3>4
  <2>10. HashedBytes(36, 51) = Decoded(r, 1, 16)
    <3>1. Field(header, 36, 16, Extract(r, 0, 15)) /\ Extract(r, 0, 15) \in [1..16 -> Bytes]
      BY <2>3, <2>4, RootType DEF Layout
    <3>2. HashedBytes(36, 51) = Extract(r, 0, 15)
      <4>1. 36 \in Nat /\ 16 \in Nat /\ 36 + 16 <= 60
        OBVIOUS
      <4>2. HashedBytes(36, 36 + 16 - 1) = Extract(r, 0, 15)
        BY <1>1, <3>1, <4>1, TextIsHashed
      <4>3. QED
        BY <4>2
    <3>3. Extract(r, 0, 15) = Decoded(r, 0 + 1, 15 + 1)
      <4>1. \A i \in 0..15 : Extracts(r, i)
        BY Zenon, <2>3 DEF RootExtracts
      <4>2. QED
        BY <2>4, <4>1, ExtractType
    <3>4. 0 + 1 = 1 /\ 15 + 1 = 16
      OBVIOUS
    <3>5. QED
      BY <3>2, <3>3, <3>4
  <2>11. QED
    BY <2>5, <2>6, <2>7, <2>8, <2>9, <2>10 DEF j, r
<1>2. ASSUME RoundInv, share # None
      PROVE  HashedBytes(60, 63) = share
  <2>1. found # None /\ share = Swapped(found)
    BY <1>2 DEF RoundInv, ShareInv
  <2>2. ASSUME NEW k \in 1..4
        PROVE  Hashed(60 + k - 1) = found[5 - k]
    <3>1. ~(60 + k - 1 < 60) /\ 64 - (60 + k - 1) = 5 - k
      OBVIOUS
    <3>2. QED
      BY <2>1, <3>1 DEF Hashed
  <2>3. 63 - 60 + 1 = 4
    OBVIOUS
  <2>4. HashedBytes(60, 63) = [k \in 1..4 |-> found[5 - k]]
    BY <2>2, <2>3 DEF HashedBytes
  <2>5. QED
    BY <2>1, <2>4 DEF Swapped
<1>3. RoundInv => HashedAsMeant
  BY <1>1, <1>2 DEF HashedAsMeant
<1>4. QED
  BY <1>3, RoundAlways, PTL
=============================================================================
