---------------------------- MODULE HeaderBytes ----------------------------
(***************************************************************************)
(* The bytes of one miner's rounds: the hexadecimal text and the numbers   *)
(* of a job become headerToHash, getWork() puts the time into a copy of    *)
(* it, eight 64-bit words of the copy go to the card with their highest    *)
(* byte first, and the card's answer becomes the nonce of a share.         *)
(*                                                                         *)
(* A 32-bit nonce is its four bytes, the highest one first; a character is *)
(* its ASCII code.  What threads do to one another meanwhile is in         *)
(* JobHandoff and SerialLink: here the receiver runs between two rounds.   *)
(***************************************************************************)
EXTENDS Integers, Sequences, SequencesExt

CONSTANTS
  Jobs,        \* what MINING_JOB may carry
  Roots,       \* what MINING_MEMPOOL_UPDATE may carry: hexadecimal text
  Times,       \* std::time(0)
  Finds,       \* nonces the card may find
  StartNonce,  \* 0x20000000u * thr_id
  Unset        \* what headerToHash holds where nothing was stored

Bytes == 0..255
Nonces == [1..4 -> Bytes]
Text == Seq(Bytes)
JobsOfAnyKind ==
  [height : Int, version : Int, previous : Text, second : Text, third : Text,
   root : Text, difficulty : Int, target : Text]

ASSUME HeaderAssumption ==
  /\ \A j \in Jobs : j \in JobsOfAnyKind
  /\ \A r \in Roots : r \in Text
  /\ Times \subseteq Int
  /\ Finds \subseteq Nonces /\ StartNonce \in Nonces /\ Unset \in Bytes

VARIABLES
  pc,            \* "work", "write", "wait", "found", or "terminated"
  job,           \* the last MINING_JOB, or none,
  root,          \* and the root of the last command
  headerToHash,
  header,        \* the miner's copy, as bytes in memory
  sent,          \* the bytes written to the card in this round
  answer,        \* the bytes in front of recvserial(), or none
  nonce, lastNonce1,
  \* History, read by properties only:
  meant,         \* the job, the root and the time of this round
  found,         \* the nonce the card has found, or none at the end of its range
  share,         \* the nonce submitted in this round, or none
  withheld       \* nonces found in this round and never submitted

vars == <<pc, job, root, headerToHash, header, sent, answer, nonce, lastNonce1,
          meant, found, share, withheld>>
client == <<job, root, headerToHash>>

None == <<>>

\* memcpy() and the loops over one field.
Put(h, at, bytes) ==
  [i \in DOMAIN h |-> IF i - at + 1 \in DOMAIN bytes THEN bytes[i - at + 1] ELSE h[i]]

-----------------------------------------------------------------------------
(* Hexadecimal text.                                                       *)

\* Mutant of tolower: capitals stay.
tolowerNot(c) == c

tolower(c) == IF c \in 65..90 THEN c + 32 ELSE c

isLowerCaseHexCharacter(c) == c \in 48..57 \cup 97..102

getValueFromLowerCaseHex(c) == IF c \in 48..57 THEN c - 48 ELSE c - 87

\* extractByteFromHex() of byte i does not throw.
Extracts(hex, i) ==
  /\ Len(hex) % 2 = 0
  /\ 2 * i + 2 <= Len(hex)
  /\ \A k \in {1, 2} : isLowerCaseHexCharacter(tolower(hex[2 * i + k]))

extractByteFromHex(hex, i) ==
  16 * getValueFromLowerCaseHex(tolower(hex[2 * i + 1]))
    + getValueFromLowerCaseHex(tolower(hex[2 * i + 2]))

\* Bytes a to b of a text.
Extract(hex, a, b) == [k \in 1 .. b - a + 1 |-> extractByteFromHex(hex, a + k - 1)]

-----------------------------------------------------------------------------
(* The header.                                                             *)

PowersOf256 == <<1, 256, 65536, 16777216>>

\* Mutant of BigEndian: the higher bits are not cut off.
BigEndianWide(n, size) == [k \in 1..size |-> n \div PowersOf256[size - k + 1]]

\* n >> (size - k) * 8, as a byte.
BigEndian(n, size) == [k \in 1..size |-> (n \div PowersOf256[size - k + 1]) % 256]

RootExtracts(hex) == \A i \in 0..15 : Extracts(hex, i)

JobExtracts(j) ==
  /\ \A i \in 12..23 : Extracts(j.previous, i)
  /\ \A i \in 15..23 : Extracts(j.second, i) /\ Extracts(j.third, i)
  /\ RootExtracts(j.root)
  /\ \A i \in 0..23 : Extracts(j.target, i)

\* The stores of MINING_JOB; the time in the job is overwritten by getWork().
StoreJob(h, j) ==
  LET numbers == Put(Put(Put(h, 0, BigEndian(j.height, 4)), 4, BigEndian(j.version, 2)),
                     56, BigEndian(j.difficulty, 4))
      parents == Put(Put(Put(numbers, 6, Extract(j.previous, 12, 23)),
                         18, Extract(j.second, 15, 23)), 27, Extract(j.third, 15, 23))
  IN  Put(parents, 36, Extract(j.root, 0, 15))

StoreRoot(h, hex) == Put(h, 36, Extract(hex, 0, 15))

embedTimestampInHeader(h, t) == Put(h, 52, BigEndian(t, 4))

\* uint64_t k of a buffer on this little-endian machine, its lowest byte first.
Uint64(h, k) == [s \in 0..7 |-> h[8 * k + s]]

\* Mutant of unpack_uint64: the lowest byte first.
unpack_uint64Low(number) == [k \in 1..8 |-> number[k - 1]]

unpack_uint64(number) == [k \in 1..8 |-> number[8 - k]]

-----------------------------------------------------------------------------
(* The nonce.                                                              *)

\* What the card adds to a nonce, according to miner_thread().
AddOffset(n) ==
  LET Carry(i) == n[4] > 126 /\ \A k \in i + 1 .. 3 : n[k] = 255
      added == [i \in 1..4 |-> n[i] + IF i = 4 THEN 129 ELSE IF Carry(i) THEN 1 ELSE 0]
  IN  [i \in 1..4 |-> IF added[i] > 255 THEN added[i] - 256 ELSE added[i]]

\* recv_ok - 129, modulo 2^32.
SubtractOffset(n) ==
  LET Borrow(i) == n[4] < 129 /\ \A k \in i + 1 .. 3 : n[k] = 0
      less == [i \in 1..4 |-> n[i] - IF i = 4 THEN 129 ELSE IF Borrow(i) THEN 1 ELSE 0]
  IN  [i \in 1..4 |-> IF less[i] < 0 THEN less[i] + 256 ELSE less[i]]

\* The nonce is submitted with its bytes in reverse.
Swapped(n) == [i \in 1..4 |-> n[5 - i]]

Zero == [i \in 1..4 |-> 0]
Exhausted == <<63, 255, 255, 255>>

-----------------------------------------------------------------------------
(* The rounds.                                                             *)

Init ==
  /\ pc = "work"
  /\ job = None /\ root = None
  /\ headerToHash = [i \in 0..63 |-> Unset]
  /\ header = [i \in 0..63 |-> Unset]
  /\ sent = <<>> /\ answer = None
  /\ nonce = Zero /\ lastNonce1 = StartNonce
  /\ meant = None /\ found = None /\ share = None /\ withheld = {}

\* An exception that nobody catches ends the process.
Terminate == pc' = "terminated" /\ UNCHANGED headerToHash

MiningJob(j) ==
  /\ pc = "work"
  /\ job' = j /\ root' = j.root
  /\ IF JobExtracts(j)
       THEN headerToHash' = StoreJob(headerToHash, j) /\ UNCHANGED pc
       ELSE Terminate
  /\ UNCHANGED <<header, sent, answer, nonce, lastNonce1, meant, found, share, withheld>>

\* The pool updates a job it has sent.
MiningMempoolUpdate(hex) ==
  /\ pc = "work"
  /\ job # None
  /\ root' = hex
  /\ IF RootExtracts(hex)
       THEN headerToHash' = StoreRoot(headerToHash, hex) /\ UNCHANGED pc
       ELSE Terminate
  /\ UNCHANGED <<job, header, sent, answer, nonce, lastNonce1, meant, found, share, withheld>>

\* A new round.  copyHeaderToHash() copies all 64 bytes.  Miners are started once
\* there is a job.
getWork(t) ==
  /\ pc = "work"
  /\ job # None
  /\ header' = embedTimestampInHeader(headerToHash, t)
  /\ meant' = [job |-> job, root |-> root, time |-> t]
  /\ pc' = "write"
  /\ sent' = <<>> /\ answer' = None
  /\ found' = None /\ share' = None /\ withheld' = {}
  /\ UNCHANGED <<client, nonce, lastNonce1>>

WriteWord ==
  /\ pc = "write"
  /\ sent' = sent \o unpack_uint64(Uint64(header, Len(sent) \div 8))
  /\ pc' = IF Len(sent') = 64 THEN "wait" ELSE "write"
  /\ UNCHANGED <<client, header, answer, nonce, lastNonce1, meant, found, share, withheld>>

\* The card answers with a nonce or with the end of its range.
Answer ==
  /\ pc = "wait"
  /\ answer = None
  /\ \/ \E n \in Finds : found' = n /\ answer' = AddOffset(n)
     \/ found' = None /\ answer' = Exhausted
  /\ UNCHANGED <<pc, client, header, sent, nonce, lastNonce1, meant, share, withheld>>

Withhold == withheld' = IF found = None THEN withheld ELSE withheld \cup {found}

\* Mutant of recvserial: an answer has to be positive as an int.
recvserialSigned ==
  /\ pc = "wait"
  /\ answer # None
  /\ answer' = None
  /\ IF answer = Zero \/ answer[1] > 127
       THEN Withhold /\ UNCHANGED <<pc, nonce>>
       ELSE IF answer = Exhausted
              THEN pc' = "work" /\ Withhold /\ UNCHANGED nonce
              ELSE /\ pc' = "found" /\ nonce' = Swapped(SubtractOffset(answer))
                   /\ UNCHANGED withheld
  /\ UNCHANGED <<client, header, sent, lastNonce1, meant, found, share>>

\* 0 is no answer, 0x3fffffff the end of the range, whatever the card meant.  The
\* newer job of the Windows build (820-842) is left out: rounds are undisturbed here.
recvserial ==
  /\ pc = "wait"
  /\ answer # None
  /\ answer' = None
  /\ \/ /\ answer = Zero
        /\ Withhold
        /\ UNCHANGED <<pc, nonce>>
     \/ /\ answer = Exhausted
        /\ pc' = "work"
        /\ Withhold
        /\ UNCHANGED nonce
     \/ /\ answer \notin {Zero, Exhausted}
        /\ pc' = "found"
        /\ nonce' = Swapped(SubtractOffset(answer))
        /\ UNCHANGED withheld
  /\ UNCHANGED <<client, header, sent, lastNonce1, meant, found, share>>

submitWork ==
  /\ pc = "found"
  /\ IF nonce # lastNonce1
       THEN share' = nonce /\ lastNonce1' = nonce /\ UNCHANGED withheld
       ELSE Withhold /\ UNCHANGED <<share, lastNonce1>>
  /\ pc' = "work"
  /\ UNCHANGED <<client, header, sent, answer, nonce, meant, found>>

Next ==
  \/ \E j \in Jobs : MiningJob(j)
  \/ \E hex \in Roots : MiningMempoolUpdate(hex)
  \/ \E t \in Times : getWork(t)
  \/ WriteWord \/ Answer \/ recvserial \/ submitWork

Spec == Init /\ [][Next]_vars

-----------------------------------------------------------------------------
(* Properties.                                                             *)

\* The types: every byte of a header, of the serial line and of a nonce is a
\* byte (no sign and no carry of a conversion is left in headerToHash).
TypeOK ==
  /\ pc \in {"work", "write", "wait", "found", "terminated"}
  /\ job \in Jobs \cup {None}
  /\ root \in Roots \cup {j.root : j \in Jobs} \cup {None}
  /\ headerToHash \in [0..63 -> Bytes] /\ header \in [0..63 -> Bytes]
  /\ sent \in Seq(Bytes) /\ Len(sent) <= 64
  /\ answer \in Nonces \cup {None}
  /\ nonce \in Nonces /\ lastNonce1 \in Nonces
  /\ meant = None \/ meant \in [job : Jobs, root : Roots \cup {j.root : j \in Jobs}, time : Times]
  /\ found \in Finds \cup {None}
  /\ share \in Nonces \cup {None}
  /\ withheld \subseteq Finds

\* The digit that a character stands for, by the table of digits.
Digits == <<48, 49, 50, 51, 52, 53, 54, 55, 56, 57, 97, 98, 99, 100, 101, 102,
            65, 66, 67, 68, 69, 70>>
Digit(c) == LET at == CHOOSE k \in DOMAIN Digits : Digits[k] = c
            IN  IF at <= 16 THEN at - 1 ELSE at - 7

\* Bytes a to b of a text, counted from 1, and whether it has a byte for each
\* two characters and at least `size` of them.
Decoded(hex, a, b) ==
  [k \in 1 .. b - a + 1 |-> 16 * Digit(hex[2 * (a + k) - 3]) + Digit(hex[2 * (a + k) - 2])]
WellFormed(hex, size) ==
  /\ Len(hex) % 2 = 0 /\ Len(hex) >= 2 * size
  /\ ToSet(hex) \subseteq ToSet(Digits)

\* Byte i of what the card hashes: its words have their lowest byte first, and
\* the nonce is the upper half of the last one.
Hashed(i) == IF i < 60 \/ found = None THEN sent[8 * (i \div 8) + 8 - (i % 8)]
                                      ELSE found[64 - i]
HashedBytes(a, b) == [k \in 1 .. b - a + 1 |-> Hashed(a + k - 1)]

\* Two bytes as a number, and the lower 32 bits of n in the four from i on, its
\* highest byte first.
Pair(i) == 256 * Hashed(i) + Hashed(i + 1)
Shows(i, n) == Pair(i) = (n \div 65536) % 65536 /\ Pair(i + 2) = n % 65536

\* The card hashes the header that the pool rebuilds from the share: numbers with
\* their highest byte first, the ends of the parents' hashes, the beginning of the
\* root, the time and the nonce of the share.  No conversion on the way from the
\* text to the card, nor the way back, loses, moves or turns a byte.
HashedAsMeant ==
  /\ Len(sent) = 64 =>
       /\ Shows(0, meant.job.height)
       /\ Pair(4) = meant.job.version % 65536
       /\ HashedBytes(6, 17) = Decoded(meant.job.previous, 13, 24)
       /\ HashedBytes(18, 26) = Decoded(meant.job.second, 16, 24)
       /\ HashedBytes(27, 35) = Decoded(meant.job.third, 16, 24)
       /\ HashedBytes(36, 51) = Decoded(meant.root, 1, 16)
       /\ Shows(52, meant.time)
       /\ Shows(56, meant.job.difficulty)
  /\ share # None => HashedBytes(60, 63) = share

\* The nonces whose answers are 0 and 0x3fffffff.
AnswersZero == <<255, 255, 255, 127>>
AnswersExhausted == <<63, 255, 255, 126>>

\* A nonce the card finds is submitted, except the two whose answers mean
\* something else and the reverse of lastNonce1: the thread's last share or, before
\* its first one, the thread's startNonce, which is no share at all.
OnlyThreeNoncesAreWithheld ==
  withheld \subseteq {AnswersZero, AnswersExhausted, Swapped(lastNonce1)}

\* What makes it inductive: an answer is that of the nonce found, and so is the
\* nonce in hand; only the first of the three leaves the miner in its round.
NonceInv ==
  /\ found \in Finds \cup {None}
  /\ pc \in {"write", "wait"} /\ answer # None =>
       answer = IF found = None THEN Exhausted ELSE AddOffset(found)
  /\ pc = "found" => found # None /\ nonce = Swapped(found)
  /\ pc \in {"write", "wait", "found"} => withheld \subseteq {AnswersZero}
  /\ OnlyThreeNoncesAreWithheld

\* extractByteFromHex() ends the process for no text that is hexadecimal, in
\* capitals or not, and as long as the pool's hashes and roots are.
EndsOnlyOnBadText ==
  pc = "terminated" =>
    \/ ~WellFormed(root, 16)
    \/ \E hex \in {job.previous, job.second, job.third, job.target} : ~WellFormed(hex, 24)
=============================================================================
