--------------------------- MODULE FramingProofs ---------------------------
(***************************************************************************)
(* FramingInv is an invariant of Framing for every number and length of    *)
(* commands, every limit of the loop and every size of the buffer; the     *)
(* receive loop implements CommandChannel; and without an interruption     *)
(* only commands that follow another one in a buffer are lost.             *)
(***************************************************************************)
EXTENDS Framing, SequenceTheorems, TLAPS

USE FramingAssumption

-----------------------------------------------------------------------------
(* Commands and offsets.                                                   *)

LEMMA BeginsOrdered ==
  ASSUME TypeOK, Lines
  PROVE  /\ Sent \in Nat
         /\ \A m \in 1..Sent : Begin(m) \in Nat /\ end[m] \in Nat /\ end[m] <= Written
         /\ Written \in Nat
         /\ \A l, m \in 1..Sent : l < m => Begin(l) < Begin(m)
         /\ \A m \in 1..Sent : Begin(m) < end[m]
<1>1. Sent \in Nat /\ \A m \in 1..Sent : end[m] \in Nat
  BY DEF TypeOK, Sent
<1>2. Written \in Nat
  BY <1>1 DEF Written
<1>3. \A m \in 1..Sent : Begin(m) \in Nat
  <2> SUFFICES ASSUME NEW m \in 1..Sent PROVE Begin(m) \in Nat
    OBVIOUS
  <2>1. CASE m = 1
    BY <2>1 DEF Begin
  <2>2. CASE m # 1
    <3>1. m - 1 \in 1..Sent
      BY <1>1, <2>2
    <3> QED BY <1>1, <2>2, <3>1 DEF Begin
  <2> QED BY <2>1, <2>2
<1>4. \A m \in 1..Sent : Begin(m) < end[m]
  BY <1>1, <1>3 DEF Lines
<1>5. \A m \in 1..Sent : end[m] <= Written
  <2> SUFFICES ASSUME NEW m \in 1..Sent PROVE end[m] <= Written
    OBVIOUS
  <2>1. CASE m = Sent
    BY <1>1, <2>1 DEF Written
  <2>2. CASE m < Sent
    BY <1>1, <2>2 DEF Written, Lines
  <2> QED BY <1>1, <2>1, <2>2
<1>6. \A l, m \in 1..Sent : l < m => Begin(l) < Begin(m)
  BY <1>1, <1>3, <1>4 DEF Lines
<1> QED BY <1>1, <1>2, <1>3, <1>4, <1>5, <1>6

\* At most one command is the next one at an offset.
LEMMA NextUnique ==
  ASSUME TypeOK, Lines, NEW o \in Nat,
         NEW m \in 1 .. Sent + 1, NEW n \in 1 .. Sent + 1, IsNext(m, o), IsNext(n, o)
  PROVE  m = n
<1>1. ASSUME NEW a \in 1 .. Sent + 1, NEW b \in 1 .. Sent + 1,
             IsNext(a, o), IsNext(b, o), a < b
      PROVE  FALSE
  <2>1. a \in 1..Sent /\ b - 1 \in 1..Sent /\ a <= b - 1
    BY <1>1, BeginsOrdered
  <2>2. Begin(a) >= o /\ Begin(b - 1) < o
    BY <1>1, <2>1, BeginsOrdered DEF IsNext
  <2>3. Begin(a) <= Begin(b - 1)
    BY <2>1, BeginsOrdered
  <2> QED BY <2>1, <2>2, <2>3, BeginsOrdered
<1> QED BY <1>1, BeginsOrdered

\* The next command at an offset inside what was written.
LEMMA NextAt ==
  ASSUME TypeOK, Lines, From \in 0..Written
  PROVE  NextCommand \in 1 .. Sent + 1 /\ IsNext(NextCommand, From)
BY DEF Lines, NextCommand

LEMMA NextIs ==
  ASSUME TypeOK, Lines, From \in 0..Written, NEW m \in 1 .. Sent + 1, IsNext(m, From)
  PROVE  NextCommand = m
<1>1. From \in Nat
  BY BeginsOrdered
<1> QED BY <1>1, NextAt, NextUnique

\* Begin and Written depend on nothing but end.
LEMMA SameLines ==
  ASSUME TypeOK, Lines, UNCHANGED end
  PROVE  /\ Lines' /\ Sent' = Sent /\ Written' = Written
         /\ \A m \in 1..Sent : Begin(m)' = Begin(m)
         /\ \A m, o : IsNext(m, o)' <=> IsNext(m, o)
         /\ \A o : EndsLine(o)' <=> EndsLine(o)
BY DEF Lines, Sent, Written, Begin, IsNext, EndsLine

-----------------------------------------------------------------------------
(* The pool's steps.                                                       *)

\* A new command begins where the last one ended.
LEMMA SendEffect ==
  ASSUME FramingInv, NEW len \in Lengths, end' = Append(end, Written + len)
  PROVE  /\ end' \in Seq(Nat)
         /\ Sent' = Sent + 1 /\ Written' = Written + len /\ len \in Nat /\ len >= 2
         /\ \A m \in 1..Sent : end'[m] = end[m] /\ Begin(m)' = Begin(m)
         /\ end'[Sent + 1] = Written + len /\ (\A m : m = Sent + 1 => Begin(m)' = Written)
<1>1. Sent \in Nat /\ Written \in Nat /\ end \in Seq(Nat) /\ len \in Nat /\ len >= 2
  BY BeginsOrdered DEF FramingInv, TypeOK
<1>2. /\ end' \in Seq(Nat) /\ Len(end') = Len(end) + 1
      /\ \A m \in 1..Len(end) : end'[m] = end[m]
      /\ end'[Len(end) + 1] = Written + len
  BY <1>1, AppendProperties
<1>3. Sent' = Sent + 1 /\ Written' = Written + len
  BY <1>1, <1>2 DEF Sent, Written
<1>4. \A m \in 1..Sent : Begin(m)' = Begin(m)
  BY <1>1, <1>2 DEF Sent, Begin
<1>5. (\A m : m = Sent + 1 => Begin(m)' = Written)
  BY <1>1, <1>2 DEF Sent, Begin, Written
<1> QED BY <1>1, <1>2, <1>3, <1>4, <1>5 DEF Sent

LEMMA SendLines ==
  ASSUME FramingInv, Send
  PROVE  /\ Lines' /\ Written <= Written' /\ Written' \in Nat
         /\ \A m \in 1..Sent : Begin(m)' = Begin(m)
         /\ \A m \in 1 .. Sent + 1 : \A o \in 0..Written : IsNext(m, o) => IsNext(m, o)'
<1>1. PICK len \in Lengths : end' = Append(end, Written + len)
  BY DEF Send
<1>2. /\ Sent' = Sent + 1 /\ Written' = Written + len /\ len \in Nat /\ len >= 2
      /\ \A m \in 1..Sent : end'[m] = end[m] /\ Begin(m)' = Begin(m)
      /\ end'[Sent + 1] = Written + len /\ (\A m : m = Sent + 1 => Begin(m)' = Written)
  BY <1>1, SendEffect
<1>3. /\ Sent \in Nat /\ Written \in Nat
      /\ \A m \in 1..Sent : Begin(m) \in Nat /\ end[m] \in Nat /\ end[m] <= Written
      /\ Lines
  BY BeginsOrdered DEF FramingInv
<1>4. \A m \in 1..Sent' : Begin(m)' + 2 <= end'[m]
  <2> SUFFICES ASSUME NEW m \in 1..Sent' PROVE Begin(m)' + 2 <= end'[m]
    OBVIOUS
  <2>1. m \in 1..Sent \/ m = Sent + 1
    BY <1>2, <1>3
  <2> QED BY <1>2, <1>3, <2>1 DEF Lines
<1>5. \A l, m \in 1..Sent' : l < m => end'[l] < end'[m] /\ end'[l] <= Begin(m)'
  <2> SUFFICES ASSUME NEW l \in 1..Sent', NEW m \in 1..Sent', l < m
               PROVE  end'[l] < end'[m] /\ end'[l] <= Begin(m)'
    OBVIOUS
  <2>1. l \in 1..Sent /\ (m \in 1..Sent \/ m = Sent + 1)
    BY <1>2, <1>3
  <2> QED BY <1>2, <1>3, <2>1 DEF Lines
<1>6. \A m \in 1 .. Sent + 1 : \A o \in 0..Written : IsNext(m, o) => IsNext(m, o)'
  <2> SUFFICES ASSUME NEW m \in 1 .. Sent + 1, NEW o \in 0..Written, IsNext(m, o)
               PROVE  IsNext(m, o)'
    OBVIOUS
  <2>1. m > 1 => m - 1 \in 1..Sent
    BY <1>3
  <2>2. (m > 1 => Begin(m - 1) < o) /\ (m <= Sent => Begin(m) >= o)
    BY DEF IsNext
  <2>3. (m > 1 => Begin(m - 1)' < o) /\ (m <= Sent' => Begin(m)' >= o)
    BY <1>2, <1>3, <2>1, <2>2
  <2> QED BY <2>3 DEF IsNext
<1>7. \A o \in 0..Written' : \E m \in 1 .. Sent' + 1 : IsNext(m, o)'
  <2> SUFFICES ASSUME NEW o \in 0..Written'
               PROVE  \E m \in 1 .. Sent' + 1 : IsNext(m, o)'
    OBVIOUS
  <2>1. CASE o \in 0..Written
    <3>1. PICK m \in 1 .. Sent + 1 : IsNext(m, o)
      BY <1>3, <2>1 DEF Lines
    <3> QED BY <1>2, <1>3, <1>6, <2>1, <3>1
  <2>2. CASE o > Written
    <3>1. \A m : m = Sent + 2 => IsNext(m, o)'
      BY <1>2, <1>3, <2>2 DEF IsNext
    <3> QED BY <1>2, <1>3, <3>1
  <2> QED BY <1>2, <1>3, <2>1, <2>2
<1>8. Lines'
  BY <1>4, <1>5, <1>7 DEF Lines
<1> QED BY <1>2, <1>3, <1>6, <1>8

-----------------------------------------------------------------------------
(* FramingInv.                                                             *)

LEMMA InvInit == Init => FramingInv
<1> SUFFICES ASSUME Init PROVE FramingInv
  OBVIOUS
<1>1. Sent = 0 /\ Written = 0 /\ end \in Seq(Nat)
  BY EmptySeq DEF Init, Sent, Written
<1>2. TypeOK
  <2>1. 0 \in 0..BufSize /\ 0 \in -1..BufSize /\ 0 \in 0..MaxMore
    OBVIOUS
  <2>2. end \in Seq(Nat) /\ link \in {"up", "eof", "bad"} /\ pc \in {"first", "more", "parse"}
    BY <1>1 DEF Init
  <2>3. /\ breaks \in 0..MaxBreaks /\ pos \in Nat /\ start \in Nat /\ good \in 0..BufSize
        /\ cursor \in -(more + 1)..BufSize /\ more \in 0..MaxMore /\ got \in Nat
    BY <2>1 DEF Init
  <2>4. failed \in BOOLEAN /\ cutOff \in BOOLEAN
    BY DEF Init
  <2> QED BY <2>2, <2>3, <2>4 DEF TypeOK
<1>3. Lines
  <2>1. IsNext(1, 0)
    BY <1>1 DEF IsNext
  <2> QED BY <1>1, <2>1 DEF Lines
<1>4. Positions /\ Undisturbed
  BY <1>1 DEF Init, Positions, Undisturbed, From, Boundary
<1> QED BY <1>2, <1>3, <1>4 DEF FramingInv

LEMMA InvSend == ASSUME FramingInv, Send PROVE FramingInv'
<1>1. PICK len \in Lengths : end' = Append(end, Written + len)
  BY DEF Send
<1>2. /\ end' \in Seq(Nat) /\ Sent' = Sent + 1
      /\ \A m \in 1..Sent : end'[m] = end[m]
  BY <1>1, SendEffect
<1>3. /\ Lines' /\ Written <= Written' /\ Written' \in Nat
      /\ \A m \in 1..Sent : Begin(m)' = Begin(m)
  BY SendLines
<1>4. Sent \in Nat /\ Written \in Nat
  BY BeginsOrdered DEF FramingInv
<1>5. UNCHANGED <<link, breaks, pos, pc, more, cursor, start, good, failed, got, cutOff>>
  BY DEF Send, buffer, history
<1>6. TypeOK'
  BY <1>2, <1>5 DEF FramingInv, TypeOK
<1>7. Positions'
  BY <1>2, <1>3, <1>4, <1>5 DEF FramingInv, Positions, From, TypeOK
<1>8. \A o : Boundary(o) => Boundary(o)'
  BY <1>2, <1>4 DEF Boundary, EndsLine
<1>9. Undisturbed'
  BY <1>5, <1>8 DEF FramingInv, Undisturbed, From
<1> QED BY <1>3, <1>6, <1>7, <1>9 DEF FramingInv

LEMMA InvBreak == ASSUME FramingInv, Break PROVE FramingInv'
<1>1. UNCHANGED <<end, pos, pc, more, cursor, start, good, failed, got, cutOff>>
  BY DEF Break, buffer, history
<1>2. /\ Lines' /\ Sent' = Sent /\ Written' = Written
      /\ \A m \in 1..Sent : Begin(m)' = Begin(m)
  BY <1>1, SameLines DEF FramingInv
<1>3. breaks' = breaks + 1 /\ breaks' \in 1..MaxBreaks /\ link' \in {"eof", "bad"}
  BY DEF Break, FramingInv, TypeOK
<1>4. TypeOK'
  BY <1>1, <1>3 DEF FramingInv, TypeOK
<1>5. Positions'
  BY <1>1, <1>2 DEF FramingInv, Positions, From
<1>6. Undisturbed'
  BY <1>3 DEF Undisturbed
<1> QED BY <1>2, <1>4, <1>5, <1>6 DEF FramingInv

LEMMA InvReopen == ASSUME FramingInv, Reopen PROVE FramingInv'
<1>1. UNCHANGED <<end, breaks, pc, more, cursor, start, good, failed, got, cutOff>>
  BY DEF Reopen, buffer, history
<1>2. /\ Lines' /\ Sent' = Sent /\ Written' = Written /\ Written \in Nat /\ Sent \in Nat
      /\ \A m \in 1..Sent : Begin(m)' = Begin(m) /\ Begin(m) \in Nat
  BY <1>1, SameLines, BeginsOrdered DEF FramingInv
<1>3. link' = "up" /\ pos' = Written /\ link # "up"
  BY DEF Reopen
<1>4. TypeOK'
  BY <1>1, <1>2, <1>3 DEF FramingInv, TypeOK
<1>5. Positions'
  BY <1>1, <1>2, <1>3 DEF FramingInv, Positions, From, TypeOK
<1>6. Undisturbed'
  BY <1>1, <1>3 DEF FramingInv, Undisturbed
<1> QED BY <1>2, <1>4, <1>5, <1>6 DEF FramingInv

\* A reader's step keeps the invariant if it reads forward and leaves the rest
\* of the invariant's parts in order.
LEMMA InvFromParts ==
  ASSUME FramingInv, UNCHANGED stream, TypeOK', From <= From',
         start' + good' <= pos', pos' <= Written, UNCHANGED got, Undisturbed'
  PROVE  FramingInv'
<1>1. /\ Lines' /\ Sent' = Sent /\ Written' = Written /\ Sent \in Nat
      /\ \A m \in 1..Sent : Begin(m)' = Begin(m) /\ Begin(m) \in Nat
  BY SameLines, BeginsOrdered DEF FramingInv, stream
<1>2. From \in Nat /\ From' \in Nat
  BY DEF FramingInv, TypeOK, From
<1>3. Positions'
  <2>1. got' \in 0..Sent
    BY DEF FramingInv, Positions
  <2>2. got > 0 => Begin(got) < From /\ got \in 1..Sent
    BY <1>1 DEF FramingInv, Positions
  <2>3. got' > 0 => Begin(got)' < From'
    <3> SUFFICES ASSUME got > 0 PROVE Begin(got)' < From'
      OBVIOUS
    <3>1. Begin(got)' = Begin(got)
      BY DEF Begin, stream
    <3> QED BY <1>1, <1>2, <2>2, <3>1
  <2> QED BY <1>1, <2>1, <2>3 DEF Positions
<1> QED BY <1>1, <1>3 DEF FramingInv

\* The types of what a reader's step changes.
LEMMA ReaderTypeStep ==
  ASSUME FramingInv, UNCHANGED <<end, link, breaks, got, cutOff>>,
         pos' \in Nat, start' \in Nat, good' \in 0..BufSize,
         pc' \in {"first", "more", "parse"}, more' \in 0..MaxMore,
         cursor' \in -(more' + 1)..BufSize, failed' \in BOOLEAN
  PROVE  TypeOK'
BY DEF FramingInv, TypeOK

\* Where the parts of the invariant leave the reader.
LEMMA ReaderTypes ==
  ASSUME FramingInv
  PROVE  /\ Written \in Nat /\ pos \in 0..Written /\ start \in Nat /\ good \in 0..BufSize
         /\ start + good <= pos /\ cursor \in -(more + 1)..BufSize /\ more \in 0..MaxMore
         /\ pc \in {"first", "more", "parse"} /\ cutOff \in BOOLEAN /\ failed \in BOOLEAN
BY BeginsOrdered DEF FramingInv, TypeOK, Positions

LEMMA ReadableBytes ==
  ASSUME FramingInv, NEW size \in Int, NEW k \in Readable(size)
  PROVE  k \in Nat /\ k >= 1 /\ k <= size /\ pos + k <= Written
BY ReaderTypes DEF Readable, AtMost

LEMMA InvFirstRead == ASSUME FramingInv, FirstRead PROVE FramingInv'
<1>1. UNCHANGED <<end, link, breaks, got, cutOff>> /\ pc = "first" /\ more' = 0
  BY DEF FirstRead, stream, history
<1>2. CASE \E k \in Readable(BufSize) :
             /\ pos' = pos + k
             /\ start' = pos /\ good' = k /\ cursor' = k
             /\ failed' = FALSE
             /\ pc' \in Tested(pos + k)
  <2>1. PICK k \in Readable(BufSize) :
             /\ pos' = pos + k
             /\ start' = pos /\ good' = k /\ cursor' = k
             /\ failed' = FALSE
             /\ pc' \in Tested(pos + k)
    BY <1>2
  <2>2. k \in Nat /\ k >= 1 /\ k <= BufSize /\ pos + k <= Written /\ pos \in Nat
    BY ReadableBytes, ReaderTypes
  <2>3. pc' \in {"more", "parse"}
    BY <2>1 DEF Tested
  <2>4. TypeOK'
    <3>1. cursor' \in -(more' + 1)..BufSize /\ good' \in 0..BufSize
      BY <1>1, <2>1, <2>2
    <3>2. pos' \in Nat /\ start' \in Nat /\ more' \in 0..MaxMore
      BY <1>1, <2>1, <2>2
    <3>3. failed' \in BOOLEAN
      BY <2>1
    <3>4. pc' \in {"first", "more", "parse"}
      BY <2>3
    <3> QED BY <1>1, <3>1, <3>2, <3>3, <3>4, ReaderTypeStep
  <2>5. From <= From'
    BY <1>1, <2>1, <2>2, <2>3 DEF From
  <2>6. Undisturbed'
    <3>1. ASSUME breaks = 0, ~cutOff PROVE Boundary(From)'
      <4>1. Boundary(pos) /\ From' = pos
        BY <1>1, <2>1, <2>3, <3>1 DEF FramingInv, Undisturbed, From
      <4> QED BY <1>1, <4>1 DEF Boundary, EndsLine, Sent
    <3> QED BY <1>1, <2>1, <2>2, <2>3, <3>1 DEF FramingInv, Undisturbed, From
  <2> QED BY <1>1, <2>1, <2>2, <2>4, <2>5, <2>6, InvFromParts DEF stream
<1>3. CASE /\ ReadsNothing
           /\ pc' \in {"more", "parse"}
           /\ failed' = (link = "bad")
           /\ cursor' = IF failed' THEN -1 ELSE 0
           /\ good' = 0 /\ start' = pos
           /\ UNCHANGED pos
  <2>1. cursor' \in {-1, 0} /\ failed' \in BOOLEAN
    BY <1>3
  <2>2. breaks # 0
    BY <1>3 DEF ReadsNothing, FramingInv, Undisturbed
  <2>3. TypeOK'
    BY <1>1, <1>3, <2>1, ReaderTypes DEF FramingInv, TypeOK
  <2>4. From <= From'
    BY <1>1, <1>3, ReaderTypes DEF From
  <2>5. Undisturbed'
    BY <1>1, <2>2 DEF Undisturbed
  <2> QED BY <1>1, <1>3, <2>3, <2>4, <2>5, ReaderTypes, InvFromParts DEF stream
<1> QED BY <1>2, <1>3 DEF FirstRead

\* The bytes that land keep what the buffer begins with inside what was read.
LEMMA LandsEffect ==
  ASSUME FramingInv, NEW k \in Readable(BufSize - cursor), Lands(k)
  PROVE  /\ k \in Nat /\ k >= 1 /\ cursor + k <= BufSize
         /\ pos' = pos + k /\ pos' <= Written
         /\ start' \in Nat /\ start <= start' /\ good' \in 0..BufSize
         /\ start' + good' <= pos'
<1>1. /\ k \in Nat /\ k >= 1 /\ k <= BufSize - cursor /\ pos + k <= Written
  BY ReaderTypes, ReadableBytes
<1>2. /\ pos \in Nat /\ start \in Nat /\ good \in 0..BufSize /\ start + good <= pos
      /\ cursor \in Int
  BY ReaderTypes
<1>3. pos' = pos + k
  BY DEF Lands
<1>4. CASE cursor + k <= 0 /\ UNCHANGED <<start, good>>
  BY <1>1, <1>2, <1>3, <1>4
<1>5. CASE cursor <= 0 /\ cursor + k > 0 /\ start' = pos - cursor /\ good' = cursor + k
  BY <1>1, <1>2, <1>3, <1>5
<1>6. CASE /\ cursor > 0
           /\ UNCHANGED start
           /\ good' = IF cursor = good /\ pos = start + good
                        THEN good + k ELSE AtMost(good, cursor)
  BY <1>1, <1>2, <1>3, <1>6 DEF AtMost
<1> QED BY <1>4, <1>5, <1>6 DEF Lands

LEMMA InvMoreRead == ASSUME FramingInv, MoreRead PROVE FramingInv'
<1>1. UNCHANGED <<end, link, breaks, failed, got, cutOff>> /\ pc = "more"
  BY DEF MoreRead, stream, history
<1>2. PICK k \in Readable(BufSize - cursor) :
        /\ Lands(k)
        /\ IF more = MaxMore
             THEN pc' = "parse" /\ UNCHANGED <<cursor, more>>
             ELSE /\ cursor' = cursor + k
                  /\ pc' \in IF cursor' > 0 THEN Tested(pos + k) ELSE TestedBlind(good')
                  /\ more' = more + 1
  BY DEF MoreRead
<1>3. /\ k \in Nat /\ k >= 1 /\ cursor + k <= BufSize
      /\ pos' = pos + k /\ pos' <= Written
      /\ start' \in Nat /\ start <= start' /\ good' \in 0..BufSize
      /\ start' + good' <= pos'
  BY <1>2, LandsEffect
<1>4. /\ more' \in 0..MaxMore
      /\ cursor' \in -(more' + 1)..BufSize
      /\ pc' \in {"more", "parse"}
  BY <1>2, <1>3, ReaderTypes DEF Tested, TestedBlind
<1>5. TypeOK'
  <2>1. pos' \in Nat /\ failed' \in BOOLEAN /\ pc' \in {"first", "more", "parse"}
    BY <1>1, <1>3, <1>4, ReaderTypes
  <2> QED BY <1>1, <1>3, <1>4, <2>1, ReaderTypeStep
<1>6. From <= From'
  BY <1>1, <1>3, <1>4 DEF From
<1>7. Undisturbed'
  <2> SUFFICES ASSUME breaks = 0 PROVE Undisturbed'
    BY <1>1 DEF Undisturbed
  <2>1. /\ link = "up" /\ ~failed /\ cursor = good /\ good > 0 /\ start + good = pos
        /\ (~cutOff => Boundary(start))
    BY <1>1 DEF FramingInv, Undisturbed, From
  <2>2. start' = start /\ good' = good + k
    BY <1>2, <1>3, <2>1, ReaderTypes DEF Lands
  <2>3. pc' = "more" => cursor' = good'
    BY <1>2, <2>1, <2>2
  <2>4. ~cutOff => Boundary(start)'
    BY <1>1, <2>1, <2>2 DEF Boundary, EndsLine, Sent
  <2> QED BY <1>1, <1>3, <1>4, <2>1, <2>2, <2>3, <2>4, ReaderTypes DEF Undisturbed, From
<1> QED BY <1>1, <1>3, <1>5, <1>6, <1>7, InvFromParts DEF stream

LEMMA InvMoreNothing == ASSUME FramingInv, MoreNothing PROVE FramingInv'
<1>1. /\ UNCHANGED <<end, link, breaks, pos, start, good, failed, got, cutOff>>
      /\ pc = "more"
  BY DEF MoreNothing, stream, history
<1>2. /\ more' \in 0..MaxMore
      /\ cursor' \in -(more' + 1)..BufSize
      /\ link = "up" => cursor' = cursor
      /\ pc' \in {"more", "parse"}
  BY ReaderTypes DEF MoreNothing, Tested, TestedBlind
<1>3. TypeOK'
  BY <1>1, <1>2 DEF FramingInv, TypeOK
<1>4. From <= From'
  BY <1>1, <1>2, ReaderTypes DEF From
<1>5. Undisturbed'
  <2>1. \A o : Boundary(o)' <=> Boundary(o)
    BY <1>1 DEF Boundary, EndsLine, Sent
  <2>2. From' = From
    BY <1>1, <1>2 DEF From
  <2>3. Boundary(From)' <=> Boundary(From)
    BY <1>1, <2>2 DEF Boundary, EndsLine, Sent
  <2> QED BY <1>1, <1>2, <2>3 DEF FramingInv, Undisturbed
<1> QED BY <1>1, <1>3, <1>4, <1>5, ReaderTypes, InvFromParts DEF stream

LEMMA InvParse == ASSUME FramingInv, Parse PROVE FramingInv'
<1>1. /\ UNCHANGED <<end, link, breaks, pos>> /\ pc = "parse" /\ pc' = "first"
      /\ more' = 0 /\ start' = pos /\ good' = 0 /\ cursor' = 0 /\ failed' = FALSE
      /\ cutOff' = (cutOff \/ ~EndsLine(pos))
  BY DEF Parse, stream
<1>2. /\ Lines' /\ Sent' = Sent /\ Written' = Written /\ Sent \in Nat
      /\ \A m \in 1..Sent : Begin(m)' = Begin(m) /\ Begin(m) \in Nat
      /\ Lines
  BY <1>1, SameLines, BeginsOrdered DEF FramingInv
<1>3. From = start /\ From' = pos /\ start <= pos /\ start \in Nat /\ pos \in Nat
  BY <1>1, ReaderTypes DEF From
<1>4. got' \in 0..Sent /\ got' \in Nat /\ (got' > 0 => got' \in 1..Sent /\ Begin(got)' < pos)
  <2>1. CASE UNCHANGED got
    <3>1. got \in 0..Sent /\ got \in Nat /\ (got > 0 => Begin(got) < start)
      BY <1>3 DEF FramingInv, Positions, TypeOK
    <3>2. Begin(got)' = Begin(got)
      BY <1>1, <2>1 DEF Begin
    <3> QED BY <1>2, <1>3, <2>1, <3>1, <3>2
  <2>2. CASE \E m \in 1..Sent : Recognised(m) /\ got' = m
    <3>1. PICK m \in 1..Sent : Recognised(m) /\ got' = m
      BY <2>2
    <3>2. Begin(m) + 2 <= end[m] /\ end[m] - 1 <= start + good /\ start + good <= pos
          /\ Begin(m) \in Nat /\ end[m] \in Nat
      BY <1>2, <3>1, ReaderTypes, BeginsOrdered DEF Recognised, FramingInv, Lines
    <3>3. Begin(m) < pos
      BY <1>3, <3>2, ReaderTypes
    <3>4. Begin(got)' = Begin(m)
      BY <1>1, <3>1 DEF Begin
    <3> QED BY <1>2, <3>1, <3>3, <3>4
  <2> QED BY <2>1, <2>2 DEF Parse
<1>5. TypeOK'
  <2>1. cutOff' \in BOOLEAN
    BY <1>1
  <2>2. cursor' \in -(more' + 1)..BufSize /\ good' \in 0..BufSize /\ more' \in 0..MaxMore
    BY <1>1
  <2> QED BY <1>1, <1>3, <1>4, <2>1, <2>2 DEF FramingInv, TypeOK
<1>6. Positions'
  BY <1>1, <1>2, <1>3, <1>4, ReaderTypes DEF Positions
<1>7. Undisturbed'
  <2> SUFFICES ASSUME breaks = 0 PROVE Undisturbed'
    BY <1>1 DEF Undisturbed
  <2>1. link = "up"
    BY DEF FramingInv, Undisturbed
  <2>2. ~cutOff' => Boundary(From)'
    BY <1>1, <1>3 DEF Boundary, EndsLine, Sent
  <2> QED BY <1>1, <2>1, <2>2 DEF Undisturbed
<1> QED BY <1>2, <1>5, <1>6, <1>7 DEF FramingInv

\* The loop's cursor, buffer and counts of reads stay legal and agree with the stream,
\* through every split of it: the invariant that the run checks.
THEOREM FramingInvariant == Spec => []FramingInv
<1>1. FramingInv /\ [Next]_vars => FramingInv'
  <2> SUFFICES ASSUME FramingInv, [Next]_vars PROVE FramingInv'
    OBVIOUS
  <2>1. CASE Next
    BY <2>1, InvSend, InvBreak, InvReopen, InvFirstRead, InvMoreRead, InvMoreNothing,
       InvParse DEF Next, Read
  <2>2. CASE UNCHANGED vars
    <3>1. UNCHANGED <<end, link, breaks, pos, pc, more, cursor, start, good, failed, got, cutOff>>
      BY <2>2 DEF vars, stream, buffer, history
    <3>2. From' = From /\ UNCHANGED stream
      BY <3>1 DEF From, stream
    <3>3. TypeOK'
      BY <3>1 DEF FramingInv, TypeOK
    <3>4. Undisturbed'
      <4>1. Boundary(From)' <=> Boundary(From)
        BY <3>1, <3>2 DEF Boundary, EndsLine, Sent
      <4> QED BY <3>1, <4>1 DEF FramingInv, Undisturbed
    <3> QED BY <3>1, <3>2, <3>3, <3>4, ReaderTypes, InvFromParts DEF From
  <2> QED BY <2>1, <2>2
<1> QED BY <1>1, InvInit, PTL DEF Spec

-----------------------------------------------------------------------------
(* The receive loop implements CommandChannel.                             *)

LEMMA FromWritten == ASSUME FramingInv PROVE From \in 0..Written
BY ReaderTypes DEF From

\* Reading forward, the next command never comes before the one it was.
LEMMA NextForward ==
  ASSUME FramingInv, FramingInv', UNCHANGED end, From <= From'
  PROVE  /\ NextCommand \in 1 .. Sent + 1 /\ NextCommand' \in 1 .. Sent + 1
         /\ NextCommand <= NextCommand'
         /\ \A m \in 1..Sent : m >= NextCommand' <=> Begin(m) >= From'
         /\ \A m \in 1..Sent : m >= NextCommand <=> Begin(m) >= From
<1> DEFINE n == NextCommand
           k == NextCommand'
<1>1. /\ Lines' /\ Sent' = Sent /\ Written' = Written /\ Sent \in Nat
      /\ \A m \in 1..Sent : Begin(m)' = Begin(m) /\ Begin(m) \in Nat
      /\ \A l, m \in 1..Sent : l < m => Begin(l) < Begin(m)
      /\ TypeOK /\ Lines /\ TypeOK'
  BY SameLines, BeginsOrdered DEF FramingInv
<1>2. n \in 1 .. Sent + 1 /\ IsNext(n, From)
  BY <1>1, FromWritten, NextAt
<1>3. k \in 1 .. Sent + 1 /\ (k > 1 => Begin(k - 1) < From') /\ (k <= Sent => Begin(k) >= From')
  <2> DEFINE B(m) == IF m = 1 THEN 0 ELSE end'[m - 1]
  <2>1. From' \in 0..Written'
    <3>1. pos' \in Nat /\ start' \in Nat /\ good' \in Nat /\ Written' \in Nat
      BY <1>1, BeginsOrdered DEF TypeOK
    <3>2. start' + good' <= pos' /\ pos' <= Written'
      BY DEF FramingInv, Positions
    <3>3. From' = pos' \/ From' = start'
      BY DEF From
    <3>4. \A p, a, g, w \in Nat : a + g <= p /\ p <= w => p \in 0..w /\ a \in 0..w
      OBVIOUS
    <3>5. pos' \in 0..Written' /\ start' \in 0..Written'
      BY <3>1, <3>2, <3>4
    <3> QED BY <3>3, <3>5
  <2>2. \E m \in 1 .. Sent' + 1 : (m > 1 => B(m - 1) < From') /\ (m <= Sent' => B(m) >= From')
    BY <2>1, <1>1 DEF Lines, IsNext, Begin
  <2>3. k \in 1 .. Sent' + 1 /\ (k > 1 => B(k - 1) < From') /\ (k <= Sent' => B(k) >= From')
    BY <2>2 DEF NextCommand, IsNext, Begin
  <2>4. \A m : B(m) = Begin(m)
    BY DEF Begin
  <2> HIDE DEF B, k
  <2> QED BY <1>1, <2>3, <2>4
<1>4. n \in 1 .. Sent + 1 /\ (n > 1 => Begin(n - 1) < From) /\ (n <= Sent => Begin(n) >= From)
  BY <1>2 DEF IsNext
<1>5. From \in Nat /\ From' \in Nat
  BY <1>1 DEF From, TypeOK
<1> HIDE DEF n, k
<1>6. \A m \in 1..Sent : m >= k <=> Begin(m) >= From'
  <2> SUFFICES ASSUME NEW m \in 1..Sent PROVE m >= k <=> Begin(m) >= From'
    OBVIOUS
  <2>1. CASE m >= k
    BY <1>1, <1>3, <1>5, <2>1
  <2>2. CASE m < k
    BY <1>1, <1>3, <1>5, <2>2
  <2> QED BY <1>1, <1>3, <2>1, <2>2
<1>7. \A m \in 1..Sent : m >= n <=> Begin(m) >= From
  <2> SUFFICES ASSUME NEW m \in 1..Sent PROVE m >= n <=> Begin(m) >= From
    OBVIOUS
  <2>1. CASE m >= n
    BY <1>1, <1>4, <1>5, <2>1
  <2>2. CASE m < n
    BY <1>1, <1>4, <1>5, <2>2
  <2> QED BY <1>1, <1>4, <2>1, <2>2
<1>8. n <= k
  <2>1. CASE k <= Sent
    BY <1>1, <1>3, <1>4, <1>5, <1>6, <1>7, <2>1
  <2>2. CASE k = Sent + 1
    BY <1>1, <1>4, <2>2
  <2> QED BY <1>1, <1>3, <2>1, <2>2
<1> QED BY <1>1, <1>3, <1>4, <1>6, <1>7, <1>8 DEF n, k

LEMMA StepsOfChannel ==
  ASSUME FramingInv, FramingInv', Next
  PROVE  \/ Chan!ChanNext
         \/ UNCHANGED <<Sent, NextCommand, got>>
<1>1. CASE Send
  <2>1. /\ Sent' = Sent + 1 /\ UNCHANGED <<pos, pc, start, got>>
    BY <1>1, SendEffect DEF Send, buffer, history
  <2>2. From' = From
    BY <2>1 DEF From
  <2>3. NextCommand' = NextCommand
    <3> DEFINE m == NextCommand
               n == NextCommand'
               B(i) == IF i = 1 THEN 0 ELSE end'[i - 1]
    <3>1. m \in 1 .. Sent + 1 /\ IsNext(m, From) /\ From \in 0..Written
      BY FromWritten, NextAt DEF FramingInv
    <3>2. \A i \in 1 .. Sent + 1 : \A o \in 0..Written : IsNext(i, o) => IsNext(i, o)'
      BY <1>1, SendLines
    <3>3. (m > 1 => B(m - 1) < From) /\ (m <= Sent' => B(m) >= From)
      <4> HIDE DEF m
      <4>1. \A i \in 1 .. Sent + 1 : i = m => IsNext(i, From)
        BY <3>1
      <4>2. \A i \in 1 .. Sent + 1 : \A o \in 0..Written :
              i = m /\ o = From => IsNext(i, o)'
        BY <3>2, <4>1
      <4> QED BY <3>1, <4>2 DEF IsNext, Begin
    <3>4. m \in 1 .. Sent' + 1
      BY <2>1, <3>1, BeginsOrdered DEF FramingInv
    <3>5. /\ n \in 1 .. Sent' + 1
          /\ (n > 1 => B(n - 1) < From) /\ (n <= Sent' => B(n) >= From)
      BY <2>2, <3>3, <3>4 DEF NextCommand, IsNext, Begin
    <3>6. /\ Sent \in Nat /\ Written \in Nat /\ From \in Nat
          /\ \A i \in 1..Sent : B(i) = Begin(i) /\ Begin(i) \in Nat /\ Begin(i) < Written
          /\ B(Sent + 1) = Written
          /\ \A i, j \in 1..Sent : i < j => Begin(i) < Begin(j)
      <4>1. /\ Sent \in Nat /\ Written \in Nat /\ From \in Nat
            /\ \A i \in 1..Sent : Begin(i) \in Nat /\ Begin(i) < Written
            /\ \A i, j \in 1..Sent : i < j => Begin(i) < Begin(j)
        BY <3>1, BeginsOrdered DEF FramingInv
      <4>2. \A i \in 1..Sent : B(i) = Begin(i)
        BY <1>1, SendLines DEF Begin
      <4>3. B(Sent + 1) = Written
        BY <1>1, <4>1, SendEffect DEF Begin, Send
      <4> QED BY <4>1, <4>2, <4>3
    <3> HIDE DEF m, n, B
    <3>7. \A i, j \in 1..Sent' : i < j => B(i) < B(j)
      BY <2>1, <3>6
    <3>8. \A i \in 1..Sent' : B(i) \in Nat
      BY <2>1, <3>6
    <3>9. ~(m < n) /\ ~(n < m)
      BY <2>1, <3>3, <3>4, <3>5, <3>6, <3>7, <3>8
    <3> QED BY <2>1, <3>4, <3>5, <3>6, <3>9 DEF m, n
  <2> QED BY <2>1, <2>3 DEF Chan!ChanNext, Chan!Transmit
<1>2. ASSUME UNCHANGED end, From <= From'
      PROVE  /\ Sent' = Sent /\ Sent \in Nat
             /\ NextCommand \in Nat /\ NextCommand' \in 1 .. Sent + 1
             /\ NextCommand <= NextCommand'
             /\ \A m \in 1..Sent : m >= NextCommand' <=> Begin(m) >= From'
             /\ \A m \in 1..Sent : m >= NextCommand <=> Begin(m) >= From
  <2>1. Sent' = Sent /\ Sent \in Nat
    BY <1>2, SameLines, BeginsOrdered DEF FramingInv
  <2>2. /\ NextCommand \in 1 .. Sent + 1 /\ NextCommand' \in 1 .. Sent + 1
        /\ NextCommand <= NextCommand'
        /\ \A m \in 1..Sent : m >= NextCommand' <=> Begin(m) >= From'
        /\ \A m \in 1..Sent : m >= NextCommand <=> Begin(m) >= From
    BY <1>2, NextForward
  <2>3. NextCommand \in Nat
    BY <2>1, <2>2
  <2> QED BY <2>1, <2>2, <2>3
<1>3. ASSUME UNCHANGED <<end, got>>, From <= From'
      PROVE  Chan!ChanNext \/ UNCHANGED <<Sent, NextCommand, got>>
  <2>1. /\ Sent' = Sent /\ Sent \in Nat
        /\ NextCommand \in Nat /\ NextCommand' \in 1 .. Sent + 1
        /\ NextCommand <= NextCommand'
    BY <1>2, <1>3
  <2>2. NextCommand' = NextCommand \/ NextCommand' \in NextCommand + 1 .. Sent + 1
    BY <2>1
  <2> QED BY <1>3, <2>1, <2>2 DEF Chan!ChanNext, Chan!Lose
<1>4. CASE Break \/ Reopen \/ FirstRead \/ MoreNothing \/ MoreRead
  <2>1. UNCHANGED <<end, got>>
    BY <1>4 DEF Break, Reopen, FirstRead, MoreNothing, MoreRead, stream, buffer, history
  <2>2. From <= From'
    <3>1. CASE Break
      BY <3>1, ReaderTypes DEF Break, buffer, From
    <3>2. CASE Reopen
      BY <3>2, ReaderTypes DEF Reopen, buffer, From
    <3>3. CASE FirstRead
      BY <3>3, ReaderTypes DEF FirstRead, Tested, From
    <3>4. CASE MoreNothing
      BY <3>4, ReaderTypes DEF MoreNothing, Tested, TestedBlind, From
    <3>5. CASE MoreRead
      <4>1. /\ pc = "more"
            /\ \E k \in Readable(BufSize - cursor) : Lands(k)
            /\ pc' \in {"more", "parse"}
        BY <3>5 DEF MoreRead, Tested, TestedBlind
      <4>2. start <= start'
        BY <4>1, LandsEffect
      <4> QED BY <4>1, <4>2 DEF From
    <3> QED BY <1>4, <3>1, <3>2, <3>3, <3>4, <3>5
  <2> QED BY <1>3, <2>1, <2>2
<1>5. CASE Parse
  <2>1. UNCHANGED end /\ From = start /\ From' = pos /\ pos \in Nat /\ start \in Nat
        /\ start + good <= pos /\ good \in Nat
    BY <1>5, ReaderTypes DEF Parse, stream, From
  <2>2. CASE UNCHANGED got
    BY <1>3, <2>1, <2>2
  <2>3. CASE \E m \in 1..Sent : Recognised(m) /\ got' = m
    <3>1. PICK m \in 1..Sent : Recognised(m) /\ got' = m
      BY <2>3
    <3>2. Begin(m) + 2 <= end[m] /\ Begin(m) \in Nat /\ end[m] \in Nat
      BY BeginsOrdered DEF FramingInv, Lines
    <3>3. Begin(m) >= start /\ end[m] - 1 <= start + good
      BY <2>1, <3>1 DEF Recognised, JsonFrom
    <3>4. Begin(m) < pos
      BY <2>1, <3>2, <3>3
    <3>5. /\ Sent' = Sent /\ Sent \in Nat
          /\ NextCommand \in Nat /\ NextCommand' \in 1 .. Sent + 1
          /\ m >= NextCommand /\ ~(m >= NextCommand')
      BY <1>2, <2>1, <3>2, <3>3, <3>4
    <3>6. m \in NextCommand..Sent /\ NextCommand' \in m + 1 .. Sent + 1
      BY <3>5
    <3> QED BY <3>1, <3>5, <3>6 DEF Chan!ChanNext, Chan!HandOn
  <2> QED BY <1>5, <2>2, <2>3 DEF Parse
<1> QED BY <1>1, <1>4, <1>5 DEF Next, Read

\* Through split, joined, abandoned and failed reads and replaced sessions,
\* commands are handed on in the order they were sent and each at most once: the
\* receive loop implements CommandChannel.
THEOREM LoopImplementsChannel == Spec => CommandsInOrder
<1>1. Init => Chan!ChanInit
  <2> SUFFICES ASSUME Init PROVE Chan!ChanInit
    OBVIOUS
  <2>1. FramingInv /\ Sent = 0 /\ got = 0 /\ From = 0
    BY InvInit DEF Init, Sent, From
  <2>2. NextCommand \in 1 .. Sent + 1
    BY <2>1, FromWritten, NextAt DEF FramingInv
  <2>3. NextCommand = 1
    BY <2>1, <2>2
  <2> QED BY <2>1, <2>3 DEF Chan!ChanInit
<1>2. FramingInv /\ FramingInv' /\ [Next]_vars => [Chan!ChanNext]_<<Sent, NextCommand, got>>
  <2> SUFFICES ASSUME FramingInv, FramingInv', [Next]_vars
               PROVE  Chan!ChanNext \/ UNCHANGED <<Sent, NextCommand, got>>
    OBVIOUS
  <2>1. CASE Next
    BY <2>1, StepsOfChannel
  <2>2. CASE UNCHANGED vars
    <3>1. UNCHANGED <<end, pos, pc, start, got>>
      BY <2>2 DEF vars, stream, buffer, history
    <3>2. Sent' = Sent /\ From' = From
      BY <3>1 DEF Sent, From
    <3>3. NextCommand' = NextCommand
      BY <3>1, <3>2 DEF NextCommand, IsNext, Begin
    <3> QED BY <3>1, <3>2, <3>3
  <2> QED BY <2>1, <2>2
<1> QED BY <1>1, <1>2, FramingInvariant, PTL
    DEF Spec, CommandsInOrder, Chan!ChanSpec, Chan!chanVars

-----------------------------------------------------------------------------
(* What is lost without an interruption.                                   *)

\* A buffer that begins and ends at a line's end is recognised as the command it
\* begins with.
LEMMA WholeBufferRecognised ==
  ASSUME FramingInv, pc = "parse", breaks = 0, ~cutOff, EndsLine(pos)
  PROVE  /\ NextCommand \in 1..Sent
         /\ \A m \in 1..Sent : Recognised(m) <=> m = NextCommand
<1>1. /\ TypeOK /\ Lines /\ Sent \in Nat /\ Written \in Nat
      /\ \A m \in 1..Sent : /\ Begin(m) \in Nat /\ end[m] \in Nat /\ Begin(m) + 2 <= end[m]
      /\ \A l, m \in 1..Sent : l < m => /\ Begin(l) < Begin(m)
                                       /\ end[l] < end[m] /\ end[l] <= Begin(m)
  BY BeginsOrdered DEF FramingInv, Lines
<1>2. /\ ~failed /\ start + good = pos /\ good > 0 /\ Boundary(start) /\ From = start
      /\ start \in Nat /\ good \in Nat /\ pos \in Nat
  BY ReaderTypes DEF FramingInv, Undisturbed, From
<1>3. PICK p \in 1..Sent : end[p] = pos
  BY DEF EndsLine
<1>4. NextCommand \in 1 .. Sent + 1 /\ IsNext(NextCommand, start)
  BY <1>1, <1>2, FromWritten, NextAt
<1>5. PICK m \in 1..Sent : Begin(m) = start
  <2>1. CASE start = 0
    BY <1>1, <1>3, <2>1 DEF Begin
  <2>2. CASE EndsLine(start)
    <3>1. PICK l \in 1..Sent : end[l] = start
      BY <2>2 DEF EndsLine
    <3>2. l < p
      BY <1>1, <1>2, <1>3, <3>1
    <3>3. l + 1 \in 1..Sent /\ Begin(l + 1) = start
      BY <1>1, <3>1, <3>2 DEF Begin
    <3> QED BY <3>3
  <2> QED BY <1>2, <2>1, <2>2 DEF Boundary
<1>6. NextCommand = m
  <2>1. m > 1 => Begin(m - 1) < start
    BY <1>1, <1>5
  <2>2. IsNext(m, From)
    BY <1>1, <1>2, <1>5, <2>1 DEF IsNext
  <2> QED BY <1>1, <2>2, NextIs, FromWritten
<1>7. end[m] <= start + good
  BY <1>1, <1>2, <1>3, <1>5
<1>8. JsonFrom = start
  <2>1. ~EndsLine(start + 1)
    <3> SUFFICES ASSUME NEW q \in 1..Sent, end[q] = start + 1 PROVE FALSE
      BY DEF EndsLine
    <3> QED BY <1>1, <1>2, <1>5
  <2> QED BY <2>1 DEF JsonFrom
<1>9. \A i \in 1..Sent : Begin(i) = start <=> i = m
  BY <1>1, <1>5
<1> QED BY <1>1, <1>2, <1>6, <1>7, <1>8, <1>9 DEF Recognised

\* Until a session is interrupted or a line comes in too many pieces, each
\* buffer hands on the command it begins with: only followers are lost.
THEOREM OnlyFollowersLost == Spec => OnlyFollowersAreLost
<1>1. FramingInv /\ [Next]_vars
        => (pc = "parse" /\ pc' = "first" /\ breaks = 0 /\ ~cutOff' => got' = NextCommand)
  <2> SUFFICES ASSUME FramingInv, [Next]_vars,
                      pc = "parse", pc' = "first", breaks = 0, ~cutOff'
               PROVE  got' = NextCommand
    OBVIOUS
  <2>1. Parse
    BY DEF Next, Read, Send, Break, Reopen, FirstRead, MoreRead, MoreNothing, vars
  <2>2. ~cutOff /\ EndsLine(pos)
    BY <2>1 DEF Parse
  <2>3. NextCommand \in 1..Sent /\ \A m \in 1..Sent : Recognised(m) <=> m = NextCommand
    BY <2>2, WholeBufferRecognised
  <2> QED BY <2>1, <2>3 DEF Parse
<1> QED BY <1>1, FramingInvariant, PTL DEF Spec, OnlyFollowersAreLost
=============================================================================
