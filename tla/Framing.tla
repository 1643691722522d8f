------------------------------ MODULE Framing ------------------------------
(***************************************************************************)
(* How cyclicRun() (UCPClient.h) cuts the pool's byte stream into commands.*)
(* A command is one line of JSON.  The loop reads until the last byte it   *)
(* has is a newline, or until it has read too often; getCommandType() then *)
(* parses the first JSON value of the buffer, and what else the buffer     *)
(* holds is dropped.                                                       *)
(*                                                                         *)
(* Bytes are their offsets in what the pool has written, over all sessions *)
(* in turn: command m is the bytes Begin(m) .. end[m] - 1, its newline the *)
(* last of them.  A new session starts behind everything written before.   *)
(***************************************************************************)
EXTENDS Integers, Sequences

CONSTANTS
  MaxMore,   \* further reads without a newline that the loop accepts: 5 in the code
  BufSize,   \* MESSAGE_BUFFER_SIZE
  Lengths,   \* bound: lengths of a command, newline included
  MaxSent,   \* bound: commands the pool sends
  MaxBreaks  \* bound: times a session ends

ASSUME FramingAssumption ==
  /\ MaxMore \in Nat
  /\ BufSize \in Nat \ {0}
  /\ Lengths \subseteq Nat \ {0, 1}
  /\ MaxSent \in Nat /\ MaxBreaks \in Nat

VARIABLES
  end,     \* end[m]: the offset behind the newline of command m
  link,    \* what recv() does when nothing is unread: wait, return 0, return -1
  breaks,  \* sessions ended
  pos,     \* the next byte recv() will return
  pc,      \* the first read of a buffer, further reads, or the parser
  cursor,  \* local of cyclicRun(); an error moves it back
  start, good, \* the buffer begins with the `good` bytes from start on
  more,    \* check1Count
  failed,  \* the first read of this buffer returned -1
  \* History, read by properties only:
  got,     \* the last command handed on
  cutOff   \* some buffer did not end with a newline

stream == <<end, link, breaks>>
buffer == <<cursor, start, good, failed>>
history == <<got, cutOff>>
vars == <<stream, pos, pc, more, buffer, history>>

Sent == Len(end)
Written == IF Sent = 0 THEN 0 ELSE end[Sent]        \* bytes written so far
Begin(m) == IF m = 1 THEN 0 ELSE end[m - 1]
EndsLine(o) == \E m \in 1..Sent : end[m] = o      \* the byte before o is a newline
AtMost(a, b) == IF a <= b THEN a ELSE b

TypeOK ==
  /\ end \in Seq(Nat)
  /\ link \in {"up", "eof", "bad"}
  /\ breaks \in 0..MaxBreaks
  /\ pos \in Nat /\ start \in Nat /\ good \in 0..BufSize
  /\ pc \in {"first", "more", "parse"}
  /\ more \in 0..MaxMore
  /\ cursor \in -(more + 1)..BufSize
  /\ failed \in BOOLEAN /\ cutOff \in BOOLEAN
  /\ got \in Nat

Init ==
  /\ end = <<>> /\ link = "up" /\ breaks = 0
  /\ pos = 0 /\ start = 0 /\ good = 0
  /\ pc = "first" /\ cursor = 0 /\ more = 0 /\ failed = FALSE
  /\ got = 0 /\ cutOff = FALSE

-----------------------------------------------------------------------------
(* The pool and the connection.                                            *)

Send ==
  /\ link = "up"
  /\ Sent < MaxSent
  /\ \E len \in Lengths : end' = Append(end, Written + len)
  /\ UNCHANGED <<link, breaks, pos, pc, more, buffer, history>>

\* The pool ends the session ("eof"), or another thread of the miner has
\* closed the descriptor ("bad").
Break ==
  /\ link = "up"
  /\ breaks < MaxBreaks
  /\ breaks' = breaks + 1
  /\ link' \in {"eof", "bad"}
  /\ UNCHANGED <<end, pos, pc, more, buffer, history>>

\* Mutant of Reopen: what was read last comes again.
ReopenReplays ==
  /\ link # "up"
  /\ link' = "up"
  /\ pos' = start
  /\ UNCHANGED <<end, breaks, pc, more, buffer, history>>

\* reconnect(), by this thread or by a miner, has stored a new socket: what the
\* old session had left is not read any more.
Reopen ==
  /\ link # "up"
  /\ link' = "up"
  /\ pos' = Written
  /\ UNCHANGED <<end, breaks, pc, more, buffer, history>>

-----------------------------------------------------------------------------
(* cyclicRun().                                                            *)

\* What one recv() with room for `size` bytes may take.  A thread that was in
\* recv() when its descriptor was closed still gets what the old session has.
Readable(size) == 1..AtMost(size, Written - pos)
ReadsNothing == link = "bad" \/ (link = "eof" /\ pos = Written)

\* Where the loop goes after it has tested the byte before offset o, and after
\* it has tested one that is none of the pool's: while nothing is in the buffer
\* the test is left out.
Tested(o) == {IF EndsLine(o) THEN "parse" ELSE "more"}
TestedBlind(length) == IF length = 0 THEN {"more"} ELSE {"more", "parse"}

\* The first read.  A failed one is logged and the loop starts over, an empty
\* one leads to reconnect(): UCPClient has both.  After either a byte in front
\* of the buffer is tested, whatever it holds.
FirstRead ==
  /\ pc = "first"
  /\ \/ \E k \in Readable(BufSize) :
          /\ pos' = pos + k
          /\ start' = pos /\ good' = k /\ cursor' = k
          /\ failed' = FALSE
          /\ pc' \in Tested(pos + k)
     \/ /\ ReadsNothing
        /\ pc' \in {"more", "parse"}
        /\ failed' = (link = "bad")
        /\ cursor' = IF failed' THEN -1 ELSE 0
        /\ good' = 0 /\ start' = pos
        /\ UNCHANGED pos
  /\ more' = 0
  /\ UNCHANGED <<stream, history>>

\* k bytes land at the cursor, the first of them in front of the buffer when it
\* is negative.  They continue the buffer's beginning only if they are the bytes
\* that follow it.
Lands(k) ==
  /\ pos' = pos + k
  /\ \/ /\ cursor + k <= 0
        /\ UNCHANGED <<start, good>>
     \/ /\ cursor <= 0 /\ cursor + k > 0
        /\ start' = pos - cursor /\ good' = cursor + k
     \/ /\ cursor > 0
        /\ UNCHANGED start
        /\ good' = IF cursor = good /\ pos = start + good
                     THEN good + k ELSE AtMost(good, cursor)

\* Mutant of MoreRead: the loop stops one read earlier.
MoreReadFewer ==
  /\ pc = "more"
  /\ \E k \in Readable(BufSize - cursor) :
       /\ Lands(k)
       /\ cursor' = cursor + k
       /\ pc' \in IF more + 1 >= MaxMore THEN {"parse"} ELSE Tested(pos + k)
       /\ more' = AtMost(more + 1, MaxMore)
  /\ UNCHANGED <<stream, failed, history>>

\* Mutant of MoreRead: the cursor is not moved on.
MoreReadStays ==
  /\ pc = "more"
  /\ \E k \in Readable(BufSize - cursor) :
       /\ Lands(k)
       /\ pc' \in IF more = MaxMore THEN {"parse"} ELSE Tested(pos + k)
       /\ more' = AtMost(more + 1, MaxMore)
  /\ UNCHANGED <<stream, cursor, failed, history>>

\* A further read that returned data.  The last one is not counted into the
\* cursor, but its bytes are in the buffer when the parser sees it.
MoreRead ==
  /\ pc = "more"
  /\ \E k \in Readable(BufSize - cursor) :
       /\ Lands(k)
       /\ IF more = MaxMore
            THEN pc' = "parse" /\ UNCHANGED <<cursor, more>>
            ELSE /\ cursor' = cursor + k
                 /\ pc' \in IF cursor' > 0 THEN Tested(pos + k) ELSE TestedBlind(good')
                 /\ more' = more + 1
  /\ UNCHANGED <<stream, failed, history>>

\* A further read that returned 0 or -1, or had no room.  The byte before the
\* cursor is tested again.
MoreNothing ==
  /\ pc = "more"
  /\ ReadsNothing \/ cursor = BufSize
  /\ IF more = MaxMore
       THEN pc' = "parse" /\ UNCHANGED <<cursor, more>>
       ELSE /\ cursor' = IF link = "bad" THEN cursor - 1 ELSE cursor
            /\ more' = more + 1
            /\ pc' \in IF cursor' \in 1..good
                          THEN Tested(start + cursor') ELSE TestedBlind(good)
  /\ UNCHANGED <<stream, pos, start, good, failed, history>>

\* Where the first JSON value of the buffer must begin: white space is skipped.
JsonFrom == IF EndsLine(start + 1) THEN start + 1 ELSE start

\* The buffer begins with the whole text of command m, newline or not.  Pieces of
\* two commands are never taken for one: the second's opening brace leaves the
\* first's unclosed.  After a failed first read nothing is parsed.
Recognised(m) ==
  ~failed /\ Begin(m) = JsonFrom /\ end[m] - 1 <= start + good

\* getCommandType(), and the loop starts over with an empty buffer.
Parse ==
  /\ pc = "parse"
  /\ \/ \E m \in 1..Sent : Recognised(m) /\ got' = m
     \/ (\A m \in 1..Sent : ~Recognised(m)) /\ UNCHANGED got
  /\ cutOff' = (cutOff \/ ~EndsLine(pos))
  /\ pc' = "first" /\ more' = 0
  /\ start' = pos /\ good' = 0 /\ cursor' = 0 /\ failed' = FALSE
  /\ UNCHANGED <<stream, pos>>

Read == FirstRead \/ MoreRead \/ MoreNothing \/ Parse

Next == Send \/ Break \/ Reopen \/ Read

Spec == Init /\ [][Next]_vars

\* The receiver thread runs.
FairSpec == Spec /\ WF_vars(Read)

-----------------------------------------------------------------------------
(* Properties.                                                             *)

\* The first command of which no byte has been read, or that may still begin
\* the buffer in hand.
From == IF pc = "first" THEN pos ELSE start
IsNext(m, o) ==
  /\ m > 1 => Begin(m - 1) < o
  /\ m <= Sent => Begin(m) >= o
NextCommand == CHOOSE m \in 1 .. Sent + 1 : IsNext(m, From)

\* Through split, joined and abandoned reads, failed reads that move the cursor
\* back, and sessions replaced in the middle of a line (UCPClient.h 773-829), the receive
\* loop is a channel that hands commands on in order and each at most once.
Chan == INSTANCE CommandChannel WITH sent <- Sent, next <- NextCommand, got <- got
CommandsInOrder == Chan!ChanSpec

\* On a session that has not been interrupted, and as long as no line came in
\* more pieces than the loop reads (UCPClient.h 815), the only commands lost are those that
\* stood behind another one in the same buffer.
OnlyFollowersAreLost ==
  [][pc = "parse" /\ pc' = "first" /\ breaks = 0 /\ ~cutOff'
       => got' = NextCommand]_vars

-----------------------------------------------------------------------------
(* The inductive invariant behind them.                                    *)

\* Commands lie one behind the other, and every offset has a next command.
Lines ==
  /\ \A m \in 1..Sent : Begin(m) + 2 <= end[m]
  /\ \A l, m \in 1..Sent : l < m => end[l] < end[m] /\ end[l] <= Begin(m)
  /\ \A o \in 0..Written : \E m \in 1 .. Sent + 1 : IsNext(m, o)

\* The buffer's beginning is bytes that were read, and what was handed on lies
\* before it.
Positions ==
  /\ start + good <= pos /\ pos <= Written
  /\ got \in 0..Sent
  /\ got > 0 => Begin(got) < From

Boundary(o) == o = 0 \/ EndsLine(o)

\* Without an interruption or an abandoned line the buffer is contiguous and
\* begins at a line.
Undisturbed ==
  breaks = 0 =>
    /\ link = "up" /\ ~failed
    /\ pc # "first" => start + good = pos /\ good > 0
    /\ pc = "more" => cursor = good
    /\ ~cutOff => Boundary(From)

FramingInv == TypeOK /\ Lines /\ Positions /\ Undisturbed

-----------------------------------------------------------------------------
(* Liveness, under FairSpec.                                               *)

\* A command that the reader meets at the beginning of a buffer and that no other
\* follows is handed on, in however many pieces it comes up to the limit of
\* the loop, unless the session ends.
QuietDelivery ==
  \A m \in 1..MaxSent :
    (/\ Sent = m /\ link = "up"
     /\ pc = "first" /\ pos = Begin(m)
     /\ end[m] - 1 <= Begin(m) + AtMost(MaxMore + 2, BufSize))
      ~> (got = m \/ Sent > m \/ link # "up")
=============================================================================
