----------------------------- MODULE SerialLink -----------------------------
(***************************************************************************)
(* The miner threads and their cards: openserial() with its global         *)
(* descriptor on Linux, the port table on Windows, the words of a header   *)
(* going out and the bytes of the answers coming in.                       *)
(*                                                                         *)
(* A card takes HeaderWords words for a header and answers it with four    *)
(* bytes, at most Repeats times.  Bytes are counted, and where an answer   *)
(* begins follows from the counts: the last byte of an answer is the last  *)
(* byte that is in the port or still to come.                              *)
(***************************************************************************)
EXTENDS Launch, PortTable

CONSTANTS
  HeaderWords,  \* 8-byte words of a header: 8 in the code
  Repeats,      \* bound: answers to one header
  Pieces,       \* bound: numbers of bytes that may arrive at once
  MaxUnread,    \* bound: bytes waiting in a port
  Leftovers     \* bound: what the cards may be doing when the program starts

ASSUME SerialAssumption ==
  /\ HeaderWords \in Nat \ {0}
  /\ Repeats \in Nat \ {0}
  /\ MaxUnread \in Nat \ {0} /\ Pieces \subseteq Nat \ {0}
  /\ Leftovers \subseteq
       [Devices -> [words : 0 .. HeaderWords - 1, due : 0..Repeats, left : 0..4]]

VARIABLES
  build,     \* "linux" or "windows"
  pc,        \* where a miner is
  fd,        \* the global: the device behind the last descriptor opened, 0 for -1
  devfd,     \* local of miner_thread(): a device on Linux, an index on Windows
  portLock,  \* holder of miner_port_lock, 0 for nobody
  word,      \* kk, the next word of the header
  configured, \* devices whose line parameters have been set
  card,      \* words: of a header taken so far; by: the miner whose header they begin,
             \* 0 for nobody's; due, left: answers and bytes of an answer still to
             \* come; unread: bytes in the port
  \* History, read by properties only:
  raced,     \* another thread stored fd while this one was opening its device
  refused,   \* SetCommState() failed for this miner
  upset,     \* the card's or the port's bytes are out of step for a reason
  mixed,     \* cards that were given something else than one miner's header
  garbled    \* cards of which bytes of two answers were taken for one

minerVars == <<pc, fd, devfd, portLock, word, configured>>
history == <<raced, refused, upset, mixed, garbled>>
vars == <<launchVars, portVars, build, minerVars, card, history>>

Cards == [words : 0 .. HeaderWords - 1, by : 0..MaxGpus,
          due : 0..Repeats, left : 0..4, unread : 0..MaxUnread]

Opening == {"test", "flush", "set", "return"}
Mining == {"write", "poll"}
Created(m) == m <= spawned

Init ==
  /\ LaunchInit
  /\ build \in {"linux", "windows"}
  /\ \E list \in DosLists : PortsInit(IF build = "windows" THEN list ELSE <<>>)
  /\ pc = [m \in Miners |-> "start"]
  /\ fd = NoDevice /\ portLock = 0
  /\ devfd = [m \in Miners |-> 0] /\ word = [m \in Miners |-> 1]
  /\ configured = {}
  /\ \E before \in Leftovers :
       /\ card = [d \in Devices |->
                    [words |-> before[d].words, by |-> 0,
                     due |-> before[d].due, left |-> before[d].left, unread |-> 0]]
       /\ upset = {d \in Devices : before[d].words > 0 \/ before[d].left \in 1..3}
  /\ raced = {} /\ refused = {} /\ mixed = {} /\ garbled = {}

-----------------------------------------------------------------------------
(* openserial(), Linux.                                                    *)

Steps(m, from, on) ==
  /\ fate = "runs" /\ build = on /\ Created(m)
  /\ pc[m] = from

Goes(m, to) == pc' = [pc EXCEPT ![m] = to]

\* fd = open(...).  A thread between its own store and its return is overtaken.
StoreFd(m) ==
  /\ Steps(m, "start", "linux")
  /\ fd' = NameOf(m)
  /\ raced' = raced \cup {k \in Miners : pc[k] \in Opening}
  /\ Goes(m, "test")
  /\ UNCHANGED <<launchVars, portVars, build, devfd, portLock, word, configured, card,
                 refused, upset, mixed, garbled>>

TestFd(m) ==
  /\ Steps(m, "test", "linux")
  /\ Goes(m, IF fd = NoDevice THEN "ended" ELSE "flush")
  /\ UNCHANGED <<launchVars, portVars, build, fd, devfd, portLock, word, configured, card,
                 history>>

\* Mutant of Flush: the line is not set up afterwards.
FlushReturns(m) ==
  /\ Steps(m, "flush", "linux")
  /\ Goes(m, "return")
  /\ card' = [d \in Devices |-> IF d = fd THEN [card[d] EXCEPT !.unread = 0] ELSE card[d]]
  /\ UNCHANGED <<launchVars, portVars, build, fd, devfd, portLock, word, configured,
                 history>>

\* tcflush() takes what is in the port of the device that fd now names: half an
\* answer, or one that another thread is waiting for.
Flush(m) ==
  /\ Steps(m, "flush", "linux")
  /\ Goes(m, "set")
  /\ IF fd \in Devices
       THEN /\ card' = [card EXCEPT ![fd].unread = 0]
            /\ upset' = IF \/ card[fd].left \in 1..3
                           \/ card[fd].unread > 0 /\ \E k \in Miners : pc[k] \in Mining /\ devfd[k] = fd
                         THEN upset \cup {fd} ELSE upset
       ELSE UNCHANGED <<card, upset>>
  /\ UNCHANGED <<launchVars, portVars, build, fd, devfd, portLock, word, configured,
                 raced, refused, mixed, garbled>>

SetLine(m) ==
  /\ Steps(m, "set", "linux")
  /\ Goes(m, "return")
  /\ configured' = configured \cup ({fd} \cap Devices)
  /\ UNCHANGED <<launchVars, portVars, build, fd, devfd, portLock, word, card, history>>

ReturnFd(m) ==
  /\ Steps(m, "return", "linux")
  /\ devfd' = [devfd EXCEPT ![m] = fd]
  /\ Goes(m, IF fd = NoDevice THEN "ended" ELSE "write")
  /\ UNCHANGED <<launchVars, portVars, build, fd, portLock, word, configured, card, history>>

-----------------------------------------------------------------------------
(* The port table, Windows.                                                *)

\* comFindPort() and the first test of comOpen().
FindIt(m) ==
  /\ Steps(m, "start", "windows")
  /\ portLock = 0
  /\ \/ \E i \in DOMAIN ports :
          /\ FirstOf(NameOf(m), i)
          /\ devfd' = [devfd EXCEPT ![m] = i]
          /\ portLock' = m
          /\ Goes(m, "close")
     \/ ~HasPort(NameOf(m)) /\ Goes(m, "ended") /\ UNCHANGED <<devfd, portLock>>
  /\ UNCHANGED <<launchVars, portVars, build, fd, word, configured, card, history>>

CloseOld(m) ==
  /\ Steps(m, "close", "windows")
  /\ CloseEntry(devfd[m])
  /\ Goes(m, "create")
  /\ UNCHANGED <<launchVars, build, fd, devfd, portLock, word, configured, card, history>>

Create(m) ==
  /\ Steps(m, "create", "windows")
  /\ IF MayCreate(devfd[m], Devices)
       THEN CreateOn(devfd[m]) /\ Goes(m, "state") /\ UNCHANGED portLock
       ELSE Goes(m, "ended") /\ portLock' = 0 /\ UNCHANGED portVars
  /\ UNCHANGED <<launchVars, build, fd, devfd, word, configured, card, history>>

\* SetCommState(), and miner_port_lock is released.
SetState(m) ==
  /\ Steps(m, "state", "windows")
  /\ portLock' = 0
  /\ \/ /\ Goes(m, "write")
        /\ configured' = configured \cup {NameOf(m)}
        /\ UNCHANGED <<portVars, refused>>
     \/ /\ Goes(m, "ended")
        /\ CloseKeepsValue(devfd[m])
        /\ refused' = refused \cup {m}
        /\ UNCHANGED configured
  /\ UNCHANGED <<launchVars, build, fd, devfd, word, card, raced, upset, mixed, garbled>>

-----------------------------------------------------------------------------
(* The mining loop.                                                        *)

\* The device a miner's reads and writes reach.
TalksTo(m) == IF build = "linux" THEN devfd[m] ELSE Reached(devfd[m])

\* The card takes a word; with the last one it drops what it was searching for.
Takes(d, m) ==
  LET c == card[d]
      clean == word[m] = c.words + 1 /\ (c.words = 0 \/ c.by = m)
      full == c.words + 1 = HeaderWords
  IN  /\ card' = [card EXCEPT ![d] = [c EXCEPT !.words = IF full THEN 0 ELSE c.words + 1,
                                               !.by = IF clean /\ ~full THEN m ELSE 0,
                                               !.due = IF full THEN Repeats ELSE c.due]]
      /\ mixed' = IF full /\ ~clean THEN mixed \cup {d} ELSE mixed

\* Mutant of NextWord: the last word is not written.
NextWordEarly(m) ==
  /\ word' = [word EXCEPT ![m] = IF @ = HeaderWords - 1 THEN 1 ELSE @ + 1]
  /\ Goes(m, IF word[m] = HeaderWords - 1 THEN "poll" ELSE "write")

NextWord(m) ==
  /\ word' = [word EXCEPT ![m] = IF @ = HeaderWords THEN 1 ELSE @ + 1]
  /\ Goes(m, IF word[m] = HeaderWords THEN "poll" ELSE "write")

\* A write of one word: whole, short, or on Linux failing, and -1 is then taken
\* for the number of bytes to copy.
WriteWord(m) ==
  /\ Steps(m, "write", build)
  /\ LET d == TalksTo(m) IN
       \/ NextWord(m) /\ d \in Devices /\ Takes(d, m) /\ UNCHANGED <<fate, main, upset>>
       \/ NextWord(m) /\ upset' = upset \cup ({d} \cap Devices) /\ UNCHANGED <<fate, main, card, mixed>>
       \/ build = "linux" /\ Ends("crash") /\ UNCHANGED <<pc, word, card, upset, mixed>>
  /\ UNCHANGED <<hostPort, user, names, nThreads, spawned, portVars, build, fd, devfd,
                 portLock, configured, raced, refused, garbled>>

Fewer(a, b) == IF a <= b THEN a ELSE b

\* The bytes in front of the reader are the first ones of an answer.
AtAnswer(d) == (card[d].unread + card[d].left) % 4 = 0

\* Mutant of Poll: reads and accepts three bytes.
PollThree(m) ==
  /\ Steps(m, "poll", build)
  /\ LET d == TalksTo(m)
         got == Fewer(3, card[d].unread)
     IN  /\ d \in Devices
         /\ got = 3
         /\ card' = [card EXCEPT ![d].unread = @ - got]
         /\ Goes(m, "write")
         /\ garbled' = IF AtAnswer(d) THEN garbled ELSE garbled \cup {d}
  /\ UNCHANGED <<launchVars, portVars, build, fd, devfd, portLock, word, configured,
                 raced, refused, upset, mixed>>

\* Mutant of Poll: goes on polling after an answer.
PollAgain(m) ==
  /\ Steps(m, "poll", build)
  /\ LET d == TalksTo(m) IN
       /\ d \in Devices
       /\ card[d].unread > 0
       /\ card' = [card EXCEPT ![d].unread = 0]
       /\ upset' = IF card[d].unread < 4 THEN upset \cup {d} ELSE upset
  /\ UNCHANGED <<launchVars, portVars, build, minerVars, raced, refused, mixed, garbled>>

\* recvserial(): one read of up to four bytes.  Four make a nonce or the end of
\* the range, unless all are zero; fewer are thrown away.
Poll(m) ==
  /\ Steps(m, "poll", build)
  /\ LET d == TalksTo(m)
         got == Fewer(4, card[d].unread)
     IN  /\ d \in Devices
         /\ got > 0
         /\ card' = [card EXCEPT ![d].unread = @ - got]
         /\ \/ /\ got = 4
               /\ Goes(m, "write")
               /\ garbled' = IF AtAnswer(d) THEN garbled ELSE garbled \cup {d}
               /\ UNCHANGED upset
            \/ /\ upset' = upset \cup {d}
               /\ UNCHANGED <<pc, garbled>>
  /\ UNCHANGED <<launchVars, portVars, build, fd, devfd, portLock, word, configured,
                 raced, refused, mixed>>

\* Windows: after a thousand reads without an answer a newer job is looked for.
Restart(m) ==
  /\ Steps(m, "poll", "windows")
  /\ Goes(m, "write")
  /\ UNCHANGED <<launchVars, portVars, build, fd, devfd, portLock, word, configured, card,
                 history>>

-----------------------------------------------------------------------------
(* The cards.                                                              *)

\* Somebody has the device open: what comes before that is lost.
Opened(d) ==
  \/ build = "linux" /\ \E m \in Miners : pc[m] # "start" /\ NameOf(m) = d
  \/ \E h \in Handles : openOn[h] = d

Answer(d) ==
  /\ fate = "runs" /\ Opened(d)
  /\ card[d].due > 0 /\ card[d].left = 0
  /\ \E more \in {0, card[d].due - 1} :
       card' = [card EXCEPT ![d].left = 4, ![d].due = more]
  /\ UNCHANGED <<launchVars, portVars, build, minerVars, history>>

Arrive(d) ==
  /\ fate = "runs" /\ Opened(d)
  /\ \E k \in Pieces :
       /\ k <= card[d].left /\ card[d].unread + k <= MaxUnread
       /\ card' = [card EXCEPT ![d].unread = @ + k, ![d].left = @ - k]
  /\ UNCHANGED <<launchVars, portVars, build, minerVars, history>>

-----------------------------------------------------------------------------
Main ==
  /\ LaunchNext \/ Join({m \in Miners : pc[m] = "ended"})
  /\ UNCHANGED <<portVars, build, minerVars, card, history>>

Miner(m) ==
  \/ StoreFd(m) \/ TestFd(m) \/ Flush(m) \/ SetLine(m) \/ ReturnFd(m)
  \/ FindIt(m) \/ CloseOld(m) \/ Create(m) \/ SetState(m)
  \/ WriteWord(m) \/ Poll(m) \/ Restart(m)

Next ==
  \/ Main
  \/ \E m \in Miners : Miner(m)
  \/ \E d \in Devices : Answer(d) \/ Arrive(d)

Spec == Init /\ [][Next]_vars

-----------------------------------------------------------------------------
(* Properties.                                                             *)

MinerTypeOK ==
  /\ build \in {"linux", "windows"}
  /\ pc \in [Miners -> Opening \cup Mining \cup {"start", "close", "create", "state", "ended"}]
  /\ fd \in Devices \cup {NoDevice} /\ portLock \in 0..MaxGpus
  /\ devfd \in [Miners -> Nat] /\ word \in [Miners -> 1..HeaderWords]
  /\ raced \subseteq Miners /\ refused \subseteq Miners

CardTypeOK ==
  /\ card \in [Devices -> Cards]
  /\ configured \subseteq Devices /\ upset \subseteq Devices
  /\ mixed \subseteq Devices /\ garbled \subseteq Devices

\* The variables keep their types.  Once main() has taken the options without passing
\* devportnames (veri-fm2l.cpp 1012, where nothing prevents it) it creates the threads
\* it was asked for and no more.
TypeOK == LaunchTypeOK /\ PortTypeOK /\ MinerTypeOK /\ CardTypeOK

\* No device is on the list twice.
Distinct == \A m, k \in Miners : m # k /\ NameOf(m) = NameOf(k) => NameOf(m) = NoDevice

\* A miner that mines reads and writes the card it was given, with its line set
\* up, although threads open their devices at the same time (veri-fm2l.cpp 567): unless
\* another thread's open() came between its own and its return, or on Windows the
\* list names a device twice.
OwnCard ==
  \A m \in Miners :
    pc[m] \in Mining /\ (IF build = "linux" THEN m \notin raced ELSE Distinct)
      => TalksTo(m) = NameOf(m) /\ NameOf(m) \in configured

\* COM names that comEnumerate() cannot see.
Hidden(d) ==
  \A i \in 1..Len(dosList) :
    dosList[i] = d => \/ d >= 100
                      \/ \E j \in 1 .. i - 1 : dosList[j] = 0
                      \/ Cardinality({j \in 1 .. i - 1 : dosList[j] # NotCom}) >= MaxPorts

\* A miner gives up on a card that is plugged in only after a race for the global
\* descriptor, or on Windows if Windows refuses the line's settings, or the port is
\* not one that comEnumerate() sees (rs232-win.c 152).
NoCardLeftOut ==
  \A m \in Miners :
    pc[m] = "ended" /\ NameOf(m) \in Devices
      => IF build = "linux" THEN m \in raced
         ELSE m \in refused \/ Hidden(NameOf(m))

\* main() returns, and run.sh starts it again, only after every card of every -nl
\* was tried, whatever the other options said about threads (veri-fm2l.cpp 1149).
ListedCardsAreTried ==
  fate = "returned" =>
    \A i \in 1..Len(names) : i <= spawned /\ pc[i] = "ended"

\* A nonce is four bytes of one answer (veri-fm2l.cpp 606), unless half an answer was
\* lost: read short, flushed, or cut by the program's start.
NoncesAreWhole == garbled \subseteq upset

\* Two miners may write to the device.
Shared(d) ==
  IF build = "linux"
    THEN \E m, k \in Miners : m # k /\ devfd[m] = d /\ devfd[k] = d
    ELSE ~Distinct

\* A card searches what one miner fetched as one header (veri-fm2l.cpp 789): unless a word
\* was written short or left over from before, or two miners use the card.
HeadersAreWhole == \A d \in mixed \ upset : Shared(d)

Alone(m) ==
  \A k \in Miners \ {m} : NameOf(k) # TalksTo(m) /\ (pc[k] \in Mining => TalksTo(k) # TalksTo(m))

\* A miner that polls has an answer to wait for (veri-fm2l.cpp 816): nothing but a lost byte,
\* a nonce of zero, a short word or a second user of the card lets it wait for
\* a card that has nothing to say.
WaitsForItsCard ==
  \A m \in Miners :
    (pc[m] = "poll" /\ TalksTo(m) \in Devices \ upset /\ Alone(m)) =>
      LET c == card[TalksTo(m)] IN c.due + c.left + c.unread > 0
=============================================================================
