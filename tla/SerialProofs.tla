---------------------------- MODULE SerialProofs ----------------------------
(***************************************************************************)
(* What holds of SerialLink for every number of threads, every list of     *)
(* devices, every table of ports and every length of header.               *)
(***************************************************************************)
EXTENDS SerialLink, FiniteSetTheorems, TLAPS

USE LaunchAssumption, PortAssumption, SerialAssumption

LEMMA MinersType == Miners \subseteq Nat /\ 0 \notin Miners /\ 1 \in Miners
BY DEF Miners

LEMMA NamesType ==
  ASSUME TypeOK, NEW m \in Miners
  PROVE  NameOf(m) \in Devices \cup {NoDevice}
<1>1. CASE m <= Len(names)
  <2>1. m \in 1..Len(names)
    BY <1>1 DEF Miners, TypeOK, LaunchTypeOK
  <2>2. names[m] \in Devices \cup {NoDevice}
    BY <2>1 DEF TypeOK, LaunchTypeOK
  <2> QED BY <1>1, <2>2 DEF NameOf
<1>2. CASE ~(m <= Len(names))
  BY <1>2 DEF NameOf
<1> QED BY <1>1, <1>2

-----------------------------------------------------------------------------
(* Types.                                                                  *)

\* What main() and the miners have done follows the order of the program.
LaunchInv ==
  /\ fate # "undefined" => Len(names) <= MaxGpus
  /\ main \in {"scan", "options", "client"} => spawned = 0
  /\ main = "join" => spawned = nThreads
  /\ main \in {"spawn", "join"} /\ names # <<>> => nThreads = Len(names)
  /\ fate = "returned" => main = "join" /\ \A m \in Miners : Created(m) => pc[m] = "ended"
  /\ \A m \in Miners : ~Created(m) => pc[m] = "start"

LEMMA TypeInit == Init => TypeOK /\ LaunchInv
<1> SUFFICES ASSUME Init PROVE TypeOK /\ LaunchInv
  OBVIOUS
<1>1. main = "scan" /\ fate = "runs" /\ spawned = 0 /\ nThreads = 1 /\ names = <<>>
  BY DEF Init, LaunchInit
<1>2. LaunchInv
  BY <1>1 DEF Init, LaunchInv, Created, Miners
<1>3. main \in {"scan", "options", "client", "spawn", "join"} /\ fate \in Fates
  BY <1>1 DEF Fates
<1>4. hostPort \in HostPorts /\ user \in {"none", "name"}
  BY DEF Init, LaunchInit, HostPorts
<1>5. names \in Seq(Devices \cup {NoDevice})
  BY <1>1
<1>6. nThreads \in 0..MaxGpus /\ spawned \in 0..nThreads
  BY <1>1
<1>7. build \in {"linux", "windows"}
  BY DEF Init
<1>8. PortTypeOK
  <2>1. PICK list \in DosLists : PortsInit(IF build = "windows" THEN list ELSE <<>>)
    BY DEF Init
  <2> DEFINE L == IF build = "windows" THEN list ELSE <<>>
  <2>3. L \in Seq(Nat \cup {NotCom}) /\ PortsInit(L)
    BY <2>1
  <2> HIDE DEF L
  <2>4. \A i \in Enumerated(L) : i \in 1..Len(L) /\ L[i] \in Nat /\ InChar(L[i]) \in Nat \ {0}
    <3> SUFFICES ASSUME NEW i \in Enumerated(L)
                 PROVE  i \in 1..Len(L) /\ L[i] \in Nat /\ InChar(L[i]) \in Nat \ {0}
      OBVIOUS
    <3>1. i \in Seen(L) /\ InChar(L[i]) > 0 /\ i \in 1..Len(L) /\ L[i] # NotCom
      BY <2>3 DEF Enumerated, Seen
    <3>2. L[i] \in Nat
      BY <2>3, <3>1
    <3> QED BY <3>1, <3>2 DEF InChar
  <2>5. DOMAIN ports = Enumerated(L) /\ dosList = L
    BY <2>3 DEF PortsInit
  <2>6. ports \in [DOMAIN ports -> Nat \ {0}]
    BY <2>3, <2>4, <2>5 DEF PortsInit
  <2> QED BY <2>3, <2>4, <2>5, <2>6 DEF PortsInit, PortTypeOK
<1>9. pc \in [Miners -> Opening \cup Mining \cup {"start", "close", "create", "state", "ended"}]
  BY DEF Init
<1>10. fd \in Devices \cup {NoDevice} /\ portLock \in 0..MaxGpus
  BY DEF Init
<1>11. devfd \in [Miners -> Nat] /\ word \in [Miners -> 1..HeaderWords]
  BY DEF Init
<1>12. PICK before \in Leftovers :
         card = [d \in Devices |->
                  [words |-> before[d].words, by |-> 0,
                   due |-> before[d].due, left |-> before[d].left, unread |-> 0]]
  BY DEF Init
<1>13. card \in [Devices -> Cards]
  BY <1>12 DEF Cards
<1>14. /\ configured \subseteq Devices /\ upset \subseteq Devices
       /\ mixed \subseteq Devices /\ garbled \subseteq Devices
       /\ raced \subseteq Miners /\ refused \subseteq Miners
  BY DEF Init
<1> QED BY <1>2, <1>3, <1>4, <1>5, <1>6, <1>7, <1>8, <1>9, <1>10, <1>11, <1>13, <1>14
       DEF TypeOK, LaunchTypeOK, MinerTypeOK, CardTypeOK

\* The steps of main().
LEMMA TypeMain ==
  ASSUME TypeOK, LaunchInv, Main
  PROVE  TypeOK' /\ LaunchInv'
<1>0. /\ UNCHANGED <<portVars, build, minerVars, card, history>>
      /\ LaunchNext \/ Join({m \in Miners : pc[m] = "ended"})
  BY DEF Main
<1>1. PortTypeOK' /\ MinerTypeOK' /\ CardTypeOK'
  BY <1>0 DEF TypeOK, PortTypeOK, MinerTypeOK, CardTypeOK, portVars, minerVars, history
<1>2. CASE Scan
  <2>1. LaunchTypeOK'
    BY <1>2 DEF TypeOK, Scan, LaunchTypeOK, LaunchInv, Runs, Ends, Fates, HostPorts
  <2>2. LaunchInv'
    BY <1>0, <1>2 DEF TypeOK, Scan, LaunchTypeOK, LaunchInv, Runs, Ends, Created, minerVars
  <2> QED BY <1>1, <2>1, <2>2 DEF TypeOK
<1>3. CASE DeviceNumber
  <2>1. LaunchTypeOK'
    BY <1>3 DEF TypeOK, DeviceNumber, LaunchTypeOK, LaunchInv, Runs, Ends, Fates, HostPorts
  <2>2. LaunchInv'
    BY <1>0, <1>3 DEF TypeOK, DeviceNumber, LaunchTypeOK, LaunchInv, Runs, Ends, Created, minerVars
  <2> QED BY <1>1, <2>1, <2>2 DEF TypeOK
<1>4. CASE TextOption
  <2>1. LaunchTypeOK'
    BY <1>4 DEF TypeOK, TextOption, LaunchTypeOK, LaunchInv, Runs, Ends, Fates, HostPorts
  <2>2. LaunchInv'
    BY <1>0, <1>4 DEF TypeOK, TextOption, LaunchTypeOK, LaunchInv, Runs, Ends, Created, minerVars
  <2> QED BY <1>1, <2>1, <2>2 DEF TypeOK
<1>5. CASE Checks
  <2>1. LaunchTypeOK'
    BY <1>5 DEF TypeOK, Checks, LaunchTypeOK, LaunchInv, Runs, Ends, Fates, HostPorts
  <2>2. LaunchInv'
    BY <1>0, <1>5 DEF TypeOK, Checks, LaunchTypeOK, LaunchInv, Runs, Ends, Created, minerVars
  <2> QED BY <1>1, <2>1, <2>2 DEF TypeOK
<1>6. CASE Client
  <2>1. LaunchTypeOK'
    BY <1>6 DEF TypeOK, Client, LaunchTypeOK, LaunchInv, Runs, Ends, Fates, HostPorts
  <2>2. LaunchInv'
    BY <1>0, <1>6 DEF TypeOK, Client, LaunchTypeOK, LaunchInv, Runs, Ends, Created, minerVars
  <2> QED BY <1>1, <2>1, <2>2 DEF TypeOK
<1>7. CASE Spawn
  <2>1. LaunchTypeOK'
    BY <1>7 DEF TypeOK, Spawn, LaunchTypeOK, LaunchInv, Runs, Ends, Fates, HostPorts
  <2>2. LaunchInv'
    BY <1>0, <1>7 DEF TypeOK, Spawn, LaunchTypeOK, LaunchInv, Runs, Created, Miners, minerVars
  <2> QED BY <1>1, <2>1, <2>2 DEF TypeOK
<1>8. CASE DeviceList
  <2>1. PICK list \in Lists : names' = names \o list
    BY <1>8 DEF DeviceList
  <2>2. names' \in Seq(Devices \cup {NoDevice}) /\ Len(names') \in Nat
    BY <2>1 DEF TypeOK, LaunchTypeOK
  <2>3. /\ main' = main /\ main = "options"
        /\ \/ Len(names') <= MaxGpus /\ fate' = "runs"
           \/ fate' = "undefined"
    BY <1>8 DEF DeviceList, Runs, Ends
  <2>4. LaunchTypeOK'
    BY <1>8, <2>2, <2>3 DEF TypeOK, DeviceList, LaunchTypeOK, Fates
  <2>5. LaunchInv'
    BY <1>0, <1>8, <2>3 DEF DeviceList, LaunchInv, Created, minerVars
  <2> QED BY <1>1, <2>4, <2>5 DEF TypeOK
<1>9. CASE Join({m \in Miners : pc[m] = "ended"})
  <2>1. LaunchTypeOK'
    BY <1>9 DEF TypeOK, Join, LaunchTypeOK, Runs, Ends, Fates
  <2>2. LaunchInv'
    BY <1>0, <1>9 DEF TypeOK, Join, LaunchTypeOK, LaunchInv, Runs, Ends, Created, Miners, minerVars
  <2> QED BY <1>1, <2>1, <2>2 DEF TypeOK
<1> QED BY <1>0, <1>2, <1>3, <1>4, <1>5, <1>6, <1>7, <1>8, <1>9 DEF LaunchNext

\* A step of one miner, as main() sees it.
LEMMA LaunchInvMiner ==
  ASSUME TypeOK, LaunchInv, NEW m \in Miners, fate = "runs", Created(m),
         UNCHANGED <<main, names, nThreads, spawned>>, fate' # "returned",
         \A k \in Miners \ {m} : pc'[k] = pc[k]
  PROVE  LaunchInv'
BY DEF LaunchInv, Created

LEMMA GoesElsewhere ==
  ASSUME TypeOK, NEW m \in Miners, NEW to, Goes(m, to)
  PROVE  \A k \in Miners \ {m} : pc'[k] = pc[k]
BY DEF TypeOK, MinerTypeOK, Goes

\* What a card's counts are, and that they may be replaced by others.
LEMMA CardFields ==
  ASSUME NEW c \in Cards
  PROVE  /\ c.words \in 0 .. HeaderWords - 1 /\ c.by \in 0..MaxGpus
         /\ c.due \in 0..Repeats /\ c.left \in 0..4 /\ c.unread \in 0..MaxUnread
BY DEF Cards

LEMMA CardRead ==
  ASSUME NEW c \in Cards, NEW u \in 0..MaxUnread
  PROVE  [c EXCEPT !.unread = u] \in Cards
BY DEF Cards

LEMMA CardAnswers ==
  ASSUME NEW c \in Cards, NEW l \in 0..4, NEW n \in 0..Repeats
  PROVE  [c EXCEPT !.left = l, !.due = n] \in Cards
BY DEF Cards

LEMMA CardArrives ==
  ASSUME NEW c \in Cards, NEW u \in 0..MaxUnread, NEW l \in 0..4
  PROVE  [c EXCEPT !.unread = u, !.left = l] \in Cards
BY DEF Cards

LEMMA CardGetsWord ==
  ASSUME NEW c \in Cards, NEW w \in 0 .. HeaderWords - 1, NEW b \in 0..MaxGpus, NEW n \in 0..Repeats
  PROVE  [c EXCEPT !.words = w, !.by = b, !.due = n] \in Cards
BY DEF Cards

LEMMA OneCard ==
  ASSUME NEW f \in [Devices -> Cards], NEW d \in Devices, NEW c \in Cards
  PROVE  [f EXCEPT ![d] = c] \in [Devices -> Cards]
OBVIOUS

LEMMA TypeStoreFd == ASSUME TypeOK, LaunchInv, NEW m \in Miners, StoreFd(m) PROVE TypeOK' /\ LaunchInv'
<1>1. LaunchInv'
  BY LaunchInvMiner, GoesElsewhere DEF StoreFd, Steps, launchVars
<1>2. MinerTypeOK'
  BY NamesType DEF TypeOK, MinerTypeOK, StoreFd, Goes, Opening, Mining
<1> QED BY <1>1, <1>2 DEF TypeOK, LaunchTypeOK, PortTypeOK, CardTypeOK, StoreFd, launchVars, portVars

LEMMA TypeTestFd == ASSUME TypeOK, LaunchInv, NEW m \in Miners, TestFd(m) PROVE TypeOK' /\ LaunchInv'
<1>1. LaunchInv'
  BY LaunchInvMiner, GoesElsewhere DEF TestFd, Steps, launchVars
<1>2. MinerTypeOK'
  BY DEF TypeOK, MinerTypeOK, TestFd, Goes, Opening, Mining, history
<1> QED BY <1>1, <1>2 DEF TypeOK, LaunchTypeOK, PortTypeOK, CardTypeOK, TestFd, launchVars, portVars, history

LEMMA TypeFlush == ASSUME TypeOK, LaunchInv, NEW m \in Miners, Flush(m) PROVE TypeOK' /\ LaunchInv'
<1>1. LaunchInv'
  BY LaunchInvMiner, GoesElsewhere DEF Flush, Steps, launchVars
<1>2. MinerTypeOK'
  BY DEF TypeOK, MinerTypeOK, Flush, Goes, Opening, Mining
<1>3. CardTypeOK'
  <2>1. CASE fd \in Devices
    <3>1. card' = [card EXCEPT ![fd] = [card[fd] EXCEPT !.unread = 0]]
      BY <2>1 DEF Flush
    <3>2. [card[fd] EXCEPT !.unread = 0] \in Cards
      BY <2>1, CardRead DEF TypeOK, CardTypeOK
    <3>3. card' \in [Devices -> Cards]
      BY <2>1, <3>1, <3>2, OneCard DEF TypeOK, CardTypeOK
    <3> QED BY <2>1, <3>3 DEF TypeOK, CardTypeOK, Flush
  <2>2. CASE fd \notin Devices
    BY <2>2 DEF TypeOK, CardTypeOK, Flush
  <2> QED BY <2>1, <2>2
<1> QED BY <1>1, <1>2, <1>3 DEF TypeOK, LaunchTypeOK, PortTypeOK, Flush, launchVars, portVars

LEMMA TypeSetLine == ASSUME TypeOK, LaunchInv, NEW m \in Miners, SetLine(m) PROVE TypeOK' /\ LaunchInv'
<1>1. LaunchInv'
  BY LaunchInvMiner, GoesElsewhere DEF SetLine, Steps, launchVars
<1>2. MinerTypeOK'
  BY DEF TypeOK, MinerTypeOK, SetLine, Goes, Opening, Mining, history
<1>3. CardTypeOK'
  BY DEF TypeOK, CardTypeOK, SetLine, history
<1> QED BY <1>1, <1>2, <1>3 DEF TypeOK, LaunchTypeOK, PortTypeOK, SetLine, launchVars, portVars

LEMMA TypeReturnFd == ASSUME TypeOK, LaunchInv, NEW m \in Miners, ReturnFd(m) PROVE TypeOK' /\ LaunchInv'
<1>1. LaunchInv'
  BY LaunchInvMiner, GoesElsewhere DEF ReturnFd, Steps, launchVars
<1>2. MinerTypeOK'
  BY DEF TypeOK, MinerTypeOK, ReturnFd, Goes, Opening, Mining, history, NoDevice
<1> QED BY <1>1, <1>2 DEF TypeOK, LaunchTypeOK, PortTypeOK, CardTypeOK, ReturnFd, launchVars, portVars, history

LEMMA TypeFindIt == ASSUME TypeOK, LaunchInv, NEW m \in Miners, FindIt(m) PROVE TypeOK' /\ LaunchInv'
<1>1. LaunchInv'
  BY LaunchInvMiner, GoesElsewhere DEF FindIt, Steps, launchVars
<1>2. MinerTypeOK'
  <2>1. devfd' \in [Miners -> Nat]
    <3>1. DOMAIN ports \subseteq Nat
      BY DEF TypeOK, PortTypeOK
    <3> QED BY <3>1 DEF TypeOK, MinerTypeOK, FindIt
  <2>2. portLock' \in 0..MaxGpus
    BY DEF TypeOK, MinerTypeOK, FindIt, Miners
  <2>3. pc' \in [Miners -> Opening \cup Mining \cup {"start", "close", "create", "state", "ended"}]
    BY DEF TypeOK, MinerTypeOK, FindIt, Goes
  <2> QED BY <2>1, <2>2, <2>3 DEF TypeOK, MinerTypeOK, FindIt, history
<1> QED BY <1>1, <1>2 DEF TypeOK, LaunchTypeOK, PortTypeOK, CardTypeOK, FindIt, launchVars, portVars, history

LEMMA TypeCloseOld == ASSUME TypeOK, LaunchInv, NEW m \in Miners, CloseOld(m) PROVE TypeOK' /\ LaunchInv'
<1>1. LaunchInv'
  BY LaunchInvMiner, GoesElsewhere DEF CloseOld, Steps, launchVars
<1>2. MinerTypeOK'
  BY DEF TypeOK, MinerTypeOK, CloseOld, Goes, Opening, Mining, history
<1>3. PortTypeOK'
  BY DEF TypeOK, PortTypeOK, CloseOld, CloseEntry
<1> QED BY <1>1, <1>2, <1>3 DEF TypeOK, LaunchTypeOK, CardTypeOK, CloseOld, launchVars, history

LEMMA TypeCreate == ASSUME TypeOK, LaunchInv, NEW m \in Miners, Create(m) PROVE TypeOK' /\ LaunchInv'
<1>1. LaunchInv'
  BY LaunchInvMiner, GoesElsewhere DEF Create, Steps, launchVars
<1>2. MinerTypeOK'
  BY DEF TypeOK, MinerTypeOK, Create, Goes, Opening, Mining, history
<1>3. PortTypeOK'
  <2>1. CASE MayCreate(devfd[m], Devices)
    BY <2>1 DEF TypeOK, PortTypeOK, Create, CreateOn, MayCreate
  <2>2. CASE ~MayCreate(devfd[m], Devices)
    BY <2>2 DEF TypeOK, PortTypeOK, Create, portVars
  <2> QED BY <2>1, <2>2
<1> QED BY <1>1, <1>2, <1>3 DEF TypeOK, LaunchTypeOK, CardTypeOK, Create, launchVars, history

LEMMA TypeSetState ==
  ASSUME TypeOK, LaunchInv, NEW m \in Miners, NameOf(m) \in Devices, SetState(m)
  PROVE  TypeOK' /\ LaunchInv'
<1>1. LaunchInv'
  BY LaunchInvMiner, GoesElsewhere DEF SetState, Steps, launchVars
<1>2. MinerTypeOK'
  <2>1. pc' \in [Miners -> Opening \cup Mining \cup {"start", "close", "create", "state", "ended"}]
    BY DEF TypeOK, MinerTypeOK, SetState, Goes, Mining
  <2>2. refused' \subseteq Miners
    BY DEF TypeOK, MinerTypeOK, SetState
  <2> QED BY <2>1, <2>2 DEF TypeOK, MinerTypeOK, SetState
<1>3. PortTypeOK'
  <2>1. CASE UNCHANGED portVars
    BY <2>1 DEF TypeOK, PortTypeOK, portVars
  <2>2. CASE CloseKeepsValue(devfd[m])
    <3>1. openOn' \in [Handles -> Nat]
      BY <2>2 DEF TypeOK, PortTypeOK, CloseKeepsValue
    <3> QED BY <2>2, <3>1 DEF TypeOK, PortTypeOK, CloseKeepsValue
  <2> QED BY <2>1, <2>2 DEF SetState
<1>4. CardTypeOK'
  BY DEF TypeOK, CardTypeOK, SetState
<1> QED BY <1>1, <1>2, <1>3, <1>4 DEF TypeOK, LaunchTypeOK, SetState, launchVars

\* A card takes a word that a miner writes.
LEMMA CardTakes ==
  ASSUME TypeOK, NEW m \in Miners, NEW d \in Devices, Takes(d, m)
  PROVE  card' \in [Devices -> Cards] /\ mixed' \subseteq Devices
<1> DEFINE c == card[d]
           clean == word[m] = c.words + 1 /\ (c.words = 0 \/ c.by = m)
           full == c.words + 1 = HeaderWords
           w == IF full THEN 0 ELSE c.words + 1
           b == IF clean /\ ~full THEN m ELSE 0
           n == IF full THEN Repeats ELSE c.due
<1>1. c \in Cards
  BY DEF TypeOK, CardTypeOK
<1>2. card' = [card EXCEPT ![d] = [c EXCEPT !.words = w, !.by = b, !.due = n]]
  BY Zenon DEF Takes
<1>3. w \in 0 .. HeaderWords - 1 /\ b \in 0..MaxGpus /\ n \in 0..Repeats
  <2> HIDE DEF c, clean
  <2> QED BY <1>1, CardFields DEF Miners
<1>4. card' \in [Devices -> Cards]
  <2> HIDE DEF w, b, n, c
  <2>1. [c EXCEPT !.words = w, !.by = b, !.due = n] \in Cards
    BY <1>1, <1>3, CardGetsWord
  <2> QED BY <1>2, <2>1, OneCard DEF TypeOK, CardTypeOK
<1>5. mixed' \subseteq Devices
  BY DEF Takes, TypeOK, CardTypeOK
<1> QED BY <1>4, <1>5

LEMMA TypeWriteWord ==
  ASSUME TypeOK, LaunchInv, NEW m \in Miners, WriteWord(m)
  PROVE  TypeOK' /\ LaunchInv'
<1>1. PICK d : /\ d = TalksTo(m)
               /\ \/ NextWord(m) /\ d \in Devices /\ Takes(d, m) /\ UNCHANGED <<fate, main, upset>>
                  \/ NextWord(m) /\ upset' = upset \cup ({d} \cap Devices)
                     /\ UNCHANGED <<fate, main, card, mixed>>
                  \/ build = "linux" /\ Ends("crash") /\ UNCHANGED <<pc, word, card, upset, mixed>>
  BY DEF WriteWord
<1>2. /\ \A k \in Miners \ {m} : pc'[k] = pc[k]
      /\ pc' \in [Miners -> Opening \cup Mining \cup {"start", "close", "create", "state", "ended"}]
      /\ word' \in [Miners -> 1..HeaderWords]
  <2>1. CASE NextWord(m)
    <3>1. \A k \in Miners \ {m} : pc'[k] = pc[k]
      BY <2>1 DEF TypeOK, MinerTypeOK, NextWord, Goes
    <3>2. pc' \in [Miners -> Opening \cup Mining \cup {"start", "close", "create", "state", "ended"}]
      BY <2>1 DEF TypeOK, MinerTypeOK, NextWord, Goes, Mining
    <3>3. word' \in [Miners -> 1..HeaderWords]
      BY <2>1 DEF TypeOK, MinerTypeOK, NextWord
    <3> QED BY <3>1, <3>2, <3>3
  <2>2. CASE UNCHANGED <<pc, word>>
    BY <2>2 DEF TypeOK, MinerTypeOK
  <2> QED BY <1>1, <2>1, <2>2
<1>3. fate' \in {"runs", "crash"} /\ main' = main
  BY <1>1 DEF WriteWord, Steps, Ends
<1>4. LaunchInv'
  BY <1>2, <1>3, LaunchInvMiner DEF WriteWord, Steps
<1>5. MinerTypeOK'
  BY <1>2 DEF TypeOK, MinerTypeOK, WriteWord
<1>6. CardTypeOK'
  <2>1. card' \in [Devices -> Cards] /\ mixed' \subseteq Devices
    BY <1>1, CardTakes DEF TypeOK, CardTypeOK
  <2> QED BY <1>1, <2>1 DEF TypeOK, CardTypeOK, WriteWord
<1>7. LaunchTypeOK'
  BY <1>3 DEF TypeOK, LaunchTypeOK, WriteWord, Fates
<1> QED BY <1>4, <1>5, <1>6, <1>7 DEF TypeOK, PortTypeOK, WriteWord, portVars

LEMMA TypePoll == ASSUME TypeOK, LaunchInv, NEW m \in Miners, Poll(m) PROVE TypeOK' /\ LaunchInv'
<1>1. LaunchInv'
  BY LaunchInvMiner, GoesElsewhere DEF Poll, Steps, launchVars
<1>2. MinerTypeOK'
  BY DEF TypeOK, MinerTypeOK, Poll, Goes, Opening, Mining
<1>3. PICK d \in Devices :
        /\ d = TalksTo(m) /\ Fewer(4, card[d].unread) > 0
        /\ card' = [card EXCEPT ![d].unread = @ - Fewer(4, card[d].unread)]
        /\ garbled' \subseteq garbled \cup {d} /\ upset' \subseteq upset \cup {d}
  BY DEF Poll
<1>4. card' \in [Devices -> Cards]
  <2> DEFINE u == card[d].unread - Fewer(4, card[d].unread)
  <2>1. card[d] \in Cards
    BY DEF TypeOK, CardTypeOK
  <2>2. u \in 0..MaxUnread
    BY <2>1, CardFields DEF Fewer
  <2>3. card' = [card EXCEPT ![d] = [card[d] EXCEPT !.unread = u]]
    BY <1>3
  <2> HIDE DEF u
  <2> QED BY <2>1, <2>2, <2>3, CardRead, OneCard DEF TypeOK, CardTypeOK
<1>5. CardTypeOK'
  BY <1>3, <1>4 DEF TypeOK, CardTypeOK, Poll
<1> QED BY <1>1, <1>2, <1>5 DEF TypeOK, LaunchTypeOK, PortTypeOK, Poll, launchVars, portVars

LEMMA TypeRestart == ASSUME TypeOK, LaunchInv, NEW m \in Miners, Restart(m) PROVE TypeOK' /\ LaunchInv'
<1>1. LaunchInv'
  BY LaunchInvMiner, GoesElsewhere DEF Restart, Steps, launchVars
<1>2. MinerTypeOK'
  BY DEF TypeOK, MinerTypeOK, Restart, Goes, Opening, Mining, history
<1> QED BY <1>1, <1>2 DEF TypeOK, LaunchTypeOK, PortTypeOK, CardTypeOK, Restart, launchVars, portVars, history

\* What the cards do.
CardStep == \E d \in Devices : Answer(d) \/ Arrive(d)

LEMMA TypeCard == ASSUME TypeOK, LaunchInv, CardStep PROVE TypeOK' /\ LaunchInv'
<1>1. UNCHANGED <<launchVars, portVars, build, minerVars, history>>
  BY DEF CardStep, Answer, Arrive
<1>2. card' \in [Devices -> Cards]
  <2>1. ASSUME NEW d \in Devices, Answer(d)
        PROVE  card' \in [Devices -> Cards]
    <3>1. card[d] \in Cards
      BY DEF TypeOK, CardTypeOK
    <3>2. PICK more \in {0, card[d].due - 1} :
            card' = [card EXCEPT ![d].left = 4, ![d].due = more]
      BY <2>1 DEF Answer
    <3>3. more \in 0..Repeats
      BY <2>1, <3>1, <3>2, CardFields DEF Answer
    <3>4. [card[d] EXCEPT !.left = 4, !.due = more] \in Cards
      <4>1. 4 \in 0..4
        OBVIOUS
      <4> QED BY <3>1, <3>3, <4>1, CardAnswers
    <3>5. card' = [card EXCEPT ![d] = [card[d] EXCEPT !.left = 4, !.due = more]]
      BY <3>2 DEF TypeOK, CardTypeOK
    <3> QED BY <3>4, <3>5, OneCard DEF TypeOK, CardTypeOK
  <2>2. ASSUME NEW d \in Devices, Arrive(d)
        PROVE  card' \in [Devices -> Cards]
    <3>1. card[d] \in Cards
      BY DEF TypeOK, CardTypeOK
    <3>2. PICK k \in Pieces :
            /\ k <= card[d].left /\ card[d].unread + k <= MaxUnread
            /\ card' = [card EXCEPT ![d].unread = @ + k, ![d].left = @ - k]
      BY <2>2 DEF Arrive
    <3>3. card[d].unread + k \in 0..MaxUnread /\ card[d].left - k \in 0..4
      <4>1. card[d].unread \in 0..MaxUnread /\ card[d].left \in 0..4
        BY <3>1, CardFields
      <4>2. k \in Nat /\ k <= card[d].left /\ card[d].unread + k <= MaxUnread
        BY <3>2
      <4>3. \A u \in 0..MaxUnread, l \in 0..4, n \in Nat :
              n <= l /\ u + n <= MaxUnread => u + n \in 0..MaxUnread /\ l - n \in 0..4
        OBVIOUS
      <4> QED BY <4>1, <4>2, <4>3
    <3>4. [card[d] EXCEPT !.unread = card[d].unread + k, !.left = card[d].left - k] \in Cards
      BY <3>1, <3>3, CardArrives
    <3>5. card' = [card EXCEPT ![d] = [card[d] EXCEPT !.unread = card[d].unread + k, !.left = card[d].left - k]]
      BY <3>2 DEF TypeOK, CardTypeOK
    <3> QED BY <3>4, <3>5, OneCard DEF TypeOK, CardTypeOK
  <2> QED BY <2>1, <2>2 DEF CardStep
<1>3. LaunchInv'
  BY <1>1 DEF LaunchInv, Created, launchVars, minerVars
<1> QED BY <1>1, <1>2, <1>3 DEF TypeOK, LaunchTypeOK, PortTypeOK, MinerTypeOK, CardTypeOK,
                                launchVars, portVars, minerVars, history

-----------------------------------------------------------------------------
(* The global descriptor, Linux.                                           *)

\* As long as nobody overtakes it a thread finds in fd what it has stored there, and
\* leaves openserial() with its own device, set up.
LinuxOf(m) ==
  /\ pc[m] \in Opening \cup Mining \cup {"start", "ended"}
  /\ pc[m] \notin Mining => devfd[m] = NoDevice
  /\ pc[m] \in Mining => devfd[m] \in Devices
  /\ m \notin raced =>
       /\ pc[m] \in Opening => fd = NameOf(m)
       /\ pc[m] \in {"flush", "set", "return"} => fd # NoDevice
       /\ pc[m] = "return" => fd \in configured
       /\ pc[m] \in Mining => devfd[m] = NameOf(m) /\ NameOf(m) \in configured
       /\ pc[m] = "ended" => NameOf(m) = NoDevice

LinuxInv == build = "linux" => \A m \in Miners : LinuxOf(m)

\* The names are fixed when the first thread is created.
LEMMA NamesStay ==
  ASSUME UNCHANGED names, NEW m \in Miners
  PROVE  NameOf(m)' = NameOf(m)
BY DEF NameOf

LEMMA LinuxFrame ==
  ASSUME LinuxInv, UNCHANGED <<names, build, fd, devfd, raced, configured>>,
         \A k \in Miners : pc'[k] = pc[k] \/ (pc[k] \in Mining /\ pc'[k] \in Mining)
  PROVE  LinuxInv'
<1> SUFFICES ASSUME build = "linux", NEW k \in Miners PROVE LinuxOf(k)'
  BY DEF LinuxInv
<1>1. LinuxOf(k) /\ NameOf(k)' = NameOf(k)
  BY NamesStay DEF LinuxInv
<1> QED BY <1>1 DEF LinuxOf, Opening, Mining

LEMMA LinuxMain == ASSUME TypeOK, LaunchInv, LinuxInv, Main PROVE LinuxInv'
<1>1. UNCHANGED <<build, minerVars, history>>
  BY DEF Main
<1>2. CASE DeviceList
  <2>1. \A k \in Miners : pc[k] = "start"
    BY <1>2 DEF DeviceList, Runs, LaunchInv, Created, TypeOK, LaunchTypeOK, Miners
  <2> QED BY <1>1, <2>1 DEF LinuxInv, LinuxOf, Opening, Mining, minerVars, history
<1>3. CASE ~DeviceList
  <2>1. UNCHANGED names
    BY <1>3 DEF Main, LaunchNext, Scan, DeviceNumber, TextOption, Checks, Client, Spawn, Join
  <2> QED BY <1>1, <2>1, LinuxFrame DEF minerVars, history
<1> QED BY <1>2, <1>3

LEMMA LinuxStoreFd == ASSUME TypeOK, LinuxInv, NEW m \in Miners, StoreFd(m) PROVE LinuxInv'
<1> SUFFICES ASSUME NEW k \in Miners PROVE LinuxOf(k)'
  BY DEF LinuxInv
<1>1. LinuxOf(k) /\ UNCHANGED names
  BY DEF LinuxInv, StoreFd, Steps, launchVars
<1>2. NameOf(k)' = NameOf(k) /\ NameOf(m)' = NameOf(m)
  BY <1>1, NamesStay
<1>3. CASE k = m
  BY <1>1, <1>2, <1>3 DEF LinuxOf, StoreFd, Steps, Goes, Opening, Mining, TypeOK, MinerTypeOK
<1>4. CASE k # m
  BY <1>1, <1>2, <1>4 DEF LinuxOf, StoreFd, Steps, Goes, Opening, Mining, TypeOK, MinerTypeOK
<1> QED BY <1>3, <1>4

LEMMA LinuxTestFd == ASSUME TypeOK, LinuxInv, NEW m \in Miners, TestFd(m) PROVE LinuxInv'
<1> SUFFICES ASSUME NEW k \in Miners PROVE LinuxOf(k)'
  BY DEF LinuxInv
<1>1. LinuxOf(k) /\ UNCHANGED names
  BY DEF LinuxInv, TestFd, Steps, launchVars
<1>2. NameOf(k)' = NameOf(k)
  BY <1>1, NamesStay
<1>3. CASE k = m
  BY <1>1, <1>2, <1>3 DEF LinuxOf, TestFd, Steps, Goes, Opening, Mining, TypeOK, MinerTypeOK, NoDevice, history
<1>4. CASE k # m
  BY <1>1, <1>2, <1>4 DEF LinuxOf, TestFd, Steps, Goes, Opening, Mining, TypeOK, MinerTypeOK, history
<1> QED BY <1>3, <1>4

LEMMA LinuxSetLine == ASSUME TypeOK, LinuxInv, NEW m \in Miners, SetLine(m) PROVE LinuxInv'
<1> SUFFICES ASSUME NEW k \in Miners PROVE LinuxOf(k)'
  BY DEF LinuxInv
<1>1. LinuxOf(k) /\ UNCHANGED names
  BY DEF LinuxInv, SetLine, Steps, launchVars
<1>2. NameOf(k)' = NameOf(k)
  BY <1>1, NamesStay
<1>3. CASE k = m
  BY <1>1, <1>2, <1>3 DEF LinuxOf, SetLine, Steps, Goes, Opening, Mining, TypeOK, MinerTypeOK, NoDevice, history
<1>4. CASE k # m
  BY <1>1, <1>2, <1>4 DEF LinuxOf, SetLine, Steps, Goes, Opening, Mining, TypeOK, MinerTypeOK, history
<1> QED BY <1>3, <1>4

LEMMA LinuxReturnFd == ASSUME TypeOK, LinuxInv, NEW m \in Miners, ReturnFd(m) PROVE LinuxInv'
<1> SUFFICES ASSUME NEW k \in Miners PROVE LinuxOf(k)'
  BY DEF LinuxInv
<1>1. LinuxOf(k) /\ UNCHANGED names
  BY DEF LinuxInv, ReturnFd, Steps, launchVars
<1>2. NameOf(k)' = NameOf(k)
  BY <1>1, NamesStay
<1>3. CASE k = m
  BY <1>1, <1>2, <1>3 DEF LinuxOf, ReturnFd, Steps, Goes, Opening, Mining, TypeOK, MinerTypeOK, NoDevice, history
<1>4. CASE k # m
  BY <1>1, <1>2, <1>4 DEF LinuxOf, ReturnFd, Steps, Goes, Opening, Mining, TypeOK, MinerTypeOK, history
<1> QED BY <1>3, <1>4

LEMMA LinuxFlush == ASSUME TypeOK, LinuxInv, NEW m \in Miners, Flush(m) PROVE LinuxInv'
<1> SUFFICES ASSUME NEW k \in Miners PROVE LinuxOf(k)'
  BY DEF LinuxInv
<1>1. LinuxOf(k) /\ UNCHANGED names
  BY DEF LinuxInv, Flush, Steps, launchVars
<1>2. NameOf(k)' = NameOf(k)
  BY <1>1, NamesStay
<1>3. CASE k = m
  BY <1>1, <1>2, <1>3 DEF LinuxOf, Flush, Steps, Goes, Opening, Mining, TypeOK, MinerTypeOK, NoDevice, history
<1>4. CASE k # m
  BY <1>1, <1>2, <1>4 DEF LinuxOf, Flush, Steps, Goes, Opening, Mining, TypeOK, MinerTypeOK, history
<1> QED BY <1>3, <1>4

LEMMA LinuxMiner == ASSUME TypeOK, LinuxInv, NEW m \in Miners, Miner(m) PROVE LinuxInv'
<1>1. CASE StoreFd(m) \/ TestFd(m) \/ Flush(m) \/ SetLine(m) \/ ReturnFd(m)
  BY <1>1, LinuxStoreFd, LinuxTestFd, LinuxFlush, LinuxSetLine, LinuxReturnFd
<1>2. CASE FindIt(m) \/ CloseOld(m) \/ Create(m) \/ SetState(m) \/ Restart(m)
  BY <1>2 DEF LinuxInv, FindIt, CloseOld, Create, SetState, Restart, Steps
<1>3. CASE WriteWord(m) \/ Poll(m)
  <2>1. UNCHANGED <<names, build, fd, devfd, raced, configured>>
    BY <1>3 DEF WriteWord, Poll, launchVars
  <2>2. \A k \in Miners : pc'[k] = pc[k] \/ (pc[k] \in Mining /\ pc'[k] \in Mining)
    BY <1>3 DEF WriteWord, Poll, Steps, NextWord, Goes, Mining, TypeOK, MinerTypeOK
  <2> QED BY <2>1, <2>2, LinuxFrame
<1> QED BY <1>1, <1>2, <1>3 DEF Miner

LEMMA LinuxStep == ASSUME TypeOK, LaunchInv, LinuxInv, [Next]_vars PROVE LinuxInv'
<1>1. CASE CardStep
  BY <1>1, LinuxFrame DEF CardStep, Answer, Arrive, launchVars, minerVars, history
<1>2. CASE UNCHANGED vars
  BY <1>2, LinuxFrame DEF vars, launchVars, minerVars, history
<1> QED BY <1>1, <1>2, LinuxMain, LinuxMiner DEF Next, CardStep

-----------------------------------------------------------------------------
(* The table of ports, Windows.                                            *)

\* The thread between comFindPort() and SetCommState() holds miner_port_lock, and the
\* entry it works on is the first one of its name.
WindowsOf(m) ==
  /\ pc[m] \in {"close", "create", "state"} => portLock = m
  /\ pc[m] \in {"close", "create", "state"} \cup Mining => FirstOf(NameOf(m), devfd[m])
  /\ pc[m] \in {"state"} \cup Mining => NameOf(m) \in Devices
  /\ pc[m] \in Mining => NameOf(m) \in configured
  /\ pc[m] = "create" => handle[devfd[m]] = NoHandle
  /\ pc[m] = "state" => handle[devfd[m]] \in Handles /\ openOn[handle[devfd[m]]] = NameOf(m)
  /\ pc[m] = "ended" /\ NameOf(m) \in Devices /\ m \notin refused => ~HasPort(NameOf(m))

\* An open handle is in the first entry of its device.
TableInv ==
  \A h \in Handles : openOn[h] # 0 => \E i \in DOMAIN ports : FirstOf(openOn[h], i) /\ handle[i] = h

\* Without a name that is given twice nobody closes another miner's handle.
DistinctOf(m) ==
  Distinct =>
    /\ pc[m] \in {"start", "close", "create"} /\ NameOf(m) # NoDevice =>
         \A i \in DOMAIN ports : ports[i] = NameOf(m) => handle[i] = NoHandle
    /\ pc[m] \in Mining => handle[devfd[m]] \in Handles /\ openOn[handle[devfd[m]]] = NameOf(m)

WindowsInv ==
  build = "windows" =>
    /\ \A m \in Miners : WindowsOf(m) /\ DistinctOf(m)
    /\ TableInv
    /\ spawned = 0 => \A i \in DOMAIN ports : handle[i] = NoHandle

LEMMA FirstUnique ==
  ASSUME TypeOK, NEW d, NEW i, NEW j, FirstOf(d, i), FirstOf(d, j)
  PROVE  i = j
<1>1. i \in 1..Len(dosList) /\ j \in 1..Len(dosList)
  BY DEF FirstOf, Entries, TypeOK, PortTypeOK
<1>2. i <= j /\ j <= i
  BY DEF FirstOf
<1> QED BY <1>1, <1>2

\* The operators on names and ports depend on nothing else.
LEMMA PortsStay ==
  ASSUME UNCHANGED <<names, ports>>
  PROVE  /\ \A d, i : FirstOf(d, i)' <=> FirstOf(d, i)
         /\ \A d : HasPort(d)' <=> HasPort(d)
         /\ \A m \in Miners : NameOf(m)' = NameOf(m)
         /\ Distinct' <=> Distinct
BY DEF FirstOf, Entries, HasPort, NameOf, Distinct

LEMMA WindowsFrame ==
  ASSUME WindowsInv,
         UNCHANGED <<names, build, portVars, portLock, devfd, configured, refused>>,
         spawned' = 0 => spawned = 0,
         \A k \in Miners : pc'[k] = pc[k] \/ (pc[k] \in Mining /\ pc'[k] \in Mining)
  PROVE  WindowsInv'
<1> SUFFICES ASSUME build = "windows" PROVE WindowsInv'
  BY DEF WindowsInv
<1>1. UNCHANGED <<names, ports>>
  BY DEF portVars
<1>2. TableInv' /\ (spawned' = 0 => \A i \in DOMAIN ports' : handle'[i] = NoHandle)
  BY <1>1, PortsStay DEF WindowsInv, TableInv, portVars
<1>3. ASSUME NEW k \in Miners PROVE WindowsOf(k)' /\ DistinctOf(k)'
  <2>1. WindowsOf(k) /\ DistinctOf(k)
    BY DEF WindowsInv
  <2>2. pc'[k] = pc[k] \/ (pc[k] \in Mining /\ pc'[k] \in Mining)
    OBVIOUS
  <2>3. WindowsOf(k)'
    BY <1>1, <2>1, <2>2, PortsStay DEF WindowsOf, portVars, Mining
  <2>4. DistinctOf(k)'
    BY <1>1, <2>1, <2>2, PortsStay DEF DistinctOf, portVars, Mining
  <2> QED BY <2>3, <2>4
<1> QED BY <1>2, <1>3 DEF WindowsInv

LEMMA WindowsMain == ASSUME TypeOK, LaunchInv, WindowsInv, Main PROVE WindowsInv'
<1>1. UNCHANGED <<build, portVars, minerVars, history>> /\ (spawned' = 0 => spawned = 0)
  BY DEF Main, LaunchNext, Scan, DeviceList, DeviceNumber, TextOption, Checks, Client, Spawn, Join,
         TypeOK, LaunchTypeOK
<1>2. CASE DeviceList
  <2>1. spawned = 0 /\ spawned' = 0 /\ \A k \in Miners : pc[k] = "start"
    BY <1>2 DEF DeviceList, Runs, LaunchInv, Created, TypeOK, LaunchTypeOK, Miners
  <2>2. UNCHANGED <<ports, handle, openOn, pc>>
    BY <1>1 DEF portVars, minerVars
  <2> SUFFICES ASSUME build = "windows" PROVE WindowsInv'
    BY <1>1 DEF WindowsInv
  <2>3. \A i \in DOMAIN ports : handle[i] = NoHandle
    BY <2>1 DEF WindowsInv
  <2>4. \A k \in Miners : WindowsOf(k)' /\ DistinctOf(k)'
    BY <2>1, <2>2, <2>3 DEF WindowsOf, DistinctOf, Mining
  <2>5. TableInv'
    <3>1. TableInv
      BY DEF WindowsInv
    <3> QED BY <2>2, <3>1 DEF TableInv, FirstOf, Entries
  <2> QED BY <2>2, <2>3, <2>4, <2>5 DEF WindowsInv
<1>3. CASE ~DeviceList
  <2>1. UNCHANGED names
    BY <1>3 DEF Main, LaunchNext, Scan, DeviceNumber, TextOption, Checks, Client, Spawn, Join
  <2> QED BY <1>1, <2>1, WindowsFrame DEF minerVars, history
<1> QED BY <1>2, <1>3

LEMMA WindowsFindIt ==
  ASSUME TypeOK, LaunchInv, WindowsInv, NEW m \in Miners, FindIt(m)
  PROVE  WindowsInv'
<1>1. build = "windows" /\ pc[m] = "start" /\ portLock = 0 /\ spawned # 0
  BY DEF FindIt, Steps, Created, Miners, TypeOK, LaunchTypeOK
<1>2. UNCHANGED <<names, ports, handle, openOn, configured, refused, spawned>>
  BY DEF FindIt, launchVars, portVars, history
<1>3. TableInv'
  BY <1>1, <1>2, PortsStay DEF WindowsInv, TableInv
<1>4. ASSUME NEW k \in Miners PROVE WindowsOf(k)' /\ DistinctOf(k)'
  <2>1. WindowsOf(k) /\ DistinctOf(k)
    BY <1>1 DEF WindowsInv
  <2>2. CASE k # m
    <3>1. pc'[k] = pc[k] /\ devfd'[k] = devfd[k] /\ pc[k] \notin {"close", "create", "state"}
      BY <1>1, <2>1, <2>2 DEF FindIt, Goes, TypeOK, MinerTypeOK, WindowsOf, Miners
    <3> QED BY <1>2, <2>1, <3>1, PortsStay DEF WindowsOf, DistinctOf
  <2>3. CASE k = m
    <3>1. CASE \E i \in DOMAIN ports :
                 /\ FirstOf(NameOf(m), i)
                 /\ devfd' = [devfd EXCEPT ![m] = i]
                 /\ portLock' = m
                 /\ Goes(m, "close")
      <4>1. pc'[m] = "close" /\ portLock' = m /\ FirstOf(NameOf(m), devfd'[m])
        BY <3>1 DEF Goes, TypeOK, MinerTypeOK
      <4>2. WindowsOf(m)'
        BY <1>2, <4>1, PortsStay DEF WindowsOf, Mining
      <4>3. DistinctOf(m)'
        BY <1>1, <1>2, <2>1, <2>3, <4>1, PortsStay DEF DistinctOf, Mining
      <4> QED BY <2>3, <4>2, <4>3
    <3>2. CASE ~HasPort(NameOf(m)) /\ Goes(m, "ended") /\ UNCHANGED <<devfd, portLock>>
      <4>1. pc'[m] = "ended"
        BY <3>2 DEF Goes, TypeOK, MinerTypeOK
      <4> QED BY <1>2, <2>3, <3>2, <4>1, PortsStay DEF WindowsOf, DistinctOf, Mining
    <3> QED BY <3>1, <3>2 DEF FindIt
  <2> QED BY <2>2, <2>3
<1> QED BY <1>1, <1>2, <1>3, <1>4 DEF WindowsInv

\* While one thread holds the port lock the others are outside its section.
LEMMA OthersOutside ==
  ASSUME WindowsInv, build = "windows", NEW m \in Miners, pc[m] \in {"close", "create", "state"},
         NEW k \in Miners, k # m
  PROVE  pc[k] \notin {"close", "create", "state"}
BY DEF WindowsInv, WindowsOf

LEMMA WindowsCloseOld ==
  ASSUME TypeOK, LaunchInv, WindowsInv, NEW m \in Miners, CloseOld(m)
  PROVE  WindowsInv'
<1> DEFINE i == devfd[m]
<1>1. build = "windows" /\ pc[m] = "close" /\ spawned # 0
  BY DEF CloseOld, Steps, Created, Miners, TypeOK, LaunchTypeOK
<1>2. UNCHANGED <<names, ports, devfd, portLock, configured, refused, spawned>>
  BY DEF CloseOld, CloseEntry, launchVars, history
<1>3. WindowsOf(m) /\ DistinctOf(m) /\ TableInv
  BY <1>1 DEF WindowsInv
<1>4. FirstOf(NameOf(m), i) /\ i \in DOMAIN ports /\ ports[i] = NameOf(m)
  BY <1>1, <1>3 DEF WindowsOf, FirstOf, Entries
<1>5. handle' = [handle EXCEPT ![i] = NoHandle]
  BY DEF CloseOld, CloseEntry
<1>6. \A h \in Handles : openOn'[h] = IF h = handle[i] THEN 0 ELSE openOn[h]
  <2>1. handle[i] \in Handles \cup {NoHandle}
    BY <1>4 DEF TypeOK, PortTypeOK
  <2> QED BY <2>1 DEF CloseOld, CloseEntry, TypeOK, PortTypeOK, NoHandle
<1>7. TableInv'
  <2> SUFFICES ASSUME NEW h \in Handles, openOn'[h] # 0
               PROVE  \E j \in DOMAIN ports : FirstOf(openOn'[h], j) /\ handle'[j] = h
    BY <1>2, PortsStay DEF TableInv
  <2>1. h # handle[i] /\ openOn'[h] = openOn[h]
    BY <1>6
  <2>2. PICK j \in DOMAIN ports : FirstOf(openOn[h], j) /\ handle[j] = h
    BY <1>3, <2>1 DEF TableInv
  <2>3. handle'[j] = h
    BY <1>5, <2>1, <2>2 DEF TypeOK, PortTypeOK
  <2> QED BY <2>1, <2>2, <2>3
<1>8. \A k \in Miners : pc'[k] = IF k = m THEN "create" ELSE pc[k]
  BY DEF CloseOld, Goes, TypeOK, MinerTypeOK
<1>9. ASSUME NEW k \in Miners PROVE WindowsOf(k)'
  <2>1. CASE k = m
    BY <1>1, <1>2, <1>3, <1>4, <1>5, <1>8, <2>1, PortsStay DEF WindowsOf, Mining, TypeOK, PortTypeOK
  <2>2. CASE k # m
    <3>1. WindowsOf(k) /\ pc[k] \notin {"close", "create", "state"}
      BY <1>1, <2>2, OthersOutside DEF WindowsInv
    <3> QED BY <1>2, <1>8, <2>2, <3>1, PortsStay DEF WindowsOf, Mining
  <2> QED BY <2>1, <2>2
<1>10. ASSUME NEW k \in Miners PROVE DistinctOf(k)'
  <2> SUFFICES ASSUME Distinct PROVE DistinctOf(k)'
    BY <1>2, PortsStay DEF DistinctOf
  <2>1. DistinctOf(k) /\ WindowsOf(k)
    BY <1>1 DEF WindowsInv
  <2>2. handle[i] = NoHandle
    BY <1>1, <1>3, <1>4 DEF DistinctOf, TypeOK, PortTypeOK, NoDevice
  <2>3. handle' = handle
    BY <1>4, <1>5, <2>2 DEF TypeOK, PortTypeOK
  <2>4. \A h \in Handles : openOn'[h] = openOn[h]
    BY <1>6, <2>2 DEF NoHandle
  <2>5. CASE k = m
    BY <1>1, <1>2, <1>8, <2>1, <2>3, <2>5, PortsStay DEF DistinctOf, Mining
  <2>6. CASE k # m
    BY <1>2, <1>8, <2>1, <2>3, <2>4, <2>6, PortsStay DEF DistinctOf
  <2> QED BY <2>5, <2>6
<1> QED BY <1>1, <1>2, <1>7, <1>9, <1>10 DEF WindowsInv

LEMMA WindowsCreate ==
  ASSUME TypeOK, LaunchInv, WindowsInv, NEW m \in Miners, Create(m)
  PROVE  WindowsInv'
<1> DEFINE i == devfd[m]
<1>1. build = "windows" /\ pc[m] = "create" /\ spawned # 0
  BY DEF Create, Steps, Created, Miners, TypeOK, LaunchTypeOK
<1>2. UNCHANGED <<names, ports, devfd, configured, refused, spawned>>
  BY DEF Create, CreateOn, launchVars, portVars, history
<1>3. WindowsOf(m) /\ DistinctOf(m) /\ TableInv
  BY <1>1 DEF WindowsInv
<1>4. FirstOf(NameOf(m), i) /\ i \in DOMAIN ports /\ ports[i] = NameOf(m) /\ handle[i] = NoHandle
  BY <1>1, <1>3 DEF WindowsOf, FirstOf, Entries
<1>5. ASSUME NEW k \in Miners, k # m
      PROVE  WindowsOf(k) /\ DistinctOf(k) /\ pc[k] \notin {"close", "create", "state"}
  BY <1>1, <1>5, OthersOutside DEF WindowsInv
<1>6. CASE MayCreate(i, Devices)
  <2>1. PICK h \in Handles : /\ openOn[h] = 0
                             /\ openOn' = [openOn EXCEPT ![h] = ports[i]]
                             /\ handle' = [handle EXCEPT ![i] = h]
    BY <1>6 DEF Create, CreateOn
  <2>2. \A k \in Miners : pc'[k] = IF k = m THEN "state" ELSE pc[k]
    BY <1>6 DEF Create, Goes, TypeOK, MinerTypeOK
  <2>3. openOn'[h] = NameOf(m) /\ handle'[i] = h /\ NameOf(m) \in Devices /\ portLock' = portLock
    BY <1>4, <1>6, <2>1 DEF TypeOK, PortTypeOK, MayCreate, Create
  <2>4. TableInv'
    <3> SUFFICES ASSUME NEW g \in Handles, openOn'[g] # 0
                 PROVE  \E j \in DOMAIN ports : FirstOf(openOn'[g], j) /\ handle'[j] = g
      BY <1>2, PortsStay DEF TableInv
    <3>1. CASE g = h
      BY <1>4, <2>3, <3>1
    <3>2. CASE g # h
      <4>1. openOn'[g] = openOn[g]
        BY <2>1, <3>2 DEF TypeOK, PortTypeOK
      <4>2. PICK j \in DOMAIN ports : FirstOf(openOn[g], j) /\ handle[j] = g
        BY <1>3, <4>1 DEF TableInv
      <4>3. j # i
        BY <1>4, <4>2 DEF NoHandle
      <4> QED BY <2>1, <4>1, <4>2, <4>3 DEF TypeOK, PortTypeOK
    <3> QED BY <3>1, <3>2
  <2>5. ASSUME NEW k \in Miners PROVE WindowsOf(k)'
    <3>1. CASE k = m
      BY <1>1, <1>2, <1>3, <1>4, <2>2, <2>3, <3>1, PortsStay DEF WindowsOf, Mining
    <3>2. CASE k # m
      BY <1>2, <1>5, <2>2, <3>2, PortsStay DEF WindowsOf, Mining
    <3> QED BY <3>1, <3>2
  <2>6. ASSUME NEW k \in Miners PROVE DistinctOf(k)'
    <3> SUFFICES ASSUME Distinct PROVE DistinctOf(k)'
      BY <1>2, PortsStay DEF DistinctOf
    <3>1. CASE k = m
      BY <2>2, <3>1 DEF DistinctOf, Mining
    <3>2. CASE k # m
      <4>1. NameOf(k) # NameOf(m)
        BY <2>3, <3>2 DEF Distinct, NoDevice
      <4>2. \A j \in DOMAIN ports : ports[j] = NameOf(k) => handle'[j] = handle[j]
        BY <1>4, <2>1, <4>1 DEF TypeOK, PortTypeOK
      <4>3. CASE pc[k] \in Mining
        <5>1. FirstOf(NameOf(k), devfd[k]) /\ NameOf(k) \in Devices
          BY <1>5, <3>2, <4>3 DEF WindowsOf
        <5>2. handle'[devfd[k]] = handle[devfd[k]]
          BY <4>2, <5>1 DEF FirstOf, Entries
        <5>3. handle[devfd[k]] \in Handles /\ openOn[handle[devfd[k]]] = NameOf(k)
          BY <1>5, <3>2, <4>3 DEF DistinctOf
        <5>4. openOn'[handle[devfd[k]]] = NameOf(k)
          BY <2>1, <5>1, <5>3 DEF TypeOK, PortTypeOK
        <5> QED BY <1>2, <2>2, <3>2, <4>3, <5>2, <5>3, <5>4, PortsStay DEF DistinctOf, Mining
      <4>4. CASE pc[k] \notin Mining
        BY <1>2, <1>5, <2>2, <3>2, <4>2, <4>4, PortsStay DEF DistinctOf
      <4> QED BY <4>3, <4>4
    <3> QED BY <3>1, <3>2
  <2> QED BY <1>1, <1>2, <2>4, <2>5, <2>6 DEF WindowsInv
<1>7. CASE ~MayCreate(i, Devices)
  <2>1. UNCHANGED <<handle, openOn>> /\ \A k \in Miners : pc'[k] = IF k = m THEN "ended" ELSE pc[k]
    BY <1>7 DEF Create, Goes, TypeOK, MinerTypeOK, portVars
  <2>2. NameOf(m) \notin Devices
    <3> SUFFICES ASSUME NameOf(m) \in Devices PROVE FALSE
      OBVIOUS
    <3>1. PICK h \in Handles : openOn[h] = NameOf(m)
      BY <1>4, <1>7 DEF MayCreate
    <3>2. PICK j \in DOMAIN ports : FirstOf(NameOf(m), j) /\ handle[j] = h
      BY <1>3, <3>1 DEF TableInv
    <3>3. j = i
      BY <1>4, <3>2, FirstUnique
    <3> QED BY <1>4, <3>2, <3>3 DEF NoHandle
  <2>3. TableInv'
    BY <1>2, <1>3, <2>1, PortsStay DEF TableInv
  <2>4. ASSUME NEW k \in Miners PROVE WindowsOf(k)' /\ DistinctOf(k)'
    <3>1. CASE k = m
      BY <1>2, <2>1, <2>2, <3>1, PortsStay DEF WindowsOf, DistinctOf, Mining
    <3>2. CASE k # m
      BY <1>2, <1>5, <2>1, <3>2, PortsStay DEF WindowsOf, DistinctOf, Mining
    <3> QED BY <3>1, <3>2
  <2> QED BY <1>1, <1>2, <2>3, <2>4 DEF WindowsInv
<1> QED BY <1>6, <1>7

LEMMA WindowsSetState ==
  ASSUME TypeOK, LaunchInv, WindowsInv, NEW m \in Miners, SetState(m)
  PROVE  WindowsInv'
<1> DEFINE i == devfd[m]
<1>1. build = "windows" /\ pc[m] = "state" /\ spawned # 0
  BY DEF SetState, Steps, Created, Miners, TypeOK, LaunchTypeOK
<1>2. UNCHANGED <<names, ports, handle, devfd, spawned>>
  BY DEF SetState, CloseKeepsValue, launchVars, portVars
<1>3. WindowsOf(m) /\ TableInv
  BY <1>1 DEF WindowsInv
<1>4. /\ FirstOf(NameOf(m), i) /\ i \in DOMAIN ports /\ ports[i] = NameOf(m)
      /\ NameOf(m) \in Devices /\ handle[i] \in Handles /\ openOn[handle[i]] = NameOf(m)
  BY <1>1, <1>3 DEF WindowsOf, FirstOf, Entries
<1>5. ASSUME NEW k \in Miners, k # m
      PROVE  WindowsOf(k) /\ DistinctOf(k) /\ pc[k] \notin {"close", "create", "state"}
  BY <1>1, <1>5, OthersOutside DEF WindowsInv
<1>6. CASE /\ Goes(m, "write")
           /\ configured' = configured \cup {NameOf(m)}
           /\ UNCHANGED <<portVars, refused>>
  <2>1. \A k \in Miners : pc'[k] = IF k = m THEN "write" ELSE pc[k]
    BY <1>6 DEF Goes, TypeOK, MinerTypeOK
  <2>2. UNCHANGED openOn
    BY <1>6 DEF portVars
  <2>3. TableInv'
    BY <1>2, <1>3, <2>2, PortsStay DEF TableInv
  <2>4. ASSUME NEW k \in Miners PROVE WindowsOf(k)' /\ DistinctOf(k)'
    <3>1. CASE k = m
      BY <1>2, <1>4, <1>6, <2>1, <2>2, <3>1, PortsStay DEF WindowsOf, DistinctOf, Mining
    <3>2. CASE k # m
      BY <1>2, <1>5, <1>6, <2>1, <2>2, <3>2, PortsStay DEF WindowsOf, DistinctOf, Mining
    <3> QED BY <3>1, <3>2
  <2> QED BY <1>1, <1>2, <2>3, <2>4 DEF WindowsInv
<1>7. CASE /\ Goes(m, "ended")
           /\ CloseKeepsValue(devfd[m])
           /\ refused' = refused \cup {m}
           /\ UNCHANGED configured
  <2>1. \A k \in Miners : pc'[k] = IF k = m THEN "ended" ELSE pc[k]
    BY <1>7 DEF Goes, TypeOK, MinerTypeOK
  <2>2. \A h \in Handles : openOn'[h] = IF h = handle[i] THEN 0 ELSE openOn[h]
    BY <1>4, <1>7 DEF CloseKeepsValue, TypeOK, PortTypeOK
  <2>3. TableInv'
    <3> SUFFICES ASSUME NEW h \in Handles, openOn'[h] # 0
                 PROVE  \E j \in DOMAIN ports : FirstOf(openOn'[h], j) /\ handle[j] = h
      BY <1>2, PortsStay DEF TableInv
    <3>1. openOn'[h] = openOn[h]
      BY <2>2
    <3> QED BY <1>3, <3>1 DEF TableInv
  <2>4. ASSUME NEW k \in Miners PROVE WindowsOf(k)'
    <3>1. CASE k = m
      BY <1>2, <1>7, <2>1, <3>1, PortsStay DEF WindowsOf, Mining
    <3>2. CASE k # m
      BY <1>2, <1>5, <1>7, <2>1, <3>2, PortsStay DEF WindowsOf, Mining
    <3> QED BY <3>1, <3>2
  <2>5. ASSUME NEW k \in Miners PROVE DistinctOf(k)'
    <3> SUFFICES ASSUME Distinct PROVE DistinctOf(k)'
      BY <1>2, PortsStay DEF DistinctOf
    <3>1. CASE k = m
      BY <2>1, <3>1 DEF DistinctOf, Mining
    <3>2. CASE k # m /\ pc[k] \in Mining
      <4>1. handle[devfd[k]] \in Handles /\ openOn[handle[devfd[k]]] = NameOf(k)
        BY <1>5, <3>2 DEF DistinctOf
      <4>2. NameOf(k) # NameOf(m)
        BY <1>4, <3>2 DEF Distinct, NoDevice
      <4>3. openOn'[handle[devfd[k]]] = NameOf(k)
        BY <1>4, <2>2, <4>1, <4>2
      <4> QED BY <1>2, <2>1, <3>2, <4>1, <4>3, PortsStay DEF DistinctOf, Mining
    <3>3. CASE k # m /\ pc[k] \notin Mining
      BY <1>2, <1>5, <2>1, <3>3, PortsStay DEF DistinctOf
    <3> QED BY <3>1, <3>2, <3>3
  <2> QED BY <1>1, <1>2, <2>3, <2>4, <2>5 DEF WindowsInv
<1> QED BY <1>6, <1>7 DEF SetState

LEMMA WindowsMiner ==
  ASSUME TypeOK, LaunchInv, WindowsInv, NEW m \in Miners, Miner(m)
  PROVE  WindowsInv'
<1>1. CASE StoreFd(m) \/ TestFd(m) \/ Flush(m) \/ SetLine(m) \/ ReturnFd(m)
  BY <1>1 DEF WindowsInv, StoreFd, TestFd, Flush, SetLine, ReturnFd, Steps
<1>2. CASE FindIt(m) \/ CloseOld(m) \/ Create(m) \/ SetState(m)
  BY <1>2, WindowsFindIt, WindowsCloseOld, WindowsCreate, WindowsSetState
<1>3. CASE WriteWord(m) \/ Poll(m) \/ Restart(m)
  <2>1. UNCHANGED <<names, build, portVars, portLock, devfd, configured, refused, spawned>>
    BY <1>3 DEF WriteWord, Poll, Restart, launchVars, history
  <2>2. \A k \in Miners : pc'[k] = pc[k] \/ (pc[k] \in Mining /\ pc'[k] \in Mining)
    BY <1>3 DEF WriteWord, Poll, Restart, Steps, NextWord, Goes, Mining, TypeOK, MinerTypeOK
  <2> QED BY <2>1, <2>2, WindowsFrame
<1> QED BY <1>1, <1>2, <1>3 DEF Miner

LEMMA WindowsStep == ASSUME TypeOK, LaunchInv, WindowsInv, [Next]_vars PROVE WindowsInv'
<1>1. CASE CardStep
  BY <1>1, WindowsFrame DEF CardStep, Answer, Arrive, launchVars, minerVars, history
<1>2. CASE UNCHANGED vars
  BY <1>2, WindowsFrame DEF vars, launchVars, minerVars, history
<1> QED BY <1>1, <1>2, WindowsMain, WindowsMiner DEF Next, CardStep

-----------------------------------------------------------------------------
(* Answers.                                                                *)

\* While nothing is lost, the first byte in the port begins an answer.
NoncesInv == garbled \subseteq upset /\ \A d \in Devices \ upset : AtAnswer(d)

LEMMA NoncesFrame ==
  ASSUME NoncesInv, garbled' \subseteq garbled, upset \subseteq upset',
         \A d \in Devices \ upset' : card'[d].unread = card[d].unread /\ card'[d].left = card[d].left
  PROVE  NoncesInv'
BY DEF NoncesInv, AtAnswer

LEMMA NoncesFlush == ASSUME TypeOK, NoncesInv, NEW m \in Miners, Flush(m) PROVE NoncesInv'
<1>1. CASE fd \notin Devices
  BY <1>1, NoncesFrame DEF Flush
<1>2. CASE fd \in Devices
  <2>1. upset \subseteq upset' /\ garbled' = garbled /\ (fd \notin upset' => card[fd].left \notin 1..3)
    BY <1>2 DEF Flush
  <2>2. \A d \in Devices \ {fd} : card'[d] = card[d]
    BY <1>2 DEF Flush, TypeOK, CardTypeOK
  <2>3. card[fd] \in Cards
    BY <1>2 DEF TypeOK, CardTypeOK
  <2>4. card[fd].left \in 0..4
    BY <2>3, CardFields
  <2>5. card'[fd].unread = 0 /\ card'[fd].left = card[fd].left
    BY <1>2, <2>3 DEF Flush, TypeOK, CardTypeOK, Cards
  <2>6. \A l \in 0..4 : l \notin 1..3 => (0 + l) % 4 = 0
    OBVIOUS
  <2>7. fd \notin upset' => (card'[fd].unread + card'[fd].left) % 4 = 0
    BY <2>1, <2>4, <2>5, <2>6
  <2> QED BY <2>1, <2>2, <2>7 DEF NoncesInv, AtAnswer
<1> QED BY <1>1, <1>2

LEMMA NoncesPoll == ASSUME TypeOK, NoncesInv, NEW m \in Miners, Poll(m) PROVE NoncesInv'
<1>1. PICK d \in Devices :
        /\ card' = [card EXCEPT ![d].unread = @ - Fewer(4, card[d].unread)]
        /\ \/ /\ Fewer(4, card[d].unread) = 4
              /\ garbled' = IF AtAnswer(d) THEN garbled ELSE garbled \cup {d}
              /\ UNCHANGED upset
           \/ upset' = upset \cup {d} /\ UNCHANGED garbled
  BY DEF Poll
<1>2. \A e \in Devices \ {d} : card'[e] = card[e]
  BY <1>1 DEF TypeOK, CardTypeOK
<1>3. CASE upset' = upset \cup {d} /\ UNCHANGED garbled
  BY <1>2, <1>3, NoncesFrame
<1>4. CASE /\ Fewer(4, card[d].unread) = 4
           /\ garbled' = IF AtAnswer(d) THEN garbled ELSE garbled \cup {d}
           /\ UNCHANGED upset
  <2>1. card[d] \in Cards
    BY DEF TypeOK, CardTypeOK
  <2>2. card[d].unread \in Nat /\ card[d].left \in Nat
    BY <2>1, CardFields
  <2>3. card[d].unread >= 4
    BY <1>4, <2>2 DEF Fewer
  <2>4. card'[d].unread = card[d].unread - 4 /\ card'[d].left = card[d].left
    BY <1>1, <1>4, <2>1 DEF TypeOK, CardTypeOK, Cards
  <2>5. \A u, l \in Nat : u >= 4 /\ (u + l) % 4 = 0 => (u - 4 + l) % 4 = 0
    OBVIOUS
  <2>6. AtAnswer(d) => AtAnswer(d)'
    BY <2>2, <2>3, <2>4, <2>5 DEF AtAnswer
  <2>7. \A e \in Devices \ {d} : AtAnswer(e)' = AtAnswer(e)
    BY <1>2 DEF AtAnswer
  <2> QED BY <1>4, <2>6, <2>7 DEF NoncesInv
<1> QED BY <1>1, <1>3, <1>4

LEMMA NoncesCard == ASSUME TypeOK, NoncesInv, CardStep PROVE NoncesInv'
<1> SUFFICES ASSUME NEW d \in Devices, Answer(d) \/ Arrive(d) PROVE NoncesInv'
  BY DEF CardStep
<1>1. UNCHANGED <<upset, garbled>> /\ card[d] \in Cards
  BY DEF Answer, Arrive, history, TypeOK, CardTypeOK
<1>2. \A e \in Devices \ {d} : card'[e] = card[e]
  BY DEF Answer, Arrive, TypeOK, CardTypeOK
<1>3. card[d].unread \in Nat /\ card[d].left \in Nat
  BY <1>1, CardFields
<1>4. AtAnswer(d) => AtAnswer(d)'
  <2>1. CASE Answer(d)
    <3>1. card[d].left = 0 /\ card'[d].left = 4 /\ card'[d].unread = card[d].unread
      BY <1>1, <2>1 DEF Answer, TypeOK, CardTypeOK, Cards
    <3>2. \A u \in Nat : (u + 0) % 4 = 0 => (u + 4) % 4 = 0
      OBVIOUS
    <3> QED BY <1>3, <3>1, <3>2 DEF AtAnswer
  <2>2. CASE Arrive(d)
    <3>1. PICK n \in Pieces :
            card' = [card EXCEPT ![d].unread = @ + n, ![d].left = @ - n]
      BY <2>2 DEF Arrive
    <3> DEFINE u == card[d].unread + n
               l == card[d].left - n
    <3>2. card' = [card EXCEPT ![d] = [card[d] EXCEPT !.unread = u, !.left = l]]
      BY <3>1
    <3> HIDE DEF u, l
    <3>3. card'[d].unread = u /\ card'[d].left = l
      BY <1>1, <3>2 DEF TypeOK, CardTypeOK, Cards
    <3>4. \A p, q, x \in Int : (p + x) + (q - x) = p + q
      OBVIOUS
    <3>5. u + l = card[d].unread + card[d].left
      BY <1>3, <3>4, SerialAssumption DEF u, l
    <3> QED BY <3>3, <3>5 DEF AtAnswer
  <2> QED BY <2>1, <2>2
<1>5. \A e \in Devices \ {d} : AtAnswer(e)' = AtAnswer(e)
  BY <1>2 DEF AtAnswer
<1> QED BY <1>1, <1>4, <1>5 DEF NoncesInv

LEMMA TakesBytes ==
  ASSUME TypeOK, NEW m \in Miners, NEW d \in Devices, Takes(d, m)
  PROVE  \A e \in Devices : card'[e].unread = card[e].unread /\ card'[e].left = card[e].left
<1> DEFINE c == card[d]
           clean == word[m] = c.words + 1 /\ (c.words = 0 \/ c.by = m)
           full == c.words + 1 = HeaderWords
           w == IF full THEN 0 ELSE c.words + 1
           b == IF clean /\ ~full THEN m ELSE 0
           n == IF full THEN Repeats ELSE c.due
<1>1. card' = [card EXCEPT ![d] = [c EXCEPT !.words = w, !.by = b, !.due = n]]
  BY Zenon DEF Takes
<1>2. c \in Cards /\ c = card[d]
  BY DEF TypeOK, CardTypeOK
<1> HIDE DEF c, w, b, n
<1> QED BY <1>1, <1>2 DEF TypeOK, CardTypeOK, Cards

LEMMA NoncesStep == ASSUME TypeOK, NoncesInv, [Next]_vars PROVE NoncesInv'
<1>1. ASSUME NEW m \in Miners, WriteWord(m) PROVE NoncesInv'
  <2>1. garbled' = garbled /\ upset \subseteq upset'
    BY <1>1 DEF WriteWord
  <2>2. \A e \in Devices : card'[e].unread = card[e].unread /\ card'[e].left = card[e].left
    BY <1>1, TakesBytes DEF WriteWord
  <2> QED BY <2>1, <2>2, NoncesFrame
<1>2. ASSUME NEW m \in Miners, Miner(m) PROVE NoncesInv'
  <2>1. CASE WriteWord(m) \/ Poll(m) \/ Flush(m)
    BY <1>1, <2>1, NoncesPoll, NoncesFlush
  <2>2. CASE StoreFd(m) \/ TestFd(m) \/ SetLine(m) \/ ReturnFd(m) \/ FindIt(m) \/ CloseOld(m)
             \/ Create(m) \/ SetState(m) \/ Restart(m)
    BY <2>2, NoncesFrame
       DEF StoreFd, TestFd, SetLine, ReturnFd, FindIt, CloseOld, Create, SetState, Restart, history
  <2> QED BY <1>2, <2>1, <2>2 DEF Miner
<1>3. CASE Main
  BY <1>3, NoncesFrame DEF Main, history
<1>4. CASE UNCHANGED vars
  BY <1>4, NoncesFrame DEF vars, history
<1> QED BY <1>2, <1>3, <1>4, NoncesCard DEF Next, CardStep

-----------------------------------------------------------------------------
(* Headers.                                                                *)

\* The device a miner writes to, once it has one.
User(m) ==
  IF build = "linux" THEN devfd[m] ELSE IF pc[m] \in Mining THEN NameOf(m) ELSE NoDevice

\* The only user of a card and the card agree on how much of a header has been sent.
HeaderOf(d) ==
  /\ d \notin mixed
  /\ \A m \in Miners :
       User(m) = d => /\ word[m] = card[d].words + 1
                      /\ card[d].words > 0 => card[d].by = m /\ pc[m] = "write"
  /\ (\A m \in Miners : User(m) # d) => card[d].words = 0

HeadersInv ==
  /\ \A m \in Miners : pc[m] # "write" => word[m] = 1
  /\ \A d \in Devices \ upset : ~Shared(d) => HeaderOf(d)
  /\ spawned = 0 => mixed = {} /\ \A d \in Devices \ upset : card[d].words = 0

LEMMA HeadersFrame ==
  ASSUME HeadersInv, UNCHANGED <<build, names, mixed, word>>, build = "linux" => UNCHANGED devfd,
         spawned' = 0 => spawned = 0, upset \subseteq upset',
         \A d \in Devices : card'[d].words = card[d].words /\ card'[d].by = card[d].by,
         \A k \in Miners : User(k)' = User(k) /\ (pc[k] = "write" => pc'[k] = "write")
  PROVE  HeadersInv'
<1>1. \A d \in Devices : Shared(d)' = Shared(d)
  BY NamesStay DEF Shared, Distinct
<1>2. \A d \in Devices : HeaderOf(d) => HeaderOf(d)'
  BY DEF HeaderOf
<1> QED BY <1>1, <1>2 DEF HeadersInv

LEMMA UsersStay ==
  ASSUME UNCHANGED <<build, names, devfd>>, NEW k \in Miners, pc'[k] \in Mining <=> pc[k] \in Mining
  PROVE  User(k)' = User(k)
BY NamesStay DEF User

LEMMA HeadersMain ==
  ASSUME TypeOK, LaunchInv, LinuxInv, HeadersInv, Main PROVE HeadersInv'
<1>1. UNCHANGED <<build, pc, devfd, word, card, upset, mixed>>
  BY DEF Main, minerVars, history
<1>2. CASE UNCHANGED names /\ (spawned' = 0 => spawned = 0)
  BY <1>1, <1>2, HeadersFrame, UsersStay
<1>3. CASE spawned = 0
  <2>1. \A m \in Miners : pc[m] = "start"
    BY <1>3, MinersType DEF LaunchInv, Created, Miners
  <2>2. \A m \in Miners : User(m)' = NoDevice
    BY <1>1, <2>1 DEF User, LinuxInv, LinuxOf, Mining
  <2>3. \A d \in Devices \ upset : HeaderOf(d)'
    BY <1>1, <1>3, <2>2 DEF HeadersInv, HeaderOf, NoDevice
  <2> QED BY <1>1, <1>3, <2>1, <2>3 DEF HeadersInv
<1>4. \/ UNCHANGED names /\ (spawned' = 0 => spawned = 0)
      \/ spawned = 0
  BY DEF Main, LaunchNext, Scan, DeviceList, DeviceNumber, TextOption, Checks, Client, Spawn, Join,
         Runs, LaunchInv, TypeOK, LaunchTypeOK
<1> QED BY <1>2, <1>3, <1>4

LEMMA TakesWords ==
  ASSUME TypeOK, NEW m \in Miners, NEW d \in Devices, Takes(d, m),
         word[m] = card[d].words + 1, card[d].words = 0 \/ card[d].by = m
  PROVE  /\ card'[d].words = (IF word[m] = HeaderWords THEN 0 ELSE word[m])
         /\ word[m] # HeaderWords => card'[d].by = m
         /\ mixed' = mixed
         /\ \A e \in Devices \ {d} : card'[e] = card[e]
<1> DEFINE c == card[d]
           w == IF word[m] = HeaderWords THEN 0 ELSE word[m]
           b == IF word[m] = HeaderWords THEN 0 ELSE m
           n == IF word[m] = HeaderWords THEN Repeats ELSE c.due
<1>1. card' = [card EXCEPT ![d] = [c EXCEPT !.words = w, !.by = b, !.due = n]] /\ mixed' = mixed
  BY DEF Takes
<1>2. c \in Cards /\ c = card[d]
  BY DEF TypeOK, CardTypeOK
<1>3. card'[d].words = w /\ card'[d].by = b /\ \A e \in Devices \ {d} : card'[e] = card[e]
  <2> HIDE DEF c, w, b, n
  <2> QED BY <1>1, <1>2 DEF TypeOK, CardTypeOK, Cards
<1> QED BY <1>1, <1>3

LEMMA TakesOther ==
  ASSUME TypeOK, NEW m \in Miners, NEW d \in Devices, Takes(d, m)
  PROVE  /\ \A e \in Devices \ {d} : card'[e] = card[e]
         /\ mixed \subseteq mixed' /\ mixed' \subseteq mixed \cup {d}
BY DEF Takes, TypeOK, CardTypeOK

\* Without a second user of the card a miner talks to the device it uses.
LEMMA WriterUses ==
  ASSUME TypeOK, WindowsInv, NEW m \in Miners, pc[m] \in Mining,
         build = "windows" => Distinct
  PROVE  User(m) = TalksTo(m)
<1>1. CASE build = "linux"
  BY <1>1 DEF User, TalksTo
<1>2. CASE build = "windows"
  <2>1. /\ openOn[handle[devfd[m]]] = NameOf(m) /\ handle[devfd[m]] \in Handles
    BY <1>2 DEF WindowsInv, DistinctOf
  <2> QED BY <1>2, <2>1 DEF User, TalksTo, Reached, NoHandle
<1> QED BY <1>1, <1>2 DEF TypeOK, MinerTypeOK

LEMMA OneUser ==
  ASSUME NEW d \in Devices, ~Shared(d), NEW m \in Miners, NEW k \in Miners,
         User(m) = d, User(k) = d
  PROVE  m = k
BY DEF Shared, User, Distinct, NoDevice

LEMMA HeadersWrite ==
  ASSUME TypeOK, LaunchInv, WindowsInv, HeadersInv, NEW m \in Miners, WriteWord(m)
  PROVE  HeadersInv'
<1>1. /\ UNCHANGED <<build, names, devfd, spawned>> /\ pc[m] = "write" /\ spawned # 0
      /\ build \in {"linux", "windows"}
  BY DEF WriteWord, Steps, Created, Miners, TypeOK, LaunchTypeOK, MinerTypeOK
<1>2. CASE UNCHANGED <<pc, word, card, upset, mixed>>
  BY <1>1, <1>2, HeadersFrame, UsersStay
<1>3. ASSUME NEW t, t = TalksTo(m), NextWord(m),
             \/ t \in Devices /\ Takes(t, m) /\ UNCHANGED upset
             \/ upset' = upset \cup ({t} \cap Devices) /\ UNCHANGED <<card, mixed>>
      PROVE  HeadersInv'
  <2>1. /\ word'[m] = IF word[m] = HeaderWords THEN 1 ELSE word[m] + 1
        /\ pc'[m] = IF word[m] = HeaderWords THEN "poll" ELSE "write"
        /\ \A k \in Miners \ {m} : word'[k] = word[k] /\ pc'[k] = pc[k]
    BY <1>3 DEF NextWord, Goes, TypeOK, MinerTypeOK
  <2>2. \A k \in Miners : User(k)' = User(k)
    BY <1>1, <2>1, UsersStay DEF Mining
  <2>3. \A k \in Miners : pc'[k] # "write" => word'[k] = 1
    BY <2>1 DEF HeadersInv
  <2>4. ASSUME NEW d \in Devices, d \notin upset', ~Shared(d)'
        PROVE  HeaderOf(d)'
    <3>1. d \notin upset /\ ~Shared(d)
      BY <1>1, <1>3, <2>4, NamesStay DEF Shared, Distinct
    <3>2. HeaderOf(d) /\ User(m) = t
      BY <1>1, <1>3, <3>1, WriterUses DEF HeadersInv, Shared, Mining
    <3>3. CASE t # d
      <4>1. card'[d] = card[d] /\ (d \in mixed' <=> d \in mixed)
        <5>1. CASE t \in Devices /\ Takes(t, m)
          <6>1. \A e \in Devices \ {t} : card'[e] = card[e]
            BY <5>1, TakesOther
          <6>2. mixed \subseteq mixed' /\ mixed' \subseteq mixed \cup {t}
            BY <5>1, TakesOther
          <6> QED BY <3>3, <6>1, <6>2
        <5>2. CASE UNCHANGED <<card, mixed>>
          BY <5>2
        <5> QED BY <1>3, <5>1, <5>2
      <4> QED BY <2>1, <2>2, <3>2, <3>3, <4>1 DEF HeaderOf
    <3>4. CASE t = d
      <4>1. Takes(d, m) /\ \A k \in Miners : User(k) = d => k = m
        BY <1>3, <2>4, <3>1, <3>2, <3>4, OneUser
      <4>2. word[m] = card[d].words + 1 /\ (card[d].words = 0 \/ card[d].by = m)
        <5>1. card[d].words \in Nat
          BY CardFields DEF TypeOK, CardTypeOK
        <5> QED BY <3>2, <3>4, <5>1 DEF HeaderOf
      <4>3. /\ card'[d].words = (IF word[m] = HeaderWords THEN 0 ELSE word[m])
            /\ word[m] # HeaderWords => card'[d].by = m
            /\ mixed' = mixed
        BY <4>1, <4>2, TakesWords
      <4>4. word[m] \in Nat
        BY DEF TypeOK, MinerTypeOK
      <4>5. word'[m] = card'[d].words + 1
        BY <2>1, <4>3, <4>4
      <4> QED BY <2>1, <2>2, <3>2, <3>4, <4>1, <4>3, <4>5 DEF HeaderOf
    <3> QED BY <3>3, <3>4
  <2> QED BY <1>1, <2>3, <2>4 DEF HeadersInv
<1> QED BY <1>2, <1>3 DEF WriteWord

\* A miner whose device is open begins with a card that nobody has begun to write to.
LEMMA HeadersBegin ==
  ASSUME TypeOK, HeadersInv, NEW m \in Miners, NEW d \in Devices,
         UNCHANGED <<build, names, word, card, upset, mixed, spawned>>, spawned # 0,
         User(m) = NoDevice, User(m)' = d, pc[m] # "write",
         \A k \in Miners \ {m} : pc'[k] = pc[k] /\ User(k)' = User(k),
         \A e \in Devices : Shared(e) => Shared(e)'
  PROVE  HeadersInv'
<1>1. ASSUME NEW e \in Devices, e \notin upset', ~Shared(e)'
      PROVE  HeaderOf(e)'
  <2>1. HeaderOf(e)
    BY <1>1 DEF HeadersInv
  <2>2. CASE e # d
    BY <2>1, <2>2 DEF HeaderOf, NoDevice
  <2>3. CASE e = d
    <3>1. \A k \in Miners : User(k)' = e => k = m
      BY <1>1, <2>3 DEF Shared, User, Distinct, NoDevice
    <3>2. \A k \in Miners : User(k) # e
      BY <2>3, <3>1 DEF NoDevice
    <3>3. card[e].words = 0 /\ word[m] = 1
      BY <2>1, <3>2 DEF HeaderOf, HeadersInv
    <3> QED BY <2>1, <2>3, <3>1, <3>3 DEF HeaderOf
  <2> QED BY <2>2, <2>3
<1> QED BY <1>1 DEF HeadersInv

LEMMA HeadersReturn ==
  ASSUME TypeOK, LaunchInv, LinuxInv, HeadersInv, NEW m \in Miners, ReturnFd(m)
  PROVE  HeadersInv'
<1>1. /\ build = "linux" /\ pc[m] = "return" /\ spawned # 0
      /\ UNCHANGED <<build, names, word, card, upset, mixed, spawned>>
  BY DEF ReturnFd, Steps, Created, Miners, TypeOK, LaunchTypeOK, launchVars, history
<1>2. /\ devfd[m] = NoDevice /\ devfd'[m] = fd
      /\ pc'[m] = IF fd = NoDevice THEN "ended" ELSE "write"
      /\ \A k \in Miners \ {m} : pc'[k] = pc[k] /\ devfd'[k] = devfd[k]
  BY <1>1 DEF ReturnFd, Goes, TypeOK, MinerTypeOK, LinuxInv, LinuxOf, Mining
<1>3. \A k \in Miners \ {m} : User(k)' = User(k)
  BY <1>1, <1>2 DEF User
<1>4. User(m) = NoDevice /\ User(m)' = fd
  BY <1>1, <1>2 DEF User
<1>5. CASE fd = NoDevice
  <2>1. devfd' = devfd
    BY <1>1, <1>2, <1>5 DEF ReturnFd, TypeOK, MinerTypeOK
  <2> QED BY <1>1, <1>2, <1>3, <1>4, <1>5, <2>1, HeadersFrame
<1>6. CASE fd # NoDevice
  <2>1. \A e \in Devices : Shared(e) => Shared(e)'
    BY <1>1, <1>2 DEF Shared, NoDevice
  <2>2. PICK d \in Devices : d = fd
    BY <1>6 DEF TypeOK, MinerTypeOK
  <2>3. User(m)' = d
    BY <1>4, <2>2
  <2> QED BY <1>1, <1>2, <1>3, <1>4, <2>1, <2>3, HeadersBegin
<1> QED BY <1>5, <1>6

LEMMA HeadersSetState ==
  ASSUME TypeOK, LaunchInv, WindowsInv, HeadersInv, NEW m \in Miners, SetState(m)
  PROVE  HeadersInv'
<1>1. /\ build = "windows" /\ pc[m] = "state" /\ spawned # 0
      /\ UNCHANGED <<build, names, devfd, word, card, upset, mixed, spawned>>
  BY DEF SetState, Steps, Created, Miners, TypeOK, LaunchTypeOK, launchVars
<1>2. \A k \in Miners \ {m} : pc'[k] = pc[k]
  BY GoesElsewhere DEF SetState
<1>3. User(m) = NoDevice /\ \A k \in Miners \ {m} : User(k)' = User(k)
  BY <1>1, <1>2, UsersStay DEF User, Mining
<1>4. CASE Goes(m, "ended")
  <2>1. pc'[m] = "ended"
    BY <1>4 DEF Goes, TypeOK, MinerTypeOK
  <2> QED BY <1>1, <1>2, <1>3, <2>1, UsersStay, HeadersFrame DEF Mining
<1>5. CASE Goes(m, "write")
  <2>1. pc'[m] = "write"
    BY <1>5 DEF Goes, TypeOK, MinerTypeOK
  <2>2. NameOf(m)' = NameOf(m) /\ User(m)' = NameOf(m)
    BY <1>1, <2>1, NamesStay DEF User, Mining
  <2>3. PICK d \in Devices : d = NameOf(m)
    BY <1>1 DEF WindowsInv, WindowsOf
  <2>4. \A e \in Devices : Shared(e) => Shared(e)'
    BY <1>1, NamesStay DEF Shared, Distinct
  <2> QED BY <1>1, <1>2, <1>3, <2>2, <2>3, <2>4, HeadersBegin
<1> QED BY <1>4, <1>5 DEF SetState

LEMMA HeadersPoll ==
  ASSUME TypeOK, LaunchInv, HeadersInv, NEW m \in Miners, Poll(m) \/ Restart(m)
  PROVE  HeadersInv'
<1>1. /\ UNCHANGED <<build, names, devfd, word, mixed, spawned>> /\ upset \subseteq upset'
      /\ pc[m] = "poll"
  BY DEF Poll, Restart, Steps, launchVars, minerVars, history
<1>2. \A k \in Miners : pc'[k] = pc[k] \/ (k = m /\ pc'[k] = "write")
  BY DEF Poll, Restart, Goes, TypeOK, MinerTypeOK
<1>3. \A d \in Devices : card'[d].words = card[d].words /\ card'[d].by = card[d].by
  <2>1. CASE Poll(m)
    <3>1. PICK d \in Devices : card' = [card EXCEPT ![d].unread = @ - Fewer(4, card[d].unread)]
      BY <2>1 DEF Poll
    <3> QED BY <3>1 DEF TypeOK, CardTypeOK, Cards
  <2>2. CASE Restart(m)
    BY <2>2 DEF Restart
  <2> QED BY <2>1, <2>2
<1>4. \A k \in Miners : User(k)' = User(k) /\ (pc[k] = "write" => pc'[k] = "write")
  BY <1>1, <1>2, UsersStay DEF Mining
<1> QED BY <1>1, <1>3, <1>4, HeadersFrame

LEMMA HeadersOpening ==
  ASSUME TypeOK, LaunchInv, HeadersInv, NEW m \in Miners,
         \/ StoreFd(m) \/ TestFd(m) \/ Flush(m) \/ SetLine(m)
         \/ FindIt(m) \/ CloseOld(m) \/ Create(m)
  PROVE  HeadersInv'
<1>1. /\ UNCHANGED <<build, names, word, mixed, spawned>> /\ upset \subseteq upset'
      /\ build = "linux" => UNCHANGED devfd
      /\ pc[m] \notin Mining
  BY DEF StoreFd, TestFd, Flush, SetLine, FindIt, CloseOld, Create, Steps, Mining,
         launchVars, history
<1>2. pc'[m] \notin Mining /\ \A k \in Miners \ {m} : pc'[k] = pc[k]
  BY DEF StoreFd, TestFd, Flush, SetLine, FindIt, CloseOld, Create, Goes, Mining, TypeOK, MinerTypeOK
<1>3. \A k \in Miners : User(k)' = User(k) /\ (pc[k] = "write" => pc'[k] = "write")
  BY <1>1, <1>2, NamesStay DEF User, Mining, TypeOK, MinerTypeOK
<1>4. \A d \in Devices : card'[d].words = card[d].words /\ card'[d].by = card[d].by
  <2>1. CASE UNCHANGED card
    BY <2>1
  <2>2. CASE Flush(m) /\ fd \in Devices
    <3>1. PICK d \in Devices : card' = [card EXCEPT ![d].unread = 0]
      BY <2>2 DEF Flush
    <3> QED BY <3>1 DEF TypeOK, CardTypeOK, Cards
  <2> QED BY <2>1, <2>2 DEF StoreFd, TestFd, Flush, SetLine, FindIt, CloseOld, Create
<1> QED BY <1>1, <1>3, <1>4, HeadersFrame

LEMMA HeadersCard == ASSUME TypeOK, HeadersInv, CardStep PROVE HeadersInv'
<1>1. UNCHANGED <<build, names, pc, devfd, word, mixed, spawned, upset>>
  BY DEF CardStep, Answer, Arrive, launchVars, minerVars, history
<1>2. \A d \in Devices : card'[d].words = card[d].words /\ card'[d].by = card[d].by
  <2>1. ASSUME NEW e \in Devices, Answer(e) \/ Arrive(e)
        PROVE  \A d \in Devices : card'[d].words = card[d].words /\ card'[d].by = card[d].by
    <3>1. CASE Answer(e)
      <4>1. PICK n : card' = [card EXCEPT ![e].left = 4, ![e].due = n]
        BY <3>1 DEF Answer
      <4> QED BY <4>1 DEF TypeOK, CardTypeOK, Cards
    <3>2. CASE Arrive(e)
      <4>1. PICK u, l : card' = [card EXCEPT ![e].unread = u, ![e].left = l]
        BY <3>2 DEF Arrive
      <4> QED BY <4>1 DEF TypeOK, CardTypeOK, Cards
    <3> QED BY <2>1, <3>1, <3>2
  <2> QED BY <2>1 DEF CardStep
<1> QED BY <1>1, <1>2, UsersStay, HeadersFrame

LEMMA HeadersStep ==
  ASSUME TypeOK, LaunchInv, LinuxInv, WindowsInv, HeadersInv, [Next]_vars
  PROVE  HeadersInv'
<1>1. ASSUME NEW m \in Miners, Miner(m) PROVE HeadersInv'
  BY <1>1, HeadersOpening, HeadersReturn, HeadersSetState, HeadersWrite, HeadersPoll DEF Miner
<1>2. CASE UNCHANGED vars
  BY <1>2, UsersStay, HeadersFrame DEF vars, launchVars, minerVars, history
<1> QED BY <1>1, <1>2, HeadersMain, HeadersCard DEF Next, CardStep

-----------------------------------------------------------------------------
(* The table of ports.                                                     *)

\* The table stays as comEnumerate() has left it.
PortsInv ==
  build = "windows" => ports = [i \in Enumerated(dosList) |-> InChar(dosList[i])]

LEMMA PortsStep == ASSUME PortsInv, [Next]_vars PROVE PortsInv'
<1> SUFFICES UNCHANGED <<build, dosList, ports>>
  BY DEF PortsInv
<1>1. CASE Main \/ CardStep \/ UNCHANGED vars
  BY <1>1 DEF Main, CardStep, Answer, Arrive, vars, portVars
<1>2. ASSUME NEW m \in Miners, Miner(m) PROVE UNCHANGED <<build, dosList, ports>>
  BY <1>2 DEF Miner, StoreFd, TestFd, Flush, SetLine, ReturnFd, FindIt, CloseOld, Create, SetState,
              WriteWord, Poll, Restart, CloseEntry, CreateOn, CloseKeepsValue, portVars
<1> QED BY <1>1, <1>2 DEF Next, CardStep

\* A port that comEnumerate() should see is in the table.
LEMMA SeenIsThere ==
  ASSUME TypeOK, PortsInv, build = "windows", NEW d \in Devices, ~Hidden(d)
  PROVE  HasPort(d)
<1>1. PICK i \in 1..Len(dosList) :
        /\ dosList[i] = d /\ ~(d >= 100)
        /\ \A j \in 1 .. i - 1 : dosList[j] # 0
        /\ ~(Cardinality({j \in 1 .. i - 1 : dosList[j] # NotCom}) >= MaxPorts)
  BY DEF Hidden
<1>2. \A j \in 1..Len(dosList) : dosList[j] \in Nat \cup {NotCom}
  BY DEF TypeOK, PortTypeOK
<1>3. d \in 1..99 /\ i \in Nat /\ i <= Len(dosList) /\ Len(dosList) \in Nat
  <2>1. Len(dosList) \in Nat
    BY DEF TypeOK, PortTypeOK
  <2>2. d \in Nat \ {0}
    OBVIOUS
  <2> QED BY <1>1, <2>1, <2>2
<1>4. \A n \in 1..99 : InChar(n) = n /\ InChar(n) > 0
  BY DEF InChar
<1>5. i \in Seen(dosList)
  BY <1>1, <1>3 DEF Seen, NotCom
<1>6. \A j \in Seen(dosList) : j <= i => InChar(dosList[j]) > 0
  <2> SUFFICES ASSUME NEW j \in Seen(dosList), j <= i PROVE InChar(dosList[j]) > 0
    OBVIOUS
  <2>1. j \in 1..Len(dosList) /\ dosList[j] # NotCom /\ (dosList[j] < 100 \/ j = Len(dosList))
    BY DEF Seen
  <2>2. CASE j = i
    <3>1. InChar(d) > 0 /\ dosList[j] = d
      BY <1>1, <1>3, <1>4, <2>2
    <3> QED BY <3>1
  <2>3. CASE j < i
    <3>1. j \in 1 .. i - 1 /\ j # Len(dosList)
      BY <1>3, <2>1, <2>3
    <3>2. dosList[j] \in Nat /\ dosList[j] < 100 /\ dosList[j] # 0
      BY <1>1, <1>2, <2>1, <3>1
    <3>3. \A n \in Nat : n < 100 /\ n # 0 => InChar(n) > 0
      <4>1. \A n \in Nat : n < 100 /\ n # 0 => n \in 1..99
        OBVIOUS
      <4> QED BY <1>4, <4>1
    <3> QED BY <3>2, <3>3
  <2> QED BY <1>3, <2>1, <2>2, <2>3
<1>7. Cardinality({j \in Seen(dosList) : j < i}) < MaxPorts
  <2> DEFINE A == {j \in Seen(dosList) : j < i}
             B == {j \in 1 .. i - 1 : dosList[j] # NotCom}
  <2>1. A \subseteq B /\ B \subseteq 1 .. i - 1
    BY <1>3 DEF Seen
  <2>2. IsFiniteSet(1 .. i - 1)
    BY <1>3, FS_Interval
  <2>3. IsFiniteSet(B)
    BY <2>1, <2>2, FS_Subset
  <2>4. IsFiniteSet(A) /\ Cardinality(A) <= Cardinality(B)
    BY <2>1, <2>3, FS_Subset
  <2>5. Cardinality(A) \in Nat /\ Cardinality(B) \in Nat
    BY <2>3, <2>4, FS_CardinalityType
  <2>6. ~(Cardinality(B) >= MaxPorts)
    BY <1>1
  <2> HIDE DEF A, B
  <2>7. Cardinality(A) < MaxPorts
    BY <2>4, <2>5, <2>6
  <2> QED BY <2>7 DEF A
<1>8. i \in DOMAIN ports /\ ports[i] = d
  <2>1. i \in Enumerated(dosList)
    BY <1>5, <1>6, <1>7 DEF Enumerated
  <2> QED BY <1>1, <1>3, <1>4, <2>1 DEF PortsInv
<1> QED BY <1>8 DEF HasPort, Entries

-----------------------------------------------------------------------------
(* The specification.                                                      *)

SerialInv ==
  /\ TypeOK /\ LaunchInv
  /\ LinuxInv /\ WindowsInv /\ PortsInv
  /\ NoncesInv /\ HeadersInv

LEMMA SerialInit == Init => SerialInv
<1> SUFFICES ASSUME Init PROVE SerialInv
  OBVIOUS
<1>1. TypeOK /\ LaunchInv
  BY TypeInit
<1>2. \A m \in Miners : pc[m] = "start" /\ devfd[m] = 0 /\ word[m] = 1
  BY DEF Init
<1>3. LinuxInv
  BY <1>2 DEF Init, LinuxInv, LinuxOf, Opening, Mining, NoDevice
<1>4. build = "windows" => PortsInit(dosList)
  BY DEF Init, PortsInit
<1>5. PortsInv
  BY <1>4 DEF PortsInv, PortsInit
<1>6. WindowsInv
  <2> SUFFICES ASSUME build = "windows" PROVE WindowsInv
    BY DEF WindowsInv
  <2>1. (\A i \in DOMAIN ports : handle[i] = NoHandle) /\ \A h \in Handles : openOn[h] = 0
    BY <1>4 DEF PortsInit
  <2> QED BY <1>2, <2>1 DEF WindowsInv, WindowsOf, DistinctOf, TableInv, Mining
<1>7. PICK before \in Leftovers :
        /\ card = [d \in Devices |->
                    [words |-> before[d].words, by |-> 0,
                     due |-> before[d].due, left |-> before[d].left, unread |-> 0]]
        /\ upset = {d \in Devices : before[d].words > 0 \/ before[d].left \in 1..3}
  BY DEF Init
<1>8. ASSUME NEW d \in Devices \ upset
      PROVE  card[d].words = 0 /\ AtAnswer(d)
  <2>1. before[d].words \in 0 .. HeaderWords - 1 /\ before[d].left \in 0..4
    OBVIOUS
  <2>2. before[d].words = 0 /\ before[d].left \in {0, 4}
    BY <1>7, <2>1
  <2>3. card[d].words = 0 /\ card[d].left \in {0, 4} /\ card[d].unread = 0
    BY <1>7, <2>2
  <2> QED BY <2>3 DEF AtAnswer
<1>9. NoncesInv
  BY <1>8 DEF Init, NoncesInv
<1>10. HeadersInv
  <2>1. \A m \in Miners : User(m) = NoDevice
    BY <1>2 DEF User, Mining, NoDevice
  <2>2. mixed = {}
    BY DEF Init
  <2> QED BY <1>2, <1>8, <2>1, <2>2 DEF HeadersInv, HeaderOf, NoDevice
<1> QED BY <1>1, <1>3, <1>5, <1>6, <1>9, <1>10 DEF SerialInv

LEMMA TypeStep ==
  ASSUME TypeOK, LaunchInv, WindowsInv, [Next]_vars
  PROVE  TypeOK' /\ LaunchInv'
<1>1. ASSUME NEW m \in Miners, SetState(m) PROVE TypeOK' /\ LaunchInv'
  <2>1. NameOf(m) \in Devices
    BY <1>1 DEF SetState, Steps, WindowsInv, WindowsOf
  <2> QED BY <1>1, <2>1, TypeSetState
<1>2. ASSUME NEW m \in Miners, Miner(m) PROVE TypeOK' /\ LaunchInv'
  BY <1>1, <1>2, TypeStoreFd, TypeTestFd, TypeFlush, TypeSetLine, TypeReturnFd, TypeFindIt,
     TypeCloseOld, TypeCreate, TypeWriteWord, TypePoll, TypeRestart DEF Miner
<1>3. CASE UNCHANGED vars
  BY <1>3 DEF vars, launchVars, portVars, minerVars, history, TypeOK, LaunchTypeOK, PortTypeOK,
              MinerTypeOK, CardTypeOK, LaunchInv, Created
<1> QED BY <1>2, <1>3, TypeMain, TypeCard DEF Next, CardStep

LEMMA SerialStep == SerialInv /\ [Next]_vars => SerialInv'
BY TypeStep, LinuxStep, WindowsStep, PortsStep, NoncesStep, HeadersStep DEF SerialInv

\* The invariant behind the others: what a thread knows of the global descriptor or of
\* its entry in the table of ports at each line of opening its device, and how far
\* a card and its miner agree on the bytes that have passed between them.
THEOREM SerialInvariant == Spec => []SerialInv
BY SerialInit, SerialStep, PTL DEF Spec

\* The variables keep their types for every command line, table of ports and length of
\* header, up to the name that passes devportnames: the code does not test for it, and
\* nothing is said of what the process does from there on.
THEOREM SerialTypes == Spec => []TypeOK
<1>1. SerialInv => TypeOK
  BY DEF SerialInv
<1> QED BY <1>1, SerialInvariant, PTL

\* Without a race for the global descriptor, and without a port named twice, a miner
\* mines on the card it was given.
THEOREM MinersOwnTheirCards == Spec => []OwnCard
<1>1. SerialInv => OwnCard
  <2> SUFFICES ASSUME SerialInv, NEW m \in Miners, pc[m] \in Mining,
                      IF build = "linux" THEN m \notin raced ELSE Distinct
               PROVE  TalksTo(m) = NameOf(m) /\ NameOf(m) \in configured
    BY DEF OwnCard
  <2>1. CASE build = "linux"
    BY <2>1 DEF SerialInv, LinuxInv, LinuxOf, TalksTo
  <2>2. CASE build = "windows"
    <3>1. /\ openOn[handle[devfd[m]]] = NameOf(m) /\ handle[devfd[m]] \in Handles
          /\ NameOf(m) \in configured
      BY <2>2 DEF SerialInv, WindowsInv, WindowsOf, DistinctOf
    <3> QED BY <2>2, <3>1 DEF TalksTo, Reached, NoHandle
  <2> QED BY <2>1, <2>2 DEF SerialInv, TypeOK, MinerTypeOK
<1> QED BY <1>1, SerialInvariant, PTL

\* A miner gives up on a card that is there only for one of the listed reasons.
THEOREM CardsAreLeftOutForAReason == Spec => []NoCardLeftOut
<1>1. SerialInv => NoCardLeftOut
  <2> SUFFICES ASSUME SerialInv, NEW m \in Miners, pc[m] = "ended", NameOf(m) \in Devices
               PROVE  IF build = "linux" THEN m \in raced ELSE m \in refused \/ Hidden(NameOf(m))
    BY DEF NoCardLeftOut
  <2>1. CASE build = "linux"
    BY <2>1 DEF SerialInv, LinuxInv, LinuxOf, NoDevice
  <2>2. CASE build = "windows"
    <3>1. m \in refused \/ ~HasPort(NameOf(m))
      BY <2>2 DEF SerialInv, WindowsInv, WindowsOf
    <3>2. PICK d \in Devices : d = NameOf(m)
      OBVIOUS
    <3>3. HasPort(d) \/ Hidden(d)
      BY <2>2, SeenIsThere DEF SerialInv
    <3> QED BY <2>2, <3>1, <3>2, <3>3
  <2> QED BY <2>1, <2>2 DEF SerialInv, TypeOK, MinerTypeOK
<1> QED BY <1>1, SerialInvariant, PTL

\* The process is not started again before every card of every list was tried.
THEOREM EveryListedCardIsTried == Spec => []ListedCardsAreTried
<1>1. SerialInv => ListedCardsAreTried
  <2> SUFFICES ASSUME SerialInv, fate = "returned", NEW i \in 1..Len(names)
               PROVE  i <= spawned /\ pc[i] = "ended"
    BY DEF ListedCardsAreTried
  <2>1. Len(names) \in Nat /\ Len(names) <= MaxGpus /\ i \in Miners /\ names # <<>>
    BY DEF SerialInv, LaunchInv, TypeOK, LaunchTypeOK, Miners
  <2>2. spawned = Len(names) /\ \A m \in Miners : Created(m) => pc[m] = "ended"
    BY <2>1 DEF SerialInv, LaunchInv
  <2> QED BY <2>1, <2>2 DEF Created
<1> QED BY <1>1, SerialInvariant, PTL

\* While no byte was lost a nonce is one answer of the card.
THEOREM NoncesAreAnswers == Spec => []NoncesAreWhole
<1>1. SerialInv => NoncesAreWhole
  BY DEF SerialInv, NoncesInv, NoncesAreWhole
<1> QED BY <1>1, SerialInvariant, PTL

\* A card with one user searches whole headers of that user, as long as no word was lost.
THEOREM HeadersAreOneMiners == Spec => []HeadersAreWhole
<1>1. SerialInv => HeadersAreWhole
  BY DEF SerialInv, HeadersInv, HeaderOf, HeadersAreWhole, TypeOK, CardTypeOK
<1> QED BY <1>1, SerialInvariant, PTL

-----------------------------------------------------------------------------
(* Something to wait for.                                                  *)

\* Windows: who has opened the handle that is open on a device still has it or is
\* about to set it up.
OpenedBy ==
  \A h \in Handles : openOn[h] # 0 =>
    \E k \in Miners : NameOf(k) = openOn[h] /\ pc[k] \in {"state"} \cup Mining

\* Windows: no other miner is named for m's device, nor writes to it behind a value
\* of the table that Windows has given out again.
Unshared(m) ==
  \A k \in Miners \ {m} :
    NameOf(k) # NameOf(m) /\ (pc[k] \in Mining => TalksTo(k) # NameOf(m))

\* Such a device is untouched until m mines, and then m and it agree on the words.
WordsOf(m) ==
  NameOf(m) \in Devices \ upset /\ Unshared(m) =>
    /\ pc[m] \in {"start", "close", "create", "state"} => card[NameOf(m)].words = 0
    /\ pc[m] \in Mining /\ TalksTo(m) = NameOf(m) => word[m] = card[NameOf(m)].words + 1

WaitInv ==
  /\ build = "windows" => OpenedBy /\ \A m \in Miners : WordsOf(m)
  /\ WaitsForItsCard

\* A miner that is alone on a card.
Sole(m) == pc[m] \in Mining /\ TalksTo(m) \in Devices /\ Alone(m)

\* What no step changes: a miner that mines goes on with what openserial() gave it, and
\* the names are fixed when the first thread is created.
LEMMA MinersGoOn ==
  ASSUME TypeOK, LaunchInv, [Next]_vars
  PROVE  /\ build' = build
         /\ \A k \in Miners : pc[k] \in Mining => pc'[k] \in Mining /\ devfd'[k] = devfd[k]
         /\ names' = names \/ (spawned = 0 /\ UNCHANGED <<portVars, minerVars, card, history>>)
<1>1. ASSUME NEW m \in Miners, Miner(m)
      PROVE  /\ build' = build /\ names' = names
             /\ \A k \in Miners : pc[k] \in Mining => pc'[k] \in Mining /\ devfd'[k] = devfd[k]
  <2>1. CASE WriteWord(m) \/ Poll(m) \/ Restart(m)
    BY <2>1 DEF WriteWord, Poll, Restart, Steps, NextWord, Goes, Mining, TypeOK, MinerTypeOK,
                launchVars
  <2>2. CASE StoreFd(m) \/ TestFd(m) \/ Flush(m) \/ SetLine(m) \/ ReturnFd(m)
    BY <2>2 DEF StoreFd, TestFd, Flush, SetLine, ReturnFd, Steps, Goes, Mining, TypeOK, MinerTypeOK,
                launchVars
  <2>3. CASE FindIt(m) \/ CloseOld(m) \/ Create(m) \/ SetState(m)
    BY <2>3 DEF FindIt, CloseOld, Create, SetState, Steps, Goes, Mining, TypeOK, MinerTypeOK,
                launchVars
  <2> QED BY <1>1, <2>1, <2>2, <2>3 DEF Miner
<1>2. CASE Main
  <2>1. UNCHANGED <<build, portVars, minerVars, card, history>>
    BY <1>2 DEF Main
  <2>2. names' = names \/ spawned = 0
    BY <1>2 DEF Main, LaunchNext, Scan, DeviceList, DeviceNumber, TextOption, Checks, Client, Spawn,
                Join, Runs, LaunchInv
  <2> QED BY <2>1, <2>2 DEF minerVars
<1>3. CASE CardStep \/ UNCHANGED vars
  BY <1>3 DEF CardStep, Answer, Arrive, vars, launchVars, minerVars
<1> QED BY <1>1, <1>2, <1>3 DEF Next, CardStep

\* The steps of opening a port, as the handles see them.
LEMMA TableMoves ==
  ASSUME TypeOK, WindowsInv, NEW j \in Miners, CloseOld(j) \/ Create(j) \/ SetState(j)
  PROVE  LET i == devfd[j] IN
         /\ build = "windows" /\ UNCHANGED <<names, ports, devfd, word, card, upset>>
         /\ i \in DOMAIN ports
         /\ \/ UNCHANGED <<handle, openOn>>
            \/ /\ handle' \in {handle, [handle EXCEPT ![i] = NoHandle]}
               /\ \A h \in Handles : openOn'[h] = IF h = handle[i] THEN 0 ELSE openOn[h]
            \/ /\ handle[i] = NoHandle /\ pc'[j] = "state"
               /\ \E h \in Handles : /\ openOn[h] = 0
                                     /\ openOn' = [openOn EXCEPT ![h] = NameOf(j)]
                                     /\ handle' = [handle EXCEPT ![i] = h]
<1> DEFINE i == devfd[j]
<1>1. /\ build = "windows" /\ pc[j] \in {"close", "create", "state"}
      /\ UNCHANGED <<names, ports, devfd, word, card, upset>>
  BY DEF CloseOld, Create, SetState, CloseEntry, CreateOn, CloseKeepsValue, Steps, launchVars,
         portVars, history
<1>2. WindowsOf(j)
  BY <1>1 DEF WindowsInv
<1>3. i \in DOMAIN ports /\ ports[i] = NameOf(j) /\ handle[i] \in Handles \cup {NoHandle}
  BY <1>1, <1>2 DEF WindowsOf, FirstOf, Entries, TypeOK, PortTypeOK
<1>4. CASE CloseOld(j)
  <2>1. /\ handle' = [handle EXCEPT ![i] = NoHandle]
        /\ \A h \in Handles : openOn'[h] = IF h = handle[i] THEN 0 ELSE openOn[h]
    BY <1>3, <1>4 DEF CloseOld, CloseEntry, TypeOK, PortTypeOK, NoHandle
  <2> QED BY <1>1, <1>3, <2>1
<1>5. CASE Create(j)
  <2>1. CASE CreateOn(i) /\ Goes(j, "state")
    <3>1. pc'[j] = "state" /\ handle[i] = NoHandle
      BY <1>2, <1>5, <2>1 DEF Goes, TypeOK, MinerTypeOK, WindowsOf, Create, Steps
    <3>2. \E h \in Handles : /\ openOn[h] = 0
                             /\ openOn' = [openOn EXCEPT ![h] = NameOf(j)]
                             /\ handle' = [handle EXCEPT ![i] = h]
      BY <1>3, <2>1 DEF CreateOn
    <3> QED BY <1>1, <1>3, <3>1, <3>2
  <2>2. CASE UNCHANGED portVars
    BY <1>1, <1>3, <2>2 DEF portVars
  <2> QED BY <1>5, <2>1, <2>2 DEF Create
<1>6. CASE SetState(j)
  <2>1. CASE UNCHANGED portVars
    BY <1>1, <1>3, <2>1 DEF portVars
  <2>2. CASE CloseKeepsValue(i)
    <3>1. handle[i] \in Handles
      BY <1>2, <1>6 DEF WindowsOf, SetState, Steps
    <3>2. handle' = handle /\ \A h \in Handles : openOn'[h] = IF h = handle[i] THEN 0 ELSE openOn[h]
      BY <2>2, <3>1 DEF CloseKeepsValue, TypeOK, PortTypeOK
    <3> QED BY <1>1, <1>3, <3>2
  <2> QED BY <1>6, <2>1, <2>2 DEF SetState
<1> QED BY <1>4, <1>5, <1>6

\* The other steps leave the table of ports alone.
LEMMA TableStays ==
  ASSUME [Next]_vars, \A j \in Miners : ~(CloseOld(j) \/ Create(j) \/ SetState(j))
  PROVE  UNCHANGED <<ports, handle, openOn>>
<1>1. ASSUME NEW j \in Miners, Miner(j)
      PROVE  UNCHANGED portVars
  BY <1>1 DEF Miner, StoreFd, TestFd, Flush, SetLine, ReturnFd, FindIt, WriteWord, Poll, Restart
<1>2. CASE Main \/ CardStep \/ UNCHANGED vars
  BY <1>2 DEF Main, CardStep, Answer, Arrive, vars, portVars
<1> QED BY <1>1, <1>2 DEF Next, CardStep, portVars

\* One handle at a time is open on a device.
LEMMA OneHandle ==
  ASSUME TypeOK, WindowsInv, build = "windows",
         NEW g \in Handles, NEW h \in Handles, openOn[g] # 0, openOn[g] = openOn[h]
  PROVE  g = h
<1>1. PICK i \in DOMAIN ports : FirstOf(openOn[g], i) /\ handle[i] = g
  BY DEF WindowsInv, TableInv
<1>2. PICK j \in DOMAIN ports : FirstOf(openOn[h], j) /\ handle[j] = h
  BY DEF WindowsInv, TableInv
<1>3. i = j
  BY <1>1, <1>2, FirstUnique
<1> QED BY <1>1, <1>2, <1>3

\* Windows: a miner that reaches a device after a step, and is alone in being named for
\* it, has reached it before; and whoever else reached it reaches it still.
LEMMA ReachedBefore ==
  ASSUME TypeOK, LaunchInv, WindowsInv, [Next]_vars, build = "windows", names' = names,
         NEW m \in Miners, pc[m] \in Mining, NEW d \in Devices, TalksTo(m)' = d,
         \A k \in Miners \ {m} : NameOf(k) # d
  PROVE  /\ TalksTo(m) = d
         /\ \A k \in Miners : pc[k] \in Mining /\ TalksTo(k) = d => TalksTo(k)' = d
<1>0. d # 0 /\ NoHandle \notin Handles
  BY DEF NoHandle
<1>1. build' = "windows" /\ \A k \in Miners : pc[k] \in Mining => devfd'[k] = devfd[k]
  BY MinersGoOn
<1>2. ASSUME NEW k \in Miners, pc[k] \in Mining
      PROVE  devfd[k] \in DOMAIN ports /\ handle[devfd[k]] \in Handles \cup {NoHandle}
  BY <1>2 DEF WindowsInv, WindowsOf, FirstOf, Entries, TypeOK, PortTypeOK
<1>3. ASSUME NEW k \in Miners, pc[k] \in Mining
      PROVE  /\ TalksTo(k) = IF handle[devfd[k]] = NoHandle THEN 0 ELSE openOn[handle[devfd[k]]]
             /\ TalksTo(k)' = IF handle'[devfd[k]] = NoHandle THEN 0 ELSE openOn'[handle'[devfd[k]]]
  BY <1>1, <1>3 DEF TalksTo, Reached
<1>4. CASE \A j \in Miners : ~(CloseOld(j) \/ Create(j) \/ SetState(j))
  <2>1. UNCHANGED <<handle, openOn>>
    BY <1>4, TableStays
  <2> QED BY <1>3, <2>1
<1>5. ASSUME NEW j \in Miners, CloseOld(j) \/ Create(j) \/ SetState(j)
      PROVE  /\ TalksTo(m) = d
             /\ \A k \in Miners : pc[k] \in Mining /\ TalksTo(k) = d => TalksTo(k)' = d
  <2> DEFINE i == devfd[j]
             h == handle'[devfd[m]]
  <2>1. i \in DOMAIN ports /\ handle \in [DOMAIN ports -> Handles \cup {NoHandle}]
        /\ openOn \in [Handles -> Nat]
    BY <1>5, TableMoves DEF TypeOK, PortTypeOK
  <2>2. h # NoHandle /\ openOn'[h] = d /\ m # j
    BY <1>0, <1>3, <1>5 DEF CloseOld, Create, SetState, Steps, Mining
  <2>3. CASE UNCHANGED <<handle, openOn>>
    BY <1>3, <2>3
  <2>4. CASE /\ handle' \in {handle, [handle EXCEPT ![i] = NoHandle]}
             /\ \A g \in Handles : openOn'[g] = IF g = handle[i] THEN 0 ELSE openOn[g]
    <3>1. h = handle[devfd[m]] /\ h \in Handles
      BY <1>2, <2>1, <2>2, <2>4
    <3>2. h # handle[i] /\ openOn[h] = d
      BY <1>0, <2>2, <2>4, <3>1
    <3>3. TalksTo(m) = d
      BY <1>3, <2>2, <3>1, <3>2
    <3>4. ASSUME NEW k \in Miners, pc[k] \in Mining, TalksTo(k) = d
          PROVE  TalksTo(k)' = d
      <4>1. handle[devfd[k]] \in Handles /\ openOn[handle[devfd[k]]] = d
        BY <1>0, <1>2, <1>3, <3>4
      <4>2. handle[devfd[k]] = h
        BY <1>0, <3>1, <3>2, <4>1, OneHandle
      <4>3. devfd[k] # i /\ handle'[devfd[k]] = h
        BY <1>2, <2>1, <2>4, <3>2, <3>4, <4>2
      <4> QED BY <1>3, <2>2, <3>4, <4>3
    <3> QED BY <3>3, <3>4
  <2>5. CASE /\ handle[i] = NoHandle
             /\ \E g \in Handles : /\ openOn[g] = 0
                                   /\ openOn' = [openOn EXCEPT ![g] = NameOf(j)]
                                   /\ handle' = [handle EXCEPT ![i] = g]
    <3>1. PICK g \in Handles : /\ openOn[g] = 0
                               /\ openOn' = [openOn EXCEPT ![g] = NameOf(j)]
                               /\ handle' = [handle EXCEPT ![i] = g]
      BY <2>5
    <3>2. NameOf(j) # d
      BY <2>2
    <3>3. openOn'[g] = NameOf(j) /\ handle'[i] = g /\ \A f \in Handles \ {g} : openOn'[f] = openOn[f]
      BY <2>1, <3>1
    <3>4. devfd[m] # i /\ h = handle[devfd[m]]
      BY <1>2, <2>1, <2>2, <3>1, <3>2, <3>3
    <3>5. h \in Handles /\ h # g /\ openOn[h] = d
      BY <1>2, <2>2, <3>2, <3>3, <3>4
    <3>6. TalksTo(m) = d
      BY <1>3, <2>2, <3>4, <3>5
    <3>7. ASSUME NEW k \in Miners, pc[k] \in Mining, TalksTo(k) = d
          PROVE  TalksTo(k)' = d
      <4>1. handle[devfd[k]] \in Handles /\ openOn[handle[devfd[k]]] = d
        BY <1>0, <1>2, <1>3, <3>7
      <4>2. handle[devfd[k]] = h
        BY <1>0, <3>5, <4>1, OneHandle
      <4>3. devfd[k] # i
        BY <1>0, <2>5, <4>1
      <4>4. handle'[devfd[k]] = h
        BY <1>2, <2>1, <3>1, <3>7, <4>2, <4>3
      <4> QED BY <1>3, <2>2, <3>7, <4>4
    <3> QED BY <3>6, <3>7
  <2> QED BY <1>5, <2>3, <2>4, <2>5, TableMoves
<1> QED BY <1>4, <1>5

\* A miner that is alone on a card after a step has been before.
LEMMA SoleBefore ==
  ASSUME TypeOK, LaunchInv, WindowsInv, [Next]_vars, NEW m \in Miners, pc[m] \in Mining, Sole(m)'
  PROVE  Sole(m) /\ TalksTo(m)' = TalksTo(m)
<1>1. /\ build' = build
      /\ \A k \in Miners : pc[k] \in Mining => pc'[k] \in Mining /\ devfd'[k] = devfd[k]
  BY MinersGoOn
<1>2. names' = names
  <2>1. spawned # 0
    BY DEF LaunchInv, Created, Mining, TypeOK, LaunchTypeOK, Miners
  <2> QED BY <2>1, MinersGoOn
<1>3. PICK d \in Devices : TalksTo(m)' = d
  BY DEF Sole
<1>4. \A k \in Miners \ {m} : NameOf(k) # d /\ (pc'[k] \in Mining => TalksTo(k)' # d)
  BY <1>2, <1>3, NamesStay DEF Sole, Alone
<1>5. /\ TalksTo(m) = d
      /\ \A k \in Miners : pc[k] \in Mining /\ TalksTo(k) = d => TalksTo(k)' = d
  <2>1. CASE build = "linux"
    BY <1>1, <1>3, <2>1 DEF TalksTo
  <2>2. CASE build = "windows"
    BY <1>2, <1>3, <1>4, <2>2, ReachedBefore
  <2> QED BY <2>1, <2>2 DEF TypeOK, MinerTypeOK
<1> QED BY <1>1, <1>3, <1>4, <1>5 DEF Sole, Alone

\* What a card takes with a word, whoever wrote it.
LEMMA TakesOne ==
  ASSUME TypeOK, NEW m \in Miners, NEW d \in Devices, Takes(d, m)
  PROVE  LET full == card[d].words + 1 = HeaderWords IN
         /\ card'[d].words = (IF full THEN 0 ELSE card[d].words + 1)
         /\ full => card'[d].due = Repeats
<1> DEFINE c == card[d]
           clean == word[m] = c.words + 1 /\ (c.words = 0 \/ c.by = m)
           full == c.words + 1 = HeaderWords
           w == IF full THEN 0 ELSE c.words + 1
           b == IF clean /\ ~full THEN m ELSE 0
           n == IF full THEN Repeats ELSE c.due
<1>1. card' = [card EXCEPT ![d] = [c EXCEPT !.words = w, !.by = b, !.due = n]]
  BY Zenon DEF Takes
<1>2. c \in Cards
  BY DEF TypeOK, CardTypeOK
<1>3. card'[d].words = w /\ card'[d].due = n
  <2> HIDE DEF c, w, b, n
  <2> QED BY <1>1, <1>2 DEF TypeOK, CardTypeOK, Cards
<1> QED BY <1>3

\* Only a word changes how far a header has come.
LEMMA OnlyWords ==
  ASSUME TypeOK, [Next]_vars, \A j \in Miners : ~WriteWord(j), NEW d \in Devices
  PROVE  word' = word /\ card'[d].words = card[d].words
<1>1. card \in [Devices -> Cards] /\ card[d] \in Cards
  BY DEF TypeOK, CardTypeOK
<1>2. ASSUME NEW j \in Miners, Miner(j)
      PROVE  word' = word /\ card'[d].words = card[d].words
  <2>1. CASE UNCHANGED <<word, card>>
    BY <2>1
  <2>2. CASE Flush(j) /\ fd \in Devices
    <3>1. word' = word /\ card' = [card EXCEPT ![fd].unread = 0]
      BY <2>2 DEF Flush
    <3> QED BY <1>1, <2>2, <3>1 DEF Cards
  <2>3. CASE Poll(j)
    <3>1. word' = word /\ \E e \in Devices : \E u : card' = [card EXCEPT ![e].unread = u]
      BY <2>3 DEF Poll
    <3> QED BY <1>1, <3>1 DEF Cards
  <2> QED BY <1>2, <2>1, <2>2, <2>3
       DEF Miner, StoreFd, TestFd, Flush, SetLine, ReturnFd, FindIt, CloseOld, Create, SetState, Restart
<1>3. CASE CardStep
  <2>1. word' = word
    BY <1>3 DEF CardStep, Answer, Arrive, minerVars
  <2>2. ASSUME NEW e \in Devices, Answer(e) PROVE card'[d].words = card[d].words
    <3>1. PICK n : card' = [card EXCEPT ![e].left = 4, ![e].due = n]
      BY <2>2 DEF Answer
    <3> QED BY <1>1, <3>1 DEF Cards
  <2>3. ASSUME NEW e \in Devices, Arrive(e) PROVE card'[d].words = card[d].words
    <3>1. PICK u, l : card' = [card EXCEPT ![e].unread = u, ![e].left = l]
      BY <2>3 DEF Arrive
    <3> QED BY <1>1, <3>1 DEF Cards
  <2> QED BY <1>3, <2>1, <2>2, <2>3 DEF CardStep
<1>4. CASE Main \/ UNCHANGED vars
  BY <1>4 DEF Main, vars, minerVars
<1> QED BY <1>2, <1>3, <1>4 DEF Next, CardStep

\* A word moves the count of the card it goes to and of the miner that writes it.
LEMMA OneWord ==
  ASSUME TypeOK, NEW j \in Miners, WriteWord(j), NEW d \in Devices, d \notin upset'
  PROVE  /\ pc[j] = "write" /\ \A k \in Miners \ {j} : word'[k] = word[k] /\ pc'[k] = pc[k]
         /\ TalksTo(j) # d => card'[d] = card[d]
         /\ TalksTo(j) = d /\ word[j] = card[d].words + 1 =>
              /\ word'[j] = card'[d].words + 1
              /\ pc'[j] = "poll" => card'[d].due = Repeats
<1>1. pc[j] = "write"
  BY DEF WriteWord, Steps
<1>2. CASE UNCHANGED <<pc, word, card>>
  BY <1>1, <1>2
<1>3. ASSUME NEW t, t = TalksTo(j), NextWord(j),
             \/ t \in Devices /\ Takes(t, j)
             \/ upset' = upset \cup ({t} \cap Devices) /\ UNCHANGED card
      PROVE  /\ \A k \in Miners \ {j} : word'[k] = word[k] /\ pc'[k] = pc[k]
             /\ t # d => card'[d] = card[d]
             /\ t = d /\ word[j] = card[d].words + 1 =>
                  /\ word'[j] = card'[d].words + 1
                  /\ pc'[j] = "poll" => card'[d].due = Repeats
  <2>1. /\ word'[j] = IF word[j] = HeaderWords THEN 1 ELSE word[j] + 1
        /\ pc'[j] = IF word[j] = HeaderWords THEN "poll" ELSE "write"
        /\ \A k \in Miners \ {j} : word'[k] = word[k] /\ pc'[k] = pc[k]
    BY <1>3 DEF NextWord, Goes, TypeOK, MinerTypeOK
  <2>2. CASE t \in Devices /\ Takes(t, j)
    <3>1. t # d => card'[d] = card[d]
      BY <2>2, TakesOther
    <3>2. ASSUME t = d, word[j] = card[d].words + 1
          PROVE  /\ word'[j] = card'[d].words + 1
                 /\ pc'[j] = "poll" => card'[d].due = Repeats
      <4>1. /\ card'[d].words = (IF word[j] = HeaderWords THEN 0 ELSE word[j])
            /\ word[j] = HeaderWords => card'[d].due = Repeats
        BY <2>2, <3>2, TakesOne
      <4> QED BY <2>1, <4>1
    <3> QED BY <2>1, <3>1, <3>2
  <2>3. CASE upset' = upset \cup ({t} \cap Devices) /\ UNCHANGED card
    BY <2>1, <2>3
  <2> QED BY <1>3, <2>2, <2>3
<1> QED BY <1>1, <1>2, <1>3 DEF WriteWord

\* A handle is open only for a miner that has not lost it.
LEMMA OpenedStep ==
  ASSUME TypeOK, LaunchInv, WindowsInv, build = "windows", OpenedBy, [Next]_vars
  PROVE  OpenedBy'
<1> SUFFICES ASSUME NEW h \in Handles, openOn'[h] # 0
             PROVE  \E k \in Miners : NameOf(k)' = openOn'[h] /\ pc'[k] \in {"state"} \cup Mining
  BY DEF OpenedBy
<1>1. CASE names' # names
  <2>1. spawned = 0 /\ UNCHANGED <<openOn, pc>>
    BY <1>1, MinersGoOn DEF portVars, minerVars
  <2>2. PICK i \in DOMAIN ports : handle[i] = h
    BY <2>1 DEF WindowsInv, TableInv
  <2> QED BY <2>1, <2>2 DEF WindowsInv, NoHandle
<1> SUFFICES ASSUME names' = names
             PROVE  \E k \in Miners : NameOf(k) = openOn'[h] /\ pc'[k] \in {"state"} \cup Mining
  BY <1>1, NamesStay
<1>2. CASE \A j \in Miners : ~(CloseOld(j) \/ Create(j) \/ SetState(j))
  <2>1. openOn' = openOn
    BY <1>2, TableStays
  <2>2. PICK k \in Miners : NameOf(k) = openOn[h] /\ pc[k] \in {"state"} \cup Mining
    BY <2>1 DEF OpenedBy
  <2>3. pc'[k] \in {"state"} \cup Mining
    <3>1. CASE pc[k] \in Mining
      BY <3>1, MinersGoOn
    <3>2. CASE pc[k] = "state"
      <4>1. ASSUME NEW j \in Miners, Miner(j) PROVE pc'[k] = pc[k]
        BY <1>2, <3>2, <4>1 DEF Miner, StoreFd, TestFd, Flush, SetLine, ReturnFd, FindIt, WriteWord,
             Poll, Restart, Steps, NextWord, Goes, TypeOK, MinerTypeOK
      <4>2. Main \/ CardStep \/ UNCHANGED vars => pc' = pc
        BY DEF Main, CardStep, Answer, Arrive, vars, minerVars
      <4>3. pc'[k] = pc[k]
        BY <4>1, <4>2 DEF Next, CardStep
      <4> QED BY <3>2, <4>3
    <3> QED BY <2>2, <3>1, <3>2
  <2> QED BY <2>1, <2>2, <2>3
<1>3. ASSUME NEW j \in Miners, CloseOld(j) \/ Create(j) \/ SetState(j)
      PROVE  \E k \in Miners : NameOf(k) = openOn'[h] /\ pc'[k] \in {"state"} \cup Mining
  <2>1. \A k \in Miners \ {j} : pc'[k] = pc[k]
    BY <1>3, GoesElsewhere DEF CloseOld, Create, SetState
  <2>2. pc[j] \in {"close", "create", "state"}
    BY <1>3 DEF CloseOld, Create, SetState, Steps
  <2>3. openOn \in [Handles -> Nat]
    BY DEF TypeOK, PortTypeOK
  <2>4. CASE openOn'[h] = openOn[h]
    <3>1. PICK k \in Miners : NameOf(k) = openOn[h] /\ pc[k] \in {"state"} \cup Mining
      BY <2>4 DEF OpenedBy
    <3>2. CASE k # j
      BY <2>1, <2>4, <3>1, <3>2
    <3>3. CASE k = j
      <4>1. pc[j] = "state" /\ SetState(j)
        BY <1>3, <2>2, <3>1, <3>3 DEF Mining, CloseOld, Create, Steps
      <4>2. handle[devfd[j]] \in Handles /\ openOn[handle[devfd[j]]] = NameOf(j)
        BY <4>1 DEF WindowsInv, WindowsOf
      <4>3. h = handle[devfd[j]]
        BY <2>4, <3>1, <3>3, <4>2, OneHandle
      <4>4. ~CloseKeepsValue(devfd[j])
        BY <2>3, <2>4, <4>2, <4>3 DEF CloseKeepsValue
      <4>5. pc'[j] = "write"
        BY <4>1, <4>4 DEF SetState, Goes, TypeOK, MinerTypeOK
      <4> QED BY <2>4, <3>1, <3>3, <4>5 DEF Mining
    <3> QED BY <3>2, <3>3
  <2>5. CASE openOn'[h] # openOn[h]
    <3>1. pc'[j] = "state" /\ \E g \in Handles : openOn' = [openOn EXCEPT ![g] = NameOf(j)]
      BY <1>3, <2>5, TableMoves
    <3>2. openOn'[h] = NameOf(j)
      BY <2>3, <2>5, <3>1
    <3> QED BY <3>1, <3>2
  <2> QED BY <2>4, <2>5
<1> QED BY <1>2, <1>3

\* Before it mines nobody else has begun to write to the device of an unshared miner.
LEMMA WordsStep ==
  ASSUME TypeOK, LaunchInv, WindowsInv, HeadersInv, build = "windows", OpenedBy,
         [Next]_vars, NEW m \in Miners, WordsOf(m)
  PROVE  WordsOf(m)'
<1>1. CASE names' # names
  <2>1. spawned = 0 /\ UNCHANGED <<pc, word, card, upset>>
    BY <1>1, MinersGoOn DEF minerVars, history
  <2>2. pc[m] = "start" /\ \A d \in Devices \ upset : card[d].words = 0
    BY <2>1 DEF LaunchInv, Created, Miners, HeadersInv
  <2> QED BY <2>1, <2>2 DEF WordsOf, Mining
<1> DEFINE d == NameOf(m)
<1> SUFFICES ASSUME names' = names, d \in Devices, d \notin upset',
                    \A k \in Miners \ {m} :
                      NameOf(k) # d /\ (pc'[k] \in Mining => TalksTo(k)' # d)
             PROVE  /\ pc'[m] \in {"start", "close", "create", "state"} => card'[d].words = 0
                    /\ pc'[m] \in Mining /\ TalksTo(m)' = d => word'[m] = card'[d].words + 1
  BY <1>1, NamesStay DEF WordsOf, Unshared
<1>2. d \notin upset
  BY DEF Next, Main, Miner, StoreFd, TestFd, Flush, SetLine, ReturnFd, FindIt, CloseOld, Create,
         SetState, WriteWord, Poll, Restart, Answer, Arrive, vars, history
<1>3. \A k \in Miners : pc[k] \in Mining => pc'[k] \in Mining
  BY MinersGoOn
<1>4. ASSUME \A k \in Miners \ {m} : pc[k] \in Mining => TalksTo(k) # d
      PROVE  /\ pc[m] \in {"start", "close", "create", "state"} =>
                  card[d].words = 0 /\ card'[d].words = 0
             /\ pc[m] \in Mining /\ TalksTo(m) = d =>
                  word[m] = card[d].words + 1 /\ word'[m] = card'[d].words + 1
  <2>1. /\ pc[m] \in {"start", "close", "create", "state"} => card[d].words = 0
        /\ pc[m] \in Mining /\ TalksTo(m) = d => word[m] = card[d].words + 1
    BY <1>2, <1>4 DEF WordsOf, Unshared
  <2>2. CASE \A j \in Miners : ~WriteWord(j)
    BY <2>1, <2>2, OnlyWords
  <2>3. ASSUME NEW j \in Miners, WriteWord(j)
        PROVE  /\ pc[m] \in {"start", "close", "create", "state"} => card'[d].words = 0
               /\ pc[m] \in Mining /\ TalksTo(m) = d => word'[m] = card'[d].words + 1
    <3>1. pc[j] = "write" /\ \A k \in Miners \ {j} : word'[k] = word[k]
      BY <2>3, OneWord
    <3>2. CASE j = m
      BY <2>1, <2>3, <3>1, <3>2, OneWord
    <3>3. CASE j # m
      <4>1. TalksTo(j) # d
        BY <1>4, <3>1, <3>3 DEF Mining
      <4>2. card'[d] = card[d]
        BY <2>3, <4>1, OneWord
      <4> QED BY <2>1, <3>1, <3>3, <4>2
    <3> QED BY <3>2, <3>3
  <2> QED BY <2>1, <2>2, <2>3
<1>5. CASE pc[m] \in {"start", "close", "create"}
  <2>1. \A h \in Handles : openOn[h] # d
    BY <1>5 DEF OpenedBy, Mining
  <2>2. \A k \in Miners : pc[k] \in Mining => TalksTo(k) # d
    <3> SUFFICES ASSUME NEW k \in Miners, pc[k] \in Mining PROVE TalksTo(k) # d
      OBVIOUS
    <3>1. handle[devfd[k]] \in Handles \cup {NoHandle}
      BY DEF WindowsInv, WindowsOf, FirstOf, Entries, TypeOK, PortTypeOK
    <3> QED BY <2>1, <3>1 DEF TalksTo, Reached
  <2>3. pc'[m] \notin Mining
    <3>1. ASSUME NEW j \in Miners, Miner(j) PROVE pc'[m] \notin Mining
      BY <1>5, <3>1 DEF Miner, StoreFd, TestFd, Flush, SetLine, ReturnFd, FindIt, CloseOld, Create,
           SetState, WriteWord, Poll, Restart, Steps, NextWord, Goes, TypeOK, MinerTypeOK, Mining
    <3>2. CASE Main \/ CardStep \/ UNCHANGED vars
      BY <1>5, <3>2 DEF Main, CardStep, Answer, Arrive, vars, minerVars, Mining
    <3> QED BY <3>1, <3>2 DEF Next, CardStep
  <2> QED BY <1>4, <1>5, <2>2, <2>3
<1>6. CASE pc[m] = "state"
  <2>1. CASE \A j \in Miners : ~(CloseOld(j) \/ Create(j) \/ SetState(j))
    <3>1. UNCHANGED <<handle, openOn>> /\ build' = build
          /\ \A k \in Miners : pc[k] \in Mining => devfd'[k] = devfd[k]
      BY <2>1, TableStays, MinersGoOn
    <3>2. \A k \in Miners \ {m} : pc[k] \in Mining => TalksTo(k) # d
      BY <1>3, <3>1 DEF TalksTo, Reached
    <3>3. pc'[m] \notin Mining
      <4>1. ASSUME NEW j \in Miners, Miner(j) PROVE pc'[m] \notin Mining
        BY <1>6, <2>1, <4>1 DEF Miner, StoreFd, TestFd, Flush, SetLine, ReturnFd, FindIt,
             WriteWord, Poll, Restart, Steps, NextWord, Goes, TypeOK, MinerTypeOK, Mining
      <4>2. CASE Main \/ CardStep \/ UNCHANGED vars
        BY <1>6, <4>2 DEF Main, CardStep, Answer, Arrive, vars, minerVars, Mining
      <4> QED BY <4>1, <4>2 DEF Next, CardStep
    <3> QED BY <1>4, <1>6, <3>2, <3>3
  <2>2. ASSUME NEW j \in Miners, CloseOld(j) \/ Create(j) \/ SetState(j)
        PROVE  /\ pc'[m] \in {"start", "close", "create", "state"} => card'[d].words = 0
               /\ pc'[m] \in Mining /\ TalksTo(m)' = d => word'[m] = card'[d].words + 1
    <3>1. j = m
      BY <1>6, <2>2, OthersOutside DEF CloseOld, Create, SetState, Steps
    <3>2. SetState(m)
      BY <1>6, <2>2, <3>1 DEF CloseOld, Create, Steps
    <3>3. CASE Goes(m, "ended")
      BY <3>3 DEF Goes, TypeOK, MinerTypeOK, Mining
    <3>4. CASE Goes(m, "write") /\ UNCHANGED portVars
      <4>1. UNCHANGED <<build, devfd, handle, openOn, word, card>>
        BY <3>2, <3>4 DEF SetState, portVars
      <4>2. \A k \in Miners \ {m} : pc[k] \in Mining => TalksTo(k) # d
        BY <1>3, <4>1 DEF TalksTo, Reached
      <4>3. card[d].words = 0 /\ word[m] = 1
        BY <1>4, <1>6, <4>2 DEF HeadersInv
      <4> QED BY <4>1, <4>3
    <3> QED BY <3>2, <3>3, <3>4 DEF SetState
  <2> QED BY <2>1, <2>2
<1>7. CASE pc[m] \in Mining
  <2>1. pc'[m] \in Mining
    BY <1>3, <1>7
  <2> SUFFICES ASSUME TalksTo(m)' = d PROVE word'[m] = card'[d].words + 1
    BY <2>1 DEF Mining
  <2>2. TalksTo(m) = d /\ \A k \in Miners : pc[k] \in Mining /\ TalksTo(k) = d => TalksTo(k)' = d
    BY <1>7, ReachedBefore
  <2> QED BY <1>3, <1>4, <1>7, <2>2
<1>8. CASE pc[m] \in Opening \cup {"ended"}
  <2>1. pc'[m] \in {"ended"} \cup Opening
    <3>1. ASSUME NEW j \in Miners, Miner(j) PROVE pc'[m] \in {"ended"} \cup Opening
      BY <1>8, <3>1 DEF Miner, StoreFd, TestFd, Flush, SetLine, ReturnFd, FindIt, CloseOld, Create,
           SetState, WriteWord, Poll, Restart, Steps, NextWord, Goes, TypeOK, MinerTypeOK, Opening
    <3>2. CASE Main \/ CardStep \/ UNCHANGED vars
      BY <1>8, <3>2 DEF Main, CardStep, Answer, Arrive, vars, minerVars
    <3> QED BY <3>1, <3>2 DEF Next, CardStep
  <2> QED BY <2>1 DEF Opening, Mining
<1> QED BY <1>5, <1>6, <1>7, <1>8 DEF TypeOK, MinerTypeOK

\* A miner that is alone on a card knows how many words the card has.
LEMMA SoleSynced ==
  ASSUME TypeOK, LinuxInv, WindowsInv, HeadersInv, WaitInv,
         NEW m \in Miners, Sole(m), NEW d \in Devices, d = TalksTo(m), d \notin upset
  PROVE  word[m] = card[d].words + 1
<1>1. CASE build = "linux"
  <2>1. devfd[m] = d /\ \A k \in Miners \ {m} : devfd[k] # d
    BY <1>1 DEF Sole, Alone, TalksTo, LinuxInv, LinuxOf, NoDevice
  <2>2. HeaderOf(d)
    BY <1>1, <2>1 DEF HeadersInv, Shared
  <2> QED BY <1>1, <2>1, <2>2 DEF HeaderOf, User
<1>2. CASE build = "windows"
  <2>1. PICK h \in Handles : openOn[h] = d
    <3>1. handle[devfd[m]] \in Handles \cup {NoHandle}
      BY <1>2 DEF Sole, WindowsInv, WindowsOf, FirstOf, Entries, TypeOK, PortTypeOK
    <3> QED BY <1>2, <3>1 DEF TalksTo, Reached
  <2>2. NameOf(m) = d
    BY <1>2, <2>1 DEF WaitInv, OpenedBy, Sole, Alone
  <2> QED BY <1>2, <2>2 DEF WaitInv, WordsOf, Unshared, Sole, Alone
<1> QED BY <1>1, <1>2 DEF TypeOK, MinerTypeOK

\* A card that a miner polls keeps what it has to say until that miner reads it.
LEMMA WaitsStep ==
  ASSUME TypeOK, LaunchInv, LinuxInv, WindowsInv, HeadersInv, WaitInv, [Next]_vars, TypeOK'
  PROVE  WaitsForItsCard'
<1> SUFFICES ASSUME NEW m \in Miners, pc'[m] = "poll", NEW d \in Devices, d = TalksTo(m)',
                    d \notin upset', Alone(m)'
             PROVE  card'[d].due + card'[d].left + card'[d].unread > 0
  BY DEF WaitsForItsCard
<1> DEFINE Full(c) == c.due + c.left + c.unread > 0
<1>1. /\ card \in [Devices -> Cards] /\ card[d] \in Cards /\ card'[d] \in Cards
  BY DEF TypeOK, CardTypeOK
<1>2. \A c \in Cards : /\ c.due \in Nat /\ c.left \in Nat /\ c.unread \in Nat
                       /\ c.due > 0 \/ c.left > 0 \/ c.unread > 0 <=> Full(c)
  <2>1. \A c \in Cards : c.due \in Nat /\ c.left \in Nat /\ c.unread \in Nat
    BY CardFields
  <2>2. \A x, y, z \in Nat : x > 0 \/ y > 0 \/ z > 0 <=> x + y + z > 0
    OBVIOUS
  <2> QED BY <2>1, <2>2
<1>3. pc[m] \in Mining
  <2>1. ASSUME NEW j \in Miners, Miner(j) PROVE pc[m] \in Mining
    BY <2>1 DEF Miner, StoreFd, TestFd, Flush, SetLine, ReturnFd, FindIt, CloseOld, Create,
         SetState, WriteWord, Poll, Restart, Steps, NextWord, Goes, TypeOK, MinerTypeOK, Mining
  <2>2. CASE Main \/ CardStep \/ UNCHANGED vars
    BY <2>2 DEF Main, CardStep, Answer, Arrive, vars, minerVars, Mining
  <2> QED BY <2>1, <2>2 DEF Next, CardStep
<1>4. Sole(m) /\ TalksTo(m) = d
  <2>1. Sole(m)'
    BY DEF Sole, Mining
  <2> QED BY <1>3, <2>1, SoleBefore
<1>5. d \notin upset
  BY DEF Next, Main, Miner, StoreFd, TestFd, Flush, SetLine, ReturnFd, FindIt, CloseOld, Create,
         SetState, WriteWord, Poll, Restart, Answer, Arrive, vars, history
<1>6. word[m] = card[d].words + 1
  BY <1>4, <1>5, SoleSynced
<1>7. pc[m] = "poll" => Full(card[d])
  BY <1>4, <1>5 DEF WaitInv, WaitsForItsCard, Sole
<1>8. ASSUME NEW j \in Miners, WriteWord(j) PROVE Full(card'[d])
  <2>1. CASE j = m
    <3>1. card'[d].due = Repeats
      BY <1>4, <1>6, <1>8, <2>1, OneWord
    <3> QED BY <1>1, <1>2, <3>1
  <2>2. CASE j # m
    <3>1. pc[j] = "write" /\ pc'[m] = pc[m]
      BY <1>8, <2>2, OneWord
    <3>2. TalksTo(j) # d
      BY <1>4, <2>2, <3>1 DEF Sole, Alone, Mining
    <3>3. card'[d] = card[d]
      BY <1>8, <3>2, OneWord
    <3> QED BY <1>7, <3>1, <3>3
  <2> QED BY <2>1, <2>2
<1>9. CASE \A j \in Miners : ~WriteWord(j)
  <2>1. pc[m] = "poll"
    <3>1. ASSUME NEW j \in Miners, Miner(j) PROVE pc[m] = "poll"
      BY <1>9, <3>1 DEF Miner, StoreFd, TestFd, Flush, SetLine, ReturnFd, FindIt, CloseOld, Create,
           SetState, Poll, Restart, Steps, Goes, TypeOK, MinerTypeOK
    <3>2. CASE Main \/ CardStep \/ UNCHANGED vars
      BY <3>2 DEF Main, CardStep, Answer, Arrive, vars, minerVars
    <3> QED BY <3>1, <3>2 DEF Next, CardStep
  <2>2. Full(card[d])
    BY <1>7, <2>1
  <2>3. CASE card'[d] = card[d]
    BY <2>2, <2>3
  <2>4. ASSUME NEW j \in Miners, Flush(j) PROVE Full(card'[d])
    <3>1. CASE fd # d
      BY <1>1, <2>3, <2>4, <3>1 DEF Flush
    <3>2. CASE fd = d
      <4>1. devfd[m] = d
        BY <1>4, <2>4 DEF Flush, Steps, TalksTo
      <4>2. ~(card[d].unread > 0)
        BY <1>3, <2>4, <3>2, <4>1 DEF Flush
      <4>3. card'[d] = [card[d] EXCEPT !.unread = 0]
        BY <1>1, <2>4, <3>2 DEF Flush
      <4>4. card'[d].due = card[d].due /\ card'[d].left = card[d].left
        BY <1>1, <4>3 DEF Cards
      <4>5. card[d].due > 0 \/ card[d].left > 0
        BY <1>1, <1>2, <2>2, <4>2
      <4> QED BY <1>1, <1>2, <4>4, <4>5
    <3> QED BY <3>1, <3>2
  <2>5. ASSUME NEW j \in Miners, Poll(j) PROVE Full(card'[d])
    <3>1. pc[j] = "poll" /\ \E u : card' = [card EXCEPT ![TalksTo(j)].unread = u]
      BY <2>5 DEF Poll, Steps
    <3>2. j # m
      <4> SUFFICES ASSUME j = m PROVE FALSE
        OBVIOUS
      <4>1. pc'[m] = "write" \/ d \in upset'
        BY <1>4, <2>5 DEF Poll, Goes, TypeOK, MinerTypeOK
      <4> QED BY <4>1
    <3>3. TalksTo(j) # d
      BY <1>4, <3>1, <3>2 DEF Sole, Alone, Mining
    <3>4. card'[d] = card[d]
      BY <1>1, <3>1, <3>3
    <3> QED BY <2>3, <3>4
  <2>6. ASSUME NEW e \in Devices, Answer(e) PROVE Full(card'[d])
    <3>1. PICK n : card' = [card EXCEPT ![e].left = 4, ![e].due = n]
      BY <2>6 DEF Answer
    <3>2. CASE e # d
      BY <1>1, <2>3, <3>1, <3>2
    <3>3. CASE e = d
      <4>1. card'[d].left = 4
        BY <1>1, <3>1, <3>3 DEF Cards
      <4> QED BY <1>1, <1>2, <4>1
    <3> QED BY <3>2, <3>3
  <2>7. ASSUME NEW e \in Devices, Arrive(e) PROVE Full(card'[d])
    <3>1. PICK n \in Pieces : /\ n <= card[e].left
                              /\ card' = [card EXCEPT ![e].unread = @ + n, ![e].left = @ - n]
      BY <2>7 DEF Arrive
    <3>2. CASE e # d
      BY <1>1, <2>3, <3>1, <3>2
    <3>3. CASE e = d
      <4>1. card'[d].unread = card[d].unread + n
        BY <1>1, <3>1, <3>3 DEF Cards
      <4>2. \A u \in Nat, p \in Nat \ {0} : u + p > 0
        OBVIOUS
      <4>3. card'[d].unread > 0
        BY <1>1, <1>2, <4>1, <4>2
      <4> QED BY <1>1, <1>2, <4>3
    <3> QED BY <3>2, <3>3
  <2>8. \/ UNCHANGED card
        \/ \E j \in Miners : Flush(j) \/ Poll(j)
        \/ \E e \in Devices : Answer(e) \/ Arrive(e)
    <3>1. ASSUME NEW j \in Miners, Miner(j) PROVE UNCHANGED card \/ Flush(j) \/ Poll(j)
      BY <1>9, <3>1 DEF Miner, StoreFd, TestFd, SetLine, ReturnFd, FindIt, CloseOld, Create,
           SetState, Restart
    <3> QED BY <3>1 DEF Next, Main, vars
  <2> QED BY <2>3, <2>4, <2>5, <2>6, <2>7, <2>8
<1> QED BY <1>8, <1>9

LEMMA WaitInit == Init => WaitInv
<1> SUFFICES ASSUME Init PROVE WaitInv
  OBVIOUS
<1>1. \A m \in Miners : pc[m] = "start"
  BY DEF Init
<1>2. \A d \in Devices \ upset : card[d].words = 0
  BY SerialInit, MinersType DEF SerialInv, HeadersInv, Init, LaunchInit
<1>3. build = "windows" => OpenedBy
  BY DEF Init, PortsInit, OpenedBy
<1> QED BY <1>1, <1>2, <1>3 DEF WaitInv, WordsOf, WaitsForItsCard, Mining

LEMMA WaitStep == SerialInv /\ WaitInv /\ [Next]_vars => WaitInv'
<1> SUFFICES ASSUME SerialInv, WaitInv, [Next]_vars PROVE WaitInv'
  OBVIOUS
<1>1. SerialInv' /\ TypeOK'
  BY SerialStep DEF SerialInv
<1>2. build' = build
  BY MinersGoOn DEF SerialInv
<1>3. WaitsForItsCard'
  BY <1>1, WaitsStep DEF SerialInv
<1>4. build = "windows" => OpenedBy'
  BY OpenedStep DEF SerialInv, WaitInv
<1>5. build = "windows" => \A m \in Miners : WordsOf(m)'
  BY WordsStep DEF SerialInv, WaitInv
<1> QED BY <1>2, <1>3, <1>4, <1>5 DEF WaitInv

\* While no byte is lost a miner that is alone on its card never polls in vain: the card
\* owes it an answer, is sending one, or has sent it.
THEOREM PollersAreAnswered == Spec => []WaitsForItsCard
<1>1. SerialInv /\ [Next]_vars => SerialInv'
  BY SerialStep
<1>2. WaitInv => WaitsForItsCard
  BY DEF WaitInv
<1> QED BY <1>2, SerialInvariant, WaitInit, WaitStep, PTL DEF Spec
=============================================================================
