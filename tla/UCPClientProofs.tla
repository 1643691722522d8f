-------------------------- MODULE UCPClientProofs --------------------------
(***************************************************************************)
(* The safety properties of UCPClient, for every number of miners, of      *)
(* connections and of faults, and for any bounds on queues and retries.    *)
(***************************************************************************)
EXTENDS UCPClient, TLAPS, SequenceTheorems

-----------------------------------------------------------------------------
(* What the system calls do to the connections.                            *)

\* The kernel's clean-up keeps connections connections.
LEMMA SettleType ==
  ASSUME NEW cn \in [Conns -> ConnStates], NEW readers
  PROVE  Settle(cn, readers) \in [Conns -> ConnStates]
<1>1. FreeConn \in ConnStates
  BY EmptySeq DEF FreeConn, ConnStates, NetStates, Phases
<1>2. QED
  BY <1>1 DEF Settle

\* It touches no connection that is open, and leaves others free or as they are.
LEMMA SettleKeeps ==
  ASSUME NEW cn \in [Conns -> ConnStates], NEW readers, NEW c \in Conns
  PROVE  /\ cn[c].open => Settle(cn, readers)[c] = cn[c]
         /\ Settle(cn, readers)[c] \in {cn[c], FreeConn}
         /\ ~cn[c].open => ~Settle(cn, readers)[c].open
  BY DEF Settle, FreeConn

\* Taking messages off a queue leaves a queue of messages, each of which was there.
LEMMA TakenMessages ==
  ASSUME NEW q \in Seq(Msgs), NEW k \in 1..Len(q)
  PROVE  /\ SubSeq(q, k + 1, Len(q)) \in Seq(Msgs)
         /\ \A i \in 1..Len(SubSeq(q, k + 1, Len(q))) :
              \E j \in 1..Len(q) : SubSeq(q, k + 1, Len(q))[i] = q[j]
<1>1. Len(q) \in Nat /\ k \in Nat
  BY LenProperties
<1>2. \A i \in k + 1 .. Len(q) : q[i] \in Msgs
  BY ElementOfSeq, <1>1
<1>3. SubSeq(q, k + 1, Len(q)) \in Seq(Msgs)
  BY SubSeqProperties, <1>1, <1>2
<1>4. /\ Len(SubSeq(q, k + 1, Len(q))) = IF k + 1 <= Len(q) THEN Len(q) - k ELSE 0
      /\ \A i \in 1..Len(SubSeq(q, k + 1, Len(q))) :
           SubSeq(q, k + 1, Len(q))[i] = q[k + i]
  BY SubSeqProperties, <1>1, <1>2
<1>5. QED
  BY <1>1, <1>3, <1>4

\* No descriptor is opened or closed, and no subscription is lost.
Calm ==
  \A c \in Conns :
    /\ conn'[c].open = conn[c].open
    /\ conn[c].open /\ conn[c].phase = "subbed" => conn'[c].phase = "subbed"

\* Whatever a recv() returns, its thread no longer waits, and the rest holds.
LEMMA RecvEffect ==
  ASSUME LinkTypeOK, SubOkMeansSubscribed, NEW t \in Threads, NEW s,
         (\E m \in Msgs : RecvData(t, m)) \/ RecvEof(t) \/ RecvError(t, s)
  PROVE  /\ conn' \in [Conns -> ConnStates]
         /\ rd' = [rd EXCEPT ![t] = NoConn]
         /\ SubOkMeansSubscribed'
         /\ Calm
<1>. DEFINE gone == [rd EXCEPT ![t] = NoConn]
<1>. USE DEF LinkTypeOK
<1>1. ASSUME NEW cn \in [Conns -> ConnStates],
             \A c \in Conns : /\ cn[c].open = conn[c].open
                              /\ cn[c].phase = conn[c].phase
                              /\ \A i \in 1..Len(cn[c].inq) :
                                   \E j \in 1..Len(conn[c].inq) : cn[c].inq[i] = conn[c].inq[j],
             LeavesRecv(t, cn)
      PROVE  /\ conn' \in [Conns -> ConnStates]
             /\ rd' = [rd EXCEPT ![t] = NoConn]
             /\ SubOkMeansSubscribed'
             /\ Calm
  <2>1. conn' = Settle(cn, gone) /\ rd' = gone
    BY <1>1 DEF LeavesRecv
  <2>2. conn' \in [Conns -> ConnStates]
    BY <2>1, SettleType
  <2>3. \A c \in Conns : /\ cn[c].open => conn'[c] = cn[c]
                         /\ conn'[c] \in {cn[c], FreeConn}
                         /\ ~cn[c].open => ~conn'[c].open
    BY <2>1, SettleKeeps
  <2>4. SubOkMeansSubscribed'
    <3>1. SUFFICES ASSUME NEW c \in Conns, NEW i \in 1..Len(conn'[c].inq),
                          conn'[c].inq[i] = SUB_OK
                   PROVE  conn'[c].phase = "subbed"
      BY DEF SubOkMeansSubscribed
    <3>2. CASE conn'[c] = FreeConn
      BY <3>1, <3>2, EmptySeq DEF FreeConn
    <3>3. CASE conn'[c] = cn[c]
      <4>1. PICK j \in 1..Len(conn[c].inq) : cn[c].inq[i] = conn[c].inq[j]
        BY <1>1, <3>1, <3>3
      <4>2. conn[c].phase = "subbed"
        BY <3>1, <3>3, <4>1 DEF SubOkMeansSubscribed
      <4>3. QED
        BY <1>1, <3>3, <4>2
    <3>4. QED
      BY <2>3, <3>2, <3>3
  <2>5. ASSUME NEW c \in Conns
        PROVE  /\ conn'[c].open = conn[c].open
               /\ conn[c].open /\ conn[c].phase = "subbed" => conn'[c].phase = "subbed"
    <3>1. cn[c].open \in BOOLEAN /\ conn'[c].open \in BOOLEAN /\ conn[c].open \in BOOLEAN
      BY <2>2 DEF ConnStates
    <3>2. CASE cn[c].open
      BY <1>1, <2>3, <3>2
    <3>3. CASE ~cn[c].open
      BY <1>1, <2>3, <3>1, <3>3
    <3>4. QED
      BY <3>2, <3>3
  <2>6. QED
    BY <2>1, <2>2, <2>4, <2>5 DEF Calm
<1>2. ASSUME NEW m \in Msgs, RecvData(t, m)
      PROVE  /\ conn' \in [Conns -> ConnStates]
             /\ rd' = [rd EXCEPT ![t] = NoConn]
             /\ SubOkMeansSubscribed'
             /\ Calm
  <2>. DEFINE q == conn[rd[t]].inq
  <2>1. rd[t] \in Conns /\ q \in Seq(Msgs)
    BY <1>2 DEF RecvData, ConnStates
  <2>2. PICK k \in 1..Len(q) :
           LeavesRecv(t, [conn EXCEPT ![rd[t]].inq = SubSeq(q, k + 1, Len(q))])
    BY <1>2 DEF RecvData
  <2>. DEFINE cn == [conn EXCEPT ![rd[t]].inq = SubSeq(q, k + 1, Len(q))]
  <2>3. /\ SubSeq(q, k + 1, Len(q)) \in Seq(Msgs)
        /\ \A i \in 1..Len(SubSeq(q, k + 1, Len(q))) :
             \E j \in 1..Len(q) : SubSeq(q, k + 1, Len(q))[i] = q[j]
    BY <2>1, TakenMessages
  <2>4. cn \in [Conns -> ConnStates]
    BY <2>1, <2>3 DEF ConnStates
  <2>5. \A c \in Conns : /\ cn[c].open = conn[c].open
                         /\ cn[c].phase = conn[c].phase
                         /\ \A i \in 1..Len(cn[c].inq) :
                              \E j \in 1..Len(conn[c].inq) : cn[c].inq[i] = conn[c].inq[j]
    BY <2>1, <2>3 DEF ConnStates
  <2>6. QED
    BY <1>1, <2>2, <2>4, <2>5
<1>3. CASE RecvEof(t)
  BY <1>1, <1>3 DEF RecvEof
<1>4. CASE RecvReset(t)
  <2>. DEFINE cn == [conn EXCEPT ![rd[t]].net = IF @ = "rst" THEN "gone" ELSE @]
  <2>1. cn \in [Conns -> ConnStates] /\ LeavesRecv(t, cn)
    BY <1>4 DEF RecvReset, ConnStates, NetStates
  <2>2. \A c \in Conns : /\ cn[c].open = conn[c].open
                         /\ cn[c].phase = conn[c].phase
                         /\ cn[c].inq = conn[c].inq
    BY DEF ConnStates
  <2>3. QED
    BY <1>1, <2>1, <2>2
<1>5. CASE RecvBadFd(t, s)
  BY <1>5 DEF RecvBadFd, Calm, SubOkMeansSubscribed
<1>6. QED
  BY <1>2, <1>3, <1>4, <1>5 DEF RecvError

\* A send() moves a session forward or finds it dead.
LEMMA SendEffect ==
  ASSUME LinkTypeOK, SubOkMeansSubscribed, NEW s, NEW from, NEW to \in Phases,
         from # "subbed" \/ to = "subbed",
         SendOk(s, from, to) \/ SendError(s)
  PROVE  /\ conn' \in [Conns -> ConnStates]
         /\ SubOkMeansSubscribed'
         /\ Calm
<1>. USE DEF LinkTypeOK, Usable
<1>1. ASSUME conn' \in [Conns -> ConnStates],
             \A c \in Conns : /\ conn'[c].open = conn[c].open
                              /\ conn[c].phase = "subbed" => conn'[c].phase = "subbed"
                              /\ conn'[c].inq = conn[c].inq
      PROVE  SubOkMeansSubscribed' /\ Calm
  BY <1>1 DEF SubOkMeansSubscribed, Calm
<1>2. ASSUME NEW p \in Phases, s \in Conns, conn' = [conn EXCEPT ![s].phase = p],
             conn[s].phase = "subbed" => p = "subbed"
      PROVE  conn' \in [Conns -> ConnStates] /\ SubOkMeansSubscribed' /\ Calm
  <2>1. conn' \in [Conns -> ConnStates]
    BY <1>2 DEF ConnStates
  <2>2. \A c \in Conns : /\ conn'[c].open = conn[c].open
                         /\ conn[c].phase = "subbed" => conn'[c].phase = "subbed"
                         /\ conn'[c].inq = conn[c].inq
    BY <1>2 DEF ConnStates
  <2>3. QED
    BY <1>1, <2>1, <2>2
<1>3. ASSUME NEW n \in NetStates, s \in Conns, conn' = [conn EXCEPT ![s].net = n]
      PROVE  conn' \in [Conns -> ConnStates] /\ SubOkMeansSubscribed' /\ Calm
  <2>1. conn' \in [Conns -> ConnStates]
    BY <1>3 DEF ConnStates
  <2>2. \A c \in Conns : /\ conn'[c].open = conn[c].open
                         /\ conn[c].phase = "subbed" => conn'[c].phase = "subbed"
                         /\ conn'[c].inq = conn[c].inq
    BY <1>3 DEF ConnStates
  <2>3. QED
    BY <1>1, <2>1, <2>2
<1>4. CASE SendOk(s, from, to)
  <2>. DEFINE p == IF conn[s].phase = from THEN to ELSE conn[s].phase
  <2>1. s \in Conns /\ p \in Phases /\ (conn[s].phase = "subbed" => p = "subbed")
    BY <1>4 DEF SendOk, ConnStates
  <2>2. CASE conn' = [conn EXCEPT ![s].phase = p]
    <3>. HIDE DEF p
    <3>1. QED
      BY <1>2, <2>1, <2>2
  <2>3. CASE \E n \in {"fin", "gone"} : conn' = [conn EXCEPT ![s].net = n]
    BY <1>3, <2>1, <2>3 DEF NetStates
  <2>4. QED
    BY <1>4, <2>2, <2>3 DEF SendOk
<1>5. CASE SendError(s)
  <2>1. CASE UNCHANGED conn
    BY <2>1 DEF SubOkMeansSubscribed, Calm
  <2>2. CASE Usable(s) /\ conn' = [conn EXCEPT ![s].net = "gone"]
    BY <1>3, <2>2 DEF NetStates
  <2>3. QED
    BY <1>5, <2>1, <2>2 DEF SendError
<1>6. QED
  BY <1>4, <1>5

\* close() closes that descriptor and no other.
LEMMA CloseEffect ==
  ASSUME LinkTypeOK, SubOkMeansSubscribed, NEW s, Closes(s)
  PROVE  /\ conn' \in [Conns -> ConnStates]
         /\ SubOkMeansSubscribed'
         /\ \A c \in Conns : conn'[c].open => c # s /\ conn'[c] = conn[c]
<1>. USE DEF LinkTypeOK
<1>1. CASE Usable(s)
  <2>. DEFINE cn == [conn EXCEPT ![s].open = FALSE]
  <2>1. conn' = Settle(cn, rd) /\ cn \in [Conns -> ConnStates]
    BY <1>1 DEF Closes, Usable, ConnStates
  <2>2. conn' \in [Conns -> ConnStates]
    BY <2>1, SettleType
  <2>3. \A c \in Conns : /\ cn[c].open => conn'[c] = cn[c]
                         /\ conn'[c] \in {cn[c], FreeConn}
                         /\ ~cn[c].open => ~conn'[c].open
    BY <2>1, SettleKeeps
  <2>4. \A c \in Conns : /\ cn[c].inq = conn[c].inq /\ cn[c].phase = conn[c].phase
                         /\ c # s => cn[c] = conn[c]
                         /\ c = s => ~cn[c].open
    BY <1>1 DEF Usable, ConnStates
  <2>5. SubOkMeansSubscribed'
    <3>1. ASSUME NEW c \in Conns, NEW i \in 1..Len(conn'[c].inq), conn'[c].inq[i] = SUB_OK
          PROVE  conn'[c].phase = "subbed"
      <4>1. CASE conn'[c] = cn[c]
        <5>1. conn'[c].inq = conn[c].inq /\ conn'[c].phase = conn[c].phase
          BY <2>4, <4>1
        <5>2. QED
          BY <3>1, <5>1 DEF SubOkMeansSubscribed
      <4>2. CASE conn'[c] = FreeConn
        BY <3>1, <4>2, EmptySeq DEF FreeConn
      <4>3. QED
        BY <2>3, <4>1, <4>2
    <3>2. QED
      BY <3>1 DEF SubOkMeansSubscribed
  <2>6. QED
    BY <2>2, <2>3, <2>4, <2>5
<1>2. CASE ~Usable(s)
  BY <1>2 DEF Closes, Usable, SubOkMeansSubscribed
<1>3. QED
  BY <1>1, <1>2

\* socket() gives a new connection and leaves the others alone.
LEMMA OpenEffect ==
  ASSUME LinkTypeOK, SubOkMeansSubscribed, NEW s \in Conns, Opens(s)
  PROVE  /\ conn' \in [Conns -> ConnStates]
         /\ SubOkMeansSubscribed'
         /\ conn'[s].open
<1>1. /\ conn' = [conn EXCEPT ![s] = [open |-> TRUE, net |-> IF poolUp THEN "up" ELSE "refused",
                                      phase |-> "new", inq |-> <<>>]]
  BY DEF Opens
<1>2. <<>> \in Seq(Msgs) /\ Len(<<>>) = 0
  BY EmptySeq
<1>3. QED
  BY <1>1, <1>2 DEF LinkTypeOK, ConnStates, NetStates, Phases, SubOkMeansSubscribed

\* The pool opens and closes nothing on our side.
LEMMA PoolEffect ==
  ASSUME LinkTypeOK, SubOkMeansSubscribed, BoundsAssumption, PoolSendsAssumption, PoolNext
  PROVE  LinkTypeOK' /\ SubOkMeansSubscribed' /\ Calm /\ rd' = rd
<1>. USE DEF LinkTypeOK
<1>1. ASSUME NEW c \in Conns, NEW m, Pushes(c, m), m # SUB_OK
      PROVE  conn' \in [Conns -> ConnStates] /\ SubOkMeansSubscribed' /\ Calm
  <2>1. m \in Msgs /\ conn[c].inq \in Seq(Msgs) /\ conn[c] \in ConnStates
    BY <1>1, PoolSendsAssumption DEF Pushes, PoolSendsAssumption, ConnStates
  <2>2. conn' = [conn EXCEPT ![c].inq = Append(conn[c].inq, m)]
    BY <1>1 DEF Pushes
  <2>3. /\ Append(conn[c].inq, m) \in Seq(Msgs)
        /\ Len(Append(conn[c].inq, m)) = Len(conn[c].inq) + 1
        /\ Len(conn[c].inq) \in Nat
        /\ \A i \in 1..Len(conn[c].inq) : Append(conn[c].inq, m)[i] = conn[c].inq[i]
        /\ Append(conn[c].inq, m)[Len(conn[c].inq) + 1] = m
    BY <2>1, AppendProperties, LenProperties
  <2>4. conn' \in [Conns -> ConnStates]
    BY <2>1, <2>2, <2>3 DEF ConnStates
  <2>5. SubOkMeansSubscribed' /\ Calm
    BY <1>1, <2>1, <2>2, <2>3 DEF SubOkMeansSubscribed, Calm, ConnStates
  <2>6. QED
    BY <2>4, <2>5
<1>2. ASSUME NEW c \in Conns, NEW m, NEW from, NEW to \in Phases, Answers(c, m, from, to),
             from # "subbed", m = SUB_OK => to = "subbed"
      PROVE  conn' \in [Conns -> ConnStates] /\ SubOkMeansSubscribed' /\ Calm
  <2>1. m \in Msgs /\ conn[c].inq \in Seq(Msgs) /\ conn[c] \in ConnStates
    BY <1>2, PoolSendsAssumption DEF Answers, PoolSendsAssumption, ConnStates
  <2>2. /\ conn' = [conn EXCEPT ![c].phase = to, ![c].inq = Append(conn[c].inq, m)]
        /\ conn[c].phase # "subbed"
    BY <1>2, <2>1 DEF Answers, ConnStates
  <2>3. /\ Append(conn[c].inq, m) \in Seq(Msgs)
        /\ Len(Append(conn[c].inq, m)) = Len(conn[c].inq) + 1
        /\ Len(conn[c].inq) \in Nat
        /\ \A i \in 1..Len(conn[c].inq) : Append(conn[c].inq, m)[i] = conn[c].inq[i]
        /\ Append(conn[c].inq, m)[Len(conn[c].inq) + 1] = m
    BY <2>1, AppendProperties, LenProperties
  <2>4. conn' \in [Conns -> ConnStates]
    BY <2>1, <2>2, <2>3 DEF ConnStates
  <2>5. SubOkMeansSubscribed' /\ Calm
    BY <1>2, <2>1, <2>2, <2>3 DEF SubOkMeansSubscribed, Calm, ConnStates
  <2>6. QED
    BY <2>4, <2>5
<1>. USE DEF CAPS, AUTH_OK, AUTH_NO, SUB_OK, SUB_NO, JOB, BAD, NOISE
<1>3. ASSUME NEW c \in Conns, PoolReply(c)
      PROVE  LinkTypeOK' /\ SubOkMeansSubscribed' /\ Calm /\ rd' = rd
  BY <1>2, <1>3 DEF PoolReply, Phases
<1>4. ASSUME NEW c \in Conns, PoolRefuse(c)
      PROVE  LinkTypeOK' /\ SubOkMeansSubscribed' /\ Calm /\ rd' = rd
  <2>1. conn' \in [Conns -> ConnStates] /\ SubOkMeansSubscribed' /\ Calm
    BY <1>2, <1>4 DEF PoolRefuse, Phases
  <2>2. QED
    BY <1>4, <2>1, BoundsAssumption DEF PoolRefuse, BoundsAssumption
<1>5. ASSUME NEW c \in Conns, PoolJob(c)
      PROVE  LinkTypeOK' /\ SubOkMeansSubscribed' /\ Calm /\ rd' = rd
  BY <1>1, <1>5 DEF PoolJob
<1>6. ASSUME NEW c \in Conns, PoolOther(c)
      PROVE  LinkTypeOK' /\ SubOkMeansSubscribed' /\ Calm /\ rd' = rd
  <2>1. conn' \in [Conns -> ConnStates] /\ SubOkMeansSubscribed' /\ Calm
    BY <1>1, <1>6 DEF PoolOther
  <2>2. QED
    BY <1>6, <2>1, BoundsAssumption DEF PoolOther, BoundsAssumption
<1>7. ASSUME NEW c \in Conns, ConnLost(c)
      PROVE  LinkTypeOK' /\ SubOkMeansSubscribed' /\ Calm /\ rd' = rd
  <2>1. PICK n \in {"fin", "rst"} : conn' = [conn EXCEPT ![c].net = n]
    BY <1>7 DEF ConnLost
  <2>2. conn' \in [Conns -> ConnStates] /\ SubOkMeansSubscribed' /\ Calm
    BY <2>1 DEF ConnStates, NetStates, SubOkMeansSubscribed, Calm
  <2>3. QED
    BY <1>7, <2>2, BoundsAssumption DEF ConnLost, BoundsAssumption
<1>8. CASE PoolStop
  <2>1. conn' = [c \in Conns |->
                   IF conn[c].net = "up" THEN [conn[c] EXCEPT !.net = "fin"] ELSE conn[c]]
    BY <1>8 DEF PoolStop
  <2>2. conn' \in [Conns -> ConnStates] /\ SubOkMeansSubscribed' /\ Calm
    BY <2>1 DEF ConnStates, NetStates, SubOkMeansSubscribed, Calm
  <2>3. outages' \in 0..MaxOutages
    BY <1>8, BoundsAssumption DEF PoolStop, BoundsAssumption
  <2>4. QED
    BY <1>8, <2>2, <2>3 DEF PoolStop
<1>9. CASE PoolStart
  BY <1>9 DEF PoolStart, SubOkMeansSubscribed, Calm
<1>10. QED
  BY <1>3, <1>4, <1>5, <1>6, <1>7, <1>8, <1>9 DEF PoolNext

-----------------------------------------------------------------------------
(* Types, and the reply that marks a subscription.                         *)

LEMMA SetupFailsType ==
  ASSUME TypeOK, LimitsAssumption, NEW t \in Threads, SetupFails(t)
  PROVE  /\ pc' \in [Threads -> PCs]
         /\ retries' \in 0..MaxRetry
         /\ proc' \in {"run", "exiting"} \cup Dead
BY DEF TypeOK, LimitsAssumption, SetupFails, Goto, PCs, Submitting, Reopening, Handshake, Dead

\* The end of the process leaves no connection and no reader.
LEMMA DiesType ==
  ASSUME TypeOK, NEW how \in Dead, Dies(how)
  PROVE  TypeOK' /\ SubOkMeansSubscribed'
<1>1. FreeConn \in ConnStates /\ Len(FreeConn.inq) = 0
  BY EmptySeq DEF FreeConn, ConnStates, NetStates, Phases
<1>2. LinkTypeOK'
  BY <1>1 DEF TypeOK, LinkTypeOK, Dies, Env
<1>3. SubOkMeansSubscribed'
  BY <1>1 DEF Dies, SubOkMeansSubscribed
<1>4. QED
  BY <1>2, <1>3 DEF TypeOK, Dies, flags

\* Every step keeps the types, and keeps a SUB_OK to subscribed sessions.
LEMMA TypeStep ==
  ASSUME TypeOK, SubOkMeansSubscribed, [Next]_vars
  PROVE  TypeOK' /\ SubOkMeansSubscribed'
<1>. USE DEF At, Goto, flags, Env
<1>. DEFINE Kept == LinkTypeOK' /\ SubOkMeansSubscribed'
<1>1. ASSUME NEW t \in Threads,
             (\E m \in Msgs : RecvData(t, m)) \/ RecvEof(t) \/ RecvError(t, sock), UNCHANGED Env
      PROVE  Kept
  <2>1. LinkTypeOK
    BY DEF TypeOK
  <2>2. /\ conn' \in [Conns -> ConnStates] /\ SubOkMeansSubscribed'
        /\ rd' = [rd EXCEPT ![t] = NoConn]
    BY <1>1, <2>1, RecvEffect
  <2>3. QED
    BY <1>1, <2>1, <2>2 DEF LinkTypeOK
<1>2. ASSUME Closes(sock), UNCHANGED <<rd, Env>>
      PROVE  Kept
  <2>1. LinkTypeOK
    BY DEF TypeOK
  <2>2. conn' \in [Conns -> ConnStates] /\ SubOkMeansSubscribed'
    BY <1>2, <2>1, CloseEffect
  <2>3. QED
    BY <1>2, <2>1, <2>2 DEF LinkTypeOK
<1>3. ASSUME UNCHANGED linkVars
      PROVE  Kept
  BY <1>3 DEF TypeOK, LinkTypeOK, linkVars, SubOkMeansSubscribed
<1>. HIDE DEF Kept
<1>4. ASSUME NEW t \in Threads, Open(t)
      PROVE  TypeOK' /\ SubOkMeansSubscribed'
  <2>1. CASE \E c \in Conns : Opens(c) /\ sock' = c
    <3>1. PICK c \in Conns : Opens(c) /\ sock' = c
      BY <2>1
    <3>2. conn' \in [Conns -> ConnStates] /\ SubOkMeansSubscribed'
      BY <3>1, OpenEffect DEF TypeOK
    <3>3. QED
      BY <1>4, <3>1, <3>2 DEF Open, TypeOK, LinkTypeOK, PCs, Submitting, Reopening, Handshake
  <2>2. CASE sock' = NoConn /\ UNCHANGED conn
    BY <1>4, <2>2 DEF Open, TypeOK, LinkTypeOK, SubOkMeansSubscribed, PCs, Submitting, Reopening, Handshake
  <2>3. QED
    BY <1>4, <2>1, <2>2 DEF Open
<1>5. ASSUME NEW t \in Threads, CallRecv(t)
      PROVE  TypeOK' /\ SubOkMeansSubscribed'
  BY <1>5 DEF CallRecv, EntersRecv, Usable, TypeOK, LinkTypeOK, SubOkMeansSubscribed
<1>6. ASSUME NEW t \in Threads, RecvCaps(t) \/ RecvAuth(t) \/ RecvSub(t)
      PROVE  TypeOK' /\ SubOkMeansSubscribed'
  <2>1. /\ (\E m \in Msgs : RecvData(t, m)) \/ RecvEof(t) \/ RecvError(t, sock)
        /\ UNCHANGED <<Env, flags, sock, rx, opener>>
    BY <1>6 DEF RecvCaps, RecvAuth, RecvSub, Msgs
  <2>2. \/ SetupFails(t)
        \/ /\ pc' \in [Threads -> PCs]
           /\ UNCHANGED <<retries, proc>>
    BY <1>6 DEF RecvCaps, RecvAuth, RecvSub, StartsAndWaits, TypeOK, PCs, Submitting, Reopening, Handshake
  <2>3. Kept
    BY <1>1, <2>1
  <2>4. QED
    BY <2>1, <2>2, <2>3, SetupFailsType, LimitsAssumption DEF TypeOK, Kept
<1>7. ASSUME NEW t \in Threads, SendAuth(t) \/ SendSub(t)
      PROVE  TypeOK' /\ SubOkMeansSubscribed'
  <2>1. PICK from \in Phases, to \in Phases, next \in {"auth", "sub"} :
           from # "subbed" /\ SendRequest(t, from, to, next)
    BY <1>7 DEF SendAuth, SendSub, Phases
  <2>2. CASE SendKills(sock) /\ Dies("killed")
    BY <2>2, DiesType DEF Dead
  <2>3. CASE /\ SendOk(sock, from, to) \/ SendError(sock)
             /\ Goto(t, next) \/ Goto(t, "shut")
             /\ UNCHANGED <<rd, Env, flags, sock, retries, rx, proc, opener>>
    <3>1. conn' \in [Conns -> ConnStates] /\ SubOkMeansSubscribed'
      BY <2>1, <2>3, SendEffect DEF TypeOK
    <3>2. QED
      BY <2>3, <3>1 DEF TypeOK, LinkTypeOK, PCs, Submitting, Reopening, Handshake
  <2>4. QED
    BY <2>1, <2>2, <2>3 DEF SendRequest
<1>8. ASSUME NEW t \in Threads, RestartsReceiver(t)
      PROVE  TypeOK' /\ SubOkMeansSubscribed'
  BY <1>8, DiesType DEF RestartsReceiver, Dead
<1>9. ASSUME NEW t \in Threads, Shut(t) \/ WorkTimeout(t)
      PROVE  TypeOK' /\ SubOkMeansSubscribed'
  <2>1. SetupFails(t) /\ UNCHANGED <<flags, sock, rx, opener>>
    BY <1>9 DEF Shut, WorkTimeout
  <2>2. Kept
    BY <1>2, <1>3, <1>9 DEF Shut, WorkTimeout, linkVars
  <2>3. QED
    BY <2>1, <2>2, SetupFailsType, LimitsAssumption DEF TypeOK, Kept
<1>10. ASSUME NEW t \in Threads, Reconnected(t) \/ Drop(t) \/ Raise(t)
       PROVE  TypeOK' /\ SubOkMeansSubscribed'
  <2>1. Kept
    BY <1>2, <1>3, <1>10 DEF Reconnected, Drop, Raise
  <2>2. QED
    BY <1>10, <2>1 DEF Kept, Reconnected, Drop, Raise, TypeOK, PCs, Submitting, Reopening, Handshake
<1>11. CASE Launched
  <2>1. Kept
    BY <1>3, <1>11 DEF Launched
  <2>2. QED
    BY <1>11, <2>1 DEF Kept, Launched, TypeOK, PCs, Submitting, Reopening, Handshake
<1>12. CASE RxFirst \/ RxMore
  <2>1. /\ (\E m \in Msgs : RecvData(Receiver, m)) \/ RecvEof(Receiver) \/ RecvError(Receiver, sock)
        /\ UNCHANGED <<Env, lock, reconnecting, sock, retries, proc, opener>>
    BY <1>12 DEF RxFirst, RxMore, Dispatch, NothingRead
  <2>2. Receiver \in Threads /\ Kept
    BY <1>1, <2>1, ThreadsAssumption DEF ThreadsAssumption
  <2>3. pc' \in [Threads -> PCs] /\ workAvailable' \in BOOLEAN
    BY <1>12, <2>2 DEF RxFirst, RxMore, Dispatch, NothingRead, TypeOK, PCs, Submitting, Reopening, Handshake
  <2>4. rx' \in RxLocals
    <3>1. RxIdle \in RxLocals
      BY LimitsAssumption DEF RxIdle, RxLocals, LimitsAssumption
    <3>2. CASE \E failed \in BOOLEAN :
                 rx.n < MaxMore /\ rx' = [rx EXCEPT !.n = @ + 1, !.neg = @ \/ failed]
      <4>1. PICK failed \in BOOLEAN :
               rx.n < MaxMore /\ rx' = [rx EXCEPT !.n = @ + 1, !.neg = @ \/ failed]
        BY <3>2
      <4>2. rx \in [first : {"none", "eof", "err"}, n : 0..MaxMore, neg : BOOLEAN]
        BY DEF TypeOK, RxLocals
      <4>3. rx.n + 1 \in 0..MaxMore
        BY <4>1, <4>2, LimitsAssumption DEF LimitsAssumption
      <4>4. (rx.neg \/ failed) \in BOOLEAN
        OBVIOUS
      <4>5. QED
        BY <4>1, <4>2, <4>3, <4>4 DEF RxLocals
    <3>3. CASE \E first \in {"eof", "err"} : rx' = [first |-> first, n |-> 0, neg |-> first = "err"]
      <4>1. PICK first \in {"eof", "err"} : rx' = [first |-> first, n |-> 0, neg |-> first = "err"]
        BY <3>3
      <4>2. 0 \in 0..MaxMore /\ (first = "err") \in BOOLEAN
        BY LimitsAssumption DEF LimitsAssumption
      <4>3. QED
        BY <4>1, <4>2 DEF RxLocals
    <3>4. CASE rx' = RxIdle
      BY <3>1, <3>4
    <3>5. QED
      BY <1>12, <3>2, <3>3, <3>4 DEF RxFirst, RxMore, Dispatch, NothingRead
  <2>5. QED
    BY <2>1, <2>2, <2>3, <2>4 DEF TypeOK, Kept
<1>13. CASE Malformed
  BY <1>13, DiesType DEF Malformed, Dead
<1>14. ASSUME NEW m \in Miners, GetWork(m) \/ Hash(m) \/ LockForSubmit(m) \/ CheckReconnecting(m)
       PROVE  TypeOK' /\ SubOkMeansSubscribed'
  <2>1. m \in Threads
    BY ThreadsAssumption DEF ThreadsAssumption
  <2>2. Kept
    BY <1>3, <1>14 DEF GetWork, Hash, LockForSubmit, CheckReconnecting
  <2>3. QED
    BY <1>14, <2>1, <2>2 DEF Kept, GetWork, Hash, LockForSubmit, CheckReconnecting, TypeOK, PCs,
       Submitting, Reopening, Handshake
<1>15. ASSUME NEW m \in Miners, SubmitSend(m)
       PROVE  TypeOK' /\ SubOkMeansSubscribed'
  <2>1. CASE SendKills(sock) /\ Dies("killed")
    BY <2>1, DiesType DEF Dead
  <2>2. CASE SendOk(sock, "subbed", "subbed") \/ SendError(sock)
    <3>1. conn' \in [Conns -> ConnStates] /\ SubOkMeansSubscribed'
      BY <2>2, SendEffect DEF TypeOK, Phases
    <3>2. m \in Threads
      BY ThreadsAssumption DEF ThreadsAssumption
    <3>3. CASE Dies("killed")
      BY <3>3, DiesType DEF Dead
    <3>4. CASE ~Dies("killed")
      BY <1>15, <3>1, <3>2, <3>4 DEF SubmitSend, TypeOK, LinkTypeOK, PCs, Submitting, Reopening, Handshake
    <3>5. QED
      BY <3>3, <3>4
  <2>3. QED
    BY <1>15, <2>1, <2>2 DEF SubmitSend
<1>16. ASSUME NEW m \in Miners, Quit(m)
       PROVE  TypeOK' /\ SubOkMeansSubscribed'
  <2>1. m \in Threads
    BY ThreadsAssumption DEF ThreadsAssumption
  <2>2. Kept
    BY <1>2, <1>16 DEF Quit
  <2>3. QED
    BY <1>16, <2>1, <2>2 DEF Kept, Quit, TypeOK, PCs, Submitting, Reopening, Handshake
<1>17. CASE ExitProcess
  BY <1>17, DiesType DEF ExitProcess, Dead
<1>18. CASE RunAgain
  <2>1. Kept
    BY <1>3, <1>18 DEF RunAgain
  <2>2. 0 \in 0..MaxRetry /\ 0 \in 0..MaxMore
    BY LimitsAssumption DEF LimitsAssumption
  <2>3. Main \in Threads /\ pc' \in [Threads -> PCs] /\ rx' \in RxLocals
    BY <1>18, <2>2, ThreadsAssumption DEF ThreadsAssumption, RunAgain, Fresh, PCs, Submitting, Reopening,
       Handshake, RxIdle, RxLocals
  <2>4. QED
    BY <1>18, <2>1, <2>2, <2>3 DEF Kept, RunAgain, TypeOK
<1>19. CASE Pool
  BY <1>19, PoolEffect, BoundsAssumption, PoolSendsAssumption DEF Pool, TypeOK
<1>20. CASE UNCHANGED vars
  <2>1. Kept
    BY <1>3, <1>20 DEF vars
  <2>2. QED
    BY <1>20, <2>1 DEF Kept, vars, TypeOK
<1>21. QED
  BY <1>4, <1>5, <1>6, <1>7, <1>8, <1>9, <1>10, <1>11, <1>12, <1>13, <1>14, <1>15, <1>16, <1>17,
     <1>18, <1>19, <1>20 DEF Next, Setup, Receive, Mine
-----------------------------------------------------------------------------
(* Who holds the flag and the lock: program counters only.                 *)

Control ==
  /\ ReconnectFlagHeldByReconnector
  /\ SubmitHoldsLock
  /\ MainFirst

\* After the end of the process there is nothing to hold.
LEMMA DiesControl ==
  ASSUME NEW how \in Dead, Dies(how)
  PROVE  ~Alive' /\ Control'
BY DEF Dies, Dead, Alive, Control, ReconnectFlagHeldByReconnector, SubmitHoldsLock,
   MainFirst

\* A thread that goes on with its connection keeps what it holds.
LEMMA HandshakeControl ==
  ASSUME TypeOK, Control, Alive, NEW t \in Threads, NEW l \in Handshake, pc[t] \in Handshake,
         Goto(t, l), UNCHANGED <<flags, proc>>
  PROVE  Control'
<1>. USE ThreadsAssumption DEF ThreadsAssumption, TypeOK, Goto, flags, Alive, Control
<1>1. ReconnectFlagHeldByReconnector'
  BY DEF ReconnectFlagHeldByReconnector, Reconnectors
<1>2. SubmitHoldsLock'
  BY DEF SubmitHoldsLock, Submitting, Reopening
<1>3. MainFirst'
  BY DEF MainFirst, Handshake
<1>4. QED
  BY <1>1, <1>2, <1>3

\* So does one whose attempt failed; the main thread may then end the program.
LEMMA SetupFailsControl ==
  ASSUME TypeOK, Control, Alive, NEW t \in Threads, pc[t] \in Handshake, SetupFails(t),
         UNCHANGED flags
  PROVE  Control'
<1>1. CASE Goto(t, "socket") /\ UNCHANGED proc
  BY <1>1, HandshakeControl DEF Handshake
<1>2. CASE t = Main /\ Goto(Main, "exit") /\ proc' = "exiting"
  <2>. USE <1>2, ThreadsAssumption DEF ThreadsAssumption, TypeOK, Goto, flags, Alive, Control
  <2>1. ReconnectFlagHeldByReconnector'
    BY DEF ReconnectFlagHeldByReconnector, Reconnectors
  <2>2. SubmitHoldsLock'
    BY DEF SubmitHoldsLock
  <2>3. MainFirst'
    BY DEF MainFirst, Handshake
  <2>4. QED
    BY <2>1, <2>2, <2>3
<1>3. QED
  BY <1>1, <1>2 DEF SetupFails

\* Every step keeps flag, lock and work with their holders.
LEMMA ControlStep ==
  ASSUME TypeOK, Control, [Next]_vars
  PROVE  Control'
<1>. USE ThreadsAssumption DEF ThreadsAssumption, At, Goto, flags
<1>1. ASSUME NEW t \in Threads, Open(t)
      PROVE  Control'
  BY <1>1, HandshakeControl DEF Open, Handshake
<1>2. ASSUME NEW t \in Threads, CallRecv(t)
      PROVE  Control'
  BY <1>2 DEF CallRecv, Control, Alive, ReconnectFlagHeldByReconnector, SubmitHoldsLock, MainFirst
<1>3. ASSUME NEW t \in Threads, RecvCaps(t) \/ RecvAuth(t)
      PROVE  Control'
  <2>1. /\ Alive /\ pc[t] \in Handshake /\ UNCHANGED flags
        /\ SetupFails(t) \/ (\E l \in Handshake : Goto(t, l) /\ UNCHANGED proc)
    BY <1>3 DEF RecvCaps, RecvAuth, Handshake
  <2>2. QED
    BY <2>1, HandshakeControl, SetupFailsControl
<1>4. ASSUME NEW t \in Threads, RecvSub(t)
      PROVE  Control'
  <2>1. Alive /\ pc[t] = "sub" /\ UNCHANGED flags
    BY <1>4 DEF RecvSub
  <2>2. CASE SetupFails(t) \/ (Goto(t, "shut") /\ UNCHANGED proc)
    BY <2>1, <2>2, HandshakeControl, SetupFailsControl DEF Handshake
  <2>3. CASE /\ ~StartsAgain(t) /\ UNCHANGED proc
             /\ StartsAndWaits(t)
    <3>. USE <2>1, <2>3 DEF StartsAndWaits, TypeOK, Alive, Control, StartsAgain
    <3>1. ReconnectFlagHeldByReconnector'
      BY DEF ReconnectFlagHeldByReconnector, Reconnectors, Handshake
    <3>2. SubmitHoldsLock'
      BY DEF SubmitHoldsLock, Submitting, Reopening, Handshake
    <3>3. MainFirst'
      BY DEF MainFirst, Handshake
    <3>4. QED
      BY <3>1, <3>2, <3>3
  <2>4. \/ SetupFails(t)
        \/ Goto(t, "shut") /\ UNCHANGED proc
        \/ ~StartsAgain(t) /\ UNCHANGED proc /\ StartsAndWaits(t)
    BY <1>4 DEF RecvSub
  <2>5. QED
    BY <2>2, <2>3, <2>4
<1>5. ASSUME NEW t \in Threads, SendAuth(t) \/ SendSub(t)
      PROVE  Control'
  <2>1. /\ Alive /\ pc[t] \in Handshake
        /\ \/ Dies("killed")
           \/ \E l \in Handshake : Goto(t, l) /\ UNCHANGED <<flags, proc>>
    BY <1>5 DEF SendAuth, SendSub, SendRequest, Handshake
  <2>2. QED
    BY <2>1, HandshakeControl, DiesControl DEF Dead
<1>6. ASSUME NEW t \in Threads, RestartsReceiver(t)
      PROVE  Control'
  BY <1>6, DiesControl DEF RestartsReceiver, Dead
<1>7. ASSUME NEW t \in Threads, Shut(t) \/ WorkTimeout(t)
      PROVE  Control'
  <2>1. Alive /\ pc[t] \in Handshake /\ UNCHANGED flags /\ SetupFails(t)
    BY <1>7 DEF Shut, WorkTimeout, Handshake
  <2>2. QED
    BY <2>1, SetupFailsControl
<1>8. ASSUME NEW t \in Threads, Reconnected(t)
      PROVE  Control'
  <2>. USE <1>8 DEF TypeOK, Alive, Control, Reconnected
  <2>1. ReconnectFlagHeldByReconnector'
    BY DEF ReconnectFlagHeldByReconnector
  <2>2. SubmitHoldsLock'
    BY DEF SubmitHoldsLock, Submitting, Reopening, Handshake
  <2>3. MainFirst'
    BY DEF MainFirst
  <2>4. QED
    BY <2>1, <2>2, <2>3
<1>9. ASSUME NEW t \in Threads, Drop(t)
      PROVE  Control'
  <2>. USE <1>9 DEF TypeOK, Alive, Control, Drop
  <2>1. ReconnectFlagHeldByReconnector'
    BY DEF ReconnectFlagHeldByReconnector, Reconnectors, Handshake
  <2>2. SubmitHoldsLock'
    BY DEF SubmitHoldsLock, Submitting, Reopening, Handshake
  <2>3. MainFirst'
    BY DEF MainFirst, Handshake
  <2>4. QED
    BY <2>1, <2>2, <2>3
<1>10. ASSUME NEW t \in Threads, Raise(t)
       PROVE  Control'
  <2>. USE <1>10 DEF TypeOK, Alive, Control, Raise
  <2>1. t # Main
    BY DEF MainFirst, Handshake
  <2>2. ReconnectFlagHeldByReconnector'
    BY <2>1 DEF ReconnectFlagHeldByReconnector, Reconnectors, Handshake
  <2>3. SubmitHoldsLock'
    BY DEF SubmitHoldsLock, Submitting, Reopening, Handshake
  <2>4. MainFirst'
    BY <2>1 DEF MainFirst, Handshake
  <2>5. QED
    BY <2>2, <2>3, <2>4
<1>11. CASE Launched
  <2>. USE <1>11 DEF TypeOK, Alive, Control, Launched
  <2>1. \A m \in Miners : pc[m] = "off" /\ lock # m
    BY DEF MainFirst, SubmitHoldsLock, Submitting, Reopening, Handshake
  <2>2. ReconnectFlagHeldByReconnector'
    BY <2>1 DEF ReconnectFlagHeldByReconnector, Reconnectors, Handshake
  <2>3. SubmitHoldsLock'
    BY <2>1 DEF SubmitHoldsLock, Submitting, Reopening, Handshake
  <2>4. MainFirst'
    BY DEF MainFirst, Handshake
  <2>5. QED
    BY <2>2, <2>3, <2>4
<1>12. CASE RxFirst \/ RxMore
  <2>1. /\ Alive /\ pc[Receiver] \in {"recv", "more"}
        /\ UNCHANGED <<lock, reconnecting, proc>> /\ (workAvailable => workAvailable')
        /\ \E l \in {"recv", "more", "drop"} : pc' = [pc EXCEPT ![Receiver] = l]
    <3>1. CASE RxFirst
      <4>1. Alive /\ pc[Receiver] = "recv" /\ UNCHANGED <<lock, reconnecting, proc>>
        BY <3>1 DEF RxFirst, Dispatch, NothingRead
      <4>2. workAvailable => workAvailable'
        BY <3>1 DEF RxFirst, Dispatch, NothingRead
      <4>3. \E l \in {"recv", "more", "drop"} : pc' = [pc EXCEPT ![Receiver] = l]
        BY <3>1 DEF RxFirst, Dispatch, NothingRead
      <4>4. QED
        BY <4>1, <4>2, <4>3
    <3>2. CASE RxMore
      <4>1. Alive /\ pc[Receiver] = "more" /\ UNCHANGED <<lock, reconnecting, proc>>
        BY <3>2 DEF RxMore, Dispatch, NothingRead
      <4>2. workAvailable => workAvailable'
        BY <3>2 DEF RxMore, Dispatch, NothingRead
      <4>3. \/ \E l \in {"recv", "drop"} : pc' = [pc EXCEPT ![Receiver] = l]
            \/ UNCHANGED pc
        BY <3>2 DEF RxMore, Dispatch, NothingRead
      <4>4. UNCHANGED pc => pc' = [pc EXCEPT ![Receiver] = "more"]
        BY <4>1 DEF TypeOK
      <4>5. QED
        BY <4>1, <4>2, <4>3, <4>4
    <3>3. QED
      BY <1>12, <3>1, <3>2
  <2>. USE <2>1 DEF TypeOK, Alive, Control
  <2>2. ReconnectFlagHeldByReconnector'
    BY DEF ReconnectFlagHeldByReconnector, Reconnectors, Handshake
  <2>3. SubmitHoldsLock'
    BY DEF SubmitHoldsLock, Submitting, Reopening, Handshake
  <2>4. MainFirst'
    BY DEF MainFirst, Handshake
  <2>5. QED
    BY <2>2, <2>3, <2>4
<1>13. CASE Malformed
  BY <1>13, DiesControl DEF Malformed, Dead
<1>14. ASSUME NEW m \in Miners, GetWork(m) \/ Hash(m) \/ LockForSubmit(m) \/ CheckReconnecting(m)
       PROVE  Control'
  <2>. USE <1>14 DEF TypeOK, Alive, Control, GetWork, Hash, LockForSubmit, CheckReconnecting
  <2>1. ReconnectFlagHeldByReconnector'
    BY DEF ReconnectFlagHeldByReconnector, Reconnectors, Handshake
  <2>2. SubmitHoldsLock'
    BY DEF SubmitHoldsLock, Submitting, Reopening, Handshake
  <2>3. MainFirst'
    BY DEF MainFirst, Handshake
  <2>4. QED
    BY <2>1, <2>2, <2>3
<1>15. ASSUME NEW m \in Miners, SubmitSend(m)
       PROVE  Control'
  <2>1. CASE Dies("killed")
    BY <2>1, DiesControl DEF Dead
  <2>2. CASE ~Dies("killed")
    <3>. USE <1>15, <2>2 DEF TypeOK, Alive, Control, SubmitSend
    <3>1. ReconnectFlagHeldByReconnector'
      BY DEF ReconnectFlagHeldByReconnector, Reconnectors, Handshake
    <3>2. SubmitHoldsLock'
      BY DEF SubmitHoldsLock, Submitting, Reopening, Handshake
    <3>3. MainFirst'
      BY DEF MainFirst, Handshake
    <3>4. QED
      BY <3>1, <3>2, <3>3
  <2>3. QED
    BY <2>1, <2>2
<1>16. ASSUME NEW m \in Miners, Quit(m)
       PROVE  Control'
  <2>. USE <1>16 DEF TypeOK, Alive, Control, Quit
  <2>1. ReconnectFlagHeldByReconnector'
    BY DEF ReconnectFlagHeldByReconnector, Reconnectors, Handshake
  <2>2. SubmitHoldsLock'
    BY DEF SubmitHoldsLock, Submitting, Reopening, Handshake
  <2>3. MainFirst'
    BY DEF MainFirst, Handshake
  <2>4. QED
    BY <2>1, <2>2, <2>3
<1>17. CASE ExitProcess
  BY <1>17, DiesControl DEF ExitProcess, Dead
<1>18. CASE RunAgain
  BY <1>18 DEF RunAgain, Fresh, Control, ReconnectFlagHeldByReconnector, SubmitHoldsLock,
     MainFirst, Submitting, Reopening, Handshake
<1>19. CASE Pool \/ UNCHANGED vars
  BY <1>19 DEF Pool, vars, Control, Alive, ReconnectFlagHeldByReconnector, SubmitHoldsLock,
     MainFirst
<1>20. QED
  BY <1>1, <1>2, <1>3, <1>4, <1>5, <1>6, <1>7, <1>8, <1>9, <1>10, <1>11, <1>12, <1>13, <1>14, <1>15,
     <1>16, <1>17, <1>18, <1>19 DEF Next, Setup, Receive, Mine
-----------------------------------------------------------------------------
(* Who answers for the socket.                                             *)

Custody ==
  /\ ReadersReceive
  /\ OpenerReadsSock
  /\ SockOpenOrReplaced
  /\ SockSubscribedOrOpening

LEMMA IInvParts ==
  IInv <=> /\ TypeOK /\ SubOkMeansSubscribed /\ Control /\ Custody
           /\ OvertakenByReceiver /\ ReceiverAfterFailure
BY DEF IInv, Control, Custody

LEMMA DiesCustody ==
  ASSUME NEW how \in Dead, Dies(how)
  PROVE  Custody'
BY DEF Dies, Dead, Alive, Custody, ReadersReceive, OpenerReadsSock, SockOpenOrReplaced,
   SockSubscribedOrOpening

\* Thread t goes on to l, and threads that had not started may start.
StepsTo(t, l) ==
  /\ pc'[t] = l
  /\ \A x \in Threads \ {t} : pc'[x] = pc[x] \/ pc[x] = "off"

\* No connection is opened, and those that stay open keep their subscription.
NoneOpened ==
  \A c \in Conns : conn'[c].open =>
    conn[c].open /\ (conn[c].phase = "subbed" => conn'[c].phase = "subbed")

\* A step that stores nothing in ucpServerSocket leaves it answered for, if
\* the thread that closes it goes on to replace it, and its opener lets go of
\* it only when it is subscribed.
LEMMA StepCustody ==
  ASSUME IInv, Alive, Alive', NEW t \in Threads, NEW l, StepsTo(t, l),
         UNCHANGED <<sock, opener>>, proc' \in {proc, "exiting"}, NoneOpened,
         (rd' = rd /\ pc[t] \notin Receiving) \/ rd' = [rd EXCEPT ![t] = NoConn],
         proc' = "run" => (Usable(sock) => Usable(sock)') \/ l \in {"raise", "socket"},
         proc' = "run" /\ pc[t] \in {"raise", "socket"} => l \in {"raise", "socket"},
         proc' = "run" /\ t = opener /\ sock = NoConn /\ pc[t] \in {"caps", "shut"}
           => l \in {"shut", "socket"},
         proc' = "run" /\ t = opener /\ pc[t] \in Unsubscribed
           => l \in Unsubscribed \/ (Usable(sock)' => conn'[sock].phase = "subbed")
  PROVE  Custody'
<1>. USE DEF IInv, TypeOK, LinkTypeOK
<1>1. ReadersReceive'
  BY DEF ReadersReceive, Receiving, StepsTo
<1>2. OpenerReadsSock'
  BY DEF OpenerReadsSock, ReadersReceive, Receiving, StepsTo
<1>3. SockOpenOrReplaced'
  <2>1. SUFFICES ASSUME proc' = "run", ~Usable(sock)'
                 PROVE  \/ \E x \in Threads : pc'[x] \in {"raise", "socket"}
                        \/ sock' = NoConn /\ pc'[opener'] \in {"caps", "shut"}
    BY DEF SockOpenOrReplaced
  <2>2. proc = "run"
    BY <2>1 DEF Alive
  <2>3. CASE Usable(sock)
    BY <2>1, <2>3 DEF StepsTo
  <2>4. CASE \E x \in Threads : pc[x] \in {"raise", "socket"}
    BY <2>1, <2>4 DEF StepsTo
  <2>5. CASE sock = NoConn /\ pc[opener] \in {"caps", "shut"}
    BY <2>1, <2>5 DEF StepsTo
  <2>6. QED
    BY <2>2, <2>3, <2>4, <2>5 DEF SockOpenOrReplaced
<1>4. SockSubscribedOrOpening'
  <2>1. SUFFICES ASSUME proc' = "run", pc'[opener'] \notin Unsubscribed, Usable(sock)'
                 PROVE  conn'[sock'].phase = "subbed"
    BY DEF SockSubscribedOrOpening
  <2>2. proc = "run" /\ sock \in Conns /\ conn'[sock].open
    BY <2>1 DEF Alive, Usable
  <2>3. CASE pc[opener] \in Unsubscribed
    BY <2>1, <2>3 DEF StepsTo, Unsubscribed
  <2>4. CASE conn[sock].phase = "subbed"
    BY <2>2, <2>4 DEF NoneOpened
  <2>5. QED
    BY <2>2, <2>3, <2>4 DEF SockSubscribedOrOpening, NoneOpened, Usable
<1>5. QED
  BY <1>1, <1>2, <1>3, <1>4 DEF Custody
\* A recv() opens and closes nothing.
LEMMA RecvCustody ==
  ASSUME IInv, Alive, NEW t \in Threads,
         (\E m \in Msgs : RecvData(t, m)) \/ RecvEof(t) \/ RecvError(t, sock), UNCHANGED sock
  PROVE  /\ NoneOpened
         /\ Usable(sock) => Usable(sock)'
         /\ rd' = [rd EXCEPT ![t] = NoConn]
         /\ Usable(sock) /\ conn[sock].phase = "subbed" => conn'[sock].phase = "subbed"
BY RecvEffect DEF IInv, TypeOK, Calm, NoneOpened, Usable

\* A thread whose socket() failed finds that out at its first recv().
LEMMA NoSocketNoData ==
  ASSUME IInv, Alive, sock = NoConn, pc[opener] \in {"caps", "auth", "sub"}
  PROVE  /\ ~RecvEof(opener)
         /\ \A m \in Msgs : ~RecvData(opener, m)
BY DEF IInv, OpenerReadsSock, RecvEof, RecvData

\* Where a failed attempt goes.
LEMMA SetupFailsSteps ==
  ASSUME TypeOK, NEW t \in Threads, SetupFails(t)
  PROVE  \E l \in {"socket", "exit"} :
           /\ StepsTo(t, l)
           /\ IF l = "socket" THEN proc' = proc ELSE proc' = "exiting"
BY DEF TypeOK, SetupFails, Goto, StepsTo

LEMMA GotoSteps ==
  ASSUME TypeOK, NEW t \in Threads, NEW l, Goto(t, l)
  PROVE  StepsTo(t, l)
BY DEF TypeOK, Goto, StepsTo

\* A failed attempt hands the socket on to the next one.
LEMMA SetupFailsCustody ==
  ASSUME IInv, Alive, NEW t \in Threads, SetupFails(t), UNCHANGED <<sock, opener>>, NoneOpened,
         (rd' = rd /\ pc[t] \notin Receiving) \/ rd' = [rd EXCEPT ![t] = NoConn]
  PROVE  Custody'
<1>1. PICK l \in {"socket", "exit"} :
         StepsTo(t, l) /\ IF l = "socket" THEN proc' = proc ELSE proc' = "exiting"
  BY SetupFailsSteps DEF IInv
<1>2. Alive' /\ proc' \in {proc, "exiting"} /\ (proc' = "run" => l = "socket")
  BY <1>1 DEF Alive
<1>3. proc' = "run" => l \in Unsubscribed
  BY <1>2 DEF Unsubscribed
<1>4. QED
  BY <1>1, <1>2, <1>3, StepCustody
\* Every step leaves the socket answered for.
LEMMA CustodyStep ==
  ASSUME IInv, [Next]_vars
  PROVE  Custody'
<1>. USE ThreadsAssumption DEF ThreadsAssumption, At, Env
<1>0. TypeOK /\ LinkTypeOK /\ SubOkMeansSubscribed /\ MainFirst
  BY DEF IInv, TypeOK
<1>1. ASSUME NEW t \in Threads, Open(t)
      PROVE  Custody'
  <2>1. Alive /\ Alive' /\ pc'[t] = "caps" /\ opener' = t /\ rd' = rd /\ rd[t] = NoConn
    BY <1>0, <1>1 DEF Open, Goto, Alive, IInv, ReadersReceive, Receiving, TypeOK
  <2>2. \A x \in Threads \ {t} : pc'[x] = pc[x]
    BY <1>0, <1>1 DEF Open, Goto, TypeOK
  <2>3. ReadersReceive' /\ OpenerReadsSock' /\ SockSubscribedOrOpening'
    BY <2>1, <2>2 DEF IInv, ReadersReceive, OpenerReadsSock, SockSubscribedOrOpening, Unsubscribed
  <2>4. SockOpenOrReplaced'
    <3>1. CASE \E c \in Conns : Opens(c) /\ sock' = c
      <4>1. PICK c \in Conns : Opens(c) /\ sock' = c
        BY <3>1
      <4>2. conn'[c].open
        BY <1>0, <4>1, OpenEffect
      <4>3. QED
        BY <4>1, <4>2 DEF SockOpenOrReplaced, Usable
    <3>2. CASE sock' = NoConn
      BY <2>1, <3>2 DEF SockOpenOrReplaced
    <3>3. QED
      BY <1>1, <3>1, <3>2 DEF Open
  <2>5. QED
    BY <2>3, <2>4 DEF Custody
<1>2. ASSUME NEW t \in Threads, CallRecv(t)
      PROVE  Custody'
  <2>1. /\ Alive /\ Alive' /\ pc[t] \in Receiving /\ rd' = [rd EXCEPT ![t] = sock]
        /\ UNCHANGED <<conn, pc, sock, proc, opener>>
    BY <1>2 DEF CallRecv, EntersRecv, Receiving, Alive
  <2>2. ReadersReceive' /\ OpenerReadsSock'
    BY <1>0, <2>1 DEF IInv, ReadersReceive, OpenerReadsSock, TypeOK, LinkTypeOK
  <2>3. SockOpenOrReplaced' /\ SockSubscribedOrOpening'
    BY <2>1 DEF IInv, SockOpenOrReplaced, SockSubscribedOrOpening, Usable
  <2>4. QED
    BY <2>2, <2>3 DEF Custody
<1>3. ASSUME NEW t \in Threads, RecvCaps(t) \/ RecvAuth(t)
      PROVE  Custody'
  <2>1. /\ Alive /\ UNCHANGED <<sock, opener>> /\ pc[t] \in {"caps", "auth"}
        /\ (\E m \in Msgs : RecvData(t, m)) \/ RecvEof(t) \/ RecvError(t, sock)
        /\ \/ SetupFails(t)
           \/ Goto(t, "shut") /\ UNCHANGED proc
           \/ /\ Goto(t, "sendAuth") \/ Goto(t, "sendSub")
              /\ UNCHANGED proc
              /\ (\E m \in Msgs : RecvData(t, m)) \/ RecvEof(t)
    BY <1>3 DEF RecvCaps, RecvAuth, Msgs
  <2>2. /\ NoneOpened /\ (Usable(sock) => Usable(sock)')
        /\ rd' = [rd EXCEPT ![t] = NoConn]
    BY <2>1, RecvCustody
  <2>3. CASE SetupFails(t)
    BY <2>1, <2>2, <2>3, SetupFailsCustody
  <2>4. ASSUME NEW l \in {"shut", "sendAuth", "sendSub"}, Goto(t, l), UNCHANGED proc,
               l = "shut" \/ (\E m \in Msgs : RecvData(t, m)) \/ RecvEof(t)
        PROVE  Custody'
    <3>1. StepsTo(t, l) /\ Alive' /\ l \in Unsubscribed
      BY <1>0, <2>1, <2>4, GotoSteps DEF Alive, Unsubscribed
    <3>2. t = opener /\ sock = NoConn => l = "shut"
      BY <2>1, <2>4, NoSocketNoData
    <3>3. QED
      BY <2>1, <2>2, <2>4, <3>1, <3>2, StepCustody
  <2>5. QED
    BY <2>1, <2>3, <2>4
<1>4. ASSUME NEW t \in Threads, RecvSub(t)
      PROVE  Custody'
  <2>1. /\ Alive /\ UNCHANGED <<sock, opener>> /\ pc[t] = "sub"
        /\ (\E m \in Msgs : RecvData(t, m)) \/ RecvEof(t) \/ RecvError(t, sock)
        /\ \/ SetupFails(t)
           \/ Goto(t, "shut") /\ UNCHANGED proc
           \/ ~StartsAgain(t) /\ StartsAndWaits(t) /\ UNCHANGED proc /\ RecvData(t, SUB_OK)
    BY <1>4 DEF RecvSub, Msgs
  <2>2. /\ NoneOpened /\ (Usable(sock) => Usable(sock)')
        /\ rd' = [rd EXCEPT ![t] = NoConn]
        /\ Usable(sock) /\ conn[sock].phase = "subbed" => conn'[sock].phase = "subbed"
    BY <2>1, RecvCustody
  <2>3. CASE SetupFails(t)
    BY <2>1, <2>2, <2>3, SetupFailsCustody
  <2>4. CASE Goto(t, "shut") /\ UNCHANGED proc
    <3>1. StepsTo(t, "shut") /\ Alive' /\ "shut" \in Unsubscribed
      BY <1>0, <2>1, <2>4, GotoSteps DEF Alive, Unsubscribed
    <3>2. QED
      BY <2>1, <2>2, <2>4, <3>1, StepCustody
  <2>5. CASE ~StartsAgain(t) /\ StartsAndWaits(t) /\ UNCHANGED proc /\ RecvData(t, SUB_OK)
    <3>1. StepsTo(t, "waitWork") /\ Alive'
      BY <1>0, <2>1, <2>5 DEF StartsAgain, StartsAndWaits, StepsTo, TypeOK, Alive
    <3>2. t = opener => (Usable(sock)' => conn'[sock].phase = "subbed")
      <4>1. SUFFICES ASSUME t = opener, Usable(sock)'
                     PROVE  conn'[sock].phase = "subbed"
        OBVIOUS
      <4>2. rd[t] = sock /\ sock \in Conns /\ conn'[sock].open
        BY <2>1, <2>5, <4>1 DEF IInv, OpenerReadsSock, RecvData, Usable
      <4>3. conn[sock].open
        BY <2>2, <4>2 DEF NoneOpened
      <4>4. conn[sock].phase = "subbed"
        <5>1. PICK k \in 1..Len(conn[sock].inq) : conn[sock].inq[1] = SUB_OK
          BY <2>5, <4>2 DEF RecvData
        <5>2. Len(conn[sock].inq) \in Nat
          BY <1>0, <4>2, LenProperties DEF LinkTypeOK, ConnStates
        <5>3. 1 \in 1..Len(conn[sock].inq)
          BY <5>1, <5>2
        <5>4. QED
          BY <1>0, <4>2, <5>1, <5>3 DEF SubOkMeansSubscribed
      <4>5. QED
        BY <2>2, <4>2, <4>3, <4>4 DEF Usable
    <3>3. QED
      BY <2>1, <2>2, <2>5, <3>1, <3>2, StepCustody
  <2>6. QED
    BY <2>1, <2>3, <2>4, <2>5<1>5. ASSUME NEW t \in Threads, SendAuth(t) \/ SendSub(t)
      PROVE  Custody'
  <2>1. Alive /\ pc[t] \in {"sendAuth", "sendSub"} /\ (Dies("killed") \/ ~Dies("killed"))
    BY <1>5 DEF SendAuth, SendSub
  <2>2. CASE Dies("killed")
    BY <2>2, DiesCustody DEF Dead
  <2>3. CASE ~Dies("killed")
    <3>1. PICK from \in Phases, to \in Phases, next \in {"auth", "sub"} :
             from # "subbed" /\ SendRequest(t, from, to, next)
      BY <1>5 DEF SendAuth, SendSub, Phases
    <3>2. PICK l \in {"auth", "sub", "shut"} :
             /\ Goto(t, l) /\ UNCHANGED <<rd, sock, proc, opener>>
             /\ SendOk(sock, from, to) \/ SendError(sock)
      BY <2>3, <3>1 DEF SendRequest
    <3>3. NoneOpened /\ (Usable(sock) => Usable(sock)')
      BY <1>0, <3>1, <3>2, SendEffect DEF Calm, NoneOpened, Usable
    <3>4. StepsTo(t, l) /\ Alive' /\ l \in Unsubscribed /\ pc[t] \notin Receiving
      BY <1>0, <2>1, <3>2, GotoSteps DEF Alive, Unsubscribed, Receiving
    <3>5. QED
      BY <2>1, <3>2, <3>3, <3>4, StepCustody
  <2>4. QED
    BY <2>2, <2>3
<1>6. ASSUME NEW t \in Threads, RestartsReceiver(t)
      PROVE  Custody'
  BY <1>6, DiesCustody DEF RestartsReceiver, Dead
<1>7. ASSUME NEW t \in Threads, Shut(t) \/ WorkTimeout(t)
      PROVE  Custody'
  <2>1. Alive /\ pc[t] \notin Receiving /\ SetupFails(t) /\ UNCHANGED <<rd, sock, opener>>
    BY <1>7 DEF Shut, WorkTimeout, Receiving
  <2>2. NoneOpened
    BY <1>0, <1>7, CloseEffect DEF Shut, WorkTimeout, NoneOpened
  <2>3. QED
    BY <2>1, <2>2, SetupFailsCustody
<1>8. ASSUME NEW t \in Threads, NEW l, Alive, Goto(t, l), UNCHANGED <<conn, rd, sock, proc, opener>>,
             pc[t] \notin Unsubscribed \cup Receiving, pc[t] = "raise" => l = "socket"
      PROVE  Custody'
  <2>1. StepsTo(t, l) /\ Alive' /\ NoneOpened /\ (Usable(sock) => Usable(sock)')
    BY <1>0, <1>8, GotoSteps DEF Alive, NoneOpened, Usable
  <2>2. pc[t] \notin {"socket", "caps", "shut"}
    BY <1>8 DEF Unsubscribed
  <2>3. QED
    BY <1>8, <2>1, <2>2, StepCustody
<1>9. ASSUME NEW t \in Threads, Reconnected(t) \/ Raise(t)
      PROVE  Custody'
  <2>1. PICK l \in {"recv", "getWork", "socket"} :
           /\ Goto(t, l) /\ Alive /\ UNCHANGED <<conn, rd, sock, proc, opener>>
           /\ pc[t] \in {"waitWork", "raise"} /\ (pc[t] = "raise" => l = "socket")
    BY <1>9 DEF Reconnected, Raise, linkVars
  <2>2. QED
    BY <1>8, <2>1 DEF Unsubscribed, Receiving
<1>10. ASSUME NEW t \in Threads, Drop(t)
       PROVE  Custody'
  <2>1. /\ Alive /\ Alive' /\ pc[t] = "drop" /\ StepsTo(t, "raise")
        /\ UNCHANGED <<rd, sock, proc, opener>> /\ NoneOpened
    BY <1>0, <1>10, GotoSteps, CloseEffect DEF Drop, Alive, NoneOpened
  <2>2. QED
    BY <2>1, StepCustody DEF Receiving, Unsubscribed
<1>11. CASE Launched
  <2>1. /\ Alive /\ Alive' /\ pc[Main] = "waitWork" /\ UNCHANGED <<conn, rd, sock, proc, opener>>
        /\ StepsTo(Main, "join") /\ NoneOpened /\ (Usable(sock) => Usable(sock)')
    BY <1>0, <1>11 DEF Launched, Alive, linkVars, StepsTo, NoneOpened, Usable, MainFirst
  <2>2. QED
    BY <2>1, StepCustody DEF Receiving, Unsubscribed
<1>12. CASE RxFirst \/ RxMore
  <2>1. /\ Alive /\ pc[Receiver] \in {"recv", "more"} /\ UNCHANGED <<sock, proc, opener>>
        /\ (\E m \in Msgs : RecvData(Receiver, m)) \/ RecvEof(Receiver) \/ RecvError(Receiver, sock)
    BY <1>12 DEF RxFirst, RxMore, Dispatch, NothingRead
  <2>2. \A x \in Threads \ {Receiver} : pc'[x] = pc[x]
    BY <1>0, <1>12 DEF RxFirst, RxMore, Dispatch, NothingRead, Goto, TypeOK
  <2>3. StepsTo(Receiver, pc'[Receiver]) /\ Alive'
    BY <2>1, <2>2 DEF StepsTo, Alive
  <2>4. /\ NoneOpened /\ (Usable(sock) => Usable(sock)')
        /\ rd' = [rd EXCEPT ![Receiver] = NoConn]
    BY <2>1, RecvCustody
  <2>5. QED
    BY <2>1, <2>3, <2>4, StepCustody DEF Unsubscribed
<1>13. CASE Malformed
  BY <1>13, DiesCustody DEF Malformed, Dead
<1>14. ASSUME NEW m \in Miners, GetWork(m) \/ Hash(m) \/ LockForSubmit(m) \/ CheckReconnecting(m)
       PROVE  Custody'
  <2>1. PICK l \in {"hash", "found", "getWork", "check", "send"} :
           /\ Goto(m, l) /\ Alive /\ UNCHANGED <<conn, rd, sock, proc, opener>>
           /\ pc[m] \in {"getWork", "hash", "found", "check"}
    BY <1>14 DEF GetWork, Hash, LockForSubmit, CheckReconnecting, linkVars
  <2>2. QED
    BY <1>8, <2>1 DEF Unsubscribed, Receiving
<1>15. ASSUME NEW m \in Miners, SubmitSend(m)
       PROVE  Custody'
  <2>1. CASE Dies("killed")
    BY <2>1, DiesCustody DEF Dead
  <2>2. CASE ~Dies("killed")
    <3>1. /\ Alive /\ pc[m] = "send" /\ UNCHANGED <<rd, sock, proc, opener>>
          /\ SendOk(sock, "subbed", "subbed") \/ SendError(sock)
          /\ \E l \in {"getWork", "quit", "drop"} : Goto(m, l)
      BY <1>15, <2>2 DEF SubmitSend
    <3>2. PICK l \in {"getWork", "quit", "drop"} : Goto(m, l)
      BY <3>1
    <3>3. NoneOpened /\ (Usable(sock) => Usable(sock)')
      BY <1>0, <3>1, SendEffect DEF Calm, NoneOpened, Usable, Phases
    <3>4. StepsTo(m, l) /\ Alive'
      BY <1>0, <3>1, <3>2, GotoSteps DEF Alive
    <3>5. QED
      BY <3>1, <3>3, <3>4, StepCustody DEF Unsubscribed, Receiving
  <2>3. QED
    BY <2>1, <2>2
<1>16. ASSUME NEW m \in Miners, Quit(m)
       PROVE  Custody'
  <2>1. /\ Alive /\ Alive' /\ pc[m] = "quit" /\ StepsTo(m, "exit") /\ proc' = "exiting"
        /\ UNCHANGED <<rd, sock, opener>> /\ NoneOpened
    BY <1>0, <1>16, GotoSteps, CloseEffect DEF Quit, Alive, NoneOpened
  <2>2. QED
    BY <2>1, StepCustody DEF Receiving
<1>17. CASE ExitProcess
  BY <1>17, DiesCustody DEF ExitProcess, Dead
<1>18. CASE RunAgain
  <2>1. \A t \in Threads : rd[t] = NoConn
    BY <1>18 DEF RunAgain, IInv, ReadersReceive, Alive, Dead
  <2>2. rd' = rd /\ proc' = "run" /\ pc'[Main] = "socket" /\ opener' = Main
    BY <1>18 DEF RunAgain, Fresh, linkVars
  <2>3. QED
    BY <2>1, <2>2 DEF Custody, ReadersReceive, OpenerReadsSock, SockOpenOrReplaced,
       SockSubscribedOrOpening, Unsubscribed
<1>19. CASE Pool
  <2>1. UNCHANGED <<rd, pc, sock, proc, opener>> /\ Calm
    BY <1>0, <1>19, PoolEffect, BoundsAssumption, PoolSendsAssumption DEF Pool
  <2>2. ReadersReceive' /\ OpenerReadsSock'
    BY <2>1 DEF IInv, ReadersReceive, OpenerReadsSock, Alive
  <2>3. SockOpenOrReplaced' /\ SockSubscribedOrOpening'
    BY <2>1 DEF IInv, SockOpenOrReplaced, SockSubscribedOrOpening, Usable, Calm
  <2>4. QED
    BY <2>2, <2>3 DEF Custody
<1>20. CASE UNCHANGED vars
  BY <1>20 DEF vars, linkVars, IInv, Custody, Alive, Usable, ReadersReceive, OpenerReadsSock,
     SockOpenOrReplaced, SockSubscribedOrOpening
<1>21. QED
  BY <1>1, <1>2, <1>3, <1>4, <1>5, <1>6, <1>7, <1>9, <1>10, <1>11, <1>12, <1>13, <1>14, <1>15,
     <1>16, <1>17, <1>18, <1>19, <1>20 DEF Next, Setup, Receive, Mine
-----------------------------------------------------------------------------
(* Who may overtake a set-up.                                              *)

Overtaking == OvertakenByReceiver /\ ReceiverAfterFailure

\* After the end of the process nobody sets anything up.
LEMMA DiesOvertaking ==
  ASSUME NEW how \in Dead, Dies(how)
  PROVE  Overtaking'
BY DEF Dies, Dead, Alive, Overtaking, OvertakenByReceiver, ReceiverAfterFailure

\* A thread that neither enters a set-up nor starts another thread keeps both.
LEMMA GotoOvertaking ==
  ASSUME IInv, Alive, NEW t \in Threads, NEW l, Goto(t, l), UNCHANGED opener, pc[t] # "off",
         l \in Handshake \ {"socket"} => pc[t] \in Handshake \ {"socket"},
         l \in {"recv", "more"} => t = Receiver,
         t = Main /\ l \in Unsubscribed => pc[t] \in Unsubscribed \/ retries' > 0,
         retries' = retries \/ retries' > 0
  PROVE  Overtaking'
<1>. USE DEF IInv, TypeOK, Goto
<1>1. OvertakenByReceiver'
  BY DEF OvertakenByReceiver
<1>2. ReceiverAfterFailure'
  BY ThreadsAssumption DEF ThreadsAssumption, ReceiverAfterFailure
<1>3. QED
  BY <1>1, <1>2 DEF Overtaking

\* A failed attempt of the constructor counts.
LEMMA SetupFailsOvertaking ==
  ASSUME IInv, Alive, NEW t \in Threads, SetupFails(t), UNCHANGED opener, pc[t] # "off"
  PROVE  Overtaking'
<1>1. CASE t # Main
  BY <1>1, GotoOvertaking DEF SetupFails, Handshake
<1>2. CASE t = Main /\ Goto(Main, "socket") /\ retries' = retries + 1
  <2>1. \A n \in 0..MaxRetry : n + 1 > 0
    OBVIOUS
  <2>2. retries' > 0
    BY <1>2, <2>1 DEF IInv, TypeOK
  <2>3. QED
    BY <1>2, <2>2, GotoOvertaking DEF Handshake
<1>3. CASE t = Main /\ Goto(Main, "exit") /\ retries' = retries
  BY <1>3, GotoOvertaking DEF Handshake, Unsubscribed
<1>4. QED
  BY <1>1, <1>2, <1>3 DEF SetupFails

\* Every step keeps both.
LEMMA OvertakingStep ==
  ASSUME IInv, [Next]_vars
  PROVE  Overtaking'
<1>. USE ThreadsAssumption DEF ThreadsAssumption, At
<1>0. TypeOK /\ MainFirst /\ SubmitHoldsLock /\ Overtaking
  BY DEF IInv, Overtaking
<1>1. ASSUME NEW t \in Threads, Open(t)
      PROVE  Overtaking'
  <2>1. /\ Alive /\ pc[t] = "socket" /\ opener' = t /\ retries' = retries
        /\ pc' = [pc EXCEPT ![t] = "caps"]
    BY <1>1 DEF Open, Goto
  <2>2. ASSUME NEW x \in Threads \ {Receiver}, x # t, t # Receiver,
               pc[x] \in Handshake \ {"socket"}
        PROVE  FALSE
    <3>1. CASE x = Main \/ t = Main
      BY <1>0, <2>1, <2>2, <3>1 DEF MainFirst, Handshake
    <3>2. CASE x \in Miners /\ t \in Miners
      BY <1>0, <2>1, <2>2, <3>2 DEF SubmitHoldsLock, Submitting, Reopening, Handshake
    <3>3. QED
      BY <2>2, <3>1, <3>2
  <2>3. OvertakenByReceiver'
    BY <1>0, <2>1, <2>2 DEF Overtaking, OvertakenByReceiver, TypeOK
  <2>4. ReceiverAfterFailure'
    BY <1>0, <2>1 DEF Overtaking, ReceiverAfterFailure, TypeOK, Unsubscribed
  <2>5. QED
    BY <2>3, <2>4 DEF Overtaking
<1>2. ASSUME NEW t \in Threads, CallRecv(t)
      PROVE  Overtaking'
  BY <1>0, <1>2 DEF CallRecv, Overtaking, OvertakenByReceiver, ReceiverAfterFailure, Alive
<1>3. ASSUME NEW t \in Threads, RecvCaps(t) \/ RecvAuth(t)
      PROVE  Overtaking'
  <2>1. /\ Alive /\ pc[t] \in {"caps", "auth"} /\ UNCHANGED opener
        /\ \/ SetupFails(t)
           \/ \E l \in {"shut", "sendAuth", "sendSub"} : Goto(t, l) /\ UNCHANGED retries
    BY <1>3 DEF RecvCaps, RecvAuth
  <2>2. ASSUME NEW l \in {"shut", "sendAuth", "sendSub"}, Goto(t, l), UNCHANGED retries
        PROVE  Overtaking'
    BY <2>1, <2>2, GotoOvertaking DEF Handshake, Unsubscribed
  <2>3. QED
    BY <2>1, <2>2, SetupFailsOvertaking
<1>4. ASSUME NEW t \in Threads, RecvSub(t)
      PROVE  Overtaking'
  <2>1. /\ Alive /\ pc[t] = "sub" /\ UNCHANGED opener
        /\ \/ SetupFails(t)
           \/ Goto(t, "shut") /\ UNCHANGED retries
           \/ ~StartsAgain(t) /\ StartsAndWaits(t) /\ UNCHANGED retries
    BY <1>4 DEF RecvSub
  <2>2. CASE SetupFails(t)
    BY <2>1, <2>2, SetupFailsOvertaking
  <2>3. CASE Goto(t, "shut") /\ UNCHANGED retries
    BY <2>1, <2>3, GotoOvertaking DEF Handshake, Unsubscribed
  <2>4. CASE ~StartsAgain(t) /\ StartsAndWaits(t) /\ UNCHANGED retries
    <3>1. OvertakenByReceiver'
      BY <1>0, <2>1, <2>4 DEF StartsAndWaits, Overtaking, OvertakenByReceiver, Handshake
    <3>2. ReceiverAfterFailure'
      BY <1>0, <2>1, <2>4 DEF StartsAndWaits, Overtaking, ReceiverAfterFailure, Unsubscribed
    <3>3. QED
      BY <3>1, <3>2 DEF Overtaking
  <2>5. QED
    BY <2>1, <2>2, <2>3, <2>4
<1>5. ASSUME NEW t \in Threads, SendAuth(t) \/ SendSub(t)
      PROVE  Overtaking'
  <2>1. /\ Alive /\ pc[t] \in {"sendAuth", "sendSub"}
        /\ \/ Dies("killed")
           \/ \E l \in {"auth", "sub", "shut"} : Goto(t, l) /\ UNCHANGED <<retries, opener>>
    BY <1>5 DEF SendAuth, SendSub, SendRequest
  <2>2. ASSUME NEW l \in {"auth", "sub", "shut"}, Goto(t, l), UNCHANGED <<retries, opener>>
        PROVE  Overtaking'
    BY <2>1, <2>2, GotoOvertaking DEF Handshake, Unsubscribed
  <2>3. QED
    BY <2>1, <2>2, DiesOvertaking DEF Dead
<1>6. ASSUME NEW t \in Threads, RestartsReceiver(t)
      PROVE  Overtaking'
  BY <1>6, DiesOvertaking DEF RestartsReceiver, Dead
<1>7. ASSUME NEW t \in Threads, Shut(t) \/ WorkTimeout(t)
      PROVE  Overtaking'
  <2>1. Alive /\ pc[t] # "off" /\ SetupFails(t) /\ UNCHANGED opener
    BY <1>7 DEF Shut, WorkTimeout
  <2>2. QED
    BY <2>1, SetupFailsOvertaking
<1>8. ASSUME NEW t \in Threads, Reconnected(t) \/ Drop(t) \/ Raise(t)
      PROVE  Overtaking'
  <2>1. PICK l \in {"recv", "getWork", "raise", "socket"} :
           /\ Goto(t, l) /\ Alive /\ UNCHANGED <<opener, retries>>
           /\ pc[t] \in {"waitWork", "drop", "raise"}
           /\ (l = "recv" => t = Receiver) /\ (l = "socket" => pc[t] = "raise")
    BY <1>8 DEF Reconnected, Drop, Raise
  <2>2. t = Main => l # "socket"
    BY <1>0, <2>1 DEF MainFirst, Handshake
  <2>3. QED
    BY <2>1, <2>2, GotoOvertaking DEF Handshake, Unsubscribed
<1>9. CASE Launched
  <2>1. OvertakenByReceiver'
    BY <1>0, <1>9 DEF Launched, Overtaking, OvertakenByReceiver, Alive, Handshake
  <2>2. ReceiverAfterFailure'
    BY <1>9 DEF Launched, ReceiverAfterFailure, Unsubscribed
  <2>3. QED
    BY <2>1, <2>2 DEF Overtaking
<1>10. CASE RxFirst \/ RxMore
  <2>1. /\ Alive /\ pc[Receiver] \in {"recv", "more"} /\ UNCHANGED <<retries, opener>>
        /\ \/ UNCHANGED <<pc, proc>>
           \/ \E l \in {"recv", "more", "drop"} : Goto(Receiver, l)
    BY <1>10 DEF RxFirst, RxMore, Dispatch, NothingRead
  <2>2. ASSUME NEW l \in {"recv", "more", "drop"}, Goto(Receiver, l)
        PROVE  Overtaking'
    BY <2>1, <2>2, GotoOvertaking DEF Handshake
  <2>3. CASE UNCHANGED <<pc, proc>>
    BY <1>0, <2>1, <2>3 DEF Overtaking, OvertakenByReceiver, ReceiverAfterFailure, Alive
  <2>4. QED
    BY <2>1, <2>2, <2>3
<1>11. CASE Malformed
  BY <1>11, DiesOvertaking DEF Malformed, Dead
<1>12. ASSUME NEW m \in Miners,
              GetWork(m) \/ Hash(m) \/ LockForSubmit(m) \/ CheckReconnecting(m) \/ Quit(m)
       PROVE  Overtaking'
  <2>1. /\ Alive /\ pc[m] # "off" /\ UNCHANGED <<retries, opener>>
        /\ \E l \in {"hash", "found", "getWork", "check", "send", "exit"} : Goto(m, l)
    BY <1>12 DEF GetWork, Hash, LockForSubmit, CheckReconnecting, Quit
  <2>2. ASSUME NEW l \in {"hash", "found", "getWork", "check", "send", "exit"}, Goto(m, l)
        PROVE  Overtaking'
    BY <2>1, <2>2, GotoOvertaking DEF Handshake
  <2>3. QED
    BY <2>1, <2>2
<1>13. ASSUME NEW m \in Miners, SubmitSend(m)
       PROVE  Overtaking'
  <2>1. /\ Alive /\ pc[m] = "send"
        /\ \/ Dies("killed")
           \/ /\ UNCHANGED <<retries, opener>>
              /\ \E l \in {"getWork", "quit", "drop"} : Goto(m, l)
    BY <1>13 DEF SubmitSend
  <2>2. ASSUME NEW l \in {"getWork", "quit", "drop"}, Goto(m, l), UNCHANGED <<retries, opener>>
        PROVE  Overtaking'
    BY <2>1, <2>2, GotoOvertaking DEF Handshake
  <2>3. QED
    BY <2>1, <2>2, DiesOvertaking DEF Dead
<1>14. CASE ExitProcess
  BY <1>14, DiesOvertaking DEF ExitProcess, Dead
<1>15. CASE RunAgain
  BY <1>15 DEF RunAgain, Fresh, Overtaking, OvertakenByReceiver, ReceiverAfterFailure, Handshake
<1>16. CASE Pool \/ UNCHANGED vars
  BY <1>0, <1>16 DEF Pool, vars, Overtaking, OvertakenByReceiver, ReceiverAfterFailure, Alive
<1>17. QED
  BY <1>1, <1>2, <1>3, <1>4, <1>5, <1>6, <1>7, <1>8, <1>9, <1>10, <1>11, <1>12, <1>13, <1>14,
     <1>15, <1>16 DEF Next, Setup, Receive, Mine
-----------------------------------------------------------------------------
(* The theorems.                                                           *)

\* A fresh process satisfies the invariant.
LEMMA InitIInv ==
  Init => IInv
<1>. SUFFICES ASSUME Init PROVE IInv
  OBVIOUS
<1>. USE ThreadsAssumption DEF ThreadsAssumption, Init, LinkInit, Fresh
<1>1. FreeConn \in ConnStates /\ Len(FreeConn.inq) = 0
  BY EmptySeq DEF FreeConn, ConnStates, NetStates, Phases
<1>2. MaxFaults \in 0..MaxFaults /\ MaxOutages \in 0..MaxOutages /\ 0 \in 0..MaxRetry
      /\ 0 \in 0..MaxMore
  BY BoundsAssumption, LimitsAssumption DEF BoundsAssumption, LimitsAssumption
<1>3. LinkTypeOK
  BY <1>1, <1>2 DEF LinkTypeOK
<1>4. TypeOK
  BY <1>2, <1>3 DEF TypeOK, PCs, Submitting, Reopening, Handshake, RxLocals, RxIdle
<1>5. SubOkMeansSubscribed
  BY <1>1 DEF SubOkMeansSubscribed
<1>6. Control
  BY DEF Control, ReconnectFlagHeldByReconnector, SubmitHoldsLock, MainFirst,
     Submitting, Reopening, Handshake
<1>7. Custody
  BY DEF Custody, ReadersReceive, OpenerReadsSock, SockOpenOrReplaced, SockSubscribedOrOpening,
     Unsubscribed
<1>8. OvertakenByReceiver /\ ReceiverAfterFailure
  BY DEF OvertakenByReceiver, ReceiverAfterFailure, Handshake
<1>9. QED
  BY <1>4, <1>5, <1>6, <1>7, <1>8, IInvParts

\* Every step keeps it.
LEMMA NextIInv ==
  IInv /\ [Next]_vars => IInv'
<1>. SUFFICES ASSUME IInv, [Next]_vars PROVE IInv'
  OBVIOUS
<1>1. TypeOK' /\ SubOkMeansSubscribed'
  BY TypeStep, IInvParts
<1>2. Control'
  BY ControlStep, IInvParts
<1>3. Custody'
  BY CustodyStep
<1>4. Overtaking'
  BY OvertakingStep
<1>5. QED
  BY <1>1, <1>2, <1>3, <1>4 DEF IInv, Control, Custody, Overtaking

\* The inductive invariant holds in every state of every execution.
THEOREM Invariant ==
  Spec => []IInv
BY InitIInv, NextIInv, PTL DEF Spec

\* Every variable keeps its type, whatever the pool and the network do.
THEOREM TypeCorrect ==
  Spec => []TypeOK
<1>1. IInv => TypeOK
  BY DEF IInv
<1>2. QED
  BY <1>1, Invariant, PTL

\* The reconnecting flag (870-885, 1121-1149) is never left up by a thread
\* that has stopped reconnecting: submitWork() does not wait for nothing.
THEOREM FlagHasAHolder ==
  Spec => []ReconnectFlagHeldByReconnector
<1>1. IInv => ReconnectFlagHeldByReconnector
  BY DEF IInv
<1>2. QED
  BY <1>1, Invariant, PTL

\* stratum_sock_lock admits one miner to submitWork(), and its reconnection
\* belongs to the section it protects.
THEOREM OneSubmitter ==
  Spec => []SubmitHoldsLock
<1>1. IInv => SubmitHoldsLock
  BY DEF IInv
<1>2. QED
  BY <1>1, Invariant, PTL

\* When the last of any number of overlapping reconnections is over, the
\* shared socket is open and subscribed.
THEOREM ReconnectionsEndSubscribed ==
  Spec => []QuiescentSubscribed
<1>1. IInv => QuiescentSubscribed
  <2>1. SUFFICES ASSUME IInv, proc = "run", \A t \in Threads : pc[t] \notin Reopening
                 PROVE  Usable(sock) /\ conn[sock].phase = "subbed"
    BY DEF QuiescentSubscribed
  <2>2. opener \in Threads
    BY <2>1 DEF IInv, TypeOK
  <2>3. Usable(sock)
    BY <2>1, <2>2 DEF IInv, SockOpenOrReplaced, Reopening, Handshake
  <2>4. pc[opener] \notin Unsubscribed
    BY <2>1, <2>2 DEF Unsubscribed, Reopening, Handshake
  <2>5. QED
    BY <2>1, <2>3, <2>4 DEF IInv, SockSubscribedOrOpening
<1>2. QED
  BY <1>1, Invariant, PTL

\* The reply a set-up waits for is at risk from the receiver alone, and in the
\* constructor (1035-1043) only after a first attempt has failed: two miners
\* that reconnect (1136-1147) never read each other's replies.
THEOREM OnlyTheReceiverSharesASetup ==
  Spec => []SetupSharedWithReceiverOnly
<1>1. IInv => SetupSharedWithReceiverOnly
  <2>1. SUFFICES ASSUME IInv, Alive, pc[opener] \in {"caps", "auth", "sub"},
                        NEW t \in Threads \ {opener}, rd[t] # NoConn
                 PROVE  /\ Receiver \in {t, opener}
                        /\ Main \in {t, opener} => retries > 0
    BY DEF SetupSharedWithReceiverOnly
  <2>2. pc[t] \in {"caps", "auth", "sub", "recv", "more"}
    BY <2>1 DEF IInv, ReadersReceive, Receiving
  <2>3. Receiver \in {t, opener}
    BY <2>1, <2>2 DEF IInv, OvertakenByReceiver, Handshake
  <2>4. Main \in {t, opener} => pc[Main] \in {"caps", "auth", "sub"}
    BY <2>1, <2>2, ThreadsAssumption DEF ThreadsAssumption, IInv, OvertakenByReceiver
  <2>5. pc[Receiver] # "off"
    BY <2>1, <2>2, <2>3
  <2>6. QED
    BY <2>1, <2>3, <2>4, <2>5 DEF IInv, ReceiverAfterFailure, Unsubscribed
<1>2. QED
  BY <1>1, Invariant, PTL

\* A share is written to a session without a subscription only while another
\* thread replaces the socket: the race of 1089 with 875 is the one cause.
THEOREM OnlyTheRaceMisdirects ==
  Spec => MisdirectedOnlyByRace
<1>. DEFINE A == \A m \in Miners :
                   /\ pc[m] = "send" /\ pc'[m] # "send" /\ proc = "run" /\ Alive'
                   /\ Usable(sock) /\ conn[sock].phase # "subbed"
                   => \E t \in Threads \ {m} : pc[t] \in Reopening
<1>1. IInv => A
  <2>1. SUFFICES ASSUME IInv, NEW m \in Miners, pc[m] = "send", proc = "run", Usable(sock),
                        conn[sock].phase # "subbed"
                 PROVE  \E t \in Threads \ {m} : pc[t] \in Reopening
    OBVIOUS
  <2>2. opener \in Threads /\ pc[opener] \in Unsubscribed
    BY <2>1 DEF IInv, TypeOK, SockSubscribedOrOpening
  <2>3. opener # m /\ pc[opener] \in Reopening
    BY <2>1, <2>2 DEF Unsubscribed, Reopening, Handshake
  <2>4. QED
    BY <2>2, <2>3
<1>2. QED
  BY <1>1, Invariant, PTL DEF MisdirectedOnlyByRace
=============================================================================
