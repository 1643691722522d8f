------------------------------ MODULE PoolLink ------------------------------
(***************************************************************************)
(* What UCPClient.h talks to: the kernel's TCP sockets of the miner        *)
(* process and the UCP pool at their far end.  Neither is under src/; both *)
(* are modelled from how UCPClient.h uses socket(), connect(), recv(),     *)
(* send() and close(), with the Linux results of those calls.              *)
(*                                                                         *)
(* A member of Conns is an open file description, not a descriptor number: *)
(* a thread blocked in recv() keeps its connection alive after another     *)
(* thread has closed the descriptor, and goes on receiving from it.        *)
(***************************************************************************)
EXTENDS Naturals, Sequences, FiniteSets

CONSTANTS
  Conns,       \* connections the process may hold, a set of numbers
  NoConn,      \* what ucpServerSocket holds when socket() failed
  MaxFds,      \* descriptors the process may have open for sockets
  Threads,     \* threads of the process that may sit in recv()
  MaxQueue,    \* bound: unread messages of one connection
  MaxFaults,   \* bound: dropped or reset connections, unexpected replies
  MaxOutages,  \* bound: times the pool goes down
  PoolSends    \* the messages the pool of this instance sends

CAPS    == "CAPABILITIES"
AUTH_OK == "MINING_AUTH_SUCCESS"
AUTH_NO == "MINING_AUTH_FAILURE"
SUB_OK  == "MINING_SUBSCRIBE_SUCCESS"
SUB_NO  == "MINING_SUBSCRIBE_FAILURE"
JOB     == "MINING_JOB"
BAD     == "MALFORMED_MINING_JOB"     \* a command whose parsing throws
NOISE   == "NOISE"                    \* any text that changes nothing here

\* The server commands, up to what the connection's life cycle tells apart.
Msgs == {CAPS, AUTH_OK, AUTH_NO, SUB_OK, SUB_NO, JOB, BAD, NOISE}

\* Enough of them that only MaxFds ever makes socket() fail.
ASSUME ConnsAssumption ==
  /\ Conns \subseteq Nat /\ IsFiniteSet(Conns) /\ IsFiniteSet(Threads)
  /\ NoConn \notin Conns
  /\ Cardinality(Conns) >= MaxFds + Cardinality(Threads)
ASSUME BoundsAssumption ==
  /\ MaxFds \in Nat /\ MaxQueue \in Nat
  /\ MaxFaults \in Nat /\ MaxOutages \in Nat
ASSUME PoolSendsAssumption == PoolSends \subseteq Msgs

VARIABLES
  conn,     \* the connections: our end open?, network state, pool's view, unread data
  rd,       \* rd[t]: the connection thread t is blocked on in recv()
  poolUp,   \* the pool accepts connections
  faults,   \* faults left
  outages   \* outages left

linkVars == <<conn, rd, poolUp, faults, outages>>

\* "fin": the pool has closed; "rst": reset, not yet reported to us; "gone":
\* nothing left to report; "refused": connect() failed and was ignored.
NetStates == {"free", "up", "fin", "rst", "gone", "refused"}
\* How far the pool has taken the session of this connection.
Phases == {"new", "greeted", "authReq", "authed", "subReq", "subbed"}

ConnStates == [open: BOOLEAN, net: NetStates, phase: Phases, inq: Seq(Msgs)]

FreeConn == [open |-> FALSE, net |-> "free", phase |-> "new", inq |-> <<>>]

LinkTypeOK ==
  /\ conn \in [Conns -> ConnStates]
  /\ rd \in [Threads -> Conns \cup {NoConn}]
  /\ poolUp \in BOOLEAN
  /\ faults \in 0..MaxFaults
  /\ outages \in 0..MaxOutages

LinkInit ==
  /\ conn = [c \in Conns |-> FreeConn]
  /\ rd = [t \in Threads |-> NoConn]
  /\ poolUp = TRUE
  /\ faults = MaxFaults
  /\ outages = MaxOutages

-----------------------------------------------------------------------------
(* The system calls, as seen by one thread t using descriptor s.           *)

Usable(s) == s \in Conns /\ conn[s].open

OpenConns == {c \in Conns : conn[c].open}

\* The kernel frees a connection once it is closed and nobody is in recv().
Settle(cn, readers) ==
  [c \in Conns |->
     IF cn[c].open \/ (\E t \in Threads : readers[t] = c) THEN cn[c] ELSE FreeConn]

\* socket() and connect(): the lowest free connection, or -1 when the
\* process is out of descriptors.
OpensNone == Cardinality(OpenConns) >= MaxFds

Opens(c) ==
  /\ ~OpensNone
  /\ c \in Conns /\ conn[c] = FreeConn
  /\ \A d \in Conns : conn[d] = FreeConn => c <= d
  /\ conn' = [conn EXCEPT ![c] =
                [open |-> TRUE, net |-> IF poolUp THEN "up" ELSE "refused",
                 phase |-> "new", inq |-> <<>>]]

\* close(s); on a descriptor that is not open it does nothing.
Closes(s) ==
  conn' = IF Usable(s) THEN Settle([conn EXCEPT ![s].open = FALSE], rd) ELSE conn

\* A thread enters recv() and is now waiting on the connection it named.
EntersRecv(t, s) ==
  /\ rd[t] = NoConn
  /\ Usable(s)
  /\ rd' = [rd EXCEPT ![t] = s]

LeavesRecv(t, cn) ==
  /\ rd' = [rd EXCEPT ![t] = NoConn]
  /\ conn' = Settle(cn, [rd EXCEPT ![t] = NoConn])

\* recv() returned data.  One call may return several messages; the parser
\* reads the first JSON value of the buffer and drops what follows it.
RecvData(t, m) ==
  /\ rd[t] # NoConn
  /\ LET c == rd[t] IN
       \E k \in 1..Len(conn[c].inq) :
         /\ m = conn[c].inq[1]
         /\ LeavesRecv(t, [conn EXCEPT ![c].inq = SubSeq(@, k + 1, Len(@))])

\* recv() returned 0.
RecvEof(t) ==
  /\ rd[t] # NoConn
  /\ conn[rd[t]].inq = <<>>
  /\ conn[rd[t]].net \in {"fin", "gone"}
  /\ LeavesRecv(t, conn)

\* recv() returned -1: the reset is reported once, a connection that was
\* never established reports every time.
RecvReset(t) ==
  /\ rd[t] # NoConn
  /\ conn[rd[t]].inq = <<>>
  /\ conn[rd[t]].net \in {"rst", "refused"}
  /\ LeavesRecv(t, [conn EXCEPT ![rd[t]].net = IF @ = "rst" THEN "gone" ELSE @])

\* recv() on a descriptor that is not open returns -1 at once.
RecvBadFd(t, s) ==
  /\ rd[t] = NoConn
  /\ ~Usable(s)
  /\ UNCHANGED <<conn, rd>>

RecvError(t, s) == RecvReset(t) \/ RecvBadFd(t, s)

\* send() of a request that the pool expects in phase `from`.  A request the
\* pool does not expect in the phase it is in is ignored.
SendOk(s, from, to) ==
  /\ Usable(s)
  /\ \/ /\ conn[s].net = "up"
        /\ conn' = [conn EXCEPT ![s].phase = IF @ = from THEN to ELSE @]
     \/ /\ conn[s].net = "fin"         \* the reset that answers it comes later
        /\ \E n \in {"fin", "gone"} : conn' = [conn EXCEPT ![s].net = n]

SendError(s) ==
  \/ /\ ~Usable(s)
     /\ UNCHANGED conn
  \/ /\ Usable(s)
     /\ conn[s].net = "rst"
     /\ conn' = [conn EXCEPT ![s].net = "gone"]

\* send() raises SIGPIPE: flags are 0 and no handler is installed.
SendKills(s) == Usable(s) /\ conn[s].net \in {"gone", "refused"}

-----------------------------------------------------------------------------
(* The pool.                                                               *)

Pushes(c, m) ==
  /\ conn[c].net = "up"
  /\ Len(conn[c].inq) < MaxQueue
  /\ m \in PoolSends
  /\ conn' = [conn EXCEPT ![c].inq = Append(@, m)]

Answers(c, m, from, to) ==
  /\ conn[c].net = "up"
  /\ conn[c].phase = from
  /\ Len(conn[c].inq) < MaxQueue
  /\ m \in PoolSends
  /\ conn' = [conn EXCEPT ![c].phase = to, ![c].inq = Append(@, m)]

\* The reply that takes the session forward.
PoolReply(c) ==
  /\ \/ Answers(c, CAPS, "new", "greeted")
     \/ Answers(c, AUTH_OK, "authReq", "authed")
     \/ Answers(c, SUB_OK, "subReq", "subbed")
  /\ UNCHANGED <<rd, poolUp, faults, outages>>

PoolRefuse(c) ==
  /\ faults > 0
  /\ faults' = faults - 1
  /\ \/ Answers(c, AUTH_NO, "authReq", "greeted")
     \/ Answers(c, SUB_NO, "subReq", "authed")
  /\ UNCHANGED <<rd, poolUp, outages>>

\* Work for a subscribed session.
PoolJob(c) ==
  /\ conn[c].phase = "subbed"
  /\ \E m \in {JOB, BAD} : Pushes(c, m)
  /\ UNCHANGED <<rd, poolUp, faults, outages>>

\* Text that is not the reply the client waits for: a command of another
\* kind, or part of one that TCP cut in two.
PoolOther(c) ==
  /\ faults > 0
  /\ faults' = faults - 1
  /\ Pushes(c, NOISE)
  /\ UNCHANGED <<rd, poolUp, outages>>

\* The pool or the network ends one connection.
ConnLost(c) ==
  /\ faults > 0
  /\ faults' = faults - 1
  /\ conn[c].net = "up"
  /\ \E n \in {"fin", "rst"} : conn' = [conn EXCEPT ![c].net = n]
  /\ UNCHANGED <<rd, poolUp, outages>>

\* The pool process ends: its sockets are closed and new ones are refused.
PoolStop ==
  /\ poolUp
  /\ outages > 0
  /\ outages' = outages - 1
  /\ poolUp' = FALSE
  /\ conn' = [c \in Conns |->
                IF conn[c].net = "up" THEN [conn[c] EXCEPT !.net = "fin"] ELSE conn[c]]
  /\ UNCHANGED <<rd, faults>>

PoolStart ==
  /\ ~poolUp
  /\ poolUp' = TRUE
  /\ UNCHANGED <<conn, rd, faults, outages>>

PoolNext ==
  \/ \E c \in Conns : \/ PoolReply(c) \/ PoolRefuse(c)
                      \/ PoolJob(c) \/ PoolOther(c) \/ ConnLost(c)
  \/ PoolStop
  \/ PoolStart
=============================================================================
