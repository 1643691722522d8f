----------------------------- MODULE UCPClient -----------------------------
(***************************************************************************)
(* The pool connection of the miner (UCPClient.h) and the threads that     *)
(* share it: the main thread, which builds the UCPClient and with it the   *)
(* first connection; the receiver thread, cyclicRun(); and one miner       *)
(* thread per device (veri-fm2l.cpp), which submits shares under           *)
(* stratum_sock_lock.  Every one of them may run the same connection       *)
(* set-up, connectToServer(), on the same unprotected ucpServerSocket and  *)
(* the same plain flag `reconnecting`.                                     *)
(*                                                                         *)
(* pc[t] names the next system call or shared access of thread t; a step   *)
(* that may block, or that touches what another thread touches, is a step  *)
(* of its own.  The share counters are in ShareLedger; the content of the  *)
(* header and the serial devices are left out here.                        *)
(***************************************************************************)
EXTENDS PoolLink

CONSTANTS
  Main, Receiver,  \* the two threads that are not miners
  Miners,          \* one thread per device
  NoMiner,         \* stratum_sock_lock is free
  MaxRetry,        \* the constructor's retries: 3 in the code
  MaxMore,         \* further reads of a message that does not end in '\n': 5 in the code
  FindsNonce       \* the devices of this instance find nonces

ASSUME ThreadsAssumption ==
  /\ Threads = {Main, Receiver} \cup Miners
  /\ Main # Receiver /\ Main \notin Miners /\ Receiver \notin Miners
  /\ NoMiner \notin Miners
ASSUME LimitsAssumption ==
  MaxRetry \in Nat /\ MaxMore \in Nat /\ FindsNonce \in BOOLEAN

VARIABLES
  pc,            \* pc[t]: what thread t does next
  lock,          \* the holder of stratum_sock_lock
  reconnecting, workAvailable,
  sock,          \* ucpServerSocket
  retries,       \* retrycount of the constructor
  rx,            \* locals of cyclicRun: how the first read failed, reads so far, cursor < 0
  proc,          \* the process
  opener         \* history: the last thread that stored a socket() result in sock

flags == <<lock, reconnecting, workAvailable>>
vars == <<linkVars, pc, flags, sock, retries, rx, proc, opener>>

\* Inside connectToServer().
Handshake == {"socket", "caps", "sendAuth", "auth", "sendSub", "sub", "shut", "waitWork"}
\* Committed to a new connection: the old one is closed.
Reopening == Handshake \cup {"raise"}
\* A miner with stratum_sock_lock, inside submitWork().
Submitting == Reopening \cup {"check", "send", "drop", "quit", "exit"}

PCs == Submitting \cup {"off", "join", "recv", "more", "getWork", "hash", "found"}
Dead == {"exited", "aborted", "killed"}
RxLocals == [first : {"none", "eof", "err"}, n : 0..MaxMore, neg : BOOLEAN]
RxIdle == [first |-> "none", n |-> 0, neg |-> FALSE]

TypeOK ==
  /\ LinkTypeOK
  /\ pc \in [Threads -> PCs]
  /\ lock \in Miners \cup {NoMiner}
  /\ reconnecting \in BOOLEAN
  /\ workAvailable \in BOOLEAN
  /\ sock \in Conns \cup {NoConn}
  /\ retries \in 0..MaxRetry
  /\ rx \in RxLocals
  /\ proc \in {"run", "exiting"} \cup Dead
  /\ opener \in Threads

\* A fresh process, before the constructor's first socket().
Fresh == [t \in Threads |-> IF t = Main THEN "socket" ELSE "off"]

Init ==
  /\ LinkInit
  /\ pc = Fresh
  /\ lock = NoMiner
  /\ reconnecting = FALSE
  /\ workAvailable = FALSE
  /\ sock = NoConn
  /\ retries = 0
  /\ rx = RxIdle
  /\ proc = "run"
  /\ opener = Main

-----------------------------------------------------------------------------
Alive == proc \in {"run", "exiting"}   \* promptExit() sleeps while the others go on

At(t, l) == Alive /\ pc[t] = l
Goto(t, l) == pc' = [pc EXCEPT ![t] = l]
Env == <<poolUp, faults, outages>>

\* The process ends and the kernel closes what it had open.
Dies(how) ==
  /\ proc' = how
  /\ conn' = [c \in Conns |-> FreeConn]
  /\ rd' = [t \in Threads |-> NoConn]
  /\ UNCHANGED <<Env, pc, flags, sock, retries, rx, opener>>

\* Mutant of SetupFails: the constructor counts its retries and never stops.
SetupFailsNoLimit(t) ==
  /\ Goto(t, "socket")
  /\ retries' = IF t = Main THEN retries + 1 ELSE retries
  /\ UNCHANGED proc

\* connectToServer() returned false.  The constructor tries again until its
\* retries are used up; reconnect() is called again for ever.
SetupFails(t) ==
  /\ IF t # Main
       THEN Goto(t, "socket") /\ UNCHANGED <<retries, proc>>
       ELSE IF retries < MaxRetry
         THEN Goto(t, "socket") /\ retries' = retries + 1 /\ UNCHANGED proc
         ELSE Goto(t, "exit") /\ proc' = "exiting" /\ UNCHANGED retries

-----------------------------------------------------------------------------
(* connectToServer() and setupLoginAndSubscribe(), run by any thread.      *)

Open(t) ==
  /\ At(t, "socket")
  /\ \/ \E c \in Conns : Opens(c) /\ sock' = c
     \/ OpensNone /\ sock' = NoConn /\ UNCHANGED conn
  /\ opener' = t
  /\ Goto(t, "caps")
  /\ UNCHANGED <<rd, Env, flags, retries, rx, proc>>

\* Every recv() names the socket of the moment and may then wait on it.
CallRecv(t) ==
  /\ Alive
  /\ pc[t] \in {"caps", "auth", "sub", "recv", "more"}
  /\ EntersRecv(t, sock)
  /\ UNCHANGED <<conn, Env, pc, flags, sock, retries, rx, proc, opener>>

\* Mutant of RecvCaps: an error while the flag is up reads again.
RecvCapsAgain(t) ==
  /\ At(t, "caps")
  /\ \/ \E m \in Msgs : /\ RecvData(t, m)
                        /\ IF m = CAPS
                             THEN Goto(t, "sendAuth") /\ UNCHANGED <<retries, proc>>
                             ELSE SetupFails(t)
     \/ RecvEof(t) /\ (SetupFails(t) \/ (Goto(t, "sendAuth") /\ UNCHANGED <<retries, proc>>))
     \/ RecvError(t, sock) /\ (IF reconnecting
                                 THEN UNCHANGED <<pc, retries, proc>>
                                 ELSE Goto(t, "shut") /\ UNCHANGED <<retries, proc>>)
  /\ UNCHANGED <<Env, flags, sock, rx, opener>>

\* At the end of the stream the buffer is the stack's old content, which may
\* hold the capabilities of an earlier attempt.  A failed read closes the
\* socket only when the flag is down.
RecvCaps(t) ==
  /\ At(t, "caps")
  /\ \/ \E m \in Msgs : /\ RecvData(t, m)
                        /\ IF m = CAPS
                             THEN Goto(t, "sendAuth") /\ UNCHANGED <<retries, proc>>
                             ELSE SetupFails(t)
     \/ RecvEof(t) /\ (SetupFails(t) \/ (Goto(t, "sendAuth") /\ UNCHANGED <<retries, proc>>))
     \/ RecvError(t, sock) /\ (IF reconnecting
                                 THEN SetupFails(t)
                                 ELSE Goto(t, "shut") /\ UNCHANGED <<retries, proc>>)
  /\ UNCHANGED <<Env, flags, sock, rx, opener>>

\* start() assigns runThread: a receiver that is already there is still
\* joinable, and the assignment calls std::terminate.
StartsAgain(t) == t = Main /\ pc[Receiver] # "off"

\* start() when the constructor asked for it, then the wait for a job.
StartsAndWaits(t) ==
  pc' = [x \in Threads |-> IF x = t THEN "waitWork"
                          ELSE IF t = Main /\ x = Receiver THEN "recv" ELSE pc[x]]

\* The two requests differ only in the state they take the session to.
SendRequest(t, from, to, next) ==
  \/ /\ SendOk(sock, from, to)
     /\ Goto(t, next)
     /\ UNCHANGED <<rd, Env, flags, sock, retries, rx, proc, opener>>
  \/ /\ SendError(sock)
     /\ Goto(t, "shut")
     /\ UNCHANGED <<rd, Env, flags, sock, retries, rx, proc, opener>>
  \/ SendKills(sock) /\ Dies("killed")

\* Mutant of SendSub: the reply to the subscription is not waited for.
SendSubNoReply(t) ==
  /\ At(t, "sendSub")
  /\ ~StartsAgain(t)
  /\ SendOk(sock, "authed", "subReq")
  /\ StartsAndWaits(t)
  /\ UNCHANGED <<rd, Env, flags, sock, retries, rx, proc, opener>>

SendAuth(t) == At(t, "sendAuth") /\ SendRequest(t, "greeted", "authReq", "auth")
SendSub(t)  == At(t, "sendSub")  /\ SendRequest(t, "authed", "subReq", "sub")

\* A wrong reply and the end of the stream leave the socket open.
RecvAuth(t) ==
  /\ At(t, "auth")
  /\ \/ RecvData(t, AUTH_OK) /\ Goto(t, "sendSub") /\ UNCHANGED <<retries, proc>>
     \/ \E m \in Msgs \ {AUTH_OK} : RecvData(t, m) /\ SetupFails(t)
     \/ RecvEof(t) /\ SetupFails(t)
     \/ RecvError(t, sock) /\ Goto(t, "shut") /\ UNCHANGED <<retries, proc>>
  /\ UNCHANGED <<Env, flags, sock, rx, opener>>

\* Mutant of RecvSub: any reply to the subscription is taken for success.
RecvSubAnyReply(t) ==
  /\ At(t, "sub")
  /\ ~StartsAgain(t)
  /\ \E m \in Msgs : RecvData(t, m)
  /\ StartsAndWaits(t)
  /\ UNCHANGED <<Env, flags, sock, rx, opener, retries, proc>>

RecvSub(t) ==
  /\ At(t, "sub")
  /\ \/ /\ RecvData(t, SUB_OK)
        /\ ~StartsAgain(t)
        /\ StartsAndWaits(t)
        /\ UNCHANGED <<retries, proc>>
     \/ \E m \in Msgs \ {SUB_OK} : RecvData(t, m) /\ SetupFails(t)
     \/ RecvEof(t) /\ SetupFails(t)
     \/ RecvError(t, sock) /\ Goto(t, "shut") /\ UNCHANGED <<retries, proc>>
  /\ UNCHANGED <<Env, flags, sock, rx, opener>>

RestartsReceiver(t) ==
  /\ At(t, "sub")
  /\ StartsAgain(t)
  /\ rd[t] # NoConn /\ conn[rd[t]].inq # <<>> /\ conn[rd[t]].inq[1] = SUB_OK
  /\ Dies("aborted")

\* close(ucpServerSocket) after a failed call of the set-up.
Shut(t) ==
  /\ At(t, "shut")
  /\ Closes(sock)
  /\ SetupFails(t)
  /\ UNCHANGED <<rd, Env, flags, sock, rx, opener>>

\* Mutant of WorkTimeout: the constructor waits for a job without a limit.
WorkTimeoutNever(t) ==
  /\ At(t, "waitWork") /\ t # Main
  /\ ~workAvailable
  /\ SetupFails(t)
  /\ UNCHANGED <<conn, rd, Env, flags, sock, rx, opener>>

\* The wait for a first job; a false return leaves the socket open.
WorkTimeout(t) ==
  /\ At(t, "waitWork")
  /\ ~workAvailable
  /\ SetupFails(t)
  /\ UNCHANGED <<conn, rd, Env, flags, sock, rx, opener>>

\* connectToServer() returned true: main() starts the miners ...
Launched ==
  /\ At(Main, "waitWork")
  /\ workAvailable
  /\ pc' = [t \in Threads |-> IF t = Main THEN "join"
                              ELSE IF t \in Miners THEN "getWork" ELSE pc[t]]
  /\ UNCHANGED <<linkVars, flags, sock, retries, rx, proc, opener>>

\* Mutant of Reconnected: only the receiver lowers the flag.
ReconnectedKeepsFlag(t) ==
  /\ At(t, "waitWork")
  /\ t # Main
  /\ workAvailable
  /\ IF t = Receiver
       THEN Goto(t, "recv") /\ reconnecting' = FALSE /\ UNCHANGED lock
       ELSE Goto(t, "getWork") /\ lock' = NoMiner /\ UNCHANGED reconnecting
  /\ UNCHANGED <<linkVars, workAvailable, sock, retries, rx, proc, opener>>

\* ... and a reconnecting thread lowers the flag and resumes its work.
Reconnected(t) ==
  /\ At(t, "waitWork")
  /\ t # Main
  /\ workAvailable
  /\ reconnecting' = FALSE
  /\ IF t = Receiver
       THEN Goto(t, "recv") /\ UNCHANGED lock
       ELSE Goto(t, "getWork") /\ lock' = NoMiner
  /\ UNCHANGED <<linkVars, workAvailable, sock, retries, rx, proc, opener>>

-----------------------------------------------------------------------------
(* cyclicRun().                                                            *)

\* What the receiver does with a command, of those that matter here.
Dispatch(m) ==
  /\ m # BAD
  /\ workAvailable' = (workAvailable \/ m = JOB)
  /\ Goto(Receiver, "recv")
  /\ rx' = RxIdle
  /\ UNCHANGED <<Env, lock, reconnecting, sock, retries, proc, opener>>

\* A command without a field it needs: the exception leaves the thread.
Malformed ==
  /\ Alive
  /\ pc[Receiver] \in {"recv", "more"}
  /\ rx.first # "err" /\ ~rx.neg
  /\ rd[Receiver] # NoConn /\ conn[rd[Receiver]].inq # <<>>
  /\ conn[rd[Receiver]].inq[1] = BAD
  /\ Dies("aborted")

\* The buffer is empty: reconnect after an end of stream; an error is only
\* logged, and the loop reads again.
NothingRead(first) ==
  /\ Goto(Receiver, IF first = "eof" THEN "drop" ELSE "recv")
  /\ rx' = RxIdle
  /\ UNCHANGED <<Env, flags, sock, retries, proc, opener>>

\* After a first read of 0 or -1 the test message[cursor-1] == '\n' reads in
\* front of the array, and either answer is possible.
RxFirst ==
  /\ At(Receiver, "recv")
  /\ \/ \E m \in Msgs : RecvData(Receiver, m) /\ Dispatch(m)
     \/ \E first \in {"eof", "err"} :
          /\ IF first = "eof" THEN RecvEof(Receiver) ELSE RecvError(Receiver, sock)
          /\ \/ NothingRead(first)
             \/ /\ Goto(Receiver, "more")
                /\ rx' = [first |-> first, n |-> 0, neg |-> first = "err"]
                /\ UNCHANGED <<Env, flags, sock, retries, proc, opener>>

\* The reads that look for the rest of the message.  Data found after an
\* error lands one byte too low: its first character is lost.
RxMore ==
  /\ At(Receiver, "more")
  /\ \/ \E m \in Msgs :
          /\ RecvData(Receiver, m)
          /\ Dispatch(IF rx.first = "err" \/ rx.neg THEN NOISE ELSE m)
     \/ /\ RecvEof(Receiver) \/ RecvError(Receiver, sock)
        /\ rx.n = MaxMore
        /\ NothingRead(rx.first)
     \/ \E failed \in BOOLEAN :
          /\ IF failed THEN RecvError(Receiver, sock) ELSE RecvEof(Receiver)
          /\ rx.n < MaxMore
          /\ rx' = [rx EXCEPT !.n = @ + 1, !.neg = @ \/ failed]
          /\ UNCHANGED <<Env, pc, flags, sock, retries, proc, opener>>

\* close(ucpServerSocket), then reconnecting = true: two steps, in the
\* receiver as in submitWork().
Drop(t) ==
  /\ At(t, "drop")
  /\ Closes(sock)
  /\ Goto(t, "raise")
  /\ UNCHANGED <<rd, Env, flags, sock, retries, rx, proc, opener>>

Raise(t) ==
  /\ At(t, "raise")
  /\ reconnecting' = TRUE
  /\ Goto(t, "socket")
  /\ UNCHANGED <<linkVars, lock, workAvailable, sock, retries, rx, proc, opener>>

-----------------------------------------------------------------------------
(* miner_thread() and submitWork().                                        *)

GetWork(m) ==
  /\ At(m, "getWork")
  /\ lock = NoMiner
  /\ Goto(m, "hash")
  /\ UNCHANGED <<linkVars, flags, sock, retries, rx, proc, opener>>

\* The device answers with a new nonce, or the round ends without one.
Hash(m) ==
  /\ At(m, "hash")
  /\ \/ FindsNonce /\ Goto(m, "found")
     \/ Goto(m, "getWork")
  /\ UNCHANGED <<linkVars, flags, sock, retries, rx, proc, opener>>

\* Mutant of LockForSubmit: the lock is taken without waiting for it.
LockForSubmitNoWait(m) ==
  /\ At(m, "found")
  /\ \/ lock' = m /\ Goto(m, "check")
     \/ Goto(m, "getWork") /\ UNCHANGED lock
  /\ UNCHANGED <<linkVars, reconnecting, workAvailable, sock, retries, rx, proc, opener>>

\* A nonce equal to the last one is not submitted again.
LockForSubmit(m) ==
  /\ At(m, "found")
  /\ lock = NoMiner
  /\ \/ lock' = m /\ Goto(m, "check")
     \/ Goto(m, "getWork") /\ UNCHANGED lock
  /\ UNCHANGED <<linkVars, reconnecting, workAvailable, sock, retries, rx, proc, opener>>

CheckReconnecting(m) ==
  /\ At(m, "check")
  /\ ~reconnecting
  /\ Goto(m, "send")
  /\ UNCHANGED <<linkVars, flags, sock, retries, rx, proc, opener>>

\* The counters decide whether the pool "appears unresponsive": ShareLedger.
SubmitSend(m) ==
  /\ At(m, "send")
  /\ \/ /\ SendOk(sock, "subbed", "subbed")
        /\ \/ Goto(m, "getWork") /\ lock' = NoMiner
           \/ Goto(m, "quit") /\ UNCHANGED lock
        /\ UNCHANGED <<rd, Env, reconnecting, workAvailable, sock, retries, rx, proc, opener>>
     \/ /\ SendError(sock)
        /\ \E l \in {"drop", "quit"} : Goto(m, l)
        /\ UNCHANGED <<rd, Env, flags, sock, retries, rx, proc, opener>>
     \/ SendKills(sock) /\ Dies("killed")

Quit(m) ==
  /\ At(m, "quit")
  /\ Closes(sock)
  /\ Goto(m, "exit")
  /\ proc' = "exiting"
  /\ UNCHANGED <<rd, Env, flags, sock, retries, rx, opener>>

-----------------------------------------------------------------------------
(* The process, and run.sh, which starts it again.                         *)

ExitProcess == proc = "exiting" /\ Dies("exited")

RunAgain ==
  /\ proc \in Dead
  /\ proc' = "run"
  /\ pc' = Fresh
  /\ lock' = NoMiner
  /\ reconnecting' = FALSE
  /\ workAvailable' = FALSE
  /\ sock' = NoConn
  /\ retries' = 0
  /\ rx' = RxIdle
  /\ opener' = Main
  /\ UNCHANGED linkVars

Setup(t) ==
  \/ Open(t) \/ CallRecv(t) \/ RecvCaps(t) \/ SendAuth(t) \/ RecvAuth(t)
  \/ SendSub(t) \/ RecvSub(t) \/ RestartsReceiver(t) \/ Shut(t)
  \/ WorkTimeout(t) \/ Reconnected(t) \/ Drop(t) \/ Raise(t)

Receive == RxFirst \/ RxMore \/ Malformed

Mine(m) ==
  \/ GetWork(m) \/ Hash(m) \/ LockForSubmit(m) \/ CheckReconnecting(m)
  \/ SubmitSend(m) \/ Quit(m)

Pool == PoolNext /\ UNCHANGED <<pc, flags, sock, retries, rx, proc, opener>>

Next ==
  \/ \E t \in Threads : Setup(t)
  \/ Launched
  \/ Receive
  \/ \E m \in Miners : Mine(m)
  \/ ExitProcess
  \/ RunAgain
  \/ Pool

Spec == Init /\ [][Next]_vars

\* Everything thread t may do next.
Step(t) ==
  \/ Setup(t)
  \/ t = Main /\ Launched
  \/ t = Receiver /\ Receive
  \/ t \in Miners /\ Mine(t)

\* A thread that can run does; a pool that is up answers, and one that is
\* down comes back.  Nothing obliges it to send jobs, or the network to fail.
Fairness ==
  /\ \A t \in Threads : WF_vars(Step(t))
  /\ \A c \in Conns : WF_vars(PoolReply(c) /\ UNCHANGED <<pc, flags, sock, retries, rx, proc, opener>>)
  /\ WF_vars(PoolStart /\ UNCHANGED <<pc, flags, sock, retries, rx, proc, opener>>)
  /\ WF_vars(ExitProcess)
  /\ WF_vars(RunAgain)

FairSpec == Spec /\ Fairness

-----------------------------------------------------------------------------
(* Properties.                                                             *)

Reconnectors == {Receiver} \cup Miners

\* submitWork() waits for the flag to fall (1092), so the flag must never
\* outlive the work it announces: whenever it is up, some thread is still
\* inside reconnect() and will lower it.
ReconnectFlagHeldByReconnector ==
  Alive /\ reconnecting => \E t \in Reconnectors : pc[t] \in Handshake

\* stratum_sock_lock covers the whole of submitWork(), its reconnection
\* included: one miner at most checks, sends or reconnects, and it is the
\* holder of the lock.
SubmitHoldsLock ==
  Alive => \A m \in Miners : lock = m <=> pc[m] \in Submitting

\* However reconnections overlap, when the last of them is over the socket
\* that the threads share is an open one on which the pool accepted a
\* subscription: a loser of the race never leaves a half-made session behind.
QuiescentSubscribed ==
  proc = "run" /\ ~(\E t \in Threads : pc[t] \in Reopening)
    => Usable(sock) /\ conn[sock].phase = "subbed"

\* Nobody else waits for the replies that a set-up waits for, save the receiver:
\* on a descriptor that another thread has closed it spins (864, 888) until it
\* enters recv() on the new socket, and may then take a reply its opener waits
\* for with no limit (460).  Two miners never do that to each other, and to the
\* constructor it happens only after a first attempt has failed.
SetupSharedWithReceiverOnly ==
  Alive /\ pc[opener] \in {"caps", "auth", "sub"} =>
    \A t \in Threads \ {opener} : rd[t] # NoConn /\ rd[t] = sock =>
       /\ Receiver \in {t, opener}
       /\ Main \in {t, opener} => retries > 0

\* A share goes out on a connection without a subscription only if another
\* thread is replacing the socket at that moment: with no race, submitWork()
\* always writes to a subscribed session or to none.
MisdirectedOnlyByRace ==
  [][\A m \in Miners :
       /\ pc[m] = "send" /\ pc'[m] # "send" /\ proc = "run" /\ Alive'
       /\ Usable(sock) /\ conn[sock].phase # "subbed"
       => \E t \in Threads \ {m} : pc[t] \in Reopening]_vars

-----------------------------------------------------------------------------
(* The inductive invariant behind the safety properties: who is answerable *)
(* for ucpServerSocket is the last thread that stored a socket in it.      *)

Receiving == {"caps", "auth", "sub", "recv", "more"}
Unsubscribed == {"socket", "caps", "sendAuth", "auth", "sendSub", "sub", "shut"}

\* A thread waits in recv() only where the code calls it.
ReadersReceive ==
  \A t \in Threads : rd[t] # NoConn => Alive /\ pc[t] \in Receiving

\* The reply to a subscription is in flight only on a subscribed session.
SubOkMeansSubscribed ==
  \A c \in Conns : \A i \in 1..Len(conn[c].inq) :
     conn[c].inq[i] = SUB_OK => conn[c].phase = "subbed"

\* The constructor runs before every miner, and never as a reconnection.
MainFirst ==
  Alive => /\ pc[Main] \in Handshake \cup {"join", "exit"}
           /\ pc[Main] # "join" => \A m \in Miners : pc[m] = "off"
           /\ pc[Main] = "exit" => proc = "exiting"

\* The opener of the socket reads its replies from that socket.
OpenerReadsSock ==
  Alive /\ rd[opener] # NoConn /\ pc[opener] \in {"caps", "auth", "sub"}
    => rd[opener] = sock

\* The socket is open, unless somebody is about to replace it.
SockOpenOrReplaced ==
  proc = "run" =>
    \/ Usable(sock)
    \/ \E t \in Threads : pc[t] \in {"raise", "socket"}
    \/ sock = NoConn /\ pc[opener] \in {"caps", "shut"}

\* It carries a subscription, unless its opener is still asking for one.
SockSubscribedOrOpening ==
  proc = "run" => \/ Usable(sock) => conn[sock].phase = "subbed"
                  \/ pc[opener] \in Unsubscribed

\* A set-up is overtaken by the receiver only, and only the receiver reads jobs.
OvertakenByReceiver ==
  Alive => \A t \in Threads \ {Receiver} :
             /\ pc[t] \notin {"recv", "more"}
             /\ pc[t] \in Handshake \ {"socket"} => opener \in {t, Receiver}

\* The receiver is there before the constructor is done only after a failure.
ReceiverAfterFailure ==
  Alive /\ pc[Main] \in Unsubscribed /\ pc[Receiver] # "off" => retries > 0

IInv ==
  /\ TypeOK
  /\ ReconnectFlagHeldByReconnector
  /\ SubmitHoldsLock
  /\ ReadersReceive
  /\ SubOkMeansSubscribed
  /\ MainFirst
  /\ OpenerReadsSock
  /\ SockOpenOrReplaced
  /\ SockSubscribedOrOpening
  /\ OvertakenByReceiver
  /\ ReceiverAfterFailure

-----------------------------------------------------------------------------
(* Liveness, under FairSpec.                                               *)

\* A receiver that has set out to reconnect (870-885) ends up reading jobs
\* again when no miner is reconnecting too, whatever goes wrong on the way and
\* however often the pool goes away and comes back.  It is stranded in one way
\* only: each failed attempt leaves its socket open, and the process runs out
\* of descriptors.
OnlyLeaksStrandTheReceiver ==
  Alive /\ pc[Main] = "join" /\ pc[Receiver] \in Reopening
    ~> proc # "run" \/ pc[Receiver] = "recv" \/ OpensNone

\* The constructor returns or the process ends: a first job that was lost
\* behind the subscription reply (1217-1225) cannot hang the launch.  The one
\* way to hang is an attempt made after an earlier one started the receiver,
\* which then takes replies meant for the constructor.
RetryMeetsReceiver == retries > 0 /\ pc[Receiver] # "off"
ConstructorReturns ==
  proc = "run" /\ pc[Main] # "join"
    ~> proc # "run" \/ pc[Main] = "join" \/ RetryMeetsReceiver

-----------------------------------------------------------------------------
(* What the program says of itself and does not do.                        *)

\* "In process of reconnecting, work submission blocked..." (1091): no share
\* leaves on the shared socket while the flag is up.
NoShareWhileReconnecting ==
  [][\A m \in Miners :
       pc[m] = "send" /\ pc'[m] # "send" /\ Usable(sock) => ~reconnecting]_vars

\* "attempting to reconnect..." (871), "Attempting to reconnect to server..."
\* (878): the attempts lead to a connection once the pool is back.
OutageIsSurvived ==
  Alive /\ pc[Main] = "join" /\ pc[Receiver] \in Reopening
    ~> proc # "run" \/ pc[Receiver] = "recv"

\* "Connection Error retry" (1038): the constructor's failed attempt is tried
\* again; it never takes the process down by itself.
RetryDoesNotAbort ==
  [][BAD \notin PoolSends => ~(proc = "run" /\ proc' = "aborted")]_vars
=============================================================================
