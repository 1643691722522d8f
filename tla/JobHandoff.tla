----------------------------- MODULE JobHandoff -----------------------------
(***************************************************************************)
(* How a job travels from the pool to a device and back as a share.  The   *)
(* receiver thread (cyclicRun) stores a MINING_JOB or a MINING_MEMPOOL_    *)
(* UPDATE into the plain fields of UCPClient, one statement after another  *)
(* and without a lock; a miner thread copies them under stratum_sock_lock, *)
(* writes the header to its device, waits for a nonce and submits it with  *)
(* the job number and the timestamp of its round, and with the extra nonce *)
(* that UCPClient holds by then.  In the Windows build a miner that has     *)
(* polled in vain for long looks for a newer job after every read.         *)
(*                                                                         *)
(* A job is a number, and stands for every value its message carries; a    *)
(* field of UCPClient holds the job its value came from.  Connections are  *)
(* in UCPClient: here there is one session, since every session starts     *)
(* over with a full job.                                                   *)
(***************************************************************************)
EXTENDS Naturals, Sequences, FiniteSets

CONSTANTS
  Miners,     \* one thread per device
  NoMiner,    \* stratum_sock_lock is free
  Nonces,     \* what a device may find
  Exhausted,  \* 0x3fffffff: the device has searched its range
  Nothing,    \* 0: recvserial() had no whole report
  Repeats,    \* nonces a device may report for one header
  MaxJobs,    \* bound: jobs the pool issues
  MaxWire,    \* bound: messages that recv() may return at once
  MaxSerial,  \* bound: reports waiting in a serial port
  MaxTime     \* bound: seconds

ASSUME HandoffAssumption ==
  /\ NoMiner \notin Miners
  /\ Exhausted \notin Nonces
  /\ Nothing \notin Nonces \cup {Exhausted}
  /\ Repeats \in Nat \ {0}
  /\ MaxJobs \in Nat /\ MaxWire \in Nat
  /\ MaxSerial \in Nat /\ MaxTime \in Nat

VARIABLES
  build,   \* the build of the program, which no action changes
  base,    \* base[j]: the full job that job j updates, or j itself
  issued,  \* jobs issued so far
  wire,    \* jobs sent and not yet read
  field,   \* what the fields of UCPClient hold
  work,    \* workAvailable
  todo,    \* the fields the receiver has still to store ...
  msg,     \* ... of this job
  lock,    \* the holder of stratum_sock_lock
  pc, timestamp,
  header,  \* header[m]: the 64 bytes of miner m
  left,    \* left[m]: fields that getWork has still to copy
  job,     \* jobId of miner m
  nonce,   \* nonce[m]: what the last read returned, as a nonce
  lastNonce1,
  device,  \* device[m]: the header it searches and the reports left to it
  serial,  \* serial[m]: reports not yet read
  \* History, read by properties only:
  taken,   \* the last full job taken off the wire, read or dropped
  clean,   \* clean[m]: nothing was stored while m copied, and no job was missing
  found,   \* found[m]: the search that the nonce in hand belongs to
  crossed  \* miners whose restart left a report of the old header in the port

pool == <<build, base, issued>>
client == <<field, work, todo, msg>>
round == <<pc, timestamp, header, left, job, nonce, lastNonce1>>
history == <<taken, clean, found, crossed>>
vars == <<pool, wire, client, lock, round, device, serial, history>>

NoJob == 0
Jobs == 1..MaxJobs
JobRefs == 0..MaxJobs

\* Block: height, version and parent hashes, bytes 0 to 35.  Root: the merkle
\* root, bytes 36 to 51.  Difficulty: bytes 56 to 59.
HeaderFields == {"block", "root", "difficulty"}
Fields == HeaderFields \cup {"jobId", "extraNonce"}

\* Mutants of FullJob: an assignment is missing.
FullJobKeepsDifficulty == <<"jobId", "extraNonce", "block", "root">>
FullJobKeepsExtraNonce == <<"jobId", "block", "root", "difficulty">>

\* The fields a command stores, in the order of its statements.
FullJob == <<"jobId", "extraNonce", "block", "root", "difficulty">>

\* Mutant of MempoolUpdate: the job number is not stored.
MempoolUpdateKeepsId == <<"root">>

MempoolUpdate == <<"root", "jobId">>

IsFull(j) == base[j] = j

Builds == {"linux", "windows"}
Headers == [HeaderFields -> JobRefs]

\* A header on a device, known by its merkle root and its time; history adds the
\* job number that its miner holds with it, and whether both were copied cleanly.
Searches == [root : JobRefs, time : 0..MaxTime, job : JobRefs, clean : BOOLEAN]
Reports == [nonce : Nonces \cup {Exhausted}, of : Searches]
Answers == Nonces \cup {Exhausted, Nothing}

\* "wait" is the first 1000 reads of a round.  From "late" on every read is
\* followed by another getWork, "again" and "recopy", and perhaps by "rewrite".
Labels == {"clock", "lock", "copy", "write", "wait", "late", "again", "recopy", "rewrite",
           "found", "submit"}

TypeOK ==
  /\ build \in Builds
  /\ issued \in JobRefs
  /\ base \in [Jobs -> JobRefs]
  /\ wire \in Seq(Jobs)
  /\ field \in [Fields -> JobRefs]
  /\ work \in BOOLEAN
  /\ todo \in Seq(Fields)
  /\ msg \in JobRefs
  /\ lock \in Miners \cup {NoMiner}
  /\ pc \in [Miners -> Labels]
  /\ timestamp \in [Miners -> 0..MaxTime]
  /\ header \in [Miners -> Headers]
  /\ left \in [Miners -> SUBSET HeaderFields]
  /\ job \in [Miners -> JobRefs]
  /\ nonce \in [Miners -> Answers]
  /\ lastNonce1 \in [Miners -> Answers]
  /\ device \in [Miners -> [of : Searches, left : 0..Repeats]]
  /\ serial \in [Miners -> Seq(Reports)]
  /\ taken \in JobRefs
  /\ clean \in [Miners -> BOOLEAN]
  /\ found \in [Miners -> Searches]
  /\ crossed \subseteq Miners

NoHeader == [f \in HeaderFields |-> NoJob]
NoSearch == [root |-> NoJob, time |-> 0, job |-> NoJob, clean |-> FALSE]

\* lastNonce1 starts as the thread's startNonce, taken to be none of Nonces.
Init ==
  /\ build \in Builds
  /\ issued = 0
  /\ base = [j \in Jobs |-> NoJob]
  /\ wire = <<>>
  /\ field = [f \in Fields |-> NoJob]
  /\ work = FALSE
  /\ todo = <<>>
  /\ msg = NoJob
  /\ lock = NoMiner
  /\ pc = [m \in Miners |-> "clock"]
  /\ timestamp = [m \in Miners |-> 0]
  /\ header = [m \in Miners |-> NoHeader]
  /\ left = [m \in Miners |-> {}]
  /\ job = [m \in Miners |-> NoJob]
  /\ nonce = [m \in Miners |-> Exhausted]
  /\ lastNonce1 = [m \in Miners |-> Exhausted]
  /\ device = [m \in Miners |-> [of |-> NoSearch, left |-> 0]]
  /\ serial = [m \in Miners |-> <<>>]
  /\ taken = NoJob
  /\ clean = [m \in Miners |-> FALSE]
  /\ found = [m \in Miners |-> NoSearch]
  /\ crossed = {}

-----------------------------------------------------------------------------
(* The pool.                                                               *)

\* A full job, or an update of the last one, for a new merkle root.
Issue ==
  /\ issued < MaxJobs
  /\ Len(wire) < MaxWire
  /\ issued' = issued + 1
  /\ \/ base' = [base EXCEPT ![issued + 1] = issued + 1]
     \/ issued > 0 /\ base' = [base EXCEPT ![issued + 1] = base[issued]]
  /\ wire' = Append(wire, issued + 1)
  /\ UNCHANGED <<build, client, lock, round, device, serial, history>>

-----------------------------------------------------------------------------
(* The receiver.                                                           *)

\* Mutant of Receive: the last command of the buffer is parsed, the others later.
ReceiveLatest ==
  /\ todo = <<>> /\ wire # <<>>
  /\ msg' = wire[Len(wire)] /\ taken' = base[wire[Len(wire)]]
  /\ wire' = SubSeq(wire, 1, Len(wire) - 1)
  /\ todo' = IF IsFull(msg') THEN FullJob ELSE MempoolUpdate
  /\ clean' = [m \in Miners |-> clean[m] /\ pc[m] \notin {"copy", "recopy"}]
  /\ UNCHANGED <<pool, field, work, lock, round, device, serial, found, crossed>>

\* The read may return several commands; the first is parsed and the others
\* are dropped with the buffer.  The first may also be the answer to a share
\* or any other command that stores no job.
Receive ==
  /\ todo = <<>>
  /\ \E k \in 1..Len(wire) :
       /\ wire' = SubSeq(wire, k + 1, Len(wire))
       /\ taken' = base[wire[k]]
  /\ \/ /\ msg' = wire[1]
        /\ todo' = IF IsFull(wire[1]) THEN FullJob ELSE MempoolUpdate
     \/ UNCHANGED <<msg, todo>>
  /\ clean' = [m \in Miners |-> clean[m] /\ pc[m] \notin {"copy", "recopy"}]
  /\ UNCHANGED <<pool, field, work, lock, round, device, serial, found, crossed>>

\* The next assignment; a full job raises workAvailable with its last one.
Store ==
  /\ todo # <<>>
  /\ field' = [field EXCEPT ![Head(todo)] = msg]
  /\ todo' = Tail(todo)
  /\ work' = (work \/ Head(todo) = "difficulty")
  /\ UNCHANGED <<pool, wire, msg, lock, round, device, serial, history>>

-----------------------------------------------------------------------------
(* A miner.                                                                *)

Goto(m, l) == pc' = [pc EXCEPT ![m] = l]

\* main() starts the miners once there is work.  The clock may have moved on, and
\* what the last round read is out of scope.
ReadClock(m) ==
  /\ pc[m] = "clock"
  /\ work
  /\ \E t \in timestamp[m]..MaxTime : timestamp' = [timestamp EXCEPT ![m] = t]
  /\ nonce' = [nonce EXCEPT ![m] = Nothing]
  /\ found' = [found EXCEPT ![m] = NoSearch]
  /\ Goto(m, "lock")
  /\ UNCHANGED <<pool, wire, client, lock, header, left, job, lastNonce1,
                 device, serial, taken, clean, crossed>>

LockForWork(m) ==
  /\ pc[m] \in {"lock", "again"}
  /\ lock = NoMiner
  /\ lock' = m
  /\ left' = [left EXCEPT ![m] = HeaderFields]
  /\ clean' = [clean EXCEPT ![m] = todo = <<>> /\ taken = field["block"]]
  /\ Goto(m, IF pc[m] = "lock" THEN "copy" ELSE "recopy")
  /\ UNCHANGED <<pool, wire, client, timestamp, header, job, nonce, lastNonce1,
                 device, serial, taken, found, crossed>>

\* copyHeaderToHash(): memcpy promises no order.
Copy(m) ==
  /\ pc[m] \in {"copy", "recopy"}
  /\ \E f \in left[m] :
       /\ header' = [header EXCEPT ![m][f] = field[f]]
       /\ left' = [left EXCEPT ![m] = @ \ {f}]
  /\ UNCHANGED <<pool, wire, client, lock, pc, timestamp, job, nonce, lastNonce1,
                 device, serial, history>>

\* Mutant of ReadJobId: the lock is released before the copy is complete.
ReadJobIdEarly(m) ==
  /\ pc[m] = "copy"
  /\ job' = [job EXCEPT ![m] = field["jobId"]]
  /\ lock' = NoMiner
  /\ Goto(m, "write")
  /\ UNCHANGED <<pool, wire, client, timestamp, header, left, nonce, lastNonce1,
                 device, serial, history>>

ReadJobId(m) ==
  /\ pc[m] = "copy"
  /\ left[m] = {}
  /\ job' = [job EXCEPT ![m] = field["jobId"]]
  /\ lock' = NoMiner
  /\ Goto(m, "write")
  /\ UNCHANGED <<pool, wire, client, timestamp, header, left, nonce, lastNonce1,
                 device, serial, history>>

\* The search that m starts with a write.
Search(m) ==
  [root |-> header[m]["root"], time |-> timestamp[m], job |-> job[m], clean |-> clean[m]]

\* Eight writes; the device starts over when it has them all.  What it has
\* reported before stays in the serial port.
WriteHeader(m) ==
  /\ pc[m] \in {"write", "rewrite"}
  /\ device' = [device EXCEPT ![m] = [of |-> Search(m), left |-> Repeats]]
  /\ crossed' = IF serial[m] = <<>> THEN crossed \ {m}
                ELSE IF pc[m] = "rewrite" THEN crossed \cup {m} ELSE crossed
  /\ clean' = [clean EXCEPT ![m] = FALSE]
  /\ Goto(m, "wait")
  /\ UNCHANGED <<pool, wire, client, lock, timestamp, header, left, job, nonce,
                 lastNonce1, serial, taken, found>>

Report(m) ==
  /\ device[m].left > 0
  /\ Len(serial[m]) < MaxSerial
  /\ \E n \in Nonces \cup {Exhausted} :
       /\ serial' = [serial EXCEPT ![m] = Append(@, [nonce |-> n, of |-> device[m].of])]
       /\ device' = [device EXCEPT ![m].left = IF n = Exhausted THEN 0 ELSE @ - 1]
  /\ UNCHANGED <<pool, wire, client, lock, round, history>>

\* The first report in the port is taken.
TakeReport(m) ==
  /\ serial[m] # <<>>
  /\ nonce' = [nonce EXCEPT ![m] = Head(serial[m]).nonce]
  /\ found' = [found EXCEPT ![m] = Head(serial[m]).of]
  /\ serial' = [serial EXCEPT ![m] = Tail(@)]

\* The end of the loop over recvserial().
Answered(n) == IF n = Exhausted THEN "clock" ELSE "found"

\* recvserial() until it returns something: a whole report other than 0.
Poll(m) ==
  /\ pc[m] = "wait"
  /\ TakeReport(m)
  /\ Goto(m, Answered(nonce'[m]))
  /\ UNCHANGED <<pool, wire, client, lock, timestamp, header, left, job, lastNonce1,
                 device, taken, clean, crossed>>

\* The workaround of the Windows build: 1000 reads of the round were empty.
Outlast(m) ==
  /\ build = "windows"
  /\ pc[m] = "wait"
  /\ serial[m] = <<>>
  /\ Goto(m, "late")
  /\ UNCHANGED <<pool, wire, client, lock, timestamp, header, left, job, nonce,
                 lastNonce1, device, serial, history>>

\* Any later read, with a report or without, goes on to look for a newer job.
PollLate(m) ==
  /\ pc[m] = "late"
  /\ \/ TakeReport(m)
     \/ /\ serial[m] = <<>>
        /\ nonce' = [nonce EXCEPT ![m] = Nothing]
        /\ UNCHANGED <<serial, found>>
  /\ Goto(m, "again")
  /\ UNCHANGED <<pool, wire, client, lock, timestamp, header, left, job, lastNonce1,
                 device, taken, clean, crossed>>

\* Mutant of LookAgain: a newer job number is taken without its header.
LookAgainNoRestart(m) ==
  /\ pc[m] = "recopy"
  /\ left[m] = {}
  /\ job' = [job EXCEPT ![m] = field["jobId"]]
  /\ lock' = NoMiner
  /\ Goto(m, IF nonce[m] = Nothing THEN "late" ELSE Answered(nonce[m]))
  /\ UNCHANGED <<pool, wire, client, timestamp, header, left, nonce, lastNonce1,
                 device, serial, history>>

\* With a newer job the miner starts over at restart_here: with the time of the
\* old header, and without the report it may have in hand.
LookAgain(m) ==
  /\ pc[m] = "recopy"
  /\ left[m] = {}
  /\ job' = [job EXCEPT ![m] = field["jobId"]]
  /\ lock' = NoMiner
  /\ IF field["jobId"] # job[m]
       THEN /\ Goto(m, "rewrite")
            /\ nonce' = [nonce EXCEPT ![m] = Nothing]
            /\ found' = [found EXCEPT ![m] = NoSearch]
            /\ UNCHANGED clean
       ELSE /\ Goto(m, IF nonce[m] = Nothing THEN "late" ELSE Answered(nonce[m]))
            /\ clean' = [clean EXCEPT ![m] = FALSE]
            /\ UNCHANGED <<nonce, found>>
  /\ UNCHANGED <<pool, wire, client, timestamp, header, left, lastNonce1, device, serial,
                 taken, crossed>>

\* Mutant of LockForSubmit: a repeated nonce leaves with the lock.
LockForSubmitKeeps(m) ==
  /\ pc[m] = "found"
  /\ lock = NoMiner
  /\ lock' = m
  /\ Goto(m, IF nonce[m] = lastNonce1[m] THEN "clock" ELSE "submit")
  /\ UNCHANGED <<pool, wire, client, timestamp, header, left, job, nonce, lastNonce1,
                 device, serial, history>>

\* A nonce equal to the last one is not submitted again.
LockForSubmit(m) ==
  /\ pc[m] = "found"
  /\ lock = NoMiner
  /\ IF nonce[m] = lastNonce1[m]
       THEN Goto(m, "clock") /\ UNCHANGED lock
       ELSE Goto(m, "submit") /\ lock' = m
  /\ UNCHANGED <<pool, wire, client, timestamp, header, left, job, nonce, lastNonce1,
                 device, serial, history>>

\* The share that m submits: its extra nonce is not its own.
Share(m) == [jobId |-> job[m], nTime |-> timestamp[m], nonce |-> nonce[m],
             extraNonce |-> field["extraNonce"]]

\* submitWork() sends Share(m).
Submit(m) ==
  /\ pc[m] = "submit"
  /\ lastNonce1' = [lastNonce1 EXCEPT ![m] = nonce[m]]
  /\ lock' = NoMiner
  /\ Goto(m, "clock")
  /\ UNCHANGED <<pool, wire, client, timestamp, header, left, job, nonce,
                 device, serial, history>>

Mine(m) ==
  \/ ReadClock(m) \/ LockForWork(m) \/ Copy(m) \/ ReadJobId(m) \/ WriteHeader(m)
  \/ Poll(m) \/ Outlast(m) \/ PollLate(m) \/ LookAgain(m)
  \/ LockForSubmit(m) \/ Submit(m)

Next ==
  \/ Issue
  \/ Receive \/ Store
  \/ \E m \in Miners : Mine(m) \/ Report(m)

Spec == Init /\ [][Next]_vars

\* The miners are scheduled, and a device that searches reports a nonce or the
\* end of its range.  The receiver may stop anywhere, even within a command.
Fairness == \A m \in Miners : WF_vars(Mine(m)) /\ WF_vars(Report(m))

FairSpec == Spec /\ Fairness

-----------------------------------------------------------------------------
(* Properties.                                                             *)

\* header h is what the pool meant by job j.
HeaderOf(h, j) ==
  /\ h["root"] = j
  /\ h["block"] = base[j] /\ h["difficulty"] = base[j]

\* Between two commands the fields of UCPClient describe one job, although a
\* full job and an update store them in different orders and the update stores
\* only two (UCPClient.h 890-997).  The exception is the reader's own: when it
\* drops a full job behind another command (888), the next update lands on an
\* older block and the mixture stays until a full job comes.
SettledWork ==
  work /\ todo = <<>> /\ taken = field["block"]
    => /\ HeaderOf(field, field["jobId"])
       /\ field["extraNonce"] = base[field["jobId"]]

\* stratum_sock_lock does not keep the receiver out of getWork (veri-fm2l.cpp
\* 753-756, 825-828), and a miner may send its device the header of one job with
\* the number of another in hand.  It does so only if the receiver took a command
\* while the miner copied, or was still storing one, or had dropped a full job
\* before.
MixedOnlyByOverlap ==
  \A m \in Miners :
    pc[m] \in {"write", "rewrite"} /\ clean[m] => HeaderOf(header[m], job[m])

\* A device that reports once per header has its nonce submitted with the job
\* number and the time of the header it was found for: nothing is left in the
\* serial port from an earlier round (veri-fm2l.cpp 813-844), although the port
\* is never flushed.  The exception is the Windows build's own: a report that
\* comes while the miner restarts with a newer job (831-840) stays in the port,
\* and puts this round and perhaps the next ones a report behind.
NonceOfItsRound ==
  Repeats = 1 =>
    \A m \in Miners : pc[m] \in {"found", "submit"} =>
      \/ /\ found[m] = device[m].of
         /\ found[m].job = job[m] /\ found[m].time = timestamp[m]
      \/ build = "windows" /\ m \in crossed

\* The share takes its extra nonce from UCPClient when it is submitted
\* (UCPClient.h 153), not from its round.  It names another job's only if a full
\* job was taken off the wire since the miner copied the header it sent, or a
\* command spoiled that copy.
ExtraNonceOfItsJob ==
  \A m \in Miners :
    pc[m] \in {"found", "submit"} /\ device[m].of.clean /\ taken = base[job[m]]
      => Share(m).extraNonce = base[Share(m).jobId]

\* A miner that copies while the receiver stores (veri-fm2l.cpp 753-756, UCPClient.h 890-997) may
\* mix jobs, but no field it holds ever goes back to an older job, nor does the
\* job number of its shares: the fields are registers that only move on.
RoundFields == HeaderFields \cup {"jobId"}
FieldsNow == [f \in RoundFields |-> field[f]]
FieldsSeen == [m \in Miners |-> [f \in RoundFields |->
                 IF f = "jobId" THEN job[m] ELSE header[m][f]]]

Registers == INSTANCE JobRegisters
  WITH Readers <- Miners, Cells <- RoundFields, top <- issued, cell <- FieldsNow, seen <- FieldsSeen

JobsOnlyMoveOn == Registers!RegSpec

-----------------------------------------------------------------------------
(* The inductive invariant behind them.                                    *)

\* The pool numbers jobs upwards, and an update keeps the block it updates.
Numbering ==
  /\ \A j \in 1..issued : /\ base[j] \in 1..j
                          /\ base[base[j]] = base[j]
                          /\ base[j] <= base[issued]
  /\ issued > 0 => taken <= base[issued]
  /\ issued = 0 => taken = 0

\* Jobs wait in the order of issue, and behind what was taken; the block of a
\* waiting job was taken before it, or waits in front of it.
InOrder ==
  /\ \A i \in 1..Len(wire) : /\ wire[i] \in 1..issued
                            /\ taken < wire[i] /\ taken <= base[wire[i]]
  /\ \A h, i \in 1..Len(wire) : h < i => /\ wire[h] < wire[i]
                                        /\ base[wire[h]] <= base[wire[i]]
  /\ \A i \in 1..Len(wire) :
       base[wire[i]] = taken \/ \E h \in 1..i : wire[h] = base[wire[i]]
  /\ issued > 0 =>
       base[issued] = taken \/ \E h \in 1..Len(wire) : wire[h] = base[issued]

\* Mid-way through a command the fields before todo hold msg already.
StoringFull ==
  /\ msg \in 1..issued /\ IsFull(msg) /\ msg <= taken
  /\ \/ todo = FullJob
     \/ todo = <<"extraNonce", "block", "root", "difficulty">> /\ field["jobId"] = msg
     \/ /\ todo = <<"block", "root", "difficulty">>
        /\ field["jobId"] = msg /\ field["extraNonce"] = msg
     \/ /\ todo = <<"root", "difficulty">>
        /\ field["jobId"] = msg /\ field["extraNonce"] = msg /\ field["block"] = msg
     \/ /\ todo = <<"difficulty">>
        /\ \A f \in Fields \ {"difficulty"} : field[f] = msg

OneBlock == field["difficulty"] = field["block"] /\ field["extraNonce"] = field["block"]

StoringUpdate ==
  /\ msg \in 1..issued
  /\ base[msg] <= taken /\ field["block"] <= base[msg]
  /\ OneBlock
  /\ \/ todo = MempoolUpdate
     \/ todo = <<"jobId">> /\ field["root"] = msg

Settled ==
  /\ todo = <<>>
  /\ OneBlock
  /\ field["root"] = field["jobId"]
  /\ \/ field["jobId"] = NoJob /\ ~work
     \/ /\ field["jobId"] \in 1..issued
        /\ base[field["jobId"]] <= taken /\ field["block"] <= base[field["jobId"]]

Storage ==
  /\ field["block"] <= taken
  /\ StoringFull \/ StoringUpdate \/ Settled

\* What is still to be stored is older than the command, and what waits is newer.
Ascending ==
  /\ msg <= issued
  /\ \A f \in Fields : field[f] <= msg
  /\ \A i \in 1..Len(todo) : field[todo[i]] < msg
  /\ \A i \in 1..Len(wire) : msg < wire[i]

\* Job j was read with a clean copy: no full job that came later has its number.
CleanJob(j) ==
  /\ j \in 1..issued
  /\ base[j] <= taken
  /\ StoringFull => base[j] < msg
  /\ taken = base[j] => field["extraNonce"] = base[j]

\* A clean copy agrees with fields that have not moved since it began.
Copies ==
  \A m \in Miners :
    /\ pc[m] # "clock" => work
    /\ pc[m] \in {"copy", "recopy"} /\ clean[m] =>
         /\ todo = <<>> /\ taken = field["block"]
         /\ \A f \in HeaderFields \ left[m] : header[m][f] = field[f]
    /\ pc[m] \in {"write", "rewrite"} /\ clean[m] => CleanJob(job[m])
    /\ device[m].of.clean => CleanJob(device[m].of.job)

\* The device of a miner that polls or has polled searches its job; only the
\* Windows build looks again.
Polling == {"wait", "late", "again", "recopy"}
Rounds ==
  \A m \in Miners :
    /\ pc[m] \in Polling \cup {"found", "submit"} =>
         device[m].of.job = job[m] /\ device[m].of.time = timestamp[m]
    /\ pc[m] \in {"late", "again", "recopy", "rewrite"} \/ m \in crossed => build = "windows"

\* With one report per header nothing is left over from an earlier round, but
\* what crossed a restart.
Devices ==
  Repeats = 1 =>
    \A m \in Miners \ crossed :
      /\ pc[m] \in Polling =>
           \/ serial[m] = <<>>
           \/ device[m].left = 0 /\ Len(serial[m]) = 1 /\ serial[m][1].of = device[m].of
      /\ pc[m] \in {"again", "recopy"} /\ nonce[m] # Nothing =>
           serial[m] = <<>> /\ device[m].left = 0 /\ found[m] = device[m].of
      /\ pc[m] \notin Polling \cup {"rewrite"} => serial[m] = <<>> /\ device[m].left = 0

HandoffInv ==
  /\ TypeOK
  /\ Numbering
  /\ InOrder
  /\ Storage
  /\ Ascending
  /\ Copies
  /\ MixedOnlyByOverlap
  /\ ExtraNonceOfItsJob
  /\ Rounds
  /\ Devices
  /\ NonceOfItsRound

-----------------------------------------------------------------------------
(* Liveness, under FairSpec.                                               *)

\* No device searches an old job for ever: it is given the job that UCPClient
\* holds, or a newer one, with a merkle root to match.
JobReachesDevice ==
  \A j \in Jobs : \A m \in Miners :
    work /\ todo = <<>> /\ field["jobId"] = j
      ~> device[m].of.root >= j
=============================================================================
