---------------------------- MODULE ShareLedger ----------------------------
(***************************************************************************)
(* The four share counters of UCPClient.h and the rule that ends the       *)
(* program when the pool "appears unresponsive".  submitWork(), run by the *)
(* one miner that holds stratum_sock_lock, and the receiver thread update  *)
(* plain ints without a lock, so a read and the write that depends on it   *)
(* are two steps.  Connections are reduced to what reaches the counters:   *)
(* a share arrives or not, an answer arrives or not, and either thread may *)
(* reconnect, which ends in reconnect()'s reset of sentShares.             *)
(***************************************************************************)
EXTENDS Integers

CONSTANTS
  AckLimit,    \* 10 in the code
  MaxSubmits,  \* bound: shares submitted
  MaxResets    \* bound: reconnections

ASSUME LedgerAssumption ==
  AckLimit \in Nat /\ MaxSubmits \in Nat /\ MaxResets \in Nat

VARIABLES
  sentShares, validShares, invalidShares, lastAcknowledgement,
  reconnecting,
  pcS, regS, failed,  \* submitter: step, value in a register, send() failed
  pcR, regR,          \* receiver: step, value in a register
  owed,               \* shares the pool has and the receiver has no answer to
  \* History, read by properties only:
  attempts,           \* calls of send()
  seen,               \* attempts when the receiver last read sentShares
  acked,              \* the same, once it has stored lastAcknowledgement
  excused,            \* attempts when sentShares was last reset
  resets,
  raced               \* a submission and a reconnection of the receiver overlapped

counters == <<sentShares, validShares, invalidShares, lastAcknowledgement>>
submitter == <<pcS, regS, failed>>
receiver == <<pcR, regR>>
history == <<attempts, seen, acked, excused, resets, raced>>
vars == <<counters, reconnecting, submitter, receiver, owed, history>>

TypeOK ==
  /\ sentShares \in Nat /\ validShares \in Nat /\ invalidShares \in Nat
  /\ lastAcknowledgement \in Nat
  /\ reconnecting \in BOOLEAN /\ failed \in BOOLEAN /\ raced \in BOOLEAN
  /\ pcS \in {"idle", "send", "incLoad", "incStore", "test",
              "raise", "resetLoad", "resetStore", "exit"}
  /\ pcR \in {"recv", "ackLoad", "ackStore", "raise", "resetLoad", "resetStore"}
  /\ regS \in Nat /\ regR \in Nat /\ owed \in Nat
  /\ attempts \in 0..MaxSubmits /\ resets \in 0..MaxResets
  /\ seen \in 0..attempts /\ acked \in 0..attempts /\ excused \in 0..attempts

Init ==
  /\ sentShares = 0 /\ validShares = 0 /\ invalidShares = 0
  /\ lastAcknowledgement = 0
  /\ reconnecting = FALSE
  /\ pcS = "idle" /\ regS = 0 /\ failed = FALSE
  /\ pcR = "recv" /\ regR = 0
  /\ owed = 0
  /\ attempts = 0 /\ seen = 0 /\ acked = 0 /\ excused = 0 /\ resets = 0
  /\ raced = FALSE

-----------------------------------------------------------------------------
(* submitWork()                                                            *)

Check ==
  /\ pcS = "idle"
  /\ ~reconnecting
  /\ attempts < MaxSubmits
  /\ pcS' = "send"
  /\ UNCHANGED <<counters, reconnecting, regS, failed, receiver, owed, history>>

\* send() fails, or succeeds and the share reaches the pool or is lost.
Send ==
  /\ pcS = "send"
  /\ attempts' = attempts + 1
  /\ \/ failed' = TRUE /\ owed' = owed
     \/ failed' = FALSE /\ owed' \in {owed, owed + 1}
  /\ pcS' = "incLoad"
  /\ raced' = (raced \/ pcR \in {"raise", "resetLoad", "resetStore"})
  /\ UNCHANGED <<counters, reconnecting, regS, receiver, seen, acked, excused, resets>>

\* Mutant of IncLoad: counts down.
IncLoadDown ==
  /\ pcS = "incLoad"
  /\ regS' = sentShares - 1
  /\ pcS' = "incStore"
  /\ UNCHANGED <<counters, reconnecting, failed, receiver, owed, history>>

\* sentShares++, failed sends included.
IncLoad ==
  /\ pcS = "incLoad"
  /\ regS' = sentShares + 1
  /\ pcS' = "incStore"
  /\ UNCHANGED <<counters, reconnecting, failed, receiver, owed, history>>

IncStore ==
  /\ pcS = "incStore"
  /\ sentShares' = regS
  /\ pcS' = "test"
  /\ UNCHANGED <<validShares, invalidShares, lastAcknowledgement, reconnecting,
                 regS, failed, receiver, owed, history>>

\* Mutant of Test: one share too early.
TestEarly ==
  /\ pcS = "test"
  /\ \E s \in {regS, sentShares} :
       pcS' = IF lastAcknowledgement + AckLimit <= s THEN "exit"
              ELSE IF failed THEN "raise" ELSE "idle"
  /\ UNCHANGED <<counters, reconnecting, regS, failed, receiver, owed, history>>

\* Mutant of Test: one share too late.
TestLate ==
  /\ pcS = "test"
  /\ \E s \in {regS, sentShares} :
       pcS' = IF lastAcknowledgement + AckLimit + 1 < s THEN "exit"
              ELSE IF failed THEN "raise" ELSE "idle"
  /\ UNCHANGED <<counters, reconnecting, regS, failed, receiver, owed, history>>

\* lastAcknowledgement + 10 < sentShares, with sentShares read again or still
\* in the register it was stored from.
Test ==
  /\ pcS = "test"
  /\ \E s \in {regS, sentShares} :
       pcS' = IF lastAcknowledgement + AckLimit < s THEN "exit"
              ELSE IF failed THEN "raise" ELSE "idle"
  /\ UNCHANGED <<counters, reconnecting, regS, failed, receiver, owed, history>>

\* The connection is closed; a receiver that is waiting in recv() on it may
\* get one more answer from it.
SubmitterRaises ==
  /\ pcS = "raise"
  /\ resets < MaxResets
  /\ reconnecting' = TRUE
  /\ owed' \in {n \in {0, 1} : n <= owed}
  /\ pcS' = "resetLoad"
  /\ UNCHANGED <<counters, regS, failed, receiver, history>>

\* reconnect(): sentShares = validShares + invalidShares; then the flag falls.
SubmitterResetLoad ==
  /\ pcS = "resetLoad"
  /\ regS' = validShares + invalidShares
  /\ pcS' = "resetStore"
  /\ UNCHANGED <<counters, reconnecting, failed, receiver, owed, history>>

SubmitterResetStore ==
  /\ pcS = "resetStore"
  /\ resets < MaxResets
  /\ sentShares' = regS
  /\ reconnecting' = FALSE
  /\ excused' = attempts
  /\ resets' = resets + 1
  /\ pcS' = "idle"
  /\ UNCHANGED <<validShares, invalidShares, lastAcknowledgement, regS, failed,
                 receiver, owed, attempts, seen, acked, raced>>

-----------------------------------------------------------------------------
(* cyclicRun()                                                             *)

\* Mutant of Answer: the same answer is counted twice.
AnswerTwice ==
  /\ pcR = "recv"
  /\ owed > 0
  /\ owed' = owed - 1
  /\ \/ validShares' = validShares + 2 /\ UNCHANGED invalidShares
     \/ invalidShares' = invalidShares + 2 /\ UNCHANGED validShares
  /\ pcR' = "ackLoad"
  /\ UNCHANGED <<sentShares, lastAcknowledgement, reconnecting, submitter, regR, history>>

Answer ==
  /\ pcR = "recv"
  /\ owed > 0
  /\ owed' = owed - 1
  /\ \/ validShares' = validShares + 1 /\ UNCHANGED invalidShares
     \/ invalidShares' = invalidShares + 1 /\ UNCHANGED validShares
  /\ pcR' = "ackLoad"
  /\ UNCHANGED <<sentShares, lastAcknowledgement, reconnecting, submitter, regR, history>>

\* lastAcknowledgement = sentShares
AckLoad ==
  /\ pcR = "ackLoad"
  /\ regR' = sentShares
  /\ seen' = attempts
  /\ pcR' = "ackStore"
  /\ UNCHANGED <<counters, reconnecting, submitter, owed, attempts, acked, excused, resets,
                 raced>>

AckStore ==
  /\ pcR = "ackStore"
  /\ lastAcknowledgement' = regR
  /\ acked' = seen
  /\ pcR' = "recv"
  /\ UNCHANGED <<sentShares, validShares, invalidShares, reconnecting, submitter,
                 regR, owed, attempts, seen, excused, resets, raced>>

\* An answer behind another command in one recv(), or on a lost connection.
AnswerLost ==
  /\ owed > 0
  /\ owed' = owed - 1
  /\ UNCHANGED <<counters, reconnecting, submitter, receiver, history>>

ConnectionEnds ==
  /\ pcR = "recv"
  /\ resets < MaxResets
  /\ pcR' = "raise"
  /\ UNCHANGED <<counters, reconnecting, submitter, regR, owed, history>>

ReceiverRaises ==
  /\ pcR = "raise"
  /\ reconnecting' = TRUE
  /\ owed' = 0
  /\ pcR' = "resetLoad"
  /\ UNCHANGED <<counters, submitter, regR, history>>

ReceiverResetLoad ==
  /\ pcR = "resetLoad"
  /\ regR' = validShares + invalidShares
  /\ pcR' = "resetStore"
  /\ UNCHANGED <<counters, reconnecting, submitter, owed, history>>

\* Mutant of ReceiverResetStore: the unanswered shares are added, not dropped.
ReceiverResetAdds ==
  /\ pcR = "resetStore"
  /\ resets < MaxResets
  /\ sentShares' = sentShares + regR
  /\ reconnecting' = FALSE
  /\ excused' = attempts
  /\ resets' = resets + 1
  /\ raced' = (raced \/ pcS # "idle")
  /\ pcR' = "recv"
  /\ UNCHANGED <<validShares, invalidShares, lastAcknowledgement, submitter, regR,
                 owed, attempts, seen, acked>>

ReceiverResetStore ==
  /\ pcR = "resetStore"
  /\ resets < MaxResets
  /\ sentShares' = regR
  /\ reconnecting' = FALSE
  /\ excused' = attempts
  /\ resets' = resets + 1
  /\ raced' = (raced \/ pcS # "idle")
  /\ pcR' = "recv"
  /\ UNCHANGED <<validShares, invalidShares, lastAcknowledgement, submitter, regR,
                 owed, attempts, seen, acked>>

Submit ==
  \/ Check \/ Send \/ IncLoad \/ IncStore \/ Test
  \/ SubmitterRaises \/ SubmitterResetLoad \/ SubmitterResetStore

Receive ==
  \/ Answer \/ AckLoad \/ AckStore \/ AnswerLost
  \/ ConnectionEnds \/ ReceiverRaises \/ ReceiverResetLoad \/ ReceiverResetStore

Next == Submit \/ Receive

Spec == Init /\ [][Next]_vars

-----------------------------------------------------------------------------
(* Properties.                                                             *)

\* Through the races of sentShares++ with an answer and with a reset, the
\* counter never runs ahead of the shares sent by more than the one share
\* whose answer was counted before its own increment (1100-1102).
SentNeverFarAhead == sentShares <= attempts + 1

\* The miner's statistics: every share counted valid or invalid, and every
\* answer still due, belongs to a share of its own; reconnecting counts none
\* twice.
AnswersWereSent == validShares + invalidShares + owed <= attempts

\* The program gives up on the pool (1104) only when at least AckLimit - 1
\* shares were sent since the last one that an acknowledgement covers, however
\* many answers were lost and however often either thread reconnected, as long
\* as no submission overlapped a reconnection of the receiver.  The slack is
\* two answers counted out of step with sentShares: one taken before its own
\* increment, one read from a connection the submitter had given up.
ExitMeansSilence ==
  [][pcS # "exit" /\ pcS' = "exit" /\ ~raced => attempts - acked >= AckLimit - 1]_vars

\* A silent pool is noticed in time: before any reconnection, one share more
\* than AckLimit is the most that stays unacknowledged.
SilenceIsNoticed == resets = 0 => attempts - acked <= AckLimit + 1

-----------------------------------------------------------------------------
(* What the program says of itself and does not do.                        *)

\* "Pool server appears unresponsive! Exiting..." (1107), with the counter
\* reset on reconnection (1156): counted from the last acknowledgement or the
\* last reset, the same limit holds on every connection.
SilenceIsNoticedAfterReset ==
  ~raced => \/ attempts - acked <= AckLimit + 1
            \/ attempts - excused <= AckLimit + 1
=============================================================================
