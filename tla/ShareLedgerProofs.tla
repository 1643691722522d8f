-------------------------- MODULE ShareLedgerProofs --------------------------
(***************************************************************************)
(* The bounds on the share counters, for every AckLimit and every number   *)
(* of submissions and reconnections.                                       *)
(***************************************************************************)
EXTENDS ShareLedger, TLAPS

\* What the registers hold while a read and its write are apart.
RegistersBound ==
  /\ pcS = "incLoad" => sentShares <= attempts
  /\ pcS = "incStore" => regS <= attempts + 1
  /\ pcS = "resetStore" => regS <= attempts
  /\ pcR = "resetStore" => regR <= attempts

\* Until the first reset sentShares counts every attempt, and the test that
\* ends the program sees what the acknowledgements cover.
FirstEra ==
  resets = 0 =>
    /\ sentShares = IF pcS \in {"incLoad", "incStore"} THEN attempts - 1 ELSE attempts
    /\ pcS \in {"incStore", "test"} => regS = attempts
    /\ lastAcknowledgement <= acked /\ acked <= seen
    /\ pcR = "ackStore" => regR <= seen
    /\ attempts <= acked + AckLimit + 1
    /\ pcS \notin {"incLoad", "incStore", "test", "exit"} => attempts <= acked + AckLimit

\* Shares counted or about to be: a submission between send() and its increment.
Counted == sentShares + IF pcS \in {"incLoad", "incStore"} THEN 1 ELSE 0

Answered == validShares + invalidShares

\* Unless a submission overlapped a reconnection of the receiver, neither the
\* counter nor the answers, due ones included, come closer than two to what was
\* sent since the share that lastAcknowledgement covers.  A reset lowers the
\* counter to the answers only, and leaves at most one answer on its way.
Drift ==
  ~raced =>
    /\ pcS = "incStore" => regS = sentShares + 1
    /\ pcS = "test" => regS = sentShares
    /\ pcS = "resetLoad" => owed <= 1
    /\ pcS = "resetStore" => regS <= Answered /\ Answered + owed <= regS + 1
    /\ pcR \in {"resetLoad", "resetStore"} => owed = 0
    /\ pcR = "resetStore" => regR = Answered
    /\ Answered + owed <= Counted + 1
    /\ acked + Counted <= attempts + lastAcknowledgement + 2
    /\ acked + Answered + owed <= attempts + lastAcknowledgement + 2
    /\ pcR = "ackStore" =>
         /\ seen + Counted <= attempts + regR + 2
         /\ seen + Answered + owed <= attempts + regR + 2

\* Check let the submission begin within the bound on submissions.
SendAllowed == pcS = "send" => attempts < MaxSubmits

LedgerInv ==
  /\ TypeOK
  /\ AnswersWereSent
  /\ SentNeverFarAhead
  /\ RegistersBound
  /\ SendAllowed
  /\ FirstEra
  /\ Drift

Booleans == reconnecting \in BOOLEAN /\ failed \in BOOLEAN /\ raced \in BOOLEAN

Numbers ==
  /\ sentShares \in Nat /\ validShares \in Nat /\ invalidShares \in Nat
  /\ lastAcknowledgement \in Nat /\ regS \in Nat /\ regR \in Nat /\ owed \in Nat
  /\ attempts \in 0..MaxSubmits /\ resets \in 0..MaxResets
  /\ seen \in 0..attempts /\ acked \in 0..attempts /\ excused \in 0..attempts

Steps ==
  /\ pcS \in {"idle", "send", "incLoad", "incStore", "test",
              "raise", "resetLoad", "resetStore", "exit"}
  /\ pcR \in {"recv", "ackLoad", "ackStore", "raise", "resetLoad", "resetStore"}

LEMMA TypeParts ==
  TypeOK <=> Booleans /\ Numbers /\ Steps
BY DEF TypeOK, Booleans, Numbers, Steps

LEMMA InitLedger ==
  Init => LedgerInv
<1>. SUFFICES ASSUME Init PROVE LedgerInv
  OBVIOUS
<1>1. Booleans /\ Steps
  BY DEF Init, Booleans, Steps
<1>2. Numbers
  BY LedgerAssumption DEF LedgerAssumption, Init, Numbers
<1>3. AnswersWereSent /\ SentNeverFarAhead /\ RegistersBound /\ SendAllowed
  BY DEF Init, AnswersWereSent, SentNeverFarAhead, RegistersBound, SendAllowed
<1>4. FirstEra
  BY LedgerAssumption DEF LedgerAssumption, Init, FirstEra
<1>5. Drift
  BY DEF Init, Drift, Counted, Answered
<1>6. QED
  BY <1>1, <1>2, <1>3, <1>4, <1>5, TypeParts DEF LedgerInv

LEMMA BooleansStep ==
  ASSUME Booleans, Steps, [Next]_vars
  PROVE  Booleans' /\ Steps'
<1>. USE DEF Booleans, Steps, counters, submitter, receiver, history
<1>1. CASE Check
  BY <1>1 DEF Check
<1>2. CASE Send
  BY <1>2 DEF Send
<1>3. CASE IncLoad
  BY <1>3 DEF IncLoad
<1>4. CASE IncStore
  BY <1>4 DEF IncStore
<1>5. CASE Test
  BY <1>5 DEF Test
<1>6. CASE SubmitterRaises
  BY <1>6 DEF SubmitterRaises
<1>7. CASE SubmitterResetLoad
  BY <1>7 DEF SubmitterResetLoad
<1>8. CASE SubmitterResetStore
  BY <1>8 DEF SubmitterResetStore
<1>9. CASE Answer
  BY <1>9 DEF Answer
<1>10. CASE AckLoad
  BY <1>10 DEF AckLoad
<1>11. CASE AckStore
  BY <1>11 DEF AckStore
<1>12. CASE AnswerLost
  BY <1>12 DEF AnswerLost
<1>13. CASE ConnectionEnds
  BY <1>13 DEF ConnectionEnds
<1>14. CASE ReceiverRaises
  BY <1>14 DEF ReceiverRaises
<1>15. CASE ReceiverResetLoad
  BY <1>15 DEF ReceiverResetLoad
<1>16. CASE ReceiverResetStore
  BY <1>16 DEF ReceiverResetStore
<1>17. CASE UNCHANGED vars
  BY <1>17 DEF vars
<1>18. QED
  BY <1>1, <1>2, <1>3, <1>4, <1>5, <1>6, <1>7, <1>8, <1>9, <1>10, <1>11, <1>12, <1>13, <1>14,
     <1>15, <1>16, <1>17 DEF Next, Submit, Receive

LEMMA NumbersStep ==
  ASSUME Numbers, AnswersWereSent, SendAllowed, [Next]_vars
  PROVE  Numbers' /\ SendAllowed'
<1>. USE LedgerAssumption DEF LedgerAssumption, SendAllowed, Numbers, AnswersWereSent, counters, submitter, receiver,
     history
<1>1. CASE Check
  BY <1>1 DEF Check
<1>2. CASE Send
  <2>1. owed' \in Nat /\ owed' <= owed + 1
    BY <1>2 DEF Send
  <2>2. attempts' \in 0..MaxSubmits /\ attempts' = attempts + 1
    BY <1>2 DEF Send
  <2>3. QED
    BY <1>2, <2>1, <2>2 DEF Send
<1>3. CASE IncLoad
  BY <1>3 DEF IncLoad
<1>4. CASE IncStore
  BY <1>4 DEF IncStore
<1>5. CASE Test
  BY <1>5 DEF Test
<1>6. CASE SubmitterRaises
  BY <1>6 DEF SubmitterRaises
<1>7. CASE SubmitterResetLoad
  BY <1>7 DEF SubmitterResetLoad
<1>8. CASE SubmitterResetStore
  BY <1>8 DEF SubmitterResetStore
<1>9. CASE Answer
  BY <1>9 DEF Answer
<1>10. CASE AckLoad
  BY <1>10 DEF AckLoad
<1>11. CASE AckStore
  BY <1>11 DEF AckStore
<1>12. CASE AnswerLost
  BY <1>12 DEF AnswerLost
<1>13. CASE ConnectionEnds
  BY <1>13 DEF ConnectionEnds
<1>14. CASE ReceiverRaises
  BY <1>14 DEF ReceiverRaises
<1>15. CASE ReceiverResetLoad
  BY <1>15 DEF ReceiverResetLoad
<1>16. CASE ReceiverResetStore
  BY <1>16 DEF ReceiverResetStore
<1>17. CASE UNCHANGED vars
  BY <1>17 DEF vars
<1>18. QED
  BY <1>1, <1>2, <1>3, <1>4, <1>5, <1>6, <1>7, <1>8, <1>9, <1>10, <1>11, <1>12, <1>13, <1>14,
     <1>15, <1>16, <1>17 DEF Next, Submit, Receive

\* No step counts an answer that is not due, or a share that was not sent.
LEMMA BoundsStep ==
  ASSUME Numbers, AnswersWereSent, SentNeverFarAhead, RegistersBound, [Next]_vars
  PROVE  AnswersWereSent' /\ SentNeverFarAhead' /\ RegistersBound'
<1>. USE LedgerAssumption DEF LedgerAssumption, Numbers, AnswersWereSent, SentNeverFarAhead,
     RegistersBound, counters, submitter, receiver, history
<1>1. CASE Check
  BY <1>1 DEF Check
<1>2. CASE Send
  BY <1>2 DEF Send
<1>3. CASE IncLoad
  BY <1>3 DEF IncLoad
<1>4. CASE IncStore
  BY <1>4 DEF IncStore
<1>5. CASE Test
  BY <1>5 DEF Test
<1>6. CASE SubmitterRaises
  <2>1. /\ validShares' = validShares /\ invalidShares' = invalidShares /\ attempts' = attempts
        /\ owed' = 0 \/ (owed' = 1 /\ 1 <= owed)
    BY <1>6 DEF SubmitterRaises
  <2>2. ASSUME owed' = 0 PROVE AnswersWereSent'
    BY <2>1, <2>2
  <2>3. ASSUME owed' = 1, 1 <= owed PROVE AnswersWereSent'
    BY <2>1, <2>3
  <2>4. SentNeverFarAhead' /\ RegistersBound'
    BY <1>6 DEF SubmitterRaises
  <2>5. QED
    BY <2>1, <2>2, <2>3, <2>4
<1>7. CASE SubmitterResetLoad
  BY <1>7 DEF SubmitterResetLoad
<1>8. CASE SubmitterResetStore
  BY <1>8 DEF SubmitterResetStore
<1>9. CASE Answer
  BY <1>9 DEF Answer
<1>10. CASE AckLoad
  BY <1>10 DEF AckLoad
<1>11. CASE AckStore
  BY <1>11 DEF AckStore
<1>12. CASE AnswerLost
  BY <1>12 DEF AnswerLost
<1>13. CASE ConnectionEnds
  BY <1>13 DEF ConnectionEnds
<1>14. CASE ReceiverRaises
  BY <1>14 DEF ReceiverRaises
<1>15. CASE ReceiverResetLoad
  BY <1>15 DEF ReceiverResetLoad
<1>16. CASE ReceiverResetStore
  BY <1>16 DEF ReceiverResetStore
<1>17. CASE UNCHANGED vars
  BY <1>17 DEF vars
<1>18. QED
  BY <1>1, <1>2, <1>3, <1>4, <1>5, <1>6, <1>7, <1>8, <1>9, <1>10, <1>11, <1>12, <1>13, <1>14,
     <1>15, <1>16, <1>17 DEF Next, Submit, Receive

\* Before the first reset no step lets the count outrun the acknowledgements.
LEMMA FirstEraStep ==
  ASSUME Numbers, FirstEra, [Next]_vars
  PROVE  FirstEra'
<1>. USE LedgerAssumption DEF LedgerAssumption, Numbers, FirstEra, counters, submitter, receiver, history
<1>1. CASE Check
  BY <1>1 DEF Check
<1>2. CASE Send
  BY <1>2 DEF Send
<1>3. CASE IncLoad
  BY <1>3 DEF IncLoad
<1>4. CASE IncStore
  BY <1>4 DEF IncStore
<1>5. CASE Test
  BY <1>5 DEF Test
<1>6. CASE SubmitterRaises
  BY <1>6 DEF SubmitterRaises
<1>7. CASE SubmitterResetLoad
  BY <1>7 DEF SubmitterResetLoad
<1>8. CASE SubmitterResetStore
  BY <1>8 DEF SubmitterResetStore
<1>9. CASE Answer
  BY <1>9 DEF Answer
<1>10. CASE AckLoad
  BY <1>10 DEF AckLoad
<1>11. CASE AckStore
  BY <1>11 DEF AckStore
<1>12. CASE AnswerLost
  BY <1>12 DEF AnswerLost
<1>13. CASE ConnectionEnds
  BY <1>13 DEF ConnectionEnds
<1>14. CASE ReceiverRaises
  BY <1>14 DEF ReceiverRaises
<1>15. CASE ReceiverResetLoad
  BY <1>15 DEF ReceiverResetLoad
<1>16. CASE ReceiverResetStore
  BY <1>16 DEF ReceiverResetStore
<1>17. CASE UNCHANGED vars
  BY <1>17 DEF vars
<1>18. QED
  BY <1>1, <1>2, <1>3, <1>4, <1>5, <1>6, <1>7, <1>8, <1>9, <1>10, <1>11, <1>12, <1>13, <1>14,
     <1>15, <1>16, <1>17 DEF Next, Submit, Receive

\* No step brings the counter or the answers closer to what was acknowledged.
LEMMA DriftStep ==
  ASSUME Numbers, Drift, [Next]_vars
  PROVE  Drift'
<1>. USE LedgerAssumption DEF LedgerAssumption, Numbers, Drift, Counted, Answered, counters, submitter,
     receiver, history
<1>1. CASE Check
  BY <1>1 DEF Check
<1>2. CASE Send
  <2>1. /\ attempts' = attempts + 1 /\ pcS = "send" /\ pcS' = "incLoad" /\ pcR' = pcR
        /\ raced' = (raced \/ pcR \in {"raise", "resetLoad", "resetStore"})
        /\ sentShares' = sentShares /\ lastAcknowledgement' = lastAcknowledgement
        /\ regR' = regR /\ seen' = seen /\ acked' = acked
        /\ validShares' = validShares /\ invalidShares' = invalidShares
    BY <1>2 DEF Send
  <2>2. owed' = owed \/ owed' = owed + 1
    BY <1>2 DEF Send
  <2>3. SUFFICES ASSUME ~raced' PROVE Drift'
    OBVIOUS
  <2>4. ~raced /\ pcR \notin {"raise", "resetLoad", "resetStore"}
    BY <2>1, <2>3
  <2>5. /\ sentShares \in Int /\ lastAcknowledgement \in Int /\ regR \in Int /\ owed \in Int
        /\ attempts \in Int /\ seen \in Int /\ acked \in Int
        /\ Answered \in Int /\ Answered' = Answered
    BY <2>1
  <2>6. Counted = sentShares /\ Counted' = sentShares + 1
    BY <2>1
  <2>7. /\ Answered + owed <= sentShares + 1
        /\ acked + sentShares <= attempts + lastAcknowledgement + 2
        /\ acked + Answered + owed <= attempts + lastAcknowledgement + 2
        /\ pcR = "ackStore" => seen + sentShares <= attempts + regR + 2
        /\ pcR = "ackStore" => seen + Answered + owed <= attempts + regR + 2
    BY <2>4, <2>6
  <2>8. /\ Answered' + owed' <= Counted' + 1
        /\ acked' + Counted' <= attempts' + lastAcknowledgement' + 2
        /\ acked' + Answered' + owed' <= attempts' + lastAcknowledgement' + 2
        /\ pcR' = "ackStore" =>
             /\ seen' + Counted' <= attempts' + regR' + 2
             /\ seen' + Answered' + owed' <= attempts' + regR' + 2
    <3>. HIDE DEF Drift, Counted, Answered, Numbers
    <3>1. CASE owed' = owed
      BY <2>1, <2>5, <2>6, <2>7, <3>1
    <3>2. CASE owed' = owed + 1
      BY <2>1, <2>5, <2>6, <2>7, <3>2
    <3>3. QED
      BY <2>2, <3>1, <3>2
  <2>9. QED
    BY <2>1, <2>4, <2>8
<1>3. CASE IncLoad
  BY <1>3 DEF IncLoad
<1>4. CASE IncStore
  BY <1>4 DEF IncStore
<1>5. CASE Test
  BY <1>5 DEF Test
<1>6. CASE SubmitterRaises
  <2>1. /\ pcS = "raise" /\ pcS' = "resetLoad" /\ raced' = raced /\ attempts' = attempts /\ pcR' = pcR
        /\ sentShares' = sentShares /\ lastAcknowledgement' = lastAcknowledgement
        /\ regR' = regR /\ seen' = seen /\ acked' = acked
        /\ validShares' = validShares /\ invalidShares' = invalidShares
    BY <1>6 DEF SubmitterRaises
  <2>2. (owed' = 0 /\ 0 <= owed) \/ (owed' = 1 /\ 1 <= owed)
    BY <1>6 DEF SubmitterRaises
  <2>3. SUFFICES ASSUME ~raced' PROVE Drift'
    OBVIOUS
  <2>4. ~raced
    BY <2>1, <2>3
  <2>5. /\ sentShares \in Int /\ lastAcknowledgement \in Int /\ regR \in Int /\ owed \in Int
        /\ attempts \in Int /\ seen \in Int /\ acked \in Int
        /\ Answered \in Int /\ Answered' = Answered
    BY <2>1
  <2>6. Counted = sentShares /\ Counted' = sentShares
    BY <2>1
  <2>7. /\ Answered + owed <= sentShares + 1
        /\ acked + sentShares <= attempts + lastAcknowledgement + 2
        /\ acked + Answered + owed <= attempts + lastAcknowledgement + 2
        /\ pcR = "ackStore" => seen + sentShares <= attempts + regR + 2
        /\ pcR = "ackStore" => seen + Answered + owed <= attempts + regR + 2
        /\ pcR \in {"resetLoad", "resetStore"} => owed = 0
        /\ pcR = "resetStore" => regR = Answered
    BY <2>4, <2>6
  <2>8. /\ Answered' + owed' <= Counted' + 1
        /\ acked' + Counted' <= attempts' + lastAcknowledgement' + 2
        /\ acked' + Answered' + owed' <= attempts' + lastAcknowledgement' + 2
        /\ pcR' = "ackStore" =>
             /\ seen' + Counted' <= attempts' + regR' + 2
             /\ seen' + Answered' + owed' <= attempts' + regR' + 2
        /\ pcR' \in {"resetLoad", "resetStore"} => owed' = 0
        /\ pcR' = "resetStore" => regR' = Answered'
    <3>. HIDE DEF Drift, Counted, Answered, Numbers
    <3>1. CASE owed' = 0 /\ 0 <= owed
      BY <2>1, <2>5, <2>6, <2>7, <3>1
    <3>2. CASE owed' = 1 /\ 1 <= owed
      BY <2>1, <2>5, <2>6, <2>7, <3>2
    <3>3. QED
      BY <2>2, <3>1, <3>2
  <2>9. QED
    BY <2>1, <2>2, <2>8
<1>7. CASE SubmitterResetLoad
  BY <1>7 DEF SubmitterResetLoad
<1>8. CASE SubmitterResetStore
  BY <1>8 DEF SubmitterResetStore
<1>9. CASE Answer
  BY <1>9 DEF Answer
<1>10. CASE AckLoad
  BY <1>10 DEF AckLoad
<1>11. CASE AckStore
  BY <1>11 DEF AckStore
<1>12. CASE AnswerLost
  BY <1>12 DEF AnswerLost
<1>13. CASE ConnectionEnds
  BY <1>13 DEF ConnectionEnds
<1>14. CASE ReceiverRaises
  BY <1>14 DEF ReceiverRaises
<1>15. CASE ReceiverResetLoad
  BY <1>15 DEF ReceiverResetLoad
<1>16. CASE ReceiverResetStore
  <2>1. /\ pcR = "resetStore" /\ pcR' = "recv" /\ sentShares' = regR
        /\ raced' = (raced \/ pcS # "idle")
        /\ UNCHANGED <<validShares, invalidShares, lastAcknowledgement, submitter, regR, owed, attempts, seen, acked>>
    BY <1>16 DEF ReceiverResetStore
  <2>2. ASSUME ~raced'
        PROVE  ~raced /\ pcS = "idle" /\ pcS' = "idle"
    BY <2>1, <2>2
  <2>3. QED
    BY <2>1, <2>2
<1>17. CASE UNCHANGED vars
  BY <1>17 DEF vars
<1>18. QED
  BY <1>1, <1>2, <1>3, <1>4, <1>5, <1>6, <1>7, <1>8, <1>9, <1>10, <1>11, <1>12, <1>13, <1>14,
     <1>15, <1>16, <1>17 DEF Next, Submit, Receive

THEOREM LedgerInvariant ==
  Spec => []LedgerInv
<1>1. LedgerInv /\ [Next]_vars => LedgerInv'
  BY BooleansStep, NumbersStep, BoundsStep, FirstEraStep, DriftStep
     DEF LedgerInv, TypeOK, Booleans, Numbers, Steps
<1>2. QED
  BY <1>1, InitLedger, PTL DEF Spec

\* Every counter and every step keeps its type, whatever is lost or answered.
THEOREM LedgerTypes ==
  Spec => []TypeOK
<1>1. LedgerInv => TypeOK
  BY DEF LedgerInv
<1>2. QED
  BY <1>1, LedgerInvariant, PTL

\* sentShares++ (1100) may be torn by an answer or by the reset of a
\* reconnection (1157); the counter is one ahead of the shares at most.
THEOREM SentBounded ==
  Spec => []SentNeverFarAhead
<1>1. LedgerInv => SentNeverFarAhead
  BY DEF LedgerInv
<1>2. QED
  BY <1>1, LedgerInvariant, PTL

\* No share is counted valid or invalid twice, across reconnections of either
\* thread.
THEOREM AnswersCountedOnce ==
  Spec => []AnswersWereSent
<1>1. LedgerInv => AnswersWereSent
  BY DEF LedgerInv
<1>2. QED
  BY <1>1, LedgerInvariant, PTL

\* Before any reconnection a silent pool ends the program within AckLimit + 1
\* shares of the last acknowledgement (1102), whatever the interleaving.
THEOREM SilenceEndsTheProgram ==
  Spec => []SilenceIsNoticed
<1>1. LedgerInv => SilenceIsNoticed
  <2>1. SUFFICES ASSUME LedgerInv, resets = 0 PROVE attempts - acked <= AckLimit + 1
    BY DEF SilenceIsNoticed
  <2>2. attempts \in Nat /\ acked \in Nat /\ attempts <= acked + AckLimit + 1
    BY <2>1 DEF LedgerInv, TypeOK, FirstEra
  <2>3. QED
    BY <2>2, LedgerAssumption DEF LedgerAssumption
<1>2. QED
  BY <1>1, LedgerInvariant, PTL

\* Only Test ends the program, and it has read no more than Drift allows.
LEMMA ExitStep ==
  ASSUME LedgerInv, [Next]_vars, pcS # "exit", pcS' = "exit", ~raced
  PROVE  attempts - acked >= AckLimit - 1
<1>1. Test
  BY DEF Next, Submit, Receive, vars, submitter, receiver, Check, Send, IncLoad, IncStore, SubmitterRaises,
         SubmitterResetLoad, SubmitterResetStore, Answer, AckLoad, AckStore, AnswerLost,
         ConnectionEnds, ReceiverRaises, ReceiverResetLoad, ReceiverResetStore
<1>2. pcS = "test" /\ \E s \in {regS, sentShares} : lastAcknowledgement + AckLimit < s
  BY <1>1 DEF Test
<1>3. /\ lastAcknowledgement + AckLimit < sentShares
      /\ acked + sentShares <= attempts + lastAcknowledgement + 2
  BY <1>2 DEF LedgerInv, TypeOK, Drift, Counted
<1>4. sentShares \in Nat /\ lastAcknowledgement \in Nat /\ acked \in Nat /\ attempts \in Nat
  BY DEF LedgerInv, TypeOK
<1>5. QED
  BY <1>3, <1>4, LedgerAssumption DEF LedgerAssumption

\* The program gives up on the pool (1102) only after at least AckLimit - 1 shares
\* without an acknowledgement, however many answers were lost and however often
\* either thread reconnected, unless a submission overlapped a reconnection of
\* the receiver.
THEOREM ExitFollowsSilence ==
  Spec => ExitMeansSilence
<1>1. LedgerInv /\ [Next]_vars =>
        [pcS # "exit" /\ pcS' = "exit" /\ ~raced => attempts - acked >= AckLimit - 1]_vars
  BY ExitStep
<1>2. QED
  BY <1>1, LedgerInvariant, PTL DEF Spec, ExitMeansSilence
=============================================================================
