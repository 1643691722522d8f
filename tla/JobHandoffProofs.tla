-------------------------- MODULE JobHandoffProofs --------------------------
(***************************************************************************)
(* The work that miners take from the receiver, for every number of        *)
(* miners, jobs, messages per read and reports per header.                 *)
(***************************************************************************)
EXTENDS JobHandoff, TLAPS, SequenceTheorems

-----------------------------------------------------------------------------
(* Who does what.                                                          *)

\* Miners and devices only read the work.
LEMMA MinersLeaveWork ==
  ASSUME NEW m \in Miners, Mine(m) \/ Report(m)
  PROVE  UNCHANGED <<pool, wire, client, taken>>
BY DEF Mine, Report, ReadClock, LockForWork, Copy, ReadJobId, WriteHeader, Poll, Outlast,
   PollLate, LookAgain, LockForSubmit, Submit, history

LEMMA WorkSteps ==
  ASSUME [Next]_vars
  PROVE  Issue \/ Receive \/ Store \/ UNCHANGED <<pool, wire, client, taken>>
BY MinersLeaveWork DEF Next, vars, history

-----------------------------------------------------------------------------
(* The pool and the wire.                                                  *)

\* What Issue does to the jobs: those already issued keep their block.
LEMMA IssueEffect ==
  ASSUME TypeOK, Issue
  PROVE  /\ issued' = issued + 1 /\ issued' \in Jobs
         /\ base' \in [Jobs -> JobRefs]
         /\ \A j \in 1..issued : base'[j] = base[j]
         /\ \/ base'[issued'] = issued'
            \/ issued > 0 /\ base'[issued'] = base[issued]
         /\ wire' \in Seq(Jobs) /\ Len(wire') = Len(wire) + 1
         /\ \A i \in 1..Len(wire) : wire'[i] = wire[i]
         /\ wire'[Len(wire) + 1] = issued'
<1>. USE HandoffAssumption DEF Jobs, JobRefs
<1>1. issued' = issued + 1 /\ issued + 1 \in Jobs /\ wire' = Append(wire, issued + 1)
  BY DEF Issue, TypeOK
<1>2. /\ wire' \in Seq(Jobs) /\ Len(wire') = Len(wire) + 1
      /\ \A i \in 1..Len(wire) : wire'[i] = wire[i]
      /\ wire'[Len(wire) + 1] = issued'
  BY <1>1, AppendProperties DEF TypeOK
<1>3. /\ base' \in [Jobs -> JobRefs]
      /\ \A j \in 1..issued : base'[j] = base[j]
      /\ \/ base'[issued'] = issued'
         \/ issued > 0 /\ base'[issued'] = base[issued]
  <2>1. base \in [Jobs -> JobRefs] /\ issued \in Nat
    BY DEF TypeOK
  <2>2. CASE base' = [base EXCEPT ![issued + 1] = issued + 1]
    BY <1>1, <2>1, <2>2
  <2>3. CASE issued > 0 /\ base' = [base EXCEPT ![issued + 1] = base[issued]]
    <3>1. issued \in Jobs /\ base[issued] \in JobRefs
      BY <1>1, <2>1, <2>3
    <3>2. QED
      BY <1>1, <2>1, <2>3, <3>1
  <2>4. QED
    BY <2>2, <2>3 DEF Issue
<1>4. QED
  BY <1>1, <1>2, <1>3

LEMMA IssueKeepsOrder ==
  ASSUME TypeOK, Numbering, InOrder, Issue
  PROVE  Numbering' /\ InOrder'
<1>. USE HandoffAssumption DEF Jobs, JobRefs
<1>1. taken' = taken /\ taken \in Nat /\ issued \in Nat /\ Len(wire) \in Nat
  BY DEF Issue, TypeOK, history
<1>2. /\ issued' = issued + 1 /\ issued' \in Jobs
      /\ base' \in [Jobs -> JobRefs]
      /\ \A j \in 1..issued : base'[j] = base[j]
      /\ \/ base'[issued'] = issued'
         \/ issued > 0 /\ base'[issued'] = base[issued]
  BY IssueEffect
<1>3. /\ wire' \in Seq(Jobs) /\ Len(wire') = Len(wire) + 1
      /\ \A i \in 1..Len(wire) : wire'[i] = wire[i]
      /\ wire'[Len(wire) + 1] = issued'
  BY IssueEffect
<1>4. Numbering'
  <2>1. /\ issued > 0 => base[issued] \in 1..issued
        /\ \A j \in 1..issued : base[j] \in 1..j /\ base[base[j]] = base[j] /\ base[j] <= base[issued]
    BY <1>1 DEF Numbering
  <2>2. base'[issued'] \in 1..issued' /\ base'[base'[issued']] = base'[issued']
    BY <1>1, <1>2, <2>1
  <2>3. ASSUME NEW j \in 1..issued'
        PROVE  base'[j] \in 1..j /\ base'[base'[j]] = base'[j] /\ base'[j] <= base'[issued']
    <3>1. CASE j = issued'
      BY <2>2, <3>1, <1>2
    <3>2. CASE j \in 1..issued
      <4>1. base[j] \in 1..j /\ base[base[j]] = base[j] /\ base[j] <= base[issued]
        BY <2>1, <3>2
      <4>2. base[j] \in 1..issued /\ issued > 0 /\ base[issued] \in 1..issued
        BY <1>1, <2>1, <3>2, <4>1
      <4>3. base'[j] = base[j] /\ base'[base[j]] = base[base[j]]
        BY <1>2, <3>2, <4>2
      <4>4. base[issued] <= base'[issued']
        BY <1>1, <1>2, <4>2
      <4>5. base[j] <= base'[issued']
        BY <1>1, <1>2, <2>2, <4>1, <4>2, <4>4
      <4>6. QED
        BY <4>1, <4>3, <4>5
    <3>3. QED
      BY <1>1, <1>2, <3>1, <3>2
  <2>4. taken <= base'[issued']
    BY <1>1, <1>2, <2>1 DEF Numbering
  <2>5. QED
    BY <1>1, <1>2, <2>3, <2>4 DEF Numbering
<1>5. InOrder'
  <2>1. \A i \in 1..Len(wire) : /\ wire[i] \in 1..issued /\ base'[wire[i]] = base[wire[i]]
                                /\ base[wire[i]] <= base'[issued']
    BY <1>1, <1>2 DEF InOrder, Numbering
  <2>2. /\ taken < issued' /\ taken <= base'[issued']
    BY <1>1, <1>2 DEF Numbering
  <2>3. ASSUME NEW i \in 1..Len(wire')
        PROVE  wire'[i] \in 1..issued' /\ taken < wire'[i] /\ taken <= base'[wire'[i]]
    <3>1. CASE i \in 1..Len(wire)
      <4>1. wire'[i] = wire[i] /\ taken < wire[i] /\ taken <= base[wire[i]]
        BY <1>3, <3>1 DEF InOrder
      <4>2. QED
        BY <1>1, <1>2, <2>1, <3>1, <4>1
    <3>2. CASE i = Len(wire) + 1
      BY <1>1, <1>2, <1>3, <2>2, <3>2
    <3>3. QED
      BY <1>1, <1>3, <3>1, <3>2
  <2>4. ASSUME NEW h \in 1..Len(wire'), NEW i \in 1..Len(wire'), h < i
        PROVE  wire'[h] < wire'[i] /\ base'[wire'[h]] <= base'[wire'[i]]
    <3>1. h \in 1..Len(wire) /\ wire'[h] = wire[h]
      BY <1>1, <1>3, <2>4
    <3>2. CASE i \in 1..Len(wire)
      <4>1. wire'[i] = wire[i] /\ wire[h] < wire[i] /\ base[wire[h]] <= base[wire[i]]
        BY <1>3, <2>4, <3>1, <3>2 DEF InOrder
      <4>2. QED
        BY <2>1, <3>1, <3>2, <4>1
    <3>3. CASE i = Len(wire) + 1
      <4>1. wire'[i] = issued + 1
        BY <1>2, <1>3, <3>3
      <4>2. wire[h] \in 1..issued /\ base'[wire[h]] <= base'[issued']
        BY <2>1, <3>1
      <4>3. wire[h] < issued + 1
        BY <1>1, <4>2
      <4>4. QED
        BY <1>2, <3>1, <4>1, <4>2, <4>3
    <3>4. QED
      BY <1>1, <1>3, <3>2, <3>3
  <2>5. base'[issued'] = taken \/ \E h \in 1..Len(wire') : wire'[h] = base'[issued']
    <3>1. CASE base'[issued'] = issued'
      BY <1>1, <1>3, <3>1
    <3>2. CASE issued > 0 /\ base'[issued'] = base[issued]
      BY <1>1, <1>3, <3>2 DEF InOrder
    <3>3. QED
      BY <1>2, <3>1, <3>2
  <2>6. ASSUME NEW i \in 1..Len(wire')
        PROVE  base'[wire'[i]] = taken \/ \E h \in 1..i : wire'[h] = base'[wire'[i]]
    <3>1. CASE i = Len(wire')
      BY <1>3, <2>5, <3>1
    <3>2. CASE i \in 1..Len(wire)
      <4>1. wire'[i] = wire[i] /\ base'[wire'[i]] = base[wire[i]]
        BY <1>3, <2>1, <3>2
      <4>2. base[wire[i]] = taken \/ \E h \in 1..i : wire[h] = base[wire[i]]
        BY <3>2 DEF InOrder
      <4>3. \A h \in 1..i : wire'[h] = wire[h]
        BY <1>1, <1>3, <3>2
      <4>4. QED
        BY <4>1, <4>2, <4>3
    <3>3. QED
      BY <1>1, <1>3, <3>1, <3>2
  <2>7. QED
    BY <1>1, <2>3, <2>4, <2>5, <2>6 DEF InOrder
<1>6. QED
  BY <1>4, <1>5

\* What is left of the wire after a read of k commands.
LEMMA ReceiveEffect ==
  ASSUME TypeOK, InOrder, Receive
  PROVE  \E k \in 1..Len(wire) :
           /\ taken' = base[wire[k]]
           /\ wire' \in Seq(Jobs) /\ Len(wire') = Len(wire) - k
           /\ \A i \in 1..Len(wire') : wire'[i] = wire[k + i]
<1>1. PICK k \in 1..Len(wire) : /\ wire' = SubSeq(wire, k + 1, Len(wire))
                                /\ taken' = base[wire[k]]
  BY DEF Receive
<1>2. wire \in Seq(Jobs) /\ Len(wire) \in Nat /\ k \in Nat
  BY DEF TypeOK
<1>3. /\ wire' \in Seq(Jobs)
      /\ Len(wire') = IF k + 1 <= Len(wire) THEN Len(wire) - k ELSE 0
      /\ \A i \in 1..Len(wire') : wire'[i] = wire[k + i]
  BY <1>1, <1>2, SubSeqProperties
<1>4. \A l \in Nat : \A j \in 1..l : (IF j + 1 <= l THEN l - j ELSE 0) = l - j
  OBVIOUS
<1>5. Len(wire') = Len(wire) - k
  BY <1>2, <1>3, <1>4
<1>6. QED
  BY <1>1, <1>3, <1>5

\* The command read starts from the block that was taken last, or is a block
\* of its own; what is taken with it is no older.
LEMMA ReceiveKeepsOrder ==
  ASSUME TypeOK, Numbering, InOrder, Receive
  PROVE  /\ Numbering' /\ InOrder'
         /\ wire[1] \in 1..issued
         /\ taken < wire[1]
         /\ taken <= taken' /\ base[wire[1]] <= taken' /\ taken' \in JobRefs
         /\ IsFull(wire[1]) \/ base[wire[1]] = taken
<1>. USE HandoffAssumption DEF Jobs, JobRefs
<1>1. PICK k \in 1..Len(wire) :
           /\ taken' = base[wire[k]]
           /\ wire' \in Seq(Jobs) /\ Len(wire') = Len(wire) - k
           /\ \A i \in 1..Len(wire') : wire'[i] = wire[k + i]
  BY ReceiveEffect
<1>2. /\ base' = base /\ issued' = issued /\ issued \in Nat /\ taken \in Nat
      /\ Len(wire) \in Nat /\ k \in Nat /\ base \in [Jobs -> JobRefs]
  <2>1. base' = base /\ issued' = issued
    BY DEF Receive, pool
  <2>2. base \in [Jobs -> JobRefs] /\ issued \in JobRefs /\ taken \in JobRefs /\ wire \in Seq(Jobs)
    BY DEF TypeOK
  <2>3. QED
    BY <2>1, <2>2
<1>3. \A i \in 1..Len(wire) : /\ wire[i] \in 1..issued /\ base[wire[i]] \in 1..wire[i]
                              /\ base[base[wire[i]]] = base[wire[i]]
                              /\ taken < wire[i] /\ taken <= base[wire[i]]
                              /\ base[wire[i]] <= base[issued]
  BY <1>2 DEF InOrder, Numbering
<1>4. \A h, i \in 1..Len(wire) : h < i => wire[h] < wire[i] /\ base[wire[h]] <= base[wire[i]]
  BY DEF InOrder
<1>5. taken' \in 1..issued /\ taken' <= wire[k] /\ taken' <= base[issued] /\ taken <= taken'
  BY <1>1, <1>2, <1>3
<1>6. \A i \in 1..Len(wire') : k + i \in 1..Len(wire) /\ k < k + i
  BY <1>1, <1>2
<1>7. Numbering'
  BY <1>2, <1>5 DEF Numbering
<1>8. ASSUME NEW j \in 1..issued, taken' <= base[j],
             base[j] = taken \/ \E h \in 1..Len(wire) : wire[h] = base[j]
      PROVE  base[j] = taken' \/ \E h \in 1..Len(wire') : wire'[h] = base[j]
  <2>1. CASE base[j] = taken
    BY <1>2, <1>5, <1>8, <2>1
  <2>2. ASSUME NEW h \in 1..Len(wire), wire[h] = base[j], h <= k
        PROVE  base[j] = taken'
    <3>1. base[wire[h]] = wire[h]
      BY <1>2, <2>2 DEF Numbering
    <3>2. base[wire[h]] <= base[wire[k]]
      BY <1>2, <1>3, <1>4, <2>2
    <3>3. QED
      BY <1>1, <1>2, <1>3, <1>5, <1>8, <2>2, <3>1, <3>2
  <2>3. ASSUME NEW h \in 1..Len(wire), wire[h] = base[j], h > k
        PROVE  \E g \in 1..Len(wire') : wire'[g] = base[j]
    <3>1. h - k \in 1..Len(wire') /\ k + (h - k) = h
      BY <1>1, <1>2, <2>3
    <3>2. QED
      BY <1>1, <2>3, <3>1
  <2>4. QED
    BY <1>2, <1>8, <2>1, <2>2, <2>3
<1>9. InOrder'
  <2>1. \A i \in 1..Len(wire') : /\ wire'[i] \in 1..issued
                                 /\ taken' < wire'[i] /\ taken' <= base[wire'[i]]
    <3>1. SUFFICES ASSUME NEW i \in 1..Len(wire')
                   PROVE  /\ wire[k + i] \in 1..issued
                          /\ taken' < wire[k + i] /\ taken' <= base[wire[k + i]]
      BY <1>1
    <3>2. wire[k] < wire[k + i] /\ base[wire[k]] <= base[wire[k + i]]
      BY <1>4, <1>6
    <3>3. wire[k + i] \in 1..issued /\ wire[k] \in 1..issued
      BY <1>3, <1>6
    <3>4. taken' = base[wire[k]] /\ taken' <= wire[k]
      BY <1>1, <1>5
    <3>5. taken' < wire[k + i]
      BY <1>2, <1>5, <3>2, <3>3, <3>4
    <3>6. QED
      BY <3>2, <3>3, <3>4, <3>5
  <2>2. \A h, i \in 1..Len(wire') :
          h < i => wire'[h] < wire'[i] /\ base[wire'[h]] <= base[wire'[i]]
    <3>1. SUFFICES ASSUME NEW h \in 1..Len(wire'), NEW i \in 1..Len(wire'), h < i
                   PROVE  wire[k + h] < wire[k + i] /\ base[wire[k + h]] <= base[wire[k + i]]
      BY <1>1
    <3>2. k + h \in 1..Len(wire) /\ k + i \in 1..Len(wire) /\ k + h < k + i
      BY <1>1, <1>2, <1>6, <3>1
    <3>3. QED
      BY <1>4, <3>2
  <2>3. ASSUME NEW i \in 1..Len(wire')
        PROVE  base[wire'[i]] = taken' \/ \E h \in 1..i : wire'[h] = base[wire'[i]]
    <3>1. base[wire'[i]] = taken \/ \E h \in 1..Len(wire) : wire[h] = base[wire'[i]]
      <4>1. k + i \in 1..Len(wire) /\ wire'[i] = wire[k + i]
        BY <1>1, <1>6
      <4>2. base[wire[k + i]] = taken \/ \E h \in 1..(k + i) : wire[h] = base[wire[k + i]]
        BY <4>1 DEF InOrder
      <4>3. 1..(k + i) \subseteq 1..Len(wire)
        BY <1>2, <4>1
      <4>4. QED
        BY <4>1, <4>2, <4>3
    <3>2. base[wire'[i]] = taken' \/ \E h \in 1..Len(wire') : wire'[h] = base[wire'[i]]
      BY <1>8, <2>1, <3>1
    <3>3. ASSUME NEW h \in 1..Len(wire'), wire'[h] = base[wire'[i]]
          PROVE  h \in 1..i
      <4>1. base[wire'[i]] <= wire'[i] /\ wire'[i] \in 1..issued /\ wire'[h] \in 1..issued
        BY <1>2, <2>1 DEF Numbering
      <4>2. CASE i < h
        <5>1. wire'[i] < wire'[h]
          BY <2>2, <4>2
        <5>2. QED
          BY <1>2, <3>3, <4>1, <5>1
      <4>3. QED
        BY <1>1, <1>2, <4>2
    <3>4. QED
      BY <3>2, <3>3
  <2>4. issued > 0 => base[issued] = taken' \/ \E h \in 1..Len(wire') : wire'[h] = base[issued]
    BY <1>2, <1>5, <1>8 DEF InOrder
  <2>5. QED
    BY <1>2, <2>1, <2>2, <2>3, <2>4 DEF InOrder
<1>10. 1 \in 1..Len(wire) /\ (k = 1 \/ 1 < k)
  BY <1>2
<1>11. base[wire[1]] <= taken'
  BY <1>1, <1>2, <1>3, <1>4, <1>10
<1>12. IsFull(wire[1]) \/ base[wire[1]] = taken
  BY <1>10 DEF InOrder, IsFull
<1>13. QED
  BY <1>2, <1>3, <1>5, <1>7, <1>9, <1>10, <1>11, <1>12, HandoffAssumption DEF TypeOK

-----------------------------------------------------------------------------
(* The fields of UCPClient.                                                *)

\* A field takes a job number; the others stay.
LEMMA StoreEffect ==
  ASSUME TypeOK, Store, NEW f \in Fields, Head(todo) = f
  PROVE  /\ field' = [field EXCEPT ![f] = msg]
         /\ field'[f] = msg /\ \A g \in Fields \ {f} : field'[g] = field[g]
         /\ todo' = Tail(todo)
         /\ work' = (work \/ f = "difficulty")
         /\ UNCHANGED <<base, issued, msg, taken>>
BY DEF TypeOK, Store, pool, history

\* A command stores each field once.
LEMMA StoredOnce ==
  ASSUME TypeOK, Storage, todo # <<>>
  PROVE  /\ Head(todo) \in Fields
         /\ Tail(todo) \in Seq(Fields) /\ Len(Tail(todo)) = Len(todo) - 1
         /\ \A i \in 1..Len(Tail(todo)) : /\ i + 1 \in 1..Len(todo)
                                         /\ Tail(todo)[i] = todo[i + 1]
                                         /\ Tail(todo)[i] # Head(todo)
         /\ 1 \in 1..Len(todo) /\ todo[1] = Head(todo)
<1>1. todo \in Seq(Fields) /\ Len(todo) \in Nat
  BY DEF TypeOK
<1>2. /\ Head(todo) \in Fields /\ Tail(todo) \in Seq(Fields)
      /\ Len(Tail(todo)) = Len(todo) - 1 /\ Len(todo) > 0
      /\ todo[1] = Head(todo)
      /\ \A i \in 1..Len(Tail(todo)) : Tail(todo)[i] = todo[i + 1]
  BY <1>1, HeadTailProperties, EmptySeq
<1>3. \A i \in 2..Len(todo) : todo[i] # todo[1]
  BY DEF Storage, StoringFull, StoringUpdate, Settled, FullJob, MempoolUpdate
<1>4. QED
  BY <1>1, <1>2, <1>3

\* Commands are stored in the order of their numbers, and each field once.
LEMMA AscendingStep ==
  ASSUME TypeOK, Numbering, InOrder, Storage, Ascending, [Next]_vars
  PROVE  Ascending'
<1>. USE HandoffAssumption
<1>0. /\ issued \in Nat /\ msg \in Nat /\ Len(wire) \in Nat /\ Len(todo) \in Nat
      /\ \A i \in 1..Len(wire) : wire[i] \in Nat
      /\ \A f \in Fields : field[f] \in Nat
  <2>1. issued \in JobRefs /\ msg \in JobRefs /\ field \in [Fields -> JobRefs]
        /\ wire \in Seq(Jobs) /\ todo \in Seq(Fields)
    BY DEF TypeOK
  <2>2. JobRefs \subseteq Nat /\ Jobs \subseteq Nat
    BY DEF JobRefs, Jobs
  <2>3. Len(wire) \in Nat /\ Len(todo) \in Nat /\ \A i \in 1..Len(wire) : wire[i] \in Jobs
    BY <2>1
  <2>4. QED
    BY <2>1, <2>2, <2>3
<1>1. CASE Issue
  <2>1. /\ UNCHANGED <<field, msg, todo>> /\ issued' = issued + 1
        /\ Len(wire') = Len(wire) + 1 /\ wire'[Len(wire) + 1] = issued + 1
        /\ \A i \in 1..Len(wire) : wire'[i] = wire[i]
    BY <1>1, IssueEffect DEF Issue, client
  <2>2. msg <= issued + 1 /\ msg < issued + 1
    BY <1>0 DEF Ascending
  <2>3. \A i \in 1..Len(wire') : msg < wire'[i]
    <3>1. ASSUME NEW i \in 1 .. Len(wire) + 1 PROVE msg < wire'[i]
      <4>1. CASE i = Len(wire) + 1
        BY <2>1, <2>2, <4>1
      <4>2. CASE i # Len(wire) + 1
        <5>1. i \in 1..Len(wire)
          BY <1>0, <4>2
        <5>2. wire'[i] = wire[i] /\ msg < wire[i]
          BY <2>1, <5>1 DEF Ascending
        <5>3. QED
          BY <5>2
      <4>3. QED
        BY <4>1, <4>2
    <3>2. QED
      BY <2>1, <3>1
  <2>4. QED
    BY <2>1, <2>2, <2>3 DEF Ascending
<1>2. CASE Receive
  <2>1. PICK k \in 1..Len(wire) :
           Len(wire') = Len(wire) - k /\ \A i \in 1..Len(wire') : wire'[i] = wire[k + i]
    BY <1>2, ReceiveEffect
  <2>2. UNCHANGED <<field, issued>>
    BY <1>2 DEF Receive, pool
  <2>3. \A i \in 1..Len(wire') : k + i \in 2..Len(wire)
    BY <1>0, <2>1
  <2>4. 1 \in 1..Len(wire) /\ wire[1] \in 1..issued /\ msg < wire[1]
    BY <1>0, <2>1 DEF Ascending, InOrder
  <2>5. \A i \in 2..Len(wire) : wire[1] < wire[i]
    BY <1>0, <2>4 DEF InOrder
  <2>6. CASE UNCHANGED <<msg, todo>>
    <3>1. ASSUME NEW i \in 1..Len(wire') PROVE msg < wire'[i]
      <4>1. k + i \in 1..Len(wire) /\ wire'[i] = wire[k + i]
        BY <1>0, <2>1, <2>3
      <4>2. QED
        BY <4>1 DEF Ascending
    <3>2. QED
      BY <2>2, <2>6, <3>1 DEF Ascending
  <2>7. CASE msg' = wire[1] /\ todo' \in {FullJob, MempoolUpdate}
    <3>1. \A f \in Fields : field[f] < wire[1] /\ field[f] <= wire[1]
      BY <1>0, <2>4 DEF Ascending
    <3>2. \A i \in 1..Len(todo') : todo'[i] \in Fields
      BY <2>7 DEF FullJob, MempoolUpdate, Fields, HeaderFields
    <3>3. \A i \in 1..Len(wire') : wire[1] < wire'[i]
      BY <2>1, <2>3, <2>5
    <3>4. wire[1] <= issued
      BY <2>4
    <3>5. QED
      BY <2>2, <2>7, <3>1, <3>2, <3>3, <3>4 DEF Ascending
  <2>8. QED
    BY <1>2, <2>6, <2>7 DEF Receive
<1>3. CASE Store
  <2>1. /\ todo # <<>> /\ todo' = Tail(todo) /\ field' = [field EXCEPT ![Head(todo)] = msg]
        /\ UNCHANGED <<msg, wire, issued>>
    BY <1>3 DEF Store, pool
  <2>2. \A f \in Fields : field'[f] = IF f = Head(todo) THEN msg ELSE field[f]
    BY <2>1 DEF TypeOK
  <2>3. \A f \in Fields : field'[f] <= msg
    BY <1>0, <2>2 DEF Ascending
  <2>4. \A i \in 1..Len(Tail(todo)) : field'[Tail(todo)[i]] < msg
    <3>1. ASSUME NEW i \in 1..Len(Tail(todo)) PROVE field'[Tail(todo)[i]] < msg
      <4>1. i + 1 \in 1..Len(todo) /\ Tail(todo)[i] = todo[i + 1] /\ Tail(todo)[i] # Head(todo)
        BY <2>1, StoredOnce
      <4>2. Tail(todo)[i] \in Fields
        BY <1>0, <4>1 DEF TypeOK
      <4>3. field'[Tail(todo)[i]] = field[todo[i + 1]]
        BY <2>2, <4>1, <4>2
      <4>4. QED
        BY <4>1, <4>3 DEF Ascending
    <3>2. QED
      BY <3>1
  <2>5. QED
    BY <2>1, <2>3, <2>4 DEF Ascending
<1>4. CASE UNCHANGED <<issued, wire, client>>
  BY <1>4 DEF Ascending, client
<1>5. QED
  BY <1>1, <1>2, <1>3, <1>4, WorkSteps DEF pool

\* The next job changes nothing of what the fields mean.
LEMMA IssueKeepsStorage ==
  ASSUME TypeOK, Numbering, Storage, Issue
  PROVE  Storage'
<1>1. /\ UNCHANGED <<field, todo, msg, work, taken>>
      /\ issued' = issued + 1 /\ issued \in Nat
      /\ \A j \in 1..issued : base'[j] = base[j]
  BY IssueEffect DEF TypeOK, Issue, client, history, JobRefs
<1>2. CASE StoringFull
  <2>1. msg \in 1..issued' /\ base'[msg] = base[msg]
    BY <1>1, <1>2 DEF StoringFull
  <2>2. StoringFull'
    BY <1>1, <1>2, <2>1 DEF StoringFull, IsFull
  <2>3. QED
    BY <1>1, <2>2 DEF Storage
<1>3. CASE StoringUpdate
  <2>1. msg \in 1..issued' /\ base'[msg] = base[msg]
    BY <1>1, <1>3 DEF StoringUpdate
  <2>2. StoringUpdate'
    BY <1>1, <1>3, <2>1 DEF StoringUpdate, OneBlock
  <2>3. QED
    BY <1>1, <2>2 DEF Storage
<1>4. CASE Settled
  <2>1. field["jobId"] \in 1..issued =>
          field["jobId"] \in 1..issued' /\ base'[field["jobId"]] = base[field["jobId"]]
    BY <1>1
  <2>2. Settled'
    BY <1>1, <1>4, <2>1 DEF Settled, OneBlock
  <2>3. QED
    BY <1>1, <2>2 DEF Storage
<1>5. QED
  BY <1>2, <1>3, <1>4 DEF Storage

\* A command is taken only when the one before it is stored.
LEMMA ReceiveKeepsStorage ==
  ASSUME TypeOK, Numbering, InOrder, Storage, Receive
  PROVE  Storage'
<1>. USE DEF JobRefs, Jobs
<1>1. /\ wire[1] \in 1..issued /\ base[wire[1]] \in 1..wire[1]
      /\ taken <= taken' /\ base[wire[1]] <= taken' /\ taken' \in JobRefs
      /\ IsFull(wire[1]) \/ base[wire[1]] = taken
  BY ReceiveKeepsOrder DEF Numbering
<1>2. UNCHANGED <<field, work, base, issued>> /\ todo = <<>>
  BY DEF Receive, pool
<1>3. field["block"] \in Nat /\ taken \in Nat /\ issued \in Nat
  BY HandoffAssumption DEF TypeOK, Fields, HeaderFields
<1>4. Settled
  BY <1>2 DEF Storage, StoringFull, StoringUpdate, FullJob, MempoolUpdate
<1>5. field["block"] <= taken /\ taken' \in Nat
  BY <1>1, HandoffAssumption DEF Storage
<1>6. CASE msg' = wire[1] /\ IsFull(wire[1]) /\ todo' = FullJob
  <2>1. StoringFull'
    BY <1>1, <1>2, <1>6 DEF StoringFull, IsFull
  <2>2. QED
    BY <1>1, <1>2, <1>3, <1>5, <2>1 DEF Storage
<1>7. CASE msg' = wire[1] /\ ~IsFull(wire[1]) /\ todo' = MempoolUpdate
  <2>1. StoringUpdate'
    BY <1>1, <1>2, <1>4, <1>5, <1>7 DEF StoringUpdate, Settled, OneBlock
  <2>2. QED
    BY <1>1, <1>2, <1>3, <1>5, <2>1 DEF Storage
<1>8. CASE UNCHANGED <<msg, todo>>
  <2>1. base[field["jobId"]] \in Nat /\ base[field["jobId"]] <= taken
          => base[field["jobId"]] <= taken'
    BY <1>1, <1>3, <1>5
  <2>2. field["jobId"] \in 1..issued => base[field["jobId"]] \in Nat
    BY DEF Numbering
  <2>3. Settled'
    BY <1>2, <1>4, <1>8, <2>1, <2>2 DEF Settled, OneBlock
  <2>4. QED
    BY <1>1, <1>2, <1>3, <1>5, <2>3 DEF Storage
<1>9. QED
  BY <1>6, <1>7, <1>8 DEF Receive

\* Each assignment brings the fields one further, and the last one settles them.
LEMMA StoreKeepsStorage ==
  ASSUME TypeOK, Numbering, Storage, Store
  PROVE  /\ Storage'
         /\ StoringFull' => StoringFull
         /\ ~StoringFull => field'["extraNonce"] = field["extraNonce"]
<1>. USE DEF Fields, HeaderFields
<1>1. todo # <<>>
  BY DEF Store
<1>2. CASE StoringFull
  <2>. USE DEF StoringFull, Storage, Settled, OneBlock, IsFull
  <2>0. msg \in 1..issued /\ base[msg] = msg /\ msg <= taken /\ issued \in Nat
    BY <1>2 DEF TypeOK, JobRefs
  <2>1. CASE todo = FullJob
    <3>1. Head(todo) = "jobId" /\ Tail(todo) = <<"extraNonce", "block", "root", "difficulty">>
      BY <2>1 DEF FullJob
    <3>2. QED
      BY <1>2, <2>0, <3>1, StoreEffect
  <2>2. CASE todo = <<"extraNonce", "block", "root", "difficulty">>
    <3>1. Head(todo) = "extraNonce" /\ Tail(todo) = <<"block", "root", "difficulty">>
      BY <2>2
    <3>2. QED
      BY <1>2, <2>0, <2>2, <3>1, StoreEffect DEF FullJob
  <2>3. CASE todo = <<"block", "root", "difficulty">>
    <3>1. Head(todo) = "block" /\ Tail(todo) = <<"root", "difficulty">>
      BY <2>3
    <3>2. QED
      BY <1>2, <2>0, <2>3, <3>1, StoreEffect DEF FullJob
  <2>4. CASE todo = <<"root", "difficulty">>
    <3>1. Head(todo) = "root" /\ Tail(todo) = <<"difficulty">>
      BY <2>4
    <3>2. QED
      BY <1>2, <2>0, <2>4, <3>1, StoreEffect DEF FullJob
  <2>5. CASE todo = <<"difficulty">>
    <3>1. Head(todo) = "difficulty" /\ Tail(todo) = <<>>
      BY <2>5
    <3>2. \A f \in Fields : field'[f] = msg
      BY <1>2, <2>5, <3>1, StoreEffect DEF FullJob
    <3>3. todo' = <<>> /\ UNCHANGED <<base, issued, msg, taken>>
      BY <3>1, StoreEffect
    <3>4. Settled'
      BY <2>0, <3>2, <3>3
    <3>5. field'["block"] <= taken' /\ ~StoringFull'
      BY <2>0, <3>2, <3>3 DEF FullJob
    <3>6. QED
      BY <1>2, <3>4, <3>5
  <2>6. QED
    BY <1>2, <2>1, <2>2, <2>3, <2>4, <2>5
<1>3. CASE StoringUpdate
  <2>. USE DEF StoringUpdate, OneBlock
  <2>0. /\ msg \in 1..issued /\ base[msg] <= taken /\ field["block"] <= base[msg]
        /\ field["block"] <= taken /\ issued \in Nat
    BY <1>3 DEF TypeOK, Storage, JobRefs
  <2>1. CASE todo = MempoolUpdate
    <3>1. Head(todo) = "root" /\ Tail(todo) = <<"jobId">>
      BY <2>1 DEF MempoolUpdate
    <3>2. /\ todo' = <<"jobId">> /\ field'["root"] = msg
          /\ \A f \in {"block", "difficulty", "extraNonce"} : field'[f] = field[f]
          /\ UNCHANGED <<base, issued, msg, taken>>
      BY <3>1, StoreEffect
    <3>3. StoringUpdate'
      BY <1>3, <2>0, <3>2
    <3>4. ~StoringFull'
      BY <3>2 DEF StoringFull, FullJob
    <3>5. QED
      BY <2>0, <3>2, <3>3, <3>4 DEF Storage
  <2>2. CASE todo = <<"jobId">> /\ field["root"] = msg
    <3>1. Head(todo) = "jobId" /\ Tail(todo) = <<>>
      BY <2>2
    <3>2. /\ todo' = <<>> /\ field'["jobId"] = msg /\ field'["root"] = msg
          /\ \A f \in {"block", "difficulty", "extraNonce"} : field'[f] = field[f]
          /\ UNCHANGED <<base, issued, taken>>
      BY <2>2, <3>1, StoreEffect
    <3>3. Settled' /\ ~StoringFull'
      BY <1>3, <2>0, <3>2 DEF Settled, StoringFull, FullJob
    <3>4. QED
      BY <2>0, <3>2, <3>3 DEF Storage
  <2>3. QED
    BY <1>3, <2>1, <2>2
<1>4. QED
  BY <1>1, <1>2, <1>3 DEF Storage, Settled

\* The fields after a whole number of commands.
LEMMA StorageIsSettled ==
  ASSUME TypeOK, Numbering, Storage
  PROVE  SettledWork
<1>. USE DEF JobRefs, Jobs, Fields, HeaderFields
<1>1. SUFFICES ASSUME work, todo = <<>>, taken = field["block"]
               PROVE  /\ HeaderOf(field, field["jobId"])
                      /\ field["extraNonce"] = base[field["jobId"]]
  BY DEF SettledWork
<1>2. Settled
  BY <1>1 DEF Storage, StoringFull, StoringUpdate, FullJob, MempoolUpdate
<1>3. /\ field["jobId"] \in 1..issued
      /\ base[field["jobId"]] <= taken /\ taken <= base[field["jobId"]]
  BY <1>1, <1>2 DEF Settled
<1>4. base[field["jobId"]] \in Nat /\ taken \in Nat
  BY <1>3, HandoffAssumption DEF TypeOK, Numbering
<1>5. base[field["jobId"]] = field["block"]
  BY <1>1, <1>3, <1>4
<1>6. QED
  BY <1>2, <1>5 DEF HeaderOf, Settled, OneBlock

-----------------------------------------------------------------------------
(* The miners' copies.                                                     *)

\* What a miner holds of the work.
Handing == Copies /\ MixedOnlyByOverlap

\* A job once read with a clean copy stays what CleanJob says of it.
LEMMA IssueKeepsCleanJob ==
  ASSUME TypeOK, Storage, Issue, NEW j, CleanJob(j)
  PROVE  CleanJob(j)'
<1>1. /\ UNCHANGED <<field, todo, msg, taken>>
      /\ issued' = issued + 1 /\ issued \in Nat
      /\ \A i \in 1..issued : base'[i] = base[i]
  <2>1. UNCHANGED <<field, todo, msg, taken>>
    BY DEF Issue, client, history
  <2>2. issued \in Nat
    BY HandoffAssumption DEF TypeOK, JobRefs
  <2>3. QED
    BY <2>1, <2>2, IssueEffect
<1>2. j \in 1..issued' /\ base'[j] = base[j]
  BY <1>1 DEF CleanJob
<1>3. StoringFull' => StoringFull
  <2>1. SUFFICES ASSUME StoringFull' PROVE StoringFull
    OBVIOUS
  <2>2. \/ todo = FullJob
        \/ todo = <<"extraNonce", "block", "root", "difficulty">>
        \/ todo = <<"block", "root", "difficulty">>
        \/ todo = <<"root", "difficulty">>
        \/ todo = <<"difficulty">>
    BY <1>1, <2>1 DEF StoringFull
  <2>3. todo # <<>> /\ todo # <<"jobId">>
    BY <2>2 DEF FullJob
  <2>4. todo # MempoolUpdate
    BY <2>2 DEF FullJob, MempoolUpdate
  <2>5. ~Settled /\ ~StoringUpdate
    BY <2>3, <2>4 DEF Settled, StoringUpdate
  <2>6. QED
    BY <2>5 DEF Storage
<1>4. QED
  BY <1>1, <1>2, <1>3 DEF CleanJob

LEMMA ReceiveKeepsCleanJob ==
  ASSUME TypeOK, Numbering, InOrder, Storage, Receive, NEW j, CleanJob(j)
  PROVE  CleanJob(j)'
<1>1. /\ UNCHANGED <<field, base, issued>>
      /\ StoringFull' => msg' = wire[1]
  <2>1. UNCHANGED <<field, base, issued>>
    BY DEF Receive, pool
  <2>2. msg' = wire[1] \/ todo' = <<>>
    BY DEF Receive
  <2>3. StoringFull' => todo' # <<>>
    <3>1. /\ FullJob # <<>>
          /\ <<"extraNonce", "block", "root", "difficulty">> # <<>>
          /\ <<"block", "root", "difficulty">> # <<>>
          /\ <<"root", "difficulty">> # <<>> /\ <<"difficulty">> # <<>>
      BY DEF FullJob
    <3>2. QED
      BY <3>1 DEF StoringFull
  <2>4. QED
    BY <2>1, <2>2, <2>3
<1>2. /\ wire[1] \in 1..issued /\ taken < wire[1] /\ taken <= taken' /\ taken' \in Nat
      /\ taken \in Nat /\ issued \in Nat
  <2>1. wire[1] \in 1..issued /\ taken < wire[1] /\ taken <= taken' /\ taken' \in JobRefs
    BY ReceiveKeepsOrder
  <2>2. taken \in JobRefs /\ issued \in JobRefs
    BY DEF TypeOK
  <2>3. JobRefs \subseteq Nat
    BY HandoffAssumption DEF JobRefs
  <2>4. QED
    BY <2>1, <2>2, <2>3
<1>3. j \in 1..issued /\ base[j] \in Nat /\ base[j] <= taken
  <2>1. j \in 1..issued /\ base[j] <= taken
    BY DEF CleanJob
  <2>2. base[j] \in 1..j
    BY <2>1 DEF Numbering
  <2>3. QED
    BY <2>1, <2>2
<1>4. base[j] <= taken' /\ base[j] < wire[1]
  BY <1>2, <1>3
<1>5. taken' = base[j] => taken = base[j]
  BY <1>2, <1>3
<1>6. QED
  BY <1>1, <1>3, <1>4, <1>5 DEF CleanJob

LEMMA StoreKeepsCleanJob ==
  ASSUME TypeOK, Numbering, Storage, Store, NEW j, CleanJob(j)
  PROVE  CleanJob(j)'
<1>1. UNCHANGED <<base, issued, msg, taken>>
  BY DEF Store, pool, history
<1>2. /\ StoringFull' => StoringFull
      /\ ~StoringFull => field'["extraNonce"] = field["extraNonce"]
  BY StoreKeepsStorage
<1>3. ASSUME taken = base[j] PROVE ~StoringFull
  <2>1. SUFFICES ASSUME StoringFull PROVE FALSE
    OBVIOUS
  <2>2. base[j] < msg /\ msg <= taken
    BY <2>1 DEF CleanJob, StoringFull
  <2>3. msg \in Nat /\ taken \in Nat
    BY HandoffAssumption DEF TypeOK, JobRefs
  <2>4. QED
    BY <1>3, <2>2, <2>3
<1>4. QED
  BY <1>1, <1>2, <1>3 DEF CleanJob

\* A miner's steps do not touch what CleanJob is about.
LEMMA MineKeepsCleanJob ==
  ASSUME UNCHANGED <<pool, client, taken>>, NEW j
  PROVE  CleanJob(j)' <=> CleanJob(j)
BY DEF CleanJob, StoringFull, IsFull, pool, client

LEMMA IssueKeepsCopies ==
  ASSUME TypeOK, Numbering, Storage, Handing, Issue
  PROVE  Handing'
<1>1. /\ UNCHANGED <<field, todo, work, taken, pc, header, left, job, clean, device>>
      /\ \A j \in 1..issued : base'[j] = base[j]
  BY IssueEffect DEF Issue, client, round, history
<1>2. \A j : CleanJob(j) => CleanJob(j)'
  BY IssueKeepsCleanJob
<1>3. \A m \in Miners : pc[m] \in {"write", "rewrite"} /\ clean[m] =>
        base'[job[m]] = base[job[m]]
  BY <1>1 DEF Handing, Copies, CleanJob
<1>4. Copies'
  BY <1>1, <1>2 DEF Handing, Copies, CleanJob
<1>5. MixedOnlyByOverlap'
  BY <1>1, <1>3 DEF Handing, MixedOnlyByOverlap, HeaderOf
<1>6. QED
  BY <1>4, <1>5 DEF Handing

\* A command taken while a miner copies spoils the copy.
LEMMA ReceiveKeepsCopies ==
  ASSUME TypeOK, Numbering, InOrder, Storage, Handing, Receive
  PROVE  Handing'
<1>1. /\ UNCHANGED <<field, work, base, pc, header, left, job, device>>
      /\ clean' = [m \in Miners |-> clean[m] /\ pc[m] \notin {"copy", "recopy"}]
  BY DEF Receive, pool, round
<1>2. \A j : CleanJob(j) => CleanJob(j)'
  BY ReceiveKeepsCleanJob
<1>3. \A m \in Miners : /\ clean'[m] => clean[m]
                        /\ pc[m] \in {"copy", "recopy"} => ~clean'[m]
  BY <1>1
<1>4. Copies'
  BY <1>1, <1>2, <1>3 DEF Handing, Copies, CleanJob
<1>5. MixedOnlyByOverlap'
  BY <1>1, <1>3 DEF Handing, MixedOnlyByOverlap, HeaderOf
<1>6. QED
  BY <1>4, <1>5 DEF Handing

LEMMA StoreKeepsCopies ==
  ASSUME TypeOK, Numbering, Storage, Handing, Store
  PROVE  Handing'
<1>1. /\ UNCHANGED <<base, taken, pc, header, left, job, clean, device>>
      /\ todo # <<>> /\ (work => work')
  BY DEF Store, pool, round, history
<1>2. \A j : CleanJob(j) => CleanJob(j)'
  BY StoreKeepsCleanJob
<1>3. Copies'
  BY <1>1, <1>2 DEF Handing, Copies, CleanJob
<1>4. MixedOnlyByOverlap'
  BY <1>1 DEF Handing, MixedOnlyByOverlap, HeaderOf
<1>5. QED
  BY <1>3, <1>4 DEF Handing

\* What the miner that has copied everything holds.
LEMMA CleanCopy ==
  ASSUME TypeOK, Numbering, Storage, Handing, NEW m \in Miners,
         pc[m] \in {"copy", "recopy"}, left[m] = {}, clean[m]
  PROVE  CleanJob(field["jobId"]) /\ HeaderOf(header[m], field["jobId"])
<1>1. /\ work /\ todo = <<>> /\ taken = field["block"]
      /\ \A f \in HeaderFields : header[m][f] = field[f]
  BY DEF Handing, Copies
<1>2. ~StoringFull /\ Settled
  BY <1>1 DEF Storage, StoringFull, StoringUpdate, FullJob, MempoolUpdate
<1>3. HeaderOf(field, field["jobId"]) /\ field["extraNonce"] = base[field["jobId"]]
  BY <1>1, StorageIsSettled DEF SettledWork
<1>4. CleanJob(field["jobId"])
  BY <1>1, <1>2, <1>3 DEF Settled, CleanJob
<1>5. QED
  BY <1>1, <1>3, <1>4 DEF HeaderOf, HeaderFields

\* A step of one miner leaves the copies of the others alone.
CopiesOf(m) ==
  /\ pc[m] # "clock" => work
  /\ pc[m] \in {"copy", "recopy"} /\ clean[m] =>
       /\ todo = <<>> /\ taken = field["block"]
       /\ \A f \in HeaderFields \ left[m] : header[m][f] = field[f]
  /\ pc[m] \in {"write", "rewrite"} /\ clean[m] =>
       CleanJob(job[m]) /\ HeaderOf(header[m], job[m])
  /\ device[m].of.clean => CleanJob(device[m].of.job)

LEMMA CopiesParts ==
  Handing <=> \A m \in Miners : CopiesOf(m)
BY DEF Handing, Copies, MixedOnlyByOverlap, CopiesOf

LEMMA OneCopies ==
  ASSUME NEW m \in Miners, Handing, CopiesOf(m)', UNCHANGED <<pool, client, taken>>,
         \A n \in Miners \ {m} :
           /\ pc'[n] = pc[n] /\ clean'[n] = clean[n] /\ left'[n] = left[n]
           /\ header'[n] = header[n] /\ job'[n] = job[n] /\ device'[n] = device[n]
  PROVE  Handing'
<1>1. /\ UNCHANGED <<base, issued, field, work, todo, msg, taken>>
      /\ \A j : CleanJob(j)' <=> CleanJob(j)
  BY MineKeepsCleanJob DEF pool, client
<1>2. \A n \in Miners \ {m} : CopiesOf(n) => CopiesOf(n)'
  BY <1>1 DEF CopiesOf, CleanJob, HeaderOf
<1>3. \A n \in Miners : CopiesOf(n)'
  BY <1>2, CopiesParts
<1>4. QED
  BY <1>3 DEF Handing, Copies, MixedOnlyByOverlap, CopiesOf

LEMMA MineKeepsCopies ==
  ASSUME TypeOK, Numbering, Storage, Handing, NEW m \in Miners, Mine(m)
  PROVE  Handing'
<1>. USE DEF Goto
<1>0. /\ pc \in [Miners -> Labels]
      /\ header \in [Miners -> Headers] /\ left \in [Miners -> SUBSET HeaderFields]
      /\ job \in [Miners -> JobRefs] /\ clean \in [Miners -> BOOLEAN]
      /\ device \in [Miners -> [of : Searches, left : 0..Repeats]]
  BY DEF TypeOK
<1>1. \A n \in Miners \ {m} :
           /\ pc'[n] = pc[n] /\ clean'[n] = clean[n] /\ left'[n] = left[n]
           /\ header'[n] = header[n] /\ job'[n] = job[n] /\ device'[n] = device[n]
  BY <1>0 DEF Mine, ReadClock, LockForWork, Copy, ReadJobId, WriteHeader, Poll, Outlast,
     PollLate, LookAgain, LockForSubmit, Submit, Headers, history
<1>2. /\ UNCHANGED <<pool, client, taken>>
      /\ UNCHANGED <<base, field, work, todo, taken>>
  BY MinersLeaveWork DEF pool, client
<1>3. \A j : CleanJob(j)' <=> CleanJob(j)
  BY <1>2, MineKeepsCleanJob
<1>4. CopiesOf(m)
  BY CopiesParts
<1>5. CopiesOf(m)'
  <2>0. CASE UNCHANGED <<header, left, job, clean, device>> /\ pc[m] # "clock"
               /\ pc'[m] \notin {"copy", "recopy", "write", "rewrite"}
    BY <1>2, <1>3, <1>4, <2>0 DEF CopiesOf, CleanJob
  <2>1. CASE ReadClock(m)
    <3>1. UNCHANGED <<device>> /\ pc'[m] = "lock" /\ work
      BY <1>0, <2>1 DEF ReadClock
    <3>2. QED
      BY <1>2, <1>3, <1>4, <3>1 DEF CopiesOf, CleanJob
  <2>2. CASE LockForWork(m)
    <3>1. /\ pc[m] # "clock" /\ pc'[m] \in {"copy", "recopy"} /\ left'[m] = HeaderFields
          /\ clean'[m] = (todo = <<>> /\ taken = field["block"])
          /\ UNCHANGED device
      BY <1>0, <2>2 DEF LockForWork
    <3>2. QED
      BY <1>2, <1>3, <1>4, <3>1 DEF CopiesOf, CleanJob
  <2>3. CASE Copy(m)
    <3>1. PICK f \in left[m] : /\ header' = [header EXCEPT ![m][f] = field[f]]
                               /\ left' = [left EXCEPT ![m] = @ \ {f}]
      BY <2>3 DEF Copy
    <3>2. pc[m] \in {"copy", "recopy"} /\ UNCHANGED <<pc, clean, device>>
      BY <2>3 DEF Copy, history
    <3>3. left'[m] = left[m] \ {f} /\ f \in HeaderFields
      BY <1>0, <3>1
    <3>4. \A g \in HeaderFields : header'[m][g] = IF g = f THEN field[f] ELSE header[m][g]
      BY <1>0, <3>1 DEF Headers
    <3>5. QED
      BY <1>2, <1>3, <1>4, <3>2, <3>3, <3>4 DEF CopiesOf, CleanJob
  <2>4. CASE ReadJobId(m) \/ LookAgain(m)
    <3>1. /\ pc[m] \in {"copy", "recopy"} /\ left[m] = {} /\ job'[m] = field["jobId"]
          /\ pc'[m] \notin {"copy", "recopy"}
          /\ clean'[m] => clean[m]
          /\ UNCHANGED <<header, device>>
      BY <1>0, <2>4 DEF ReadJobId, LookAgain, Answered, history
    <3>2. clean[m] => CleanJob(field["jobId"]) /\ HeaderOf(header[m], field["jobId"])
      BY <3>1, CleanCopy
    <3>3. QED
      BY <1>2, <1>3, <1>4, <3>1, <3>2 DEF CopiesOf, CleanJob, HeaderOf
  <2>5. CASE WriteHeader(m)
    <3>1. /\ pc[m] \in {"write", "rewrite"} /\ pc'[m] = "wait"
          /\ device'[m].of = Search(m)
      BY <1>0, <2>5 DEF WriteHeader
    <3>2. device'[m].of.clean => CleanJob(job[m]) /\ device'[m].of.job = job[m]
      BY <1>4, <3>1 DEF CopiesOf, Search
    <3>3. QED
      BY <1>2, <1>3, <1>4, <3>1, <3>2 DEF CopiesOf, CleanJob
  <2>6. CASE Poll(m) \/ Outlast(m) \/ PollLate(m)
    BY <1>0, <2>0, <2>6 DEF Poll, Outlast, PollLate, Answered, history
  <2>7. CASE LockForSubmit(m) \/ Submit(m)
    BY <1>0, <2>0, <2>7 DEF LockForSubmit, Submit, history
  <2>8. QED
    BY <2>1, <2>2, <2>3, <2>4, <2>5, <2>6, <2>7 DEF Mine
<1>6. QED
  BY <1>1, <1>2, <1>5, OneCopies

-----------------------------------------------------------------------------
(* Devices and serial ports, with one report per header.                   *)

Reporting == Rounds /\ Devices /\ NonceOfItsRound

\* A step of a miner or its device leaves the others' rounds alone, so it is
\* enough to look at that miner.
RoundOf(m) ==
  /\ pc[m] \in Polling \cup {"found", "submit"} =>
       device[m].of.job = job[m] /\ device[m].of.time = timestamp[m]
  /\ pc[m] \in {"late", "again", "recopy", "rewrite"} \/ m \in crossed => build = "windows"

InStep(m) ==
  /\ pc[m] \in Polling =>
       \/ serial[m] = <<>>
       \/ device[m].left = 0 /\ Len(serial[m]) = 1 /\ serial[m][1].of = device[m].of
  /\ pc[m] \in {"again", "recopy"} /\ nonce[m] # Nothing =>
       serial[m] = <<>> /\ device[m].left = 0 /\ found[m] = device[m].of
  /\ pc[m] \notin Polling \cup {"rewrite"} => serial[m] = <<>> /\ device[m].left = 0
  /\ pc[m] \in {"found", "submit"} => found[m] = device[m].of

ReportingOf(m) == RoundOf(m) /\ (Repeats = 1 /\ m \notin crossed => InStep(m))

LEMMA ReportingParts ==
  Reporting <=> \A m \in Miners : ReportingOf(m)
<1>1. ASSUME Reporting, NEW m \in Miners PROVE ReportingOf(m)
  <2>1. RoundOf(m)
    BY <1>1 DEF Reporting, Rounds, RoundOf
  <2>2. ASSUME Repeats = 1, m \notin crossed PROVE InStep(m)
    BY <1>1, <2>2 DEF Reporting, Devices, NonceOfItsRound, InStep
  <2>3. QED
    BY <2>1, <2>2 DEF ReportingOf
<1>2. ASSUME \A m \in Miners : ReportingOf(m) PROVE Reporting
  <2>1. Rounds
    BY <1>2 DEF ReportingOf, RoundOf, Rounds
  <2>2. Devices
    BY <1>2 DEF ReportingOf, InStep, Devices
  <2>3. NonceOfItsRound
    <3>1. SUFFICES ASSUME Repeats = 1, NEW m \in Miners, pc[m] \in {"found", "submit"}
                   PROVE  \/ /\ found[m] = device[m].of
                             /\ found[m].job = job[m] /\ found[m].time = timestamp[m]
                          \/ build = "windows" /\ m \in crossed
      BY DEF NonceOfItsRound
    <3>2. RoundOf(m) /\ (m \notin crossed => InStep(m))
      BY <1>2, <3>1 DEF ReportingOf
    <3>3. QED
      BY <3>1, <3>2 DEF RoundOf, InStep
  <2>4. QED
    BY <2>1, <2>2, <2>3 DEF Reporting
<1>3. QED
  BY <1>1, <1>2

LEMMA OneReporting ==
  ASSUME NEW m \in Miners, Reporting, ReportingOf(m)', build' = build,
         \A n \in Miners \ {m} :
           /\ pc'[n] = pc[n] /\ serial'[n] = serial[n] /\ device'[n] = device[n]
           /\ found'[n] = found[n] /\ nonce'[n] = nonce[n]
           /\ job'[n] = job[n] /\ timestamp'[n] = timestamp[n]
           /\ n \in crossed' <=> n \in crossed
  PROVE  Reporting'
<1>1. \A n \in Miners \ {m} : ReportingOf(n) => ReportingOf(n)'
  BY DEF ReportingOf, RoundOf, InStep
<1>2. \A n \in Miners : ReportingOf(n)'
  BY <1>1, ReportingParts
<1>3. Rounds' /\ Devices'
  BY <1>2 DEF ReportingOf, RoundOf, InStep, Rounds, Devices
<1>4. NonceOfItsRound'
  <2>1. SUFFICES ASSUME Repeats = 1, NEW n \in Miners, pc'[n] \in {"found", "submit"}
                 PROVE  \/ /\ found'[n] = device'[n].of
                           /\ found'[n].job = job'[n] /\ found'[n].time = timestamp'[n]
                        \/ build' = "windows" /\ n \in crossed'
    BY DEF NonceOfItsRound
  <2>2. RoundOf(n)' /\ (n \notin crossed' => InStep(n)')
    BY <1>2, <2>1 DEF ReportingOf
  <2>3. QED
    BY <2>1, <2>2 DEF RoundOf, InStep
<1>5. QED
  BY <1>3, <1>4 DEF Reporting

\* The one report in the port, taken.
LEMMA TakesIt ==
  ASSUME TypeOK, NEW m \in Miners, TakeReport(m), InStep(m), pc[m] \in Polling
  PROVE  device[m].left = 0 /\ serial'[m] = <<>> /\ found'[m] = device[m].of
<1>1. /\ serial \in [Miners -> Seq(Reports)] /\ found \in [Miners -> Searches]
  BY DEF TypeOK
<1>2. /\ serial[m] # <<>>
      /\ found' = [found EXCEPT ![m] = Head(serial[m]).of]
      /\ serial' = [serial EXCEPT ![m] = Tail(serial[m])]
  BY DEF TakeReport
<1>3. device[m].left = 0 /\ Len(serial[m]) = 1 /\ serial[m][1].of = device[m].of
  BY <1>2 DEF InStep
<1>4. serial[m] \in Seq(Reports)
  BY <1>1
<1>5. Tail(serial[m]) \in Seq(Reports) /\ Len(Tail(serial[m])) = 0
  BY <1>2, <1>3, <1>4, HeadTailProperties
<1>6. Tail(serial[m]) = <<>>
  BY <1>5, EmptySeq
<1>7. Head(serial[m]) = serial[m][1]
  BY <1>3, <1>4
<1>8. QED
  BY <1>1, <1>2, <1>3, <1>6, <1>7

LEMMA MineKeepsReporting ==
  ASSUME TypeOK, Reporting, NEW m \in Miners, Mine(m)
  PROVE  Reporting'
<1>. USE DEF Goto, Polling
<1>0. /\ pc \in [Miners -> Labels]
      /\ timestamp \in [Miners -> 0..MaxTime] /\ job \in [Miners -> JobRefs]
      /\ nonce \in [Miners -> Answers]
      /\ device \in [Miners -> [of : Searches, left : 0..Repeats]]
      /\ serial \in [Miners -> Seq(Reports)]
      /\ found \in [Miners -> Searches]
  BY DEF TypeOK
<1>1. /\ build' = build
      /\ \A n \in Miners \ {m} :
           /\ pc'[n] = pc[n] /\ serial'[n] = serial[n] /\ device'[n] = device[n]
           /\ found'[n] = found[n] /\ nonce'[n] = nonce[n]
           /\ job'[n] = job[n] /\ timestamp'[n] = timestamp[n]
           /\ n \in crossed' <=> n \in crossed
  <2>1. build' = build
    BY MinersLeaveWork DEF pool
  <2>2. CASE ReadClock(m) \/ LockForWork(m) \/ Copy(m) \/ ReadJobId(m) \/ WriteHeader(m)
    BY <1>0, <2>1, <2>2 DEF ReadClock, LockForWork, Copy, ReadJobId, WriteHeader, history
  <2>3. CASE Poll(m) \/ Outlast(m) \/ PollLate(m) \/ LookAgain(m) \/ LockForSubmit(m) \/ Submit(m)
    BY <1>0, <2>1, <2>3 DEF Poll, Outlast, PollLate, TakeReport, LookAgain, LockForSubmit,
       Submit, history
  <2>4. QED
    BY <2>2, <2>3 DEF Mine
<1>2. ReportingOf(m)
  BY ReportingParts
<1>3. ReportingOf(m)'
  <2>. USE DEF ReportingOf, RoundOf, InStep
  <2>1. CASE ReadClock(m)
    <3>1. /\ pc[m] = "clock" /\ pc'[m] = "lock"
          /\ UNCHANGED <<serial, device, crossed>>
      BY <1>0, <2>1 DEF ReadClock
    <3>2. QED
      BY <1>1, <1>2, <3>1
  <2>2. CASE LockForWork(m)
    <3>1. /\ \/ pc[m] = "lock" /\ pc'[m] = "copy"
             \/ pc[m] = "again" /\ pc'[m] = "recopy"
          /\ UNCHANGED <<serial, device, crossed, found, nonce, job, timestamp>>
      BY <1>0, <2>2 DEF LockForWork
    <3>2. QED
      BY <1>1, <1>2, <3>1
  <2>3. CASE Copy(m)
    <3>1. UNCHANGED <<pc, serial, device, crossed, found, nonce, job, timestamp>>
      BY <2>3 DEF Copy, history
    <3>2. QED
      BY <1>1, <1>2, <3>1
  <2>4. CASE ReadJobId(m)
    <3>1. /\ pc[m] = "copy" /\ pc'[m] = "write"
          /\ UNCHANGED <<serial, device, crossed>>
      BY <1>0, <2>4 DEF ReadJobId, history
    <3>2. QED
      BY <1>1, <1>2, <3>1
  <2>5. CASE WriteHeader(m)
    <3>1. /\ pc[m] \in {"write", "rewrite"} /\ pc'[m] = "wait" /\ serial' = serial
          /\ device'[m].of = Search(m) /\ job' = job /\ timestamp' = timestamp
          /\ crossed' = IF serial[m] = <<>> THEN crossed \ {m}
                        ELSE IF pc[m] = "rewrite" THEN crossed \cup {m} ELSE crossed
      BY <1>0, <2>5 DEF WriteHeader
    <3>2. RoundOf(m)'
      <4>1. device'[m].of.job = job[m] /\ device'[m].of.time = timestamp[m]
        BY <3>1 DEF Search
      <4>2. m \in crossed' => pc[m] = "rewrite" \/ m \in crossed
        BY <3>1
      <4>3. QED
        BY <1>1, <1>2, <3>1, <4>1, <4>2
    <3>3. ASSUME Repeats = 1, m \notin crossed' PROVE serial[m] = <<>>
      BY <1>2, <3>1, <3>3
    <3>4. QED
      BY <3>1, <3>2, <3>3
  <2>6. CASE Poll(m)
    <3>1. /\ pc[m] = "wait" /\ pc'[m] \in {"found", "clock"} /\ TakeReport(m)
          /\ UNCHANGED <<device, crossed, job, timestamp>>
      BY <1>0, <2>6 DEF Poll, Answered
    <3>2. ASSUME Repeats = 1, m \notin crossed
          PROVE  device[m].left = 0 /\ serial'[m] = <<>> /\ found'[m] = device[m].of
      <4>1. InStep(m)
        BY <1>2, <3>2
      <4>2. QED
        BY <3>1, <4>1, TakesIt
    <3>3. QED
      BY <1>1, <1>2, <3>1, <3>2
  <2>7. CASE Outlast(m)
    <3>1. /\ pc[m] = "wait" /\ pc'[m] = "late" /\ build = "windows"
          /\ UNCHANGED <<serial, device, crossed, job, timestamp>>
      BY <1>0, <2>7 DEF Outlast, history
    <3>2. QED
      BY <1>1, <1>2, <3>1
  <2>8. CASE PollLate(m)
    <3>1. /\ pc[m] = "late" /\ pc'[m] = "again"
          /\ UNCHANGED <<device, crossed, job, timestamp>>
          /\ \/ TakeReport(m)
             \/ serial[m] = <<>> /\ serial' = serial /\ nonce'[m] = Nothing
      BY <1>0, <2>8 DEF PollLate
    <3>2. ASSUME Repeats = 1, m \notin crossed, TakeReport(m)
          PROVE  device[m].left = 0 /\ serial'[m] = <<>> /\ found'[m] = device[m].of
      <4>1. InStep(m)
        BY <1>2, <3>2
      <4>2. QED
        BY <3>1, <3>2, <4>1, TakesIt
    <3>3. QED
      BY <1>1, <1>2, <3>1, <3>2
  <2>9. CASE LookAgain(m)
    <3>1. /\ pc[m] = "recopy" /\ job'[m] = field["jobId"]
          /\ UNCHANGED <<serial, device, crossed, timestamp>>
          /\ \/ pc'[m] = "rewrite"
             \/ /\ field["jobId"] = job[m] /\ UNCHANGED <<nonce, found>>
                /\ \/ nonce[m] = Nothing /\ pc'[m] = "late"
                   \/ nonce[m] # Nothing /\ pc'[m] \in {"found", "clock"}
      BY <1>0, <2>9 DEF LookAgain, Answered
    <3>2. QED
      BY <1>1, <1>2, <3>1
  <2>10. CASE LockForSubmit(m) \/ Submit(m)
    <3>1. /\ pc[m] \in {"found", "submit"} /\ pc'[m] \in {"clock", "submit"}
          /\ UNCHANGED <<serial, device, crossed, found, nonce, job, timestamp>>
      BY <1>0, <2>10 DEF LockForSubmit, Submit, history
    <3>2. QED
      BY <1>1, <1>2, <3>1
  <2>11. QED
    BY <2>1, <2>2, <2>3, <2>4, <2>5, <2>6, <2>7, <2>8, <2>9, <2>10 DEF Mine
<1>4. QED
  BY <1>1, <1>3, OneReporting

LEMMA ReportKeepsReporting ==
  ASSUME TypeOK, Reporting, NEW m \in Miners, Report(m)
  PROVE  Reporting'
<1>1. PICK n \in Nonces \cup {Exhausted} :
        /\ serial' = [serial EXCEPT ![m] = Append(@, [nonce |-> n, of |-> device[m].of])]
        /\ device' = [device EXCEPT ![m].left = IF n = Exhausted THEN 0 ELSE @ - 1]
  BY DEF Report
<1>2. /\ UNCHANGED <<build, pc, job, timestamp, nonce, found, crossed>>
      /\ device[m].left > 0
  BY DEF Report, round, pool, history
<1>3. /\ device \in [Miners -> [of : Searches, left : 0..Repeats]]
      /\ serial \in [Miners -> Seq(Reports)]
  BY DEF TypeOK
<1>4. ReportingOf(m)
  BY ReportingParts
<1>5. device'[m].of = device[m].of
  BY <1>1, <1>3
<1>6. RoundOf(m)'
  BY <1>2, <1>4, <1>5 DEF ReportingOf, RoundOf
<1>7. ASSUME Repeats = 1, m \notin crossed PROVE InStep(m)'
  <2>1. InStep(m) /\ device[m].left = 1
    BY <1>2, <1>3, <1>4, <1>7 DEF ReportingOf
  <2>2. CASE pc[m] \in Polling /\ serial[m] = <<>>
    <3>1. device'[m].left = 0
      BY <1>1, <1>3, <2>1
    <3>2. serial'[m] = <<[nonce |-> n, of |-> device[m].of]>>
      BY <1>1, <1>3, <2>2
    <3>3. ~(pc[m] \in {"again", "recopy"} /\ nonce[m] # Nothing)
      BY <2>1 DEF InStep
    <3>4. pc'[m] \in Polling /\ pc'[m] \notin {"found", "submit"}
      BY <1>2, <2>2 DEF Polling
    <3>5. QED
      BY <1>2, <1>5, <3>1, <3>2, <3>3, <3>4 DEF InStep
  <2>3. CASE pc[m] = "rewrite"
    BY <1>2, <2>3 DEF InStep, Polling
  <2>4. QED
    BY <2>1, <2>2, <2>3 DEF InStep
<1>8. ReportingOf(m)'
  BY <1>2, <1>6, <1>7 DEF ReportingOf
<1>9. QED
  BY <1>1, <1>2, <1>3, <1>8, OneReporting

-----------------------------------------------------------------------------
(* Types.                                                                  *)

LEMMA JobTypes ==
  ASSUME TypeOK, Numbering, InOrder, [Next]_vars
  PROVE  /\ issued' \in JobRefs /\ base' \in [Jobs -> JobRefs]
         /\ wire' \in Seq(Jobs) /\ taken' \in JobRefs
<1>1. CASE Issue
  <2>1. taken' = taken /\ taken \in JobRefs
    BY <1>1 DEF Issue, TypeOK, history
  <2>2. issued' \in Jobs /\ base' \in [Jobs -> JobRefs] /\ wire' \in Seq(Jobs)
    BY <1>1, IssueEffect
  <2>3. Jobs \subseteq JobRefs
    BY DEF Jobs, JobRefs
  <2>4. QED
    BY <2>1, <2>2, <2>3
<1>2. CASE Receive
  BY <1>2, ReceiveEffect, ReceiveKeepsOrder DEF Receive, TypeOK, pool
<1>3. CASE UNCHANGED <<base, issued, wire, taken>>
  BY <1>3 DEF TypeOK
<1>4. QED
  BY <1>1, <1>2, <1>3, WorkSteps DEF pool, Store, history

LEMMA ClientTypes ==
  ASSUME TypeOK, Numbering, InOrder, [Next]_vars
  PROVE  /\ field' \in [Fields -> JobRefs] /\ work' \in BOOLEAN
         /\ todo' \in Seq(Fields) /\ msg' \in JobRefs
<1>1. CASE Receive
  <2>1. wire[1] \in JobRefs
    <3>1. wire[1] \in 1..issued
      BY <1>1, ReceiveKeepsOrder
    <3>2. issued \in 0..MaxJobs /\ MaxJobs \in Nat
      BY HandoffAssumption DEF TypeOK, JobRefs
    <3>3. QED
      BY <3>1, <3>2 DEF JobRefs
  <2>2. FullJob \in Seq(Fields) /\ MempoolUpdate \in Seq(Fields)
    BY DEF FullJob, MempoolUpdate, Fields, HeaderFields
  <2>3. /\ UNCHANGED <<field, work>>
        /\ \/ msg' = wire[1] /\ todo' \in {FullJob, MempoolUpdate}
           \/ UNCHANGED <<msg, todo>>
    BY <1>1 DEF Receive
  <2>4. QED
    BY <2>1, <2>2, <2>3 DEF TypeOK
<1>2. CASE Store
  <2>1. Tail(todo) \in Seq(Fields)
    BY <1>2, HeadTailProperties DEF Store, TypeOK
  <2>2. QED
    BY <1>2, <2>1 DEF Store, TypeOK
<1>3. CASE UNCHANGED client
  BY <1>3 DEF TypeOK, client
<1>4. QED
  BY <1>1, <1>2, <1>3, WorkSteps DEF Issue

\* The part of the types that belongs to the miners and the devices.
MinerTypes ==
  /\ build \in Builds
  /\ lock \in Miners \cup {NoMiner}
  /\ pc \in [Miners -> Labels]
  /\ timestamp \in [Miners -> 0..MaxTime]
  /\ header \in [Miners -> Headers]
  /\ left \in [Miners -> SUBSET HeaderFields]
  /\ job \in [Miners -> JobRefs]
  /\ nonce \in [Miners -> Answers]
  /\ lastNonce1 \in [Miners -> Answers]
  /\ device \in [Miners -> [of : Searches, left : 0..Repeats]]
  /\ serial \in [Miners -> Seq(Reports)]
  /\ clean \in [Miners -> BOOLEAN]
  /\ found \in [Miners -> Searches]
  /\ crossed \subseteq Miners

LEMMA TakeReportTypes ==
  ASSUME MinerTypes, NEW m \in Miners, TakeReport(m)
  PROVE  /\ nonce' \in [Miners -> Answers]
         /\ serial' \in [Miners -> Seq(Reports)]
         /\ found' \in [Miners -> Searches]
<1>1. Head(serial[m]) \in Reports /\ Tail(serial[m]) \in Seq(Reports)
  BY HeadTailProperties DEF TakeReport, MinerTypes
<1>2. Head(serial[m]).nonce \in Answers /\ Head(serial[m]).of \in Searches
  BY <1>1 DEF Reports, Answers
<1>3. QED
  BY <1>1, <1>2 DEF TakeReport, MinerTypes

LEMMA MinerTypesStep ==
  ASSUME TypeOK, [Next]_vars
  PROVE  MinerTypes'
<1>0. MinerTypes
  BY DEF TypeOK, MinerTypes
<1>. USE DEF MinerTypes, Goto, Labels
<1>1. CASE Issue \/ Store
  BY <1>0, <1>1 DEF Issue, Store, round, pool, history
<1>2. CASE Receive
  BY <1>0, <1>2 DEF Receive, round, pool
<1>3. ASSUME NEW m \in Miners, Mine(m) PROVE MinerTypes'
  <2>0. build' = build
    BY <1>3, MinersLeaveWork DEF pool
  <2>1. CASE ReadClock(m)
    <3>1. NoSearch \in Searches /\ Nothing \in Answers
      BY HandoffAssumption DEF NoSearch, NoJob, Searches, JobRefs, Answers
    <3>2. PICK t \in timestamp[m]..MaxTime : timestamp' = [timestamp EXCEPT ![m] = t]
      BY <2>1 DEF ReadClock
    <3>3. t \in 0..MaxTime
      BY <1>0, <3>2, HandoffAssumption
    <3>4. QED
      BY <1>0, <2>0, <2>1, <3>1, <3>2, <3>3 DEF ReadClock
  <2>2. CASE LockForWork(m)
    BY <1>0, <2>0, <2>2 DEF LockForWork
  <2>3. CASE Copy(m)
    <3>1. PICK f \in left[m] : /\ header' = [header EXCEPT ![m][f] = field[f]]
                               /\ left' = [left EXCEPT ![m] = @ \ {f}]
      BY <2>3 DEF Copy
    <3>2. f \in HeaderFields /\ field[f] \in JobRefs
      BY <1>0, <3>1 DEF TypeOK, Fields
    <3>3. header' \in [Miners -> Headers] /\ left' \in [Miners -> SUBSET HeaderFields]
      BY <1>0, <3>1, <3>2 DEF Headers
    <3>4. QED
      BY <1>0, <2>0, <2>3, <3>3 DEF Copy, history
  <2>4. CASE ReadJobId(m)
    BY <1>0, <2>0, <2>4 DEF ReadJobId, TypeOK, Fields, history
  <2>5. CASE WriteHeader(m)
    <3>1. Search(m) \in Searches
      BY <1>0 DEF Search, Searches, Headers, HeaderFields
    <3>2. device' \in [Miners -> [of : Searches, left : 0..Repeats]]
      BY <1>0, <2>5, <3>1, HandoffAssumption DEF WriteHeader
    <3>3. crossed' \subseteq Miners
      BY <1>0, <2>5 DEF WriteHeader
    <3>4. QED
      BY <1>0, <2>0, <2>5, <3>2, <3>3 DEF WriteHeader
  <2>6. CASE Poll(m)
    BY <1>0, <2>0, <2>6, TakeReportTypes DEF Poll, Answered
  <2>7. CASE Outlast(m)
    BY <1>0, <2>0, <2>7 DEF Outlast, history
  <2>8. CASE PollLate(m)
    <3>1. /\ nonce' \in [Miners -> Answers]
          /\ serial' \in [Miners -> Seq(Reports)]
          /\ found' \in [Miners -> Searches]
      BY <1>0, <2>8, TakeReportTypes DEF PollLate, Answers
    <3>2. QED
      BY <1>0, <2>0, <2>8, <3>1 DEF PollLate
  <2>9. CASE LookAgain(m)
    <3>1. field["jobId"] \in JobRefs
      BY DEF TypeOK, Fields
    <3>2. NoSearch \in Searches /\ Nothing \in Answers
      BY HandoffAssumption DEF NoSearch, NoJob, Searches, JobRefs, Answers
    <3>3. nonce' \in [Miners -> Answers] /\ found' \in [Miners -> Searches]
      <4>1. \/ nonce' = nonce /\ found' = found
            \/ /\ nonce' = [nonce EXCEPT ![m] = Nothing]
               /\ found' = [found EXCEPT ![m] = NoSearch]
        BY <2>9 DEF LookAgain
      <4>2. QED
        BY <1>0, <3>2, <4>1
    <3>4. pc' \in [Miners -> Labels]
      BY <1>0, <2>9 DEF LookAgain, Answered
    <3>5. clean' \in [Miners -> BOOLEAN]
      <4>1. clean' = clean \/ clean' = [clean EXCEPT ![m] = FALSE]
        BY <2>9 DEF LookAgain
      <4>2. QED
        BY <1>0, <4>1
    <3>6. QED
      BY <1>0, <2>0, <2>9, <3>1, <3>3, <3>4, <3>5 DEF LookAgain
  <2>10. CASE LockForSubmit(m)
    BY <1>0, <2>0, <2>10 DEF LockForSubmit, history
  <2>11. CASE Submit(m)
    BY <1>0, <2>0, <2>11 DEF Submit, history
  <2>12. QED
    BY <1>3, <2>1, <2>2, <2>3, <2>4, <2>5, <2>6, <2>7, <2>8, <2>9, <2>10, <2>11 DEF Mine
<1>4. ASSUME NEW m \in Miners, Report(m) PROVE MinerTypes'
  <2>1. PICK n \in Nonces \cup {Exhausted} :
        /\ serial' = [serial EXCEPT ![m] = Append(@, [nonce |-> n, of |-> device[m].of])]
        /\ device' = [device EXCEPT ![m].left = IF n = Exhausted THEN 0 ELSE @ - 1]
    BY <1>4 DEF Report
  <2>2. [nonce |-> n, of |-> device[m].of] \in Reports
    BY <1>0, <2>1 DEF Reports
  <2>3. Append(serial[m], [nonce |-> n, of |-> device[m].of]) \in Seq(Reports)
    BY <1>0, <2>2, AppendProperties
  <2>4. serial' \in [Miners -> Seq(Reports)]
    BY <1>0, <2>1, <2>3
  <2>5. device' \in [Miners -> [of : Searches, left : 0..Repeats]]
    <3>1. device[m] \in [of : Searches, left : 0..Repeats] /\ device[m].left > 0
      BY <1>0, <1>4 DEF Report
    <3>2. 0 \in 0..Repeats /\ device[m].left - 1 \in 0..Repeats
      BY <3>1, HandoffAssumption
    <3>3. \E k \in 0..Repeats : device' = [device EXCEPT ![m].left = k]
      BY <1>0, <2>1, <3>2
    <3>4. PICK k \in 0..Repeats : device' = [device EXCEPT ![m].left = k]
      BY <3>3
    <3>5. [device[m] EXCEPT !.left = k] \in [of : Searches, left : 0..Repeats]
      BY <3>1
    <3>6. device' = [device EXCEPT ![m] = [device[m] EXCEPT !.left = k]]
      BY <1>0, <3>4
    <3>7. QED
      BY <1>0, <3>5, <3>6
  <2>6. QED
    BY <1>0, <1>4, <2>4, <2>5 DEF Report, round, pool, history
<1>5. CASE UNCHANGED vars
  BY <1>0, <1>5 DEF vars, round, pool, history
<1>6. QED
  BY <1>1, <1>2, <1>3, <1>4, <1>5 DEF Next

-----------------------------------------------------------------------------
(* The theorems.                                                           *)

LEMMA InitHandoff ==
  Init => HandoffInv
<1>. SUFFICES ASSUME Init PROVE HandoffInv
  OBVIOUS
<1>1. TypeOK
  <2>1. NoHeader \in Headers /\ NoSearch \in Searches
    BY HandoffAssumption DEF NoHeader, NoSearch, NoJob, Headers, Searches, JobRefs, HeaderFields
  <2>2. <<>> \in Seq(Jobs) /\ <<>> \in Seq(Fields) /\ <<>> \in Seq(Reports)
    OBVIOUS
  <2>3. 0 \in JobRefs /\ 0 \in 0..MaxTime /\ 0 \in 0..Repeats
    BY HandoffAssumption DEF JobRefs
  <2>4. /\ issued \in JobRefs /\ base \in [Jobs -> JobRefs] /\ wire \in Seq(Jobs)
        /\ field \in [Fields -> JobRefs] /\ work \in BOOLEAN /\ todo \in Seq(Fields)
        /\ msg \in JobRefs /\ taken \in JobRefs /\ build \in Builds
        /\ lock \in Miners \cup {NoMiner}
    BY <2>2, <2>3 DEF Init, NoJob
  <2>5. /\ pc \in [Miners -> Labels]
        /\ timestamp \in [Miners -> 0..MaxTime] /\ header \in [Miners -> Headers]
        /\ left \in [Miners -> SUBSET HeaderFields] /\ job \in [Miners -> JobRefs]
        /\ nonce \in [Miners -> Answers]
        /\ lastNonce1 \in [Miners -> Answers]
    BY <2>1, <2>3 DEF Init, NoJob, Labels, Answers
  <2>6. /\ device \in [Miners -> [of : Searches, left : 0..Repeats]]
        /\ serial \in [Miners -> Seq(Reports)] /\ clean \in [Miners -> BOOLEAN]
        /\ found \in [Miners -> Searches] /\ crossed \subseteq Miners
    BY <2>1, <2>2, <2>3 DEF Init
  <2>7. QED
    BY <2>4, <2>5, <2>6 DEF TypeOK
<1>2. Numbering /\ InOrder
  BY DEF Init, Numbering, InOrder, NoJob
<1>3. Storage /\ Ascending
  <2>1. Storage
    BY DEF Init, Storage, Settled, OneBlock, NoJob, Fields, HeaderFields
  <2>2. Ascending
    BY DEF Init, Ascending, NoJob
  <2>3. QED
    BY <2>1, <2>2
<1>4. Copies /\ MixedOnlyByOverlap /\ ExtraNonceOfItsJob
  BY DEF Init, Copies, MixedOnlyByOverlap, ExtraNonceOfItsJob, NoSearch
<1>5. Rounds /\ Devices /\ NonceOfItsRound
  BY DEF Init, Rounds, Devices, NonceOfItsRound, Polling
<1>6. QED
  BY <1>1, <1>2, <1>3, <1>4, <1>5 DEF HandoffInv

LEMMA NextHandoff ==
  HandoffInv /\ [Next]_vars => HandoffInv'
<1>. SUFFICES ASSUME HandoffInv, [Next]_vars PROVE HandoffInv'
  OBVIOUS
<1>0. TypeOK /\ Numbering /\ InOrder /\ Storage /\ Ascending /\ Handing /\ Reporting
  BY DEF HandoffInv, Handing, Reporting
<1>1. TypeOK' /\ Ascending'
  BY <1>0, JobTypes, ClientTypes, MinerTypesStep, AscendingStep DEF TypeOK, MinerTypes
<1>2. SUFFICES (Numbering /\ InOrder /\ Storage /\ Handing /\ Reporting)'
  <2>1. SUFFICES ASSUME (Numbering /\ InOrder /\ Storage /\ Handing /\ Reporting)'
                 PROVE  HandoffInv'
    OBVIOUS
  <2>2. ExtraNonceOfItsJob'
    BY <2>1 DEF Handing, Reporting, Copies, Rounds, CleanJob, ExtraNonceOfItsJob, Share
  <2>3. QED
    BY <1>1, <2>1, <2>2 DEF HandoffInv, Handing, Reporting
<1>3. ASSUME UNCHANGED <<build, round, device, serial, found, crossed>> PROVE Reporting'
  BY <1>0, <1>3 DEF round, Reporting, Rounds, Devices, NonceOfItsRound
<1>4. CASE Issue
  <2>1. Reporting'
    BY <1>3, <1>4 DEF Issue, history
  <2>2. QED
    BY <1>0, <1>4, <2>1, IssueKeepsOrder, IssueKeepsStorage, IssueKeepsCopies
<1>5. CASE Receive
  <2>1. Reporting'
    BY <1>3, <1>5 DEF Receive, pool
  <2>2. QED
    BY <1>0, <1>5, <2>1, ReceiveKeepsOrder, ReceiveKeepsStorage, ReceiveKeepsCopies
<1>6. CASE Store
  <2>1. Reporting'
    BY <1>3, <1>6 DEF Store, pool, history
  <2>2. UNCHANGED <<base, issued, wire, taken>>
    BY <1>6 DEF Store, pool, history
  <2>3. Numbering' /\ InOrder'
    BY <1>0, <2>2 DEF Numbering, InOrder
  <2>4. QED
    BY <1>0, <1>6, <2>1, <2>3, StoreKeepsStorage, StoreKeepsCopies
<1>7. ASSUME UNCHANGED <<pool, wire, client, taken>>
      PROVE  (Numbering /\ InOrder /\ Storage)'
  <2>1. UNCHANGED <<base, issued, wire, field, work, todo, msg, taken>>
    BY <1>7 DEF pool, client
  <2>2. Numbering' /\ InOrder'
    BY <1>0, <2>1 DEF Numbering, InOrder
  <2>3. Storage'
    BY <1>0, <2>1 DEF Storage, StoringFull, StoringUpdate, Settled, OneBlock, IsFull
  <2>4. QED
    BY <2>2, <2>3
<1>8. ASSUME NEW m \in Miners, Mine(m)
      PROVE  (Numbering /\ InOrder /\ Storage /\ Handing /\ Reporting)'
  <2>1. (Numbering /\ InOrder /\ Storage)'
    BY <1>7, <1>8, MinersLeaveWork
  <2>2. QED
    BY <1>0, <1>8, <2>1, MineKeepsCopies, MineKeepsReporting
<1>9. ASSUME UNCHANGED <<pool, client, taken, pc, header, left, job, clean>>,
             \A m \in Miners : device'[m].of = device[m].of
      PROVE  Handing'
  <2>1. \A j : CleanJob(j)' <=> CleanJob(j)
    BY <1>9, MineKeepsCleanJob
  <2>2. \A m \in Miners : CopiesOf(m) => CopiesOf(m)'
    BY <1>9, <2>1 DEF CopiesOf, CleanJob, HeaderOf, pool, client
  <2>3. \A m \in Miners : CopiesOf(m)'
    BY <1>0, <2>2, CopiesParts
  <2>4. QED
    BY <2>3 DEF Handing, Copies, MixedOnlyByOverlap, CopiesOf
<1>10. ASSUME NEW m \in Miners, Report(m)
       PROVE  (Numbering /\ InOrder /\ Storage /\ Handing /\ Reporting)'
  <2>1. UNCHANGED <<pool, wire, client, taken, pc, header, left, job, clean>>
    BY <1>10 DEF Report, round, history
  <2>2. \A x \in Miners : device'[x].of = device[x].of
    <3>1. device \in [Miners -> [of : Searches, left : 0..Repeats]]
      BY <1>0 DEF TypeOK
    <3>2. QED
      BY <1>10, <3>1 DEF Report
  <2>3. QED
    BY <1>0, <1>7, <1>9, <1>10, <2>1, <2>2, ReportKeepsReporting
<1>11. CASE UNCHANGED vars
  <2>1. UNCHANGED <<pool, wire, client, round, device, serial, taken, clean, found, crossed>>
    BY <1>11 DEF vars, history
  <2>2. QED
    BY <1>3, <1>7, <1>9, <2>1 DEF pool, round
<1>12. QED
  BY <1>4, <1>5, <1>6, <1>8, <1>10, <1>11 DEF Next

\* HandoffInv holds of every reachable state.
THEOREM Handoff == Spec => []HandoffInv
<1>1. Init => HandoffInv
  BY InitHandoff
<1>2. HandoffInv /\ [Next]_vars => HandoffInv'
  BY NextHandoff
<1>3. QED
  BY <1>1, <1>2, PTL DEF Spec

\* Between two commands the fields of UCPClient describe one job, unless the
\* reader dropped a full job since (UCPClient.h 888-997).
THEOREM FieldsAreOneJob == Spec => []SettledWork
<1>1. HandoffInv => SettledWork
  BY StorageIsSettled DEF HandoffInv
<1>2. QED
  BY <1>1, Handoff, PTL

\* A header is paired with the number of another job only by a command that
\* the receiver took or stored during the copy, or dropped before it (veri-fm2l.cpp 753-756).
THEOREM CopiesAreOneJob == Spec => []MixedOnlyByOverlap
<1>1. HandoffInv => MixedOnlyByOverlap
  BY DEF HandoffInv
<1>2. QED
  BY <1>1, Handoff, PTL

\* A device that reports once per header never has its nonce submitted for
\* another job or time (veri-fm2l.cpp 813-872), unless it crossed a restart of
\* the Windows build (831-840).
THEOREM NoncesMatchRounds == Spec => []NonceOfItsRound
<1>1. HandoffInv => NonceOfItsRound
  BY DEF HandoffInv
<1>2. QED
  BY <1>1, Handoff, PTL

\* The extra nonce of a share is its job's until a newer full job is taken.
THEOREM ExtraNoncesMatchJobs == Spec => []ExtraNonceOfItsJob
<1>1. HandoffInv => ExtraNonceOfItsJob
  BY DEF HandoffInv
<1>2. QED
  BY <1>1, Handoff, PTL
-----------------------------------------------------------------------------
(* The fields as registers.                                                *)

\* Issue is a new job of the registers, and a store moves one of them on.
LEMMA StoreAdvances ==
  ASSUME HandoffInv, Store
  PROVE  (\E c \in RoundFields : Registers!Advance(c))
           \/ UNCHANGED <<issued, FieldsNow, FieldsSeen>>
<1>1. /\ todo # <<>> /\ field' = [field EXCEPT ![Head(todo)] = msg]
      /\ issued' = issued /\ FieldsSeen' = FieldsSeen
  BY DEF Store, pool, round, FieldsSeen
<1>2. /\ Head(todo) \in Fields /\ field[Head(todo)] < msg /\ msg <= issued
  BY <1>1, StoredOnce DEF HandoffInv, Ascending
<1>3. /\ issued \in Nat /\ msg \in Nat /\ field[Head(todo)] \in Nat
      /\ field \in [Fields -> JobRefs]
  BY <1>2, HandoffAssumption DEF HandoffInv, TypeOK, JobRefs
<1>4. CASE Head(todo) \in RoundFields
  <2>1. FieldsNow' = [FieldsNow EXCEPT ![Head(todo)] = msg]
    BY <1>1, <1>3, <1>4 DEF FieldsNow, RoundFields, Fields
  <2>2. msg \in FieldsNow[Head(todo)] + 1 .. issued
    BY <1>2, <1>3, <1>4 DEF FieldsNow
  <2>3. QED
    BY <1>1, <1>4, <2>1, <2>2 DEF Registers!Advance
<1>5. CASE Head(todo) \notin RoundFields
  <2>1. FieldsNow' = FieldsNow
    BY <1>1, <1>2, <1>3, <1>5 DEF FieldsNow, RoundFields, Fields
  <2>2. QED
    BY <1>1, <2>1
<1>6. QED
  BY <1>4, <1>5

\* A miner copies one field at a time, its job number last.
LEMMA CopyFetches ==
  ASSUME HandoffInv, NEW m \in Miners, Copy(m) \/ ReadJobId(m) \/ LookAgain(m)
  PROVE  \E c \in RoundFields : Registers!Fetch(m, c)
<1>1. /\ issued' = issued /\ FieldsNow' = FieldsNow
      /\ header \in [Miners -> [HeaderFields -> JobRefs]] /\ job \in [Miners -> JobRefs]
      /\ left[m] \subseteq HeaderFields
  BY DEF Copy, ReadJobId, LookAgain, pool, client, FieldsNow, HandoffInv, TypeOK, Headers
<1>2. CASE Copy(m)
  <2>1. PICK f \in left[m] : header' = [header EXCEPT ![m][f] = field[f]]
    BY <1>2 DEF Copy
  <2>2. f \in HeaderFields /\ f # "jobId" /\ job' = job
    BY <1>1, <1>2, <2>1 DEF HeaderFields, Copy
  <2>3. FieldsSeen' = [FieldsSeen EXCEPT ![m][f] = FieldsNow[f]]
    <3>1. FieldsNow[f] = field[f] /\ f \in RoundFields
      BY <2>2 DEF FieldsNow, RoundFields
    <3>2. ASSUME NEW x \in Miners
          PROVE  FieldsSeen'[x] = [FieldsSeen EXCEPT ![m][f] = FieldsNow[f]][x]
      <4>1. ASSUME NEW g \in RoundFields, g # "jobId"
            PROVE  header'[x][g] = IF x = m /\ g = f THEN field[f] ELSE header[x][g]
        BY <1>1, <2>1, <2>2, <4>1 DEF RoundFields
      <4>2. QED
        BY <2>2, <3>1, <4>1 DEF FieldsSeen
    <3>3. QED
      BY <3>2 DEF FieldsSeen
  <2>4. QED
    BY <1>1, <2>2, <2>3 DEF Registers!Fetch, RoundFields
<1>3. CASE ReadJobId(m) \/ LookAgain(m)
  <2>1. job' = [job EXCEPT ![m] = field["jobId"]] /\ header' = header
    BY <1>3 DEF ReadJobId, LookAgain
  <2>2. FieldsSeen' = [FieldsSeen EXCEPT ![m]["jobId"] = FieldsNow["jobId"]]
    BY <1>1, <2>1 DEF FieldsSeen, FieldsNow, RoundFields
  <2>3. QED
    BY <1>1, <2>2 DEF Registers!Fetch, RoundFields
<1>4. QED
  BY <1>2, <1>3

\* Every step of the threads is a step of the registers, or none of them.
LEMMA StepsOfRegisters ==
  ASSUME HandoffInv, [Next]_vars
  PROVE  Registers!RegNext \/ UNCHANGED <<issued, FieldsNow, FieldsSeen>>
<1>1. CASE Issue
  <2>1. /\ issued' = issued + 1
        /\ FieldsNow' = FieldsNow /\ FieldsSeen' = FieldsSeen
    BY <1>1 DEF Issue, client, round, FieldsNow, FieldsSeen
  <2>2. QED
    BY <2>1 DEF Registers!RegNext, Registers!NewJob
<1>2. CASE Store
  BY <1>2, StoreAdvances DEF Registers!RegNext
<1>3. ASSUME NEW m \in Miners, Copy(m) \/ ReadJobId(m) \/ LookAgain(m)
      PROVE  Registers!RegNext
  BY <1>3, CopyFetches DEF Registers!RegNext
<1>4. CASE UNCHANGED <<issued, field, header, job>>
  BY <1>4 DEF FieldsNow, FieldsSeen
<1>5. \/ Issue \/ Store
      \/ \E m \in Miners : Copy(m) \/ ReadJobId(m) \/ LookAgain(m)
      \/ UNCHANGED <<issued, field, header, job>>
  BY DEF Next, vars, pool, client, round, Receive, Mine, Report, ReadClock, LockForWork,
     WriteHeader, Poll, Outlast, PollLate, LockForSubmit, Submit
<1>6. QED
  BY <1>1, <1>2, <1>3, <1>4, <1>5

\* However copies and stores interleave, no field that a miner holds and no
\* job number of its shares goes back to an older job: the unprotected fields
\* (UCPClient.h 890-997, veri-fm2l.cpp 753-756) implement registers that only move on.
THEOREM FieldsAreRegisters == Spec => JobsOnlyMoveOn
<1>1. Init => Registers!RegInit
  <2>1. SUFFICES ASSUME Init PROVE Registers!RegInit
    OBVIOUS
  <2>2. \A f \in RoundFields : f \in Fields
    BY DEF RoundFields, Fields
  <2>3. FieldsNow = [f \in RoundFields |-> 0]
    BY <2>1, <2>2 DEF Init, FieldsNow, NoJob
  <2>4. FieldsSeen = [m \in Miners |-> [f \in RoundFields |-> 0]]
    <3>1. \A m \in Miners : \A f \in RoundFields :
            (IF f = "jobId" THEN job[m] ELSE header[m][f]) = 0
      BY <2>1 DEF Init, NoHeader, NoJob, RoundFields
    <3>2. QED
      BY <3>1 DEF FieldsSeen
  <2>5. issued = 0
    BY <2>1 DEF Init
  <2>6. QED
    BY <2>3, <2>4, <2>5 DEF Registers!RegInit, Registers!Blank
<1>2. HandoffInv /\ [Next]_vars => [Registers!RegNext]_<<issued, FieldsNow, FieldsSeen>>
  BY StepsOfRegisters
<1>3. QED
  BY <1>1, <1>2, Handoff, PTL
    DEF Spec, JobsOnlyMoveOn, Registers!RegSpec, Registers!registers
=============================================================================
