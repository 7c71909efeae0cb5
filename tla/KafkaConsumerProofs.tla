------------------------ MODULE KafkaConsumerProofs ------------------------
(***************************************************************************)
(* Safety of KafkaConsumer for every log, concurrency limit, poll size and *)
(* bound.  The proof layers one invariant on another: basic typing, then   *)
(* the fetch position, the semaphore, the idempotency cache and the        *)
(* commits.                                                                *)
(***************************************************************************)
EXTENDS KafkaConsumer, FiniteSetTheorems, TLAPS

(* Typing without the numeric bounds that need the deeper invariants. *)
BaseOK ==
    /\ phase \in {"booting", "serving", "closing", "closed"}
    /\ running \in BOOLEAN /\ publisherUp \in BOOLEAN
    /\ committed \in 1..LogLength + 1 /\ position \in 1..LogLength + 1
    /\ delivered \in [Offsets -> Nat]
    /\ pc \in [Tasks -> PCs]
    /\ attempt \in [Tasks -> 0..MaxAttempts]
    /\ \A t \in Tasks : pc[t] = "backoff" => attempt[t] < MaxAttempts
    /\ permits \in Nat
    /\ remembered \subseteq Ids
    /\ restarts \in 0..MaxRestarts /\ rebalances \in 0..MaxRebalances
    /\ admitted \in [Ids -> Nat] /\ forgotten \in [Ids -> 0..MaxForgets]
    /\ entered \subseteq Tasks /\ returned \subseteq Tasks /\ dlq \subseteq Tasks /\ acked \subseteq Tasks
    /\ running => phase = "serving"

LEMMA TaskFacts ==
    ASSUME NEW t \in Tasks
    PROVE  /\ Off(t) \in Offsets /\ MsgId(t) \in Ids /\ Off(t) \in Int
           /\ t[2] \in Nat /\ t[2] > 0
  BY ConstantsOK DEF Tasks, Off, MsgId, Offsets, MaxDeliveries

(* BaseOK is inductive on its own. *)
LEMMA BaseStep == BaseOK /\ [Next]_vars => BaseOK'
  <1> SUFFICES ASSUME BaseOK, [Next]_vars PROVE BaseOK'
    OBVIOUS
  <1> USE ConstantsOK DEF BaseOK, process, broker, cache
  <1>1. ASSUME NEW pubOk \in BOOLEAN, NEW conOk \in BOOLEAN, Boot(pubOk, conOk) PROVE BaseOK'
    BY <1>1 DEF Boot
  <1>2. CASE Stop
    BY <1>2 DEF Stop
  <1>3. CASE StopPublisher
    BY <1>3 DEF StopPublisher
  <1>4. CASE Restart
    <2>1. pc' \in [Tasks -> PCs] /\ (\A t \in Tasks : pc'[t] # "backoff")
      BY <1>4 DEF Restart, PCs
    <2>2. attempt' \in [Tasks -> 0..MaxAttempts]
      BY <1>4 DEF Restart
    <2>3. permits' \in Nat /\ restarts' \in 0..MaxRestarts
      BY <1>4 DEF Restart
    <2>4. QED
      BY <1>4, <2>1, <2>2, <2>3 DEF Restart
  <1>5. CASE Rebalance
    BY <1>5 DEF Rebalance
  <1>6. ASSUME NEW i \in Ids, Forget(i) PROVE BaseOK'
    BY <1>6 DEF Forget
  <1>7. ASSUME NEW k \in 1..MaxPoll, Poll(k) PROVE BaseOK'
    <2>1. pc' \in [Tasks -> PCs]
      BY <1>7 DEF Poll, PCs
    <2>2. delivered' \in [Offsets -> Nat]
      BY <1>7 DEF Poll
    <2>3. QED
      BY <1>7, <2>1, <2>2 DEF Poll
  <1>8. ASSUME NEW t \in Tasks, TaskStep(t) PROVE BaseOK'
    <2> USE TaskFacts DEF PCs
    <2>1. CASE StartUndecodable(t)
      BY <2>1 DEF StartUndecodable
    <2>2. CASE StartRejected(t)
      BY <2>2 DEF StartRejected, Acquire
    <2>3. CASE StartDuplicate(t)
      BY <2>3 DEF StartDuplicate, Acquire
    <2>4. CASE StartFresh(t)
      BY <2>4 DEF StartFresh, Acquire
    <2>5. CASE HandlerReturns(t)
      BY <2>5 DEF HandlerReturns, CommitOrSkip, Finish
    <2>6. ASSUME NEW r \in BOOLEAN, HandlerRaises(t, r) PROVE BaseOK'
      BY <2>6 DEF HandlerRaises
    <2>7. CASE RetryAfterBackoff(t)
      BY <2>7 DEF RetryAfterBackoff
    <2>8. CASE PublishDLQ(t)
      BY <2>8 DEF PublishDLQ, CommitOrSkip, Finish
    <2>9. CASE PublishDLQFails(t)
      BY <2>9 DEF PublishDLQFails, Finish
    <2>10. CASE CommitApplied(t)
      <3>1. committed' \in 1..LogLength + 1
        <4>1. committed' = Off(t) + 1 /\ Off(t) \in 1..LogLength
          BY <2>10 DEF CommitApplied, Offsets
        <4>2. QED
          BY ONLY <4>1, ConstantsOK DEF ConstantsOK
      <3>2. acked' \subseteq Tasks
        BY <2>10 DEF CommitApplied
      <3>3. pc' \in [Tasks -> PCs] /\ attempt' \in [Tasks -> 0..MaxAttempts] /\ permits' \in Nat
        BY <2>10 DEF CommitApplied, Finish
      <3>4. \A u \in Tasks : pc'[u] = "backoff" => attempt'[u] < MaxAttempts
        BY <2>10 DEF CommitApplied, Finish
      <3>5. QED
        BY <2>10, <3>1, <3>2, <3>3, <3>4 DEF CommitApplied
    <2>11. CASE CommitFails(t)
      BY <2>11 DEF CommitFails, Finish
    <2>12. QED
      BY <1>8, <2>1, <2>2, <2>3, <2>4, <2>5, <2>6, <2>7, <2>8, <2>9, <2>10, <2>11 DEF TaskStep
  <1>9. CASE UNCHANGED vars
    BY <1>9 DEF vars
  <1>10. QED
    BY <1>1, <1>2, <1>3, <1>4, <1>5, <1>6, <1>7, <1>8, <1>9 DEF Next, ProcessStep

LEMMA BaseCorrect == Spec => []BaseOK
  <1>1. Init => BaseOK
    <2> SUFFICES ASSUME Init PROVE BaseOK
      OBVIOUS
    <2>1. pc \in [Tasks -> PCs] /\ (\A t \in Tasks : pc[t] # "backoff")
      BY DEF Init, PCs
    <2>2. /\ delivered \in [Offsets -> Nat] /\ attempt \in [Tasks -> 0..MaxAttempts]
          /\ admitted \in [Ids -> Nat] /\ forgotten \in [Ids -> 0..MaxForgets]
      BY ConstantsOK DEF Init
    <2>3. /\ committed \in 1..LogLength + 1 /\ position \in 1..LogLength + 1
          /\ restarts \in 0..MaxRestarts /\ rebalances \in 0..MaxRebalances
          /\ permits \in Nat
      BY ConstantsOK DEF Init
    <2>4. QED
      BY <2>1, <2>2, <2>3 DEF Init, BaseOK
  <1>2. QED
    BY <1>1, BaseStep, PTL DEF Spec

-----------------------------------------------------------------------------
(* What a task step leaves alone: only the task's own entry of pc moves,   *)
(* never from or to "absent", and only CommitApplied moves the offset.     *)
LEMMA TaskFrame ==
    ASSUME BaseOK, NEW t \in Tasks, TaskStep(t)
    PROVE  /\ UNCHANGED <<process, delivered, forgotten>>
           /\ pc[t] # "absent" /\ pc'[t] # "absent"
           /\ \A u \in Tasks : u # t => pc'[u] = pc[u]
           /\ CommitApplied(t) \/ UNCHANGED broker
  <1> USE DEF BaseOK, Acquire
  <1>1. CASE StartUndecodable(t)
    BY <1>1 DEF StartUndecodable, cache
  <1>2. CASE StartRejected(t)
    BY <1>2 DEF StartRejected, cache
  <1>3. CASE StartDuplicate(t)
    BY <1>3 DEF StartDuplicate, cache
  <1>4. CASE StartFresh(t)
    BY <1>4 DEF StartFresh
  <1>5. CASE HandlerReturns(t)
    BY <1>5 DEF HandlerReturns, CommitOrSkip, Finish, cache
  <1>6. ASSUME NEW r \in BOOLEAN, HandlerRaises(t, r)
        PROVE  /\ UNCHANGED <<process, delivered, forgotten>>
               /\ pc[t] # "absent" /\ pc'[t] # "absent"
               /\ \A u \in Tasks : u # t => pc'[u] = pc[u]
               /\ CommitApplied(t) \/ UNCHANGED broker
    BY <1>6 DEF HandlerRaises, cache
  <1>7. CASE RetryAfterBackoff(t)
    BY <1>7 DEF RetryAfterBackoff, cache
  <1>8. CASE PublishDLQ(t)
    BY <1>8 DEF PublishDLQ, CommitOrSkip, Finish, cache
  <1>9. CASE PublishDLQFails(t)
    BY <1>9 DEF PublishDLQFails, Finish, cache
  <1>10. CASE CommitApplied(t)
    BY <1>10 DEF CommitApplied, Finish, cache
  <1>11. CASE CommitFails(t)
    BY <1>11 DEF CommitFails, Finish, cache
  <1>12. QED
    BY <1>1, <1>2, <1>3, <1>4, <1>5, <1>6, <1>7, <1>8, <1>9, <1>10, <1>11 DEF TaskStep

-----------------------------------------------------------------------------
(* The fetch position.  Each restart and each rebalance allows one more    *)
(* delivery of a record; deliveries always form a prefix of the log, and   *)
(* both the position and the committed offset stay inside that prefix.     *)
DeliveryBound ==
    \A o \in Offsets : delivered[o] <= restarts + rebalances
                          + (IF phase # "booting" /\ o < position THEN 1 ELSE 0)
DeliveredPrefix == \A o, p \in Offsets : (o <= p /\ delivered[p] > 0) => delivered[o] > 0
TaskDelivered == \A t \in Tasks : pc[t] # "absent" => t[2] <= delivered[Off(t)]

FetchInv == DeliveryBound /\ DeliveredPrefix /\ TaskDelivered /\ NoSkippedRecord

LEMMA FetchPoll ==
    ASSUME BaseOK, FetchInv, NEW k \in 1..MaxPoll, Poll(k)
    PROVE  FetchInv'
  <1> USE ConstantsOK DEF BaseOK, Offsets, Batch
  <1>1. /\ phase = "serving" /\ phase' = "serving" /\ position' = position + k /\ k \in Int
        /\ UNCHANGED <<restarts, rebalances, committed>>
        /\ \A o \in Offsets : delivered'[o] = IF o \in position .. position + k - 1
                                             THEN delivered[o] + 1 ELSE delivered[o]
        /\ \A t \in Tasks : pc'[t] # "absent" => pc[t] # "absent" \/ Off(t) \in position .. position + k - 1
    BY DEF Poll, broker
  <1>2. ASSUME NEW o \in Offsets, o < position + k PROVE delivered'[o] > 0
    <2>1. o \in Int /\ position \in Int /\ k \in Int /\ delivered[o] \in Nat
      OBVIOUS
    <2>2. o < position => delivered[o] > 0
      BY DEF FetchInv, NoSkippedRecord
    <2>3. delivered'[o] = IF o \in position .. position + k - 1 THEN delivered[o] + 1 ELSE delivered[o]
      BY <1>1
    <2>4. QED
      BY ONLY <1>2, <2>1, <2>2, <2>3
  <1>3. DeliveryBound'
    <2> SUFFICES ASSUME NEW o \in Offsets
                 PROVE  delivered'[o] <= restarts + rebalances
                                            + (IF phase' # "booting" /\ o < position' THEN 1 ELSE 0)
      BY <1>1 DEF DeliveryBound
    <2>1. /\ restarts \in Int /\ rebalances \in Int /\ position \in Int /\ k \in Int /\ k >= 1
          /\ o \in Int /\ delivered[o] \in Int
      OBVIOUS
    <2>2. delivered[o] <= restarts + rebalances + (IF o < position THEN 1 ELSE 0)
      BY <1>1 DEF FetchInv, DeliveryBound
    <2>3. delivered'[o] = IF o \in position .. position + k - 1 THEN delivered[o] + 1 ELSE delivered[o]
      BY <1>1
    <2>4. phase' # "booting" /\ position' = position + k
      BY <1>1
    <2>5. QED
      BY ONLY <2>1, <2>2, <2>3, <2>4
  <1>4. DeliveredPrefix'
    <2> SUFFICES ASSUME NEW o \in Offsets, NEW p \in Offsets, o <= p, delivered'[p] > 0
                 PROVE  delivered'[o] > 0
      BY DEF DeliveredPrefix
    <2>1. CASE p < position + k
      BY <2>1, <1>2
    <2>2. CASE ~(p < position + k)
      <3>1. p \notin position .. position + k - 1
        BY <2>2, <1>1
      <3>2. delivered[p] > 0 /\ delivered[o] > 0
        BY <3>1, <1>1 DEF FetchInv, DeliveredPrefix
      <3>3. delivered[o] \in Nat /\ (delivered'[o] = delivered[o] + 1 \/ delivered'[o] = delivered[o])
        BY <1>1
      <3>4. QED
        BY ONLY <3>2, <3>3
    <2>3. QED
      BY <2>1, <2>2
  <1>5. TaskDelivered'
    <2> SUFFICES ASSUME NEW t \in Tasks, pc'[t] # "absent" PROVE t[2] <= delivered'[Off(t)]
      BY DEF TaskDelivered
    <2>1. Off(t) \in Offsets /\ t[2] \in Nat /\ delivered[Off(t)] \in Nat
      BY TaskFacts
    <2>2. delivered'[Off(t)] = delivered[Off(t)] \/ delivered'[Off(t)] = delivered[Off(t)] + 1
      BY <1>1, <2>1
    <2>3. CASE pc[t] # "absent"
      <3>1. t[2] <= delivered[Off(t)]
        BY <2>3 DEF FetchInv, TaskDelivered
      <3>2. QED
        BY ONLY <2>1, <2>2, <3>1
    <2>4. CASE pc[t] = "absent"
      <3>1. Off(t) \in Batch(k) /\ t[2] = delivered[Off(t)] + 1
        BY <2>4 DEF Poll
      <3>2. QED
        BY SMTT(20), <3>1, <2>1, <1>1
    <2>5. QED
      BY <2>3, <2>4
  <1>6. NoSkippedRecord'
    BY <1>1, <1>2 DEF FetchInv, NoSkippedRecord
  <1>7. QED
    BY <1>3, <1>4, <1>5, <1>6 DEF FetchInv

LEMMA FetchTask ==
    ASSUME BaseOK, FetchInv, NEW t \in Tasks, TaskStep(t)
    PROVE  FetchInv'
  <1>1. /\ UNCHANGED <<phase, restarts, rebalances, position, delivered>>
        /\ \A u \in Tasks : pc'[u] # "absent" => pc[u] # "absent"
        /\ pc[t] # "absent"
    BY TaskFrame DEF process
  <1>2. DeliveryBound' /\ DeliveredPrefix' /\ TaskDelivered'
    BY <1>1 DEF FetchInv, DeliveryBound, DeliveredPrefix, TaskDelivered
  <1>3. NoSkippedRecord'
    <2>1. CASE CommitApplied(t)
      <3>1. committed' = Off(t) + 1 /\ Off(t) \in Offsets /\ delivered[Off(t)] > 0
        <4>1. t[2] <= delivered[Off(t)] /\ t[2] \in Nat /\ t[2] > 0 /\ Off(t) \in Offsets
          BY <1>1, TaskFacts DEF FetchInv, TaskDelivered
        <4>2. delivered[Off(t)] \in Nat
          BY <4>1 DEF BaseOK
        <4>3. QED
          BY <2>1, <4>1, <4>2 DEF CommitApplied
      <3>2. \A o \in Offsets : o < Off(t) + 1 => delivered[o] > 0
        BY <3>1, ConstantsOK DEF FetchInv, DeliveredPrefix, Offsets
      <3>3. QED
        BY <3>1, <3>2, <1>1 DEF FetchInv, NoSkippedRecord
    <2>2. CASE UNCHANGED broker
      BY <2>2, <1>1 DEF FetchInv, NoSkippedRecord, broker
    <2>3. QED
      BY <2>1, <2>2, TaskFrame
  <1>4. QED
    BY <1>2, <1>3 DEF FetchInv

LEMMA FetchStep == BaseOK /\ FetchInv /\ [Next]_vars => FetchInv'
  <1> SUFFICES ASSUME BaseOK, FetchInv, [Next]_vars PROVE FetchInv'
    OBVIOUS
  <1> USE DEF FetchInv, DeliveryBound, DeliveredPrefix, TaskDelivered, NoSkippedRecord
  <1>1. ASSUME NEW pubOk \in BOOLEAN, NEW conOk \in BOOLEAN, Boot(pubOk, conOk) PROVE FetchInv'
    <2>1. /\ phase = "booting" /\ position' = committed /\ phase' = "serving"
          /\ UNCHANGED <<restarts, rebalances, delivered, committed, pc>>
      BY <1>1 DEF Boot, broker
    <2>2. QED
      BY <2>1, ConstantsOK DEF BaseOK, Offsets
  <1>2. CASE Stop
    BY <1>2 DEF Stop, broker
  <1>3. CASE StopPublisher
    BY <1>3 DEF StopPublisher, broker
  <1>4. CASE Restart
    <2>1. /\ phase' = "booting" /\ restarts' = restarts + 1 /\ phase # "booting"
          /\ UNCHANGED <<rebalances, delivered, committed, position>>
          /\ \A t \in Tasks : pc'[t] # "absent" => pc[t] # "absent"
      BY <1>4 DEF Restart, broker
    <2>2. DeliveryBound'
      <3> SUFFICES ASSUME NEW o \in Offsets
                   PROVE  delivered[o] <= restarts + rebalances + 1
        BY <2>1 DEF BaseOK
      <3>1. restarts \in Int /\ rebalances \in Int /\ delivered[o] \in Int
        BY DEF BaseOK
      <3>2. QED
        BY <3>1
    <2>3. QED
      BY <2>1, <2>2
  <1>5. CASE Rebalance
    <2>1. /\ phase = "serving" /\ position' = committed /\ rebalances' = rebalances + 1
          /\ UNCHANGED <<restarts, delivered, committed, pc, phase>>
      BY <1>5 DEF Rebalance, broker, BaseOK
    <2>2. DeliveryBound'
      <3> SUFFICES ASSUME NEW o \in Offsets
                   PROVE  delivered[o] <= restarts + rebalances + 1
        BY <2>1 DEF BaseOK
      <3>1. restarts \in Int /\ rebalances \in Int /\ delivered[o] \in Int
        BY DEF BaseOK
      <3>2. QED
        BY <3>1
    <2>3. QED
      BY <2>1, <2>2
  <1>6. ASSUME NEW i \in Ids, Forget(i) PROVE FetchInv'
    BY <1>6 DEF Forget, process, broker
  <1>7. ASSUME NEW k \in 1..MaxPoll, Poll(k) PROVE FetchInv'
    BY <1>7, FetchPoll
  <1>8. ASSUME NEW t \in Tasks, TaskStep(t) PROVE FetchInv'
    BY <1>8, FetchTask
  <1>9. CASE UNCHANGED vars
    BY <1>9 DEF vars, process, broker
  <1>10. QED
    BY <1>1, <1>2, <1>3, <1>4, <1>5, <1>6, <1>7, <1>8, <1>9 DEF Next, ProcessStep

LEMMA FetchCorrect == Spec => []FetchInv
  <1>1. Init => FetchInv
    BY ConstantsOK DEF Init, FetchInv, DeliveryBound, DeliveredPrefix, TaskDelivered,
                       NoSkippedRecord, Offsets
  <1>2. QED
    BY <1>1, FetchStep, BaseCorrect, PTL DEF Spec

(* No poll position, committed offset or restart ever jumps over a record  *)
(* that was never handed to a task, for every log and every order of       *)
(* commits.                                                                *)
THEOREM NoRecordSkipped == Spec => []NoSkippedRecord
  <1>1. FetchInv => NoSkippedRecord
    BY DEF FetchInv
  <1>2. QED
    BY <1>1, FetchCorrect, PTL

-----------------------------------------------------------------------------
(* The semaphore.  The tasks inside it are a finite set whose size and the *)
(* free permits add up.                                                    *)
Inside == {t \in Tasks : pc[t] \in Holding}

PermitInv == IsFiniteSet(Inside) /\ PermitConservation

(* A task step moves at most its own task in or out of the semaphore, and  *)
(* a permit moves with it.                                                 *)
LEMMA TaskPermits ==
    ASSUME BaseOK, NEW t \in Tasks, TaskStep(t)
    PROVE  \/ pc[t] \notin Holding /\ pc'[t] \in Holding /\ permits' = permits - 1
           \/ pc[t] \in Holding /\ pc'[t] \notin Holding /\ permits' = permits + 1
           \/ (pc[t] \in Holding <=> pc'[t] \in Holding) /\ permits' = permits
  <1> USE DEF BaseOK, Acquire, Holding, PCs
  <1>1. CASE StartUndecodable(t)
    BY <1>1 DEF StartUndecodable
  <1>2. CASE StartRejected(t)
    BY <1>2 DEF StartRejected
  <1>3. CASE StartDuplicate(t)
    BY <1>3 DEF StartDuplicate
  <1>4. CASE StartFresh(t)
    BY <1>4 DEF StartFresh
  <1>5. CASE HandlerReturns(t)
    BY <1>5 DEF HandlerReturns, CommitOrSkip, Finish
  <1>6. ASSUME NEW r \in BOOLEAN, HandlerRaises(t, r)
        PROVE  (pc[t] \in Holding <=> pc'[t] \in Holding) /\ permits' = permits
    BY <1>6 DEF HandlerRaises
  <1>7. CASE RetryAfterBackoff(t)
    BY <1>7 DEF RetryAfterBackoff
  <1>8. CASE PublishDLQ(t)
    BY <1>8 DEF PublishDLQ, CommitOrSkip, Finish
  <1>9. CASE PublishDLQFails(t)
    BY <1>9 DEF PublishDLQFails, Finish
  <1>10. CASE CommitApplied(t)
    BY <1>10 DEF CommitApplied, Finish
  <1>11. CASE CommitFails(t)
    BY <1>11 DEF CommitFails, Finish
  <1>12. QED
    BY <1>1, <1>2, <1>3, <1>4, <1>5, <1>6, <1>7, <1>8, <1>9, <1>10, <1>11 DEF TaskStep

LEMMA PermitTask ==
    ASSUME BaseOK, PermitInv, NEW t \in Tasks, TaskStep(t)
    PROVE  PermitInv'
  <1>1. \A u \in Tasks : u # t => pc'[u] = pc[u]
    BY TaskFrame
  <1>2. Cardinality(Inside) \in Nat /\ permits + Cardinality(Inside) = MaxConcurrent
    BY FS_CardinalityType DEF PermitInv, PermitConservation, Inside
  <1>3. CASE pc[t] \notin Holding /\ pc'[t] \in Holding /\ permits' = permits - 1
    <2>1. Inside' = Inside \union {t} /\ t \notin Inside
      BY <1>1, <1>3 DEF Inside
    <2>2. IsFiniteSet(Inside') /\ Cardinality(Inside') = Cardinality(Inside) + 1
      BY <2>1, FS_AddElement DEF PermitInv
    <2>3. permits' + Cardinality(Inside') = MaxConcurrent
      BY <1>2, <1>3, <2>2 DEF BaseOK
    <2>4. QED
      BY <2>2, <2>3 DEF PermitInv, PermitConservation, Inside
  <1>4. CASE pc[t] \in Holding /\ pc'[t] \notin Holding /\ permits' = permits + 1
    <2>1. Inside' = Inside \ {t} /\ t \in Inside
      BY <1>1, <1>4 DEF Inside
    <2>2. IsFiniteSet(Inside') /\ Cardinality(Inside') = Cardinality(Inside) - 1
      BY <2>1, FS_RemoveElement DEF PermitInv
    <2>3. permits' + Cardinality(Inside') = MaxConcurrent
      BY <1>2, <1>4, <2>2 DEF BaseOK
    <2>4. QED
      BY <2>2, <2>3 DEF PermitInv, PermitConservation, Inside
  <1>5. CASE (pc[t] \in Holding <=> pc'[t] \in Holding) /\ permits' = permits
    <2>1. Inside' = Inside
      BY <1>1, <1>5 DEF Inside
    <2>2. QED
      BY <2>1, <1>5 DEF PermitInv, PermitConservation, Inside
  <1>6. QED
    BY <1>3, <1>4, <1>5, TaskPermits

LEMMA PermitStep == BaseOK /\ FetchInv /\ PermitInv /\ [Next]_vars => PermitInv'
  <1> SUFFICES ASSUME BaseOK, FetchInv, PermitInv, [Next]_vars PROVE PermitInv'
    OBVIOUS
  <1>1. ASSUME Inside' = Inside, permits' = permits PROVE PermitInv'
    BY <1>1 DEF PermitInv, PermitConservation, Inside
  <1>2. ASSUME UNCHANGED pc, UNCHANGED permits PROVE PermitInv'
    BY <1>1, <1>2 DEF Inside
  <1>3. ASSUME NEW pubOk \in BOOLEAN, NEW conOk \in BOOLEAN, Boot(pubOk, conOk) PROVE PermitInv'
    BY <1>2, <1>3 DEF Boot
  <1>4. CASE Stop \/ StopPublisher \/ Rebalance
    BY <1>2, <1>4 DEF Stop, StopPublisher, Rebalance
  <1>5. CASE Restart
    <2>1. Inside' = {} /\ permits' = MaxConcurrent
      BY <1>5 DEF Restart, Inside, Holding
    <2>2. QED
      BY <2>1, FS_EmptySet, ConstantsOK DEF PermitInv, PermitConservation, Inside, ConstantsOK
  <1>6. ASSUME NEW i \in Ids, Forget(i) PROVE PermitInv'
    BY <1>2, <1>6 DEF Forget
  <1>7. ASSUME NEW k \in 1..MaxPoll, Poll(k) PROVE PermitInv'
    <2>1. ASSUME NEW t \in Tasks PROVE pc'[t] \in Holding <=> pc[t] \in Holding
      <3>1. CASE Off(t) \in Batch(k) /\ t[2] = delivered[Off(t)] + 1
        <4>1. pc'[t] = "queued"
          BY <1>7, <3>1 DEF Poll
        <4>2. pc[t] = "absent"
          BY <3>1, TaskFacts DEF FetchInv, TaskDelivered, BaseOK
        <4>3. QED
          BY <4>1, <4>2 DEF Holding
      <3>2. CASE ~(Off(t) \in Batch(k) /\ t[2] = delivered[Off(t)] + 1)
        BY <1>7, <3>2 DEF Poll
      <3>3. QED
        BY <3>1, <3>2
    <2>2. QED
      BY <1>1, <1>7, <2>1 DEF Poll, Inside
  <1>8. ASSUME NEW t \in Tasks, TaskStep(t) PROVE PermitInv'
    BY <1>8, PermitTask
  <1>9. CASE UNCHANGED vars
    BY <1>2, <1>9 DEF vars
  <1>10. QED
    BY <1>3, <1>4, <1>5, <1>6, <1>7, <1>8, <1>9 DEF Next, ProcessStep

LEMMA PermitCorrect == Spec => []PermitInv
  <1>1. Init => PermitInv
    <2> SUFFICES ASSUME Init PROVE PermitInv
      OBVIOUS
    <2>1. Inside = {} /\ permits = MaxConcurrent
      BY DEF Init, Inside, Holding
    <2>2. QED
      BY <2>1, FS_EmptySet, ConstantsOK DEF PermitInv, PermitConservation, Inside, ConstantsOK
  <1>2. QED
    BY <1>1, PermitStep, FetchCorrect, BaseCorrect, PTL DEF Spec

(* Whatever path a task leaves the semaphore by, free permits and tasks    *)
(* inside always add up to the limit, for any limit and any log.           *)
THEOREM PermitsConserved == Spec => []PermitConservation
  <1>1. PermitInv => PermitConservation
    BY DEF PermitInv
  <1>2. QED
    BY <1>1, PermitCorrect, PTL

(* The type invariant, the bound on redeliveries and the range of the      *)
(* permits included.                                                       *)
THEOREM TypeCorrect == Spec => []TypeOK
  <1>1. BaseOK /\ FetchInv /\ PermitInv => TypeOK
    <2> SUFFICES ASSUME BaseOK, FetchInv, PermitInv PROVE TypeOK
      OBVIOUS
    <2>1. delivered \in [Offsets -> 0..MaxDeliveries]
      <3>1. ASSUME NEW o \in Offsets PROVE delivered[o] \in 0..MaxDeliveries
        BY ConstantsOK DEF BaseOK, FetchInv, DeliveryBound, MaxDeliveries, ConstantsOK
      <3>2. QED
        BY <3>1 DEF BaseOK
    <2>2. permits \in Nat
      BY DEF BaseOK
    <2>3. permits \in 0..MaxConcurrent
      <3>1. Cardinality(Inside) \in Nat /\ permits + Cardinality(Inside) = MaxConcurrent
        BY FS_CardinalityType DEF PermitInv, PermitConservation, Inside
      <3>2. QED
        BY <2>2, <3>1, ConstantsOK DEF ConstantsOK
    <2>4. QED
      BY <2>1, <2>3 DEF BaseOK, TypeOK
  <1>2. QED
    BY <1>1, BaseCorrect, FetchCorrect, PermitCorrect, PTL

-----------------------------------------------------------------------------
(* The idempotency cache.  An id that is still remembered accounts for one *)
(* admission; a task inside the handler is known to the cache, or the      *)
(* cache has dropped its id since.                                         *)
AdmissionBound ==
    \A i \in Ids : admitted[i] <= forgotten[i] + restarts + (IF i \in remembered THEN 1 ELSE 0)
InsideHandler ==
    \A t \in Tasks : Admitted(t) =>
        /\ Kind[Off(t)] = "chat" /\ admitted[MsgId(t)] > 0
        /\ MsgId(t) \in remembered \/ forgotten[MsgId(t)] > 0
RememberedAdmitted == \A i \in remembered : admitted[i] > 0

CacheInv == AdmissionBound /\ InsideHandler /\ RememberedAdmitted /\ NoConcurrentDuplicate

(* Admissions to the handler come only from StartFresh. *)
LEMMA TaskAdmission ==
    ASSUME BaseOK, NEW t \in Tasks, TaskStep(t)
    PROVE  StartFresh(t) \/ ((Admitted(t)' => Admitted(t)) /\ UNCHANGED cache)
  <1> USE DEF BaseOK, Acquire, Admitted, PCs
  <1>1. CASE StartUndecodable(t)
    BY <1>1 DEF StartUndecodable
  <1>2. CASE StartRejected(t)
    BY <1>2 DEF StartRejected
  <1>3. CASE StartDuplicate(t)
    BY <1>3 DEF StartDuplicate
  <1>4. CASE StartFresh(t)
    BY <1>4
  <1>5. CASE HandlerReturns(t)
    BY <1>5 DEF HandlerReturns, CommitOrSkip, Finish
  <1>6. ASSUME NEW r \in BOOLEAN, HandlerRaises(t, r)
        PROVE  (Admitted(t)' => Admitted(t)) /\ UNCHANGED cache
    BY <1>6 DEF HandlerRaises
  <1>7. CASE RetryAfterBackoff(t)
    BY <1>7 DEF RetryAfterBackoff
  <1>8. CASE PublishDLQ(t)
    BY <1>8 DEF PublishDLQ, CommitOrSkip, Finish
  <1>9. CASE PublishDLQFails(t)
    BY <1>9 DEF PublishDLQFails, Finish
  <1>10. CASE CommitApplied(t)
    BY <1>10 DEF CommitApplied, Finish
  <1>11. CASE CommitFails(t)
    BY <1>11 DEF CommitFails, Finish
  <1>12. QED
    BY <1>1, <1>2, <1>3, <1>4, <1>5, <1>6, <1>7, <1>8, <1>9, <1>10, <1>11 DEF TaskStep

LEMMA CacheFresh ==
    ASSUME BaseOK, CacheInv, NEW t \in Tasks, StartFresh(t)
    PROVE  CacheInv'
  <1> DEFINE i == MsgId(t)
  <1>1. /\ i \in Ids /\ i \notin remembered /\ remembered' = remembered \union {i}
        /\ Kind[Off(t)] = "chat" /\ ~Admitted(t)
        /\ UNCHANGED <<forgotten, restarts>>
        /\ \A j \in Ids : admitted'[j] = IF j = i THEN admitted[j] + 1 ELSE admitted[j]
        /\ \A u \in Tasks : u # t => pc'[u] = pc[u]
    BY TaskFacts DEF StartFresh, Acquire, Admitted, process, BaseOK
  <1>2. AdmissionBound'
    BY <1>1 DEF CacheInv, AdmissionBound, BaseOK
  <1>3. RememberedAdmitted'
    BY <1>1 DEF CacheInv, RememberedAdmitted, BaseOK
  <1>4. InsideHandler'
    <2> SUFFICES ASSUME NEW u \in Tasks, Admitted(u)'
                 PROVE  /\ Kind[Off(u)] = "chat" /\ admitted'[MsgId(u)] > 0
                        /\ MsgId(u) \in remembered' \/ forgotten'[MsgId(u)] > 0
      BY DEF InsideHandler
    <2>1. admitted[MsgId(u)] \in Nat /\ MsgId(u) \in Ids
      BY TaskFacts DEF BaseOK
    <2>2. CASE u = t
      BY <1>1, <2>1, <2>2
    <2>3. CASE u # t
      BY <1>1, <2>1, <2>3 DEF CacheInv, InsideHandler, Admitted
    <2>4. QED
      BY <2>2, <2>3
  <1>5. NoConcurrentDuplicate'
    <2> SUFFICES ASSUME NEW u \in Tasks, NEW v \in Tasks, u # v, Admitted(u)', Admitted(v)',
                        MsgId(u) = MsgId(v)
                 PROVE  forgotten[MsgId(u)] > 0
      BY <1>1 DEF NoConcurrentDuplicate
    <2>1. \A w \in Tasks : (w # t /\ Admitted(w)') => Admitted(w)
      BY <1>1 DEF Admitted
    <2>2. QED
      BY <1>1, <2>1 DEF CacheInv, InsideHandler, NoConcurrentDuplicate
  <1>6. QED
    BY <1>2, <1>3, <1>4, <1>5 DEF CacheInv

LEMMA CacheStep == BaseOK /\ FetchInv /\ CacheInv /\ [Next]_vars => CacheInv'
  <1> SUFFICES ASSUME BaseOK, FetchInv, CacheInv, [Next]_vars PROVE CacheInv'
    OBVIOUS
  <1>1. ASSUME UNCHANGED <<remembered, admitted, forgotten, restarts>>,
               \A u \in Tasks : Admitted(u)' => Admitted(u)
        PROVE  CacheInv'
    BY <1>1 DEF CacheInv, AdmissionBound, InsideHandler, RememberedAdmitted, NoConcurrentDuplicate
  <1>2. ASSUME UNCHANGED <<remembered, admitted, forgotten, restarts, pc>> PROVE CacheInv'
    BY <1>1, <1>2 DEF Admitted
  <1>3. ASSUME NEW pubOk \in BOOLEAN, NEW conOk \in BOOLEAN, Boot(pubOk, conOk) PROVE CacheInv'
    BY <1>2, <1>3 DEF Boot, cache
  <1>4. CASE Stop \/ StopPublisher \/ Rebalance
    BY <1>2, <1>4 DEF Stop, StopPublisher, Rebalance, cache
  <1>5. CASE Restart
    <2>1. /\ remembered' = {} /\ restarts' = restarts + 1 /\ UNCHANGED <<admitted, forgotten>>
          /\ \A u \in Tasks : ~Admitted(u)'
      BY <1>5 DEF Restart, Admitted
    <2>2. AdmissionBound'
      BY <2>1 DEF CacheInv, AdmissionBound, BaseOK
    <2>3. QED
      BY <2>1, <2>2 DEF CacheInv, InsideHandler, RememberedAdmitted, NoConcurrentDuplicate
  <1>6. ASSUME NEW i \in Ids, Forget(i) PROVE CacheInv'
    <2>1. /\ i \in remembered /\ remembered' = remembered \ {i}
          /\ UNCHANGED <<admitted, restarts, pc>>
          /\ \A j \in Ids : forgotten'[j] = IF j = i THEN forgotten[j] + 1 ELSE forgotten[j]
          /\ \A j \in Ids : forgotten[j] \in Nat /\ admitted[j] \in Nat
      BY <1>6, ConstantsOK DEF Forget, process, BaseOK, ConstantsOK
    <2>2. AdmissionBound'
      BY <2>1 DEF CacheInv, AdmissionBound, BaseOK
    <2>3. RememberedAdmitted'
      BY <2>1 DEF CacheInv, RememberedAdmitted
    <2>4. InsideHandler' /\ NoConcurrentDuplicate'
      BY <2>1, TaskFacts DEF CacheInv, InsideHandler, NoConcurrentDuplicate, Admitted
    <2>5. QED
      BY <2>2, <2>3, <2>4 DEF CacheInv
  <1>7. ASSUME NEW k \in 1..MaxPoll, Poll(k) PROVE CacheInv'
    <2>1. \A u \in Tasks : Admitted(u)' => Admitted(u)
      BY <1>7 DEF Poll, Admitted
    <2>2. QED
      BY <1>1, <1>7, <2>1 DEF Poll, cache
  <1>8. ASSUME NEW t \in Tasks, TaskStep(t) PROVE CacheInv'
    <2>1. CASE StartFresh(t)
      BY <2>1, CacheFresh
    <2>2. CASE (Admitted(t)' => Admitted(t)) /\ UNCHANGED cache
      <3>1. \A u \in Tasks : Admitted(u)' => Admitted(u)
        BY <1>8, <2>2, TaskFrame DEF Admitted
      <3>2. QED
        BY <1>1, <1>8, <2>2, <3>1, TaskFrame DEF cache, process
    <2>3. QED
      BY <1>8, <2>1, <2>2, TaskAdmission
  <1>9. CASE UNCHANGED vars
    BY <1>2, <1>9 DEF vars, cache, process
  <1>10. QED
    BY <1>3, <1>4, <1>5, <1>6, <1>7, <1>8, <1>9 DEF Next, ProcessStep

LEMMA CacheCorrect == Spec => []CacheInv
  <1>1. Init => CacheInv
    BY TaskFacts DEF Init, CacheInv, AdmissionBound, InsideHandler, RememberedAdmitted,
                     NoConcurrentDuplicate, Admitted
  <1>2. QED
    BY <1>1, CacheStep, FetchCorrect, BaseCorrect, PTL DEF Spec

(* An id enters the handler again only after the cache dropped it or the   *)
(* process restarted, however often and wherever the log repeats it.       *)
THEOREM AdmittedOncePerCacheLife == Spec => []OncePerCacheLife
  <1>1. BaseOK /\ CacheInv => OncePerCacheLife
    BY ConstantsOK DEF CacheInv, AdmissionBound, OncePerCacheLife, BaseOK, ConstantsOK
  <1>2. QED
    BY <1>1, BaseCorrect, CacheCorrect, PTL

(* Two tasks are never inside the handler for one id unless the cache      *)
(* dropped the id, for any number of concurrent tasks.                     *)
THEOREM ConcurrentDuplicatesExcluded == Spec => []NoConcurrentDuplicate
  <1>1. CacheInv => NoConcurrentDuplicate
    BY DEF CacheInv
  <1>2. QED
    BY <1>1, CacheCorrect, PTL

-----------------------------------------------------------------------------
(* What is on record of a task.  An id in the cache was put there by a     *)
(* task that entered the handler, and a task that entered it never waits   *)
(* for a permit again.                                                     *)
EnteredStarted == \A t \in entered : pc[t] \notin {"absent", "queued"}
RememberedEntered == \A i \in remembered : \E t \in entered : MsgId(t) = i

EntryInv == EnteredStarted /\ RememberedEntered

Entering(t) == pc[t] = "queued" /\ pc'[t] = "handling" /\ remembered' \subseteq remembered \union {MsgId(t)}

(* Nothing is taken off the record, and a task enters the handler only     *)
(* from the queue.                                                         *)
LEMMA HistoryGrows ==
    ASSUME BaseOK, [Next]_vars
    PROVE  /\ dlq \subseteq dlq' /\ returned \subseteq returned' /\ entered \subseteq entered'
           /\ \/ UNCHANGED entered /\ remembered' \subseteq remembered
              \/ \E t \in Tasks : Entering(t) /\ entered' = entered \union {t}
  <1> USE DEF cache
  <1>1. ASSUME NEW t \in Tasks, TaskStep(t)
        PROVE  /\ dlq \subseteq dlq' /\ returned \subseteq returned' /\ entered \subseteq entered'
               /\ \/ UNCHANGED <<entered, remembered>>
                  \/ Entering(t) /\ entered' = entered \union {t}
    <2>1. CASE StartUndecodable(t) \/ StartRejected(t) \/ StartDuplicate(t)
      BY <2>1 DEF StartUndecodable, StartRejected, StartDuplicate
    <2>2. CASE StartFresh(t)
      BY <2>2 DEF StartFresh, Acquire, Entering, BaseOK
    <2>3. CASE HandlerReturns(t)
      BY <2>3 DEF HandlerReturns
    <2>4. ASSUME NEW r \in BOOLEAN, HandlerRaises(t, r)
          PROVE  UNCHANGED <<dlq, returned, entered, remembered>>
      BY <2>4 DEF HandlerRaises
    <2>5. CASE RetryAfterBackoff(t) \/ PublishDLQ(t) \/ PublishDLQFails(t)
      BY <2>5 DEF RetryAfterBackoff, PublishDLQ, PublishDLQFails
    <2>6. CASE CommitApplied(t) \/ CommitFails(t)
      BY <2>6 DEF CommitApplied, CommitFails
    <2>7. QED
      BY <1>1, <2>1, <2>2, <2>3, <2>4, <2>5, <2>6 DEF TaskStep
  <1>2. ASSUME NEW pubOk \in BOOLEAN, NEW conOk \in BOOLEAN, Boot(pubOk, conOk)
        PROVE  UNCHANGED <<dlq, returned, entered, remembered>>
    BY <1>2 DEF Boot
  <1>3. CASE Stop \/ StopPublisher \/ Restart \/ Rebalance
    BY <1>3 DEF Stop, StopPublisher, Restart, Rebalance
  <1>4. ASSUME NEW i \in Ids, Forget(i)
        PROVE  UNCHANGED <<dlq, returned, entered>> /\ remembered' \subseteq remembered
    BY <1>4 DEF Forget
  <1>5. ASSUME NEW k \in 1..MaxPoll, Poll(k) PROVE UNCHANGED <<dlq, returned, entered, remembered>>
    BY <1>5 DEF Poll
  <1>6. CASE UNCHANGED vars
    BY <1>6 DEF vars
  <1>7. QED
    BY <1>1, <1>2, <1>3, <1>4, <1>5, <1>6 DEF Next, ProcessStep

(* A task that has started stays started, and an ended one stays ended.    *)
LEMMA NeverRequeued ==
    ASSUME BaseOK, FetchInv, [Next]_vars, NEW t \in Tasks, pc[t] \notin {"absent", "queued"}
    PROVE  pc'[t] \notin {"absent", "queued"} /\ (pc[t] = "ended" => pc'[t] = "ended")
  <1> DEFINE Kept == pc'[t] \notin {"absent", "queued"} /\ (pc[t] = "ended" => pc'[t] = "ended")
  <1> USE DEF BaseOK, PCs
  <1>1. ASSUME NEW u \in Tasks, TaskStep(u) PROVE Kept
    <2>1. CASE u # t
      BY <1>1, <2>1, TaskFrame
    <2>2. CASE u = t
      <3>1. ~(StartUndecodable(t) \/ StartRejected(t) \/ StartDuplicate(t) \/ StartFresh(t))
        BY DEF StartUndecodable, StartRejected, StartDuplicate, StartFresh, Acquire
      <3>2. CASE HandlerReturns(t)
        BY <3>2 DEF HandlerReturns, CommitOrSkip, Finish
      <3>3. ASSUME NEW r \in BOOLEAN, HandlerRaises(t, r) PROVE Kept
        BY <3>3 DEF HandlerRaises
      <3>4. CASE RetryAfterBackoff(t)
        BY <3>4 DEF RetryAfterBackoff
      <3>5. CASE PublishDLQ(t) \/ PublishDLQFails(t)
        BY <3>5 DEF PublishDLQ, PublishDLQFails, CommitOrSkip, Finish
      <3>6. CASE CommitApplied(t) \/ CommitFails(t)
        BY <3>6 DEF CommitApplied, CommitFails, Finish
      <3>7. QED
        BY <1>1, <2>2, <3>1, <3>2, <3>3, <3>4, <3>5, <3>6 DEF TaskStep
    <2>3. QED
      BY <2>1, <2>2
  <1>2. ASSUME NEW pubOk \in BOOLEAN, NEW conOk \in BOOLEAN, Boot(pubOk, conOk) PROVE Kept
    BY <1>2 DEF Boot
  <1>3. CASE Stop \/ StopPublisher \/ Rebalance
    BY <1>3 DEF Stop, StopPublisher, Rebalance
  <1>4. CASE Restart
    BY <1>4 DEF Restart
  <1>5. ASSUME NEW i \in Ids, Forget(i) PROVE Kept
    BY <1>5 DEF Forget
  <1>6. ASSUME NEW k \in 1..MaxPoll, Poll(k) PROVE Kept
    <2>1. ~(t[2] = delivered[Off(t)] + 1)
      BY TaskFacts DEF FetchInv, TaskDelivered
    <2>2. pc'[t] = pc[t]
      BY <1>6, <2>1 DEF Poll
    <2>3. QED
      BY <2>2
  <1>7. CASE UNCHANGED vars
    BY <1>7 DEF vars
  <1>8. QED
    BY <1>1, <1>2, <1>3, <1>4, <1>5, <1>6, <1>7 DEF Next, ProcessStep

LEMMA EntryStep == BaseOK /\ FetchInv /\ EntryInv /\ [Next]_vars => EntryInv'
  <1> SUFFICES ASSUME BaseOK, FetchInv, EntryInv, [Next]_vars PROVE EntryInv'
    OBVIOUS
  <1>1. \A t \in entered : pc'[t] \notin {"absent", "queued"}
    BY NeverRequeued DEF EntryInv, EnteredStarted, BaseOK
  <1>2. CASE UNCHANGED entered /\ remembered' \subseteq remembered
    BY <1>1, <1>2 DEF EntryInv, EnteredStarted, RememberedEntered
  <1>3. ASSUME NEW t \in Tasks, Entering(t), entered' = entered \union {t} PROVE EntryInv'
    <2>1. EnteredStarted'
      BY <1>1, <1>3 DEF EnteredStarted, Entering
    <2>2. RememberedEntered'
      BY <1>3 DEF EntryInv, RememberedEntered, Entering
    <2>3. QED
      BY <2>1, <2>2 DEF EntryInv
  <1>4. QED
    BY <1>2, <1>3, HistoryGrows

LEMMA EntryCorrect == Spec => []EntryInv
  <1>1. Init => EntryInv
    BY DEF Init, EntryInv, EnteredStarted, RememberedEntered
  <1>2. QED
    BY <1>1, EntryStep, FetchCorrect, BaseCorrect, PTL DEF Spec

-----------------------------------------------------------------------------
(* The commits.  The committed offset is the end of some acknowledged      *)
(* record, and a task commits only when its handler returned, when its     *)
(* record is on the dead-letter topic, or as a duplicate of another task   *)
(* that entered the handler.                                               *)
Accounted(t) == t \in returned \/ t \in dlq \/ Duplicate(t)

CommitIsAck == committed > 1 => \E t \in acked : Off(t) = committed - 1
CommitAccounted == \A t \in Tasks : pc[t] = "committing" => Accounted(t)
AckAccounted == \A t \in acked : pc[t] = "ended" /\ Accounted(t)
ReturnedChat == \A t \in returned : Kind[Off(t)] = "chat"

CommitInv == CommitIsAck /\ CommitAccounted /\ AckAccounted /\ ReturnedChat

(* A started task once accounted for stays so.                             *)
LEMMA AccountedStable ==
    ASSUME BaseOK, [Next]_vars, NEW t \in Tasks, Accounted(t), pc[t] # "queued"
    PROVE  Accounted(t)'
  <1>1. CASE t \in returned \/ t \in dlq
    BY <1>1, HistoryGrows DEF Accounted
  <1>2. CASE Duplicate(t)
    <2>1. t \notin entered'
      BY <1>2, HistoryGrows DEF Duplicate, Entering
    <2>2. entered \subseteq entered'
      BY HistoryGrows
    <2>3. Duplicate(t)'
      BY <1>2, <2>1, <2>2 DEF Duplicate
    <2>4. QED
      BY <2>3 DEF Accounted
  <1>3. QED
    BY <1>1, <1>2 DEF Accounted

(* A task that goes to commit is accounted for.                            *)
LEMMA CommitEntry ==
    ASSUME BaseOK, CacheInv, EntryInv, NEW t \in Tasks, TaskStep(t), pc'[t] = "committing"
    PROVE  Accounted(t)'
  <1> USE DEF BaseOK, Acquire, PCs
  <1>1. CASE StartUndecodable(t) \/ StartRejected(t)
    BY <1>1 DEF StartUndecodable, StartRejected
  <1>2. CASE StartDuplicate(t)
    <2>1. pc[t] = "queued" /\ Kind[Off(t)] = "chat" /\ MsgId(t) \in remembered /\ UNCHANGED entered
      BY <1>2 DEF StartDuplicate, cache
    <2>2. t \notin entered /\ \E u \in entered : MsgId(u) = MsgId(t)
      BY <2>1 DEF EntryInv, EnteredStarted, RememberedEntered
    <2>3. Duplicate(t)'
      BY <2>1, <2>2 DEF Duplicate
    <2>4. QED
      BY <2>3 DEF Accounted
  <1>3. CASE StartFresh(t)
    BY <1>3 DEF StartFresh
  <1>4. CASE HandlerReturns(t)
    BY <1>4 DEF HandlerReturns, Accounted
  <1>5. ASSUME NEW r \in BOOLEAN, HandlerRaises(t, r) PROVE FALSE
    BY <1>5 DEF HandlerRaises
  <1>6. CASE RetryAfterBackoff(t)
    BY <1>6 DEF RetryAfterBackoff
  <1>7. CASE PublishDLQ(t)
    BY <1>7 DEF PublishDLQ, Accounted
  <1>8. CASE PublishDLQFails(t) \/ CommitApplied(t) \/ CommitFails(t)
    BY <1>8 DEF PublishDLQFails, CommitApplied, CommitFails, Finish
  <1>9. QED
    BY <1>1, <1>2, <1>3, <1>4, <1>5, <1>6, <1>7, <1>8 DEF TaskStep

(* Only a task whose record is a chat message has its handler return.      *)
LEMMA ReturnStep ==
    ASSUME BaseOK, CacheInv, ReturnedChat, [Next]_vars
    PROVE  ReturnedChat'
  <1>1. ASSUME UNCHANGED returned PROVE ReturnedChat'
    BY <1>1 DEF ReturnedChat
  <1>2. ASSUME NEW t \in Tasks, TaskStep(t) PROVE ReturnedChat'
    <2>1. CASE StartUndecodable(t) \/ StartRejected(t) \/ StartDuplicate(t) \/ StartFresh(t)
      BY <1>1, <2>1 DEF StartUndecodable, StartRejected, StartDuplicate, StartFresh
    <2>2. CASE HandlerReturns(t)
      <3>1. returned' = returned \union {t} /\ Kind[Off(t)] = "chat"
        BY <2>2 DEF HandlerReturns, CacheInv, InsideHandler, Admitted
      <3>2. QED
        BY <3>1 DEF ReturnedChat
    <2>3. ASSUME NEW r \in BOOLEAN, HandlerRaises(t, r) PROVE ReturnedChat'
      BY <1>1, <2>3 DEF HandlerRaises
    <2>4. CASE RetryAfterBackoff(t) \/ PublishDLQ(t) \/ PublishDLQFails(t)
      BY <1>1, <2>4 DEF RetryAfterBackoff, PublishDLQ, PublishDLQFails
    <2>5. CASE CommitApplied(t) \/ CommitFails(t)
      BY <1>1, <2>5 DEF CommitApplied, CommitFails
    <2>6. QED
      BY <1>2, <2>1, <2>2, <2>3, <2>4, <2>5 DEF TaskStep
  <1>3. ASSUME NEW pubOk \in BOOLEAN, NEW conOk \in BOOLEAN, Boot(pubOk, conOk) PROVE ReturnedChat'
    BY <1>1, <1>3 DEF Boot
  <1>4. CASE Stop \/ StopPublisher \/ Restart \/ Rebalance
    BY <1>1, <1>4 DEF Stop, StopPublisher, Restart, Rebalance
  <1>5. ASSUME NEW i \in Ids, Forget(i) PROVE ReturnedChat'
    BY <1>1, <1>5 DEF Forget
  <1>6. ASSUME NEW k \in 1..MaxPoll, Poll(k) PROVE ReturnedChat'
    BY <1>1, <1>6 DEF Poll
  <1>7. CASE UNCHANGED vars
    BY <1>1, <1>7 DEF vars
  <1>8. QED
    BY <1>2, <1>3, <1>4, <1>5, <1>6, <1>7 DEF Next, ProcessStep

LEMMA CommitStep ==
    BaseOK /\ FetchInv /\ CacheInv /\ EntryInv /\ CommitInv /\ [Next]_vars => CommitInv'
  <1> SUFFICES ASSUME BaseOK, FetchInv, CacheInv, EntryInv, CommitInv, [Next]_vars PROVE CommitInv'
    OBVIOUS
  <1>1. ReturnedChat'
    BY ReturnStep DEF CommitInv
  <1>2. \A t \in acked : pc'[t] = "ended" /\ Accounted(t)'
    <2> SUFFICES ASSUME NEW t \in acked PROVE pc'[t] = "ended" /\ Accounted(t)'
      OBVIOUS
    <2>1. t \in Tasks /\ pc[t] = "ended" /\ Accounted(t)
      BY DEF CommitInv, AckAccounted, BaseOK
    <2>2. QED
      BY <2>1, NeverRequeued, AccountedStable
  <1>3. \A t \in Tasks : pc[t] = "committing" => Accounted(t)'
    BY AccountedStable DEF CommitInv, CommitAccounted
  <1>4. ASSUME UNCHANGED broker,
               \A t \in Tasks : pc'[t] = "committing" => pc[t] = "committing" \/ Accounted(t)'
        PROVE  CommitInv'
    <2>1. CommitIsAck'
      BY <1>4 DEF CommitInv, CommitIsAck, broker
    <2>2. AckAccounted'
      BY <1>2, <1>4 DEF AckAccounted, broker
    <2>3. CommitAccounted'
      BY <1>3, <1>4 DEF CommitAccounted
    <2>4. QED
      BY <1>1, <2>1, <2>2, <2>3 DEF CommitInv
  <1>5. ASSUME UNCHANGED <<broker, pc>> PROVE CommitInv'
    BY <1>4, <1>5
  <1>6. ASSUME NEW pubOk \in BOOLEAN, NEW conOk \in BOOLEAN, Boot(pubOk, conOk) PROVE CommitInv'
    BY <1>5, <1>6 DEF Boot
  <1>7. CASE Stop \/ StopPublisher \/ Rebalance
    BY <1>5, <1>7 DEF Stop, StopPublisher, Rebalance
  <1>8. CASE Restart
    BY <1>4, <1>8 DEF Restart
  <1>9. ASSUME NEW i \in Ids, Forget(i) PROVE CommitInv'
    BY <1>5, <1>9 DEF Forget
  <1>10. ASSUME NEW k \in 1..MaxPoll, Poll(k) PROVE CommitInv'
    <2>1. \A t \in Tasks : pc'[t] = "committing" => pc[t] = "committing"
      BY <1>10 DEF Poll
    <2>2. QED
      BY <1>4, <1>10, <2>1 DEF Poll
  <1>11. ASSUME NEW t \in Tasks, TaskStep(t) PROVE CommitInv'
    <2>1. CASE UNCHANGED broker
      <3>1. \A u \in Tasks : pc'[u] = "committing" => pc[u] = "committing" \/ Accounted(u)'
        BY <1>11, CommitEntry, TaskFrame
      <3>2. QED
        BY <1>4, <2>1, <3>1
    <2>2. CASE CommitApplied(t)
      <3>1. /\ Off(t) \in Offsets /\ Off(t) \in Int /\ pc[t] = "committing" /\ pc'[t] = "ended"
            /\ committed' = Off(t) + 1 /\ acked' = acked \union {t}
        BY <2>2, TaskFacts DEF CommitApplied, Finish, BaseOK
      <3>2. CommitIsAck'
        BY <3>1 DEF CommitIsAck
      <3>3. AckAccounted'
        BY <1>2, <1>3, <3>1 DEF AckAccounted
      <3>4. \A u \in Tasks : pc'[u] = "committing" => pc[u] = "committing"
        BY <2>2, <3>1, TaskFrame, <1>11
      <3>5. CommitAccounted'
        BY <1>3, <3>4 DEF CommitAccounted
      <3>6. QED
        BY <1>1, <3>2, <3>3, <3>5 DEF CommitInv
    <2>3. QED
      BY <1>11, <2>1, <2>2, TaskFrame
  <1>12. CASE UNCHANGED vars
    BY <1>5, <1>12 DEF vars
  <1>13. QED
    BY <1>6, <1>7, <1>8, <1>9, <1>10, <1>11, <1>12 DEF Next, ProcessStep

(* No record is lost by its own failure: one the committed offset passed   *)
(* while nothing settled it was overtaken by the commit of a later record, *)
(* or every task that committed it was the duplicate of another task that  *)
(* entered the handler.                                                    *)
THEOREM OnlyOvertakingLoses == Spec => []LossIsOvertaking
  <1>1. Init => CommitInv
    BY DEF Init, CommitInv, CommitIsAck, CommitAccounted, AckAccounted, ReturnedChat
  <1>2. BaseOK /\ CommitInv => LossIsOvertaking
    <2> SUFFICES ASSUME BaseOK, CommitInv, NEW o \in Offsets, o < committed, ~Settled(o)
                 PROVE  /\ \A t \in acked : Off(t) = o => Duplicate(t)
                        /\ \E t \in acked : Off(t) >= o
      BY DEF LossIsOvertaking
    <2>1. ASSUME NEW t \in acked, Off(t) = o PROVE Duplicate(t)
      <3>1. t \notin dlq
        BY <2>1 DEF Settled
      <3>2. t \notin returned
        BY <2>1 DEF CommitInv, ReturnedChat, Settled, MsgId
      <3>3. QED
        BY <3>1, <3>2 DEF CommitInv, AckAccounted, Accounted
    <2>2. o \in Int /\ o >= 1 /\ committed \in Int
      BY ConstantsOK DEF Offsets, BaseOK, ConstantsOK
    <2>3. \E t \in acked : Off(t) = committed - 1
      BY <2>2 DEF CommitInv, CommitIsAck
    <2>4. PICK t \in acked : Off(t) = committed - 1
      BY <2>3
    <2>5. Off(t) >= o
      BY <2>2, <2>4
    <2>6. QED
      BY <2>1, <2>5
  <1>3. QED
    BY <1>1, <1>2, CommitStep, BaseCorrect, FetchCorrect, CacheCorrect, EntryCorrect, PTL DEF Spec

=============================================================================
