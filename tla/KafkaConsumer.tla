---------------------------- MODULE KafkaConsumer ----------------------------
(***************************************************************************)
(* KafkaConsumerEngine (app/consumers/kafka_consumer.py): the poll loop,   *)
(* one asyncio task per record behind a semaphore, the in-memory           *)
(* idempotency cache, the retry loop around the handler, the dead-letter   *)
(* topic and the manual offset commits of one input partition, inside a    *)
(* process that boots, serves, shuts down and restarts (app/main.py).      *)
(*                                                                         *)
(* An action is the code between two awaits that can suspend.  The         *)
(* partition is the immutable log 1..LogLength: the record at offset o     *)
(* carries a body of kind Kind[o] and, when it parses, message id Id[o].   *)
(***************************************************************************)
EXTENDS Integers, FiniteSets

CONSTANTS
    Ids,            \* message ids
    LogLength,      \* number of records in the partition
    Kind,           \* kind of the record at each offset
    Id,             \* message id of the record at each offset
    MaxConcurrent,  \* permits of the semaphore (max_concurrent_tasks)
    MaxPoll,        \* records one getmany may return (max_records)
    MaxAttempts,    \* handler attempts per admission (3 in the code)
    MaxRestarts,    \* bound: process restarts explored
    MaxRebalances,  \* bound: group rebalances explored
    MaxForgets      \* bound: cache expiries or evictions explored per id

Offsets == 1..LogLength
Kinds   == {"chat", "incomplete", "malformed", "undecodable"}

ASSUME ConstantsOK ==
    /\ LogLength \in Nat \ {0}
    /\ Kind \in [Offsets -> Kinds]
    /\ Id \in [Offsets -> Ids]
    /\ MaxConcurrent \in Nat \ {0}
    /\ MaxPoll \in Nat \ {0}
    /\ MaxAttempts \in Nat \ {0}
    /\ MaxRestarts \in Nat
    /\ MaxRebalances \in Nat
    /\ MaxForgets \in Nat

(* A task is the n-th delivery of an offset; only a restart or a rebalance *)
(* moves the fetch position back, so n never exceeds MaxDeliveries.        *)
MaxDeliveries == 1 + MaxRestarts + MaxRebalances
Tasks  == Offsets \X (1..MaxDeliveries)
Off(t) == t[1]
MsgId(t) == Id[Off(t)]

VARIABLES
    phase,      \* lifespan of the process: booting, serving, closing, closed
    running,    \* _running
    publisherUp,\* KafkaPublisher._started
    committed,  \* the group's committed offset: next record after a restart
    position,   \* next offset getmany returns
    delivered,  \* how often each offset was handed out
    pc,         \* where each task is suspended
    attempt,    \* current attempt of _execute_with_consumer_retries
    permits,    \* free permits of _semaphore
    remembered, \* ids with a live entry in _processed_ids
    restarts, rebalances,
    admitted,   \* history: how often an id passed the idempotency check
    forgotten,  \* history: how often the cache dropped an id
    entered,    \* history: tasks that passed the idempotency check
    returned,   \* history: tasks whose handler call returned
    dlq,        \* history: tasks that published their record to the dead-letter topic
    acked       \* history: tasks whose own commit reached the broker

process == <<phase, running, publisherUp, position, rebalances, restarts>>
broker  == <<committed, acked>>
cache   == <<remembered, admitted, entered, forgotten>>
vars == <<process, broker, cache, delivered, pc, attempt, permits, returned, dlq>>

PCs == {"absent", "queued", "handling", "backoff", "dlq", "committing", "ended"}
Holding == {"handling", "backoff", "dlq", "committing"}   \* inside the semaphore
Admitted(t) == pc[t] \in {"handling", "backoff"}          \* inside the handler

Init ==
    /\ phase = "booting" /\ running = FALSE /\ publisherUp = FALSE
    /\ committed = 1 /\ position = 1
    /\ delivered = [o \in Offsets |-> 0]
    /\ pc = [t \in Tasks |-> "absent"]
    /\ attempt = [t \in Tasks |-> 0]
    /\ permits = MaxConcurrent
    /\ remembered = {}
    /\ restarts = 0 /\ rebalances = 0
    /\ admitted = [i \in Ids |-> 0]
    /\ forgotten = [i \in Ids |-> 0]
    /\ entered = {} /\ returned = {} /\ dlq = {} /\ acked = {}

-----------------------------------------------------------------------------
(* The process around the engine. *)

(* lifespan startup: the publisher, then the consumer.  Whatever fails is  *)
(* swallowed and the service is marked ready all the same.                 *)
Boot(pubOk, conOk) ==
    /\ phase = "booting"
    /\ phase' = "serving"
    /\ publisherUp' = pubOk
    /\ running' = (pubOk /\ conOk)
    /\ position' = committed
    /\ UNCHANGED <<restarts, rebalances, broker, cache, delivered, pc, attempt, permits,
                   returned, dlq>>

(* lifespan shutdown calls stop(): only the poll loop is cancelled, tasks  *)
(* in flight go on.                                                        *)
Stop ==
    /\ phase = "serving"
    /\ phase' = "closing"
    /\ running' = FALSE
    /\ UNCHANGED <<publisherUp, position, rebalances, restarts, broker, cache, delivered, pc,
                   attempt, permits, returned, dlq>>

StopPublisher ==
    /\ phase = "closing"
    /\ phase' = "closed"
    /\ publisherUp' = FALSE
    /\ UNCHANGED <<running, position, rebalances, restarts, broker, cache, delivered, pc,
                   attempt, permits, returned, dlq>>

(* The process exits or dies, at any point, and a new one boots: tasks,    *)
(* permits and the idempotency cache live in memory and are gone.          *)
Restart ==
    /\ phase # "booting"
    /\ restarts < MaxRestarts
    /\ restarts' = restarts + 1
    /\ phase' = "booting" /\ running' = FALSE /\ publisherUp' = FALSE
    /\ pc' = [t \in Tasks |-> IF pc[t] = "absent" THEN "absent" ELSE "ended"]
    /\ attempt' = [t \in Tasks |-> 0]
    /\ permits' = MaxConcurrent
    /\ remembered' = {}
    /\ UNCHANGED <<position, rebalances, broker, admitted, entered, forgotten, delivered,
                   returned, dlq>>

(* The group coordinator gives the partition away and back: the fetch      *)
(* position restarts at the committed offset, tasks and cache survive.     *)
Rebalance ==
    /\ running
    /\ rebalances < MaxRebalances
    /\ rebalances' = rebalances + 1
    /\ position' = committed
    /\ UNCHANGED <<phase, running, publisherUp, restarts, broker, cache, delivered, pc, attempt,
                   permits, returned, dlq>>

(* A cache entry outlives its TTL or is the least recently used of a full  *)
(* cache.                                                                  *)
Forget(i) ==
    /\ i \in remembered
    /\ forgotten[i] < MaxForgets
    /\ remembered' = remembered \ {i}
    /\ forgotten' = [forgotten EXCEPT ![i] = @ + 1]
    /\ UNCHANGED <<process, broker, admitted, entered, delivered, pc, attempt, permits,
                   returned, dlq>>

-----------------------------------------------------------------------------
(* _consume_loop: one getmany and a task for each record it returned.      *)
(* Nothing bounds the number of tasks waiting for the semaphore.           *)
Batch(k) == position .. position + k - 1

(* Mutated form: a task for the first record of the batch only. *)
PollFirstOnly(k) ==
    /\ running
    /\ position + k - 1 <= LogLength
    /\ position' = position + k
    /\ delivered' = [delivered EXCEPT ![position] = @ + 1]
    /\ pc' = [pc EXCEPT ![<<position, delivered[position] + 1>>] = "queued"]
    /\ UNCHANGED <<phase, running, publisherUp, restarts, rebalances, broker, cache, attempt,
                   permits, returned, dlq>>

(* Mutated form: bodies decoded in the poll loop, a bad one polled again. *)
PollDecodes(k) ==
    /\ running
    /\ position + k - 1 <= LogLength
    /\ \A o \in Batch(k) : Kind[o] # "undecodable"
    /\ position' = position + k
    /\ delivered' = [o \in Offsets |-> IF o \in Batch(k) THEN delivered[o] + 1 ELSE delivered[o]]
    /\ pc' = [t \in Tasks |-> IF Off(t) \in Batch(k) /\ t[2] = delivered[Off(t)] + 1
                              THEN "queued" ELSE pc[t]]
    /\ UNCHANGED <<phase, running, publisherUp, restarts, rebalances, broker, cache, attempt,
                   permits, returned, dlq>>

Poll(k) ==
    /\ running
    /\ position + k - 1 <= LogLength
    /\ position' = position + k
    /\ delivered' = [o \in Offsets |-> IF o \in Batch(k) THEN delivered[o] + 1 ELSE delivered[o]]
    /\ pc' = [t \in Tasks |-> IF Off(t) \in Batch(k) /\ t[2] = delivered[Off(t)] + 1
                              THEN "queued" ELSE pc[t]]
    /\ UNCHANGED <<phase, running, publisherUp, restarts, rebalances, broker, cache, attempt,
                   permits, returned, dlq>>

(* Leaving `async with self._semaphore`. *)
Finish(t) ==
    /\ pc' = [pc EXCEPT ![t] = "ended"]
    /\ attempt' = [attempt EXCEPT ![t] = 0]
    /\ permits' = permits + 1

(* _commit_offset looks at _running when it is called; a stopped engine    *)
(* skips the commit.                                                       *)
CommitOrSkip(t) ==
    \/ running /\ pc' = [pc EXCEPT ![t] = "committing"] /\ UNCHANGED <<attempt, permits>>
    \/ ~running /\ Finish(t)

(* _process_message_guarded gets a permit and runs                         *)
(* _process_single_message up to its first await.                          *)
Acquire(t) == pc[t] = "queued" /\ permits > 0

(* msg.value.decode raises outside the try block: the task dies. *)
StartUndecodable(t) ==
    /\ Acquire(t)
    /\ Kind[Off(t)] = "undecodable"
    /\ pc' = [pc EXCEPT ![t] = "ended"]
    /\ UNCHANGED <<process, broker, cache, delivered, attempt, permits, returned, dlq>>

(* Unparseable body, or an event without response_message_id. *)
StartRejected(t) ==
    /\ Acquire(t)
    /\ Kind[Off(t)] \in {"malformed", "incomplete"}
    /\ pc' = [pc EXCEPT ![t] = "dlq"]
    /\ permits' = permits - 1
    /\ UNCHANGED <<process, broker, cache, delivered, attempt, returned, dlq>>

(* The id is in the cache: commit and leave. *)
StartDuplicate(t) ==
    /\ Acquire(t)
    /\ Kind[Off(t)] = "chat" /\ MsgId(t) \in remembered
    /\ pc' = [pc EXCEPT ![t] = IF running THEN "committing" ELSE "ended"]
    /\ permits' = IF running THEN permits - 1 ELSE permits
    /\ UNCHANGED <<process, broker, cache, delivered, attempt, returned, dlq>>

(* Mutated forms: the cache is not consulted, or filled only later. *)
StartUnchecked(t) ==
    /\ Acquire(t)
    /\ Kind[Off(t)] = "chat"
    /\ remembered' = remembered \union {MsgId(t)}
    /\ admitted' = [admitted EXCEPT ![MsgId(t)] = @ + 1]
    /\ entered' = entered \union {t}
    /\ pc' = [pc EXCEPT ![t] = "handling"]
    /\ attempt' = [attempt EXCEPT ![t] = 1]
    /\ permits' = permits - 1
    /\ UNCHANGED <<process, broker, forgotten, delivered, returned, dlq>>

StartRememberLater(t) ==
    /\ Acquire(t)
    /\ Kind[Off(t)] = "chat" /\ MsgId(t) \notin remembered
    /\ admitted' = [admitted EXCEPT ![MsgId(t)] = @ + 1]
    /\ entered' = entered \union {t}
    /\ pc' = [pc EXCEPT ![t] = "handling"]
    /\ attempt' = [attempt EXCEPT ![t] = 1]
    /\ permits' = permits - 1
    /\ UNCHANGED <<process, broker, remembered, forgotten, delivered, returned, dlq>>

(* The id is remembered before the handler runs. *)
StartFresh(t) ==
    /\ Acquire(t)
    /\ Kind[Off(t)] = "chat" /\ MsgId(t) \notin remembered
    /\ remembered' = remembered \union {MsgId(t)}
    /\ admitted' = [admitted EXCEPT ![MsgId(t)] = @ + 1]
    /\ entered' = entered \union {t}
    /\ pc' = [pc EXCEPT ![t] = "handling"]
    /\ attempt' = [attempt EXCEPT ![t] = 1]
    /\ permits' = permits - 1
    /\ UNCHANGED <<process, broker, forgotten, delivered, returned, dlq>>

HandlerReturns(t) ==
    /\ pc[t] = "handling"
    /\ returned' = returned \union {t}
    /\ CommitOrSkip(t)
    /\ UNCHANGED <<process, broker, cache, delivered, dlq>>

(* A retriable error sleeps and tries again while attempts remain; any     *)
(* other error, or the last attempt, goes to the dead-letter topic.        *)
HandlerRaises(t, retriable) ==
    /\ pc[t] = "handling"
    /\ pc' = [pc EXCEPT ![t] = IF retriable /\ attempt[t] < MaxAttempts THEN "backoff" ELSE "dlq"]
    /\ UNCHANGED <<process, broker, cache, delivered, attempt, permits, returned, dlq>>

RetryAfterBackoff(t) ==
    /\ pc[t] = "backoff"
    /\ pc' = [pc EXCEPT ![t] = "handling"]
    /\ attempt' = [attempt EXCEPT ![t] = @ + 1]
    /\ UNCHANGED <<process, broker, cache, delivered, permits, returned, dlq>>

PublishDLQ(t) ==
    /\ pc[t] = "dlq" /\ publisherUp
    /\ dlq' = dlq \union {t}
    /\ CommitOrSkip(t)
    /\ UNCHANGED <<process, broker, cache, delivered, returned>>

(* Mutated forms: the permit is kept, or the record committed all the same. *)
DLQFailsKeepsPermit(t) ==
    /\ pc[t] = "dlq"
    /\ pc' = [pc EXCEPT ![t] = "ended"]
    /\ attempt' = [attempt EXCEPT ![t] = 0]
    /\ UNCHANGED <<process, broker, cache, delivered, permits, returned, dlq>>

DLQFailsCommits(t) ==
    /\ pc[t] = "dlq"
    /\ CommitOrSkip(t)
    /\ UNCHANGED <<process, broker, cache, delivered, returned, dlq>>

(* publish_dlq raised (retries exhausted, or the publisher is not          *)
(* started): the exception ends the task before its commit.                *)
PublishDLQFails(t) ==
    /\ pc[t] = "dlq"
    /\ Finish(t)
    /\ UNCHANGED <<process, broker, cache, delivered, returned, dlq>>

(* The broker stores exactly the offset it is sent, whatever it held. *)
CommitApplied(t) ==
    /\ pc[t] = "committing"
    /\ committed' = Off(t) + 1
    /\ acked' = acked \union {t}
    /\ Finish(t)
    /\ UNCHANGED <<process, cache, delivered, returned, dlq>>

CommitFails(t) ==
    /\ pc[t] = "committing"
    /\ Finish(t)
    /\ UNCHANGED <<process, broker, cache, delivered, returned, dlq>>

-----------------------------------------------------------------------------
TaskStep(t) ==
    \/ StartUndecodable(t) \/ StartRejected(t) \/ StartDuplicate(t) \/ StartFresh(t)
    \/ HandlerReturns(t) \/ (\E retriable \in BOOLEAN : HandlerRaises(t, retriable))
    \/ RetryAfterBackoff(t)
    \/ PublishDLQ(t) \/ PublishDLQFails(t)
    \/ CommitApplied(t) \/ CommitFails(t)

ProcessStep ==
    \/ \E pubOk, conOk \in BOOLEAN : Boot(pubOk, conOk)
    \/ Stop \/ StopPublisher \/ Restart \/ Rebalance
    \/ \E i \in Ids : Forget(i)

Next ==
    \/ ProcessStep
    \/ \E k \in 1..MaxPoll : Poll(k)
    \/ \E t \in Tasks : TaskStep(t)

Spec == Init /\ [][Next]_vars

(* The event loop keeps running what is ready: the poll loop while it is   *)
(* alive and every task.  Nothing forces a stop, a crash, a rebalance or   *)
(* an expiry.                                                              *)
Fairness ==
    /\ WF_vars(\E k \in 1..MaxPoll : Poll(k))
    /\ \A t \in Tasks : WF_vars(TaskStep(t))

FairSpec == Spec /\ Fairness

-----------------------------------------------------------------------------
(* Properties. *)

TypeOK ==
    /\ phase \in {"booting", "serving", "closing", "closed"}
    /\ running \in BOOLEAN /\ publisherUp \in BOOLEAN
    /\ committed \in 1..LogLength + 1 /\ position \in 1..LogLength + 1
    /\ delivered \in [Offsets -> 0..MaxDeliveries]
    /\ pc \in [Tasks -> PCs]
    /\ attempt \in [Tasks -> 0..MaxAttempts]
    /\ permits \in 0..MaxConcurrent
    /\ remembered \subseteq Ids
    /\ restarts \in 0..MaxRestarts /\ rebalances \in 0..MaxRebalances
    /\ admitted \in [Ids -> Nat] /\ forgotten \in [Ids -> 0..MaxForgets]
    /\ entered \subseteq Tasks /\ returned \subseteq Tasks /\ dlq \subseteq Tasks /\ acked \subseteq Tasks

(* The record was dealt with: it is on the dead-letter topic, or the       *)
(* handler returned for its id.                                            *)
Settled(o) ==
    \/ \E t \in dlq : Off(t) = o
    \/ Kind[o] = "chat" /\ \E t \in returned : MsgId(t) = Id[o]

(* The task never entered the handler because another task of its id had.  *)
Duplicate(t) ==
    /\ Kind[Off(t)] = "chat" /\ t \notin entered
    /\ \E u \in entered : u # t /\ MsgId(u) = MsgId(t)

(* No poll position, committed offset or restart ever jumps over a record  *)
(* that was not handed to a task at least once, whatever order concurrent  *)
(* commits reach the broker in (_consume_loop, _commit_offset).            *)
NoSkippedRecord ==
    \A o \in Offsets : (o < position \/ o < committed) => delivered[o] > 0

(* Every path out of `async with self._semaphore`, an exception included,  *)
(* gives the permit back exactly once.                                     *)
PermitConservation ==
    permits + Cardinality({t \in Tasks : pc[t] \in Holding}) = MaxConcurrent

(* The idempotency check: an id enters the handler again only after the    *)
(* cache dropped it or the process restarted, across redeliveries of one   *)
(* offset and duplicates at other offsets.                                 *)
OncePerCacheLife ==
    \A i \in Ids : admitted[i] <= 1 + forgotten[i] + restarts

(* Because the id is remembered before the handler is awaited, a second    *)
(* task never runs the handler for an id whose first task is still in it,  *)
(* unless the cache dropped the entry meanwhile.                           *)
NoConcurrentDuplicate ==
    \A t, u \in Tasks :
        (t # u /\ Admitted(t) /\ Admitted(u) /\ MsgId(t) = MsgId(u)) => forgotten[MsgId(t)] > 0

(* A record that the committed offset passed while nothing settled it was  *)
(* never passed by its own failure: a task that committed the record       *)
(* itself, on whatever delivery, had been turned away as the duplicate of  *)
(* another task that entered the handler, and when no task committed it,   *)
(* the commit of a later record overtook it.                               *)
LossIsOvertaking ==
    \A o \in Offsets : (o < committed /\ ~Settled(o)) =>
        /\ \A t \in acked : Off(t) = o => Duplicate(t)
        /\ \E t \in acked : Off(t) >= o

(* While the engine stays up the whole log is handed out and worked off,   *)
(* restarts and rewound commits notwithstanding: in the end no task waits  *)
(* for a permit, sleeps between attempts or hangs before its commit, and   *)
(* every permit is back.                                                   *)
LogDrained ==
    <>[]running => <>[](/\ \A o \in Offsets : delivered[o] > 0
                        /\ \A t \in Tasks : pc[t] \in {"absent", "ended"}
                        /\ permits = MaxConcurrent)

(* docs/lld2.md 6.3: "The offset for a message is committed only after the *)
(* processing task completes ... This guarantees at-least-once delivery    *)
(* and prevents message loss."  Records below the committed offset are     *)
(* never fetched again, so they must have been settled.                    *)
AtLeastOnce == \A o \in Offsets : o < committed => Settled(o)

=============================================================================
