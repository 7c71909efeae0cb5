# A TLA+ verification of llm-service

`llm-service` answers chat messages. It consumes `chat.message.created` events from
Kafka, collects memory, graph and document context over gRPC, lets a planner model
choose a response mode and tools, runs that mode, fits the prompt to a model's context
budget, streams the answer of the first provider that produces one, and publishes
chunks, the final response and a memory update back to Kafka. Beside this path it runs
an animation service: users submit Manim jobs, workers render and repair them.

This directory holds TLA+ modules of the parts with concurrency, failure or ordering in
them, the TLC configurations that check them, and TLAPS proofs. `PROJECT.json` maps every
definition to the lines of the source it stands for. Paths below are relative to the
repository root; `app/` stands for `src/app/`.

Contents: 1 inventory, 2 modules and how they correspond to the code, 3 runs and bounds,
4 fairness, 5 what is proved and how, 6 where code and documents disagree, 7 what is not
modelled, 8 plan.

## 1. Inventory

Everything runs in one asyncio event loop per process, so the unit of atomicity is the
code between two awaits that can suspend. The processes are service replicas, Manim
workers, Kafka, Redis, the gRPC services and the model providers.

| Component | State it keeps | Operations | Interacts with |
|---|---|---|---|
| Kafka engine (`consumers/kafka_consumer.py`) | `_running`, semaphore, idempotency cache, fetch position and committed offset (broker) | start, stop, poll, one task per record, retry, dead letter, commit | calls the pipeline through `ChatConsumer`, publishes to the dead-letter topic |
| Publisher (`producers/kafka_producer.py`) | `_started` | start, stop, send with retries | shared by all requests; stopped by the process |
| Streaming engine (`services/streaming_service.py`) | buffer, chunk index, flags of one answer | stream, flush, final events | reads the provider chain, sends through the publisher |
| Request pipeline (`pipeline/request_pipeline.py`) | `PipelineContext` of one request | run: the eight stages in order, error event | calls everything below |
| Analyzer and modes (`request_analyzer/`, `workflow_engine/modes.py`, `tools/selection.py`) | none; one circuit breaker | analyze, overrides, resolve and apply the user's choices | planner models |
| Handlers and graphs (`workflow_engine/`) | graph state of one request (accumulating channels, iteration counter) | handle; smart: plan, run sub-task, loop; deep research: search, analyze, loop | tool dispatcher |
| Tool dispatcher, executor, web search (`tools/`, `utils/cache.py`) | result cache, shared by all searches | dispatch parallel and sequential groups, required and optional calls, rewrite, gather under a deadline | search sources |
| Provider chain (`providers/chain.py`), legacy router (`providers/router.py`) | none of their own | generate_stream | shared circuit breakers, provider adapters |
| Error handler (`utils/error_handler.py`, `exceptions/`) | none | classify, build the error event | the pipeline's `except` block |
| Wiring (`main.py`, `config/settings.py`) | the container | lifespan: which providers the chain, router, analyzer and fitter get; start and stop | all of the above |
| Circuit breaker, retry (`utils/`) | state, counts, time of the last failure | on_success, on_failure, is_open, call | chain, analyzer |
| Context collector, merger (`context/`, `grpc/clients/`) | remembered chunk ids (LRU, TTL), shared by all turns | parallel fetch, full text, rewrite, retry, deduplicate, rank, merge histories | gRPC services |
| Context window (`context_window/`) | none | budget, compaction, trim, refit | pipeline (first fit), chain (refit per provider) |
| Manim jobs (`visualization/`, `api/visualizations.py`) | Redis: job record, claim, queue, counters; media files | submit, cancel, get; claim, attempts, repair, render, finish | API replicas and workers share only Redis and the media directory |

What is hard in it, and what makes each part correct:

- **Kafka engine.** Tasks of one partition finish in any order and each commits its own
  offset; a rebalance delivers records again while their first tasks still run; dead
  letters can fail; a stop cancels the loop and not the tasks; a crash can come anywhere.
  *Correct:* no record is passed over unseen, an id is handled once per life of its cache
  entry, no permit is lost, every task ends, the log is drained.
- **Publisher and streaming.** A send may be applied and still reported as failed, is then
  repeated, or fails for good in the middle of an answer; a shutdown stops the publisher
  under a running request. *Correct:* the chunks spell the text, the last mark is at the
  end, the caller hears of the end of every run that can still send, only answers that were
  shown are remembered.
- **Pipeline, modes, graphs, tools.** No concurrency inside a request, but a product of
  feature flags, saved defaults, explicit choices, planner answers and failures in which a
  rule of one stage can undo that of another. *Correct:* explicit choices are honoured or
  rejected, attached documents are read or the request fails and the user is told why,
  loops stay in their budget.
- **Request analyzer.** Concurrent analyses share a breaker that admits any number of
  probes and hears of calls admitted long before. *Correct:* a plan comes from the first
  provider that could make one, always comes, and the breaker closes only on successes
  that are fresh.
- **Context collection.** Turns interleave on a store that ages and evicts; three services
  answer, fail or lag behind the request. *Correct:* no passage is lost or repeated, the
  history has no turn twice, ids offered to a search are the conversation's latest.
- **Web search.** Sources answer, fail or stay silent under two deadlines; searches of one
  query overlap and overwrite each other's cache entry. *Correct:* what was answered is
  used, what is served is the latest, live entries are not evicted for dead ones.
- **Prompt fitting.** Compaction, trimming by priority, a refit loop, and all of it again
  for each provider of the chain, from what the last one left. *Correct:* what is sent
  fits, documents and the newest messages outlast everything that may go, a provider is
  passed over only if the prompt cannot be made to fit it.
- **Provider chain and breakers.** Concurrent requests report late into shared breakers,
  providers fail before and after the first token. *Correct:* no answer mixes providers, no
  provider is passed over without a reason, a recovered first choice is used again.
- **Manim jobs.** API requests, workers, retries and the TTL race on a record and a claim
  that are two Redis keys. *Correct:* one run per submitted job, finished records stay
  finished, a READY job has its video, every job ends.

`PROJECT.json` lists the hazards one by one, with the line where each bites and the
properties that would catch it.

## 2. The modules

| Module | Stands for | Built on |
|---|---|---|
| `KafkaConsumer` | Kafka engine inside a process that boots, stops, dies and restarts | |
| `AnswerDelivery` | abstract: what the user sees of one answer | |
| `ResponseStream` | streaming engine and publisher for one request | implements `AnswerDelivery` |
| `ResponseModes` | operators: which mode and tools a request may use | |
| `ErrorTaxonomy` | operators: what an exception is classified as and what the caller is told | |
| `RequestPipeline` | one request through the stages, the handlers and the graphs | `ResponseModes`, `ErrorTaxonomy` |
| `RequestAnalyzer` | concurrent analyses over the ladder of planner models | `CircuitBreaker` |
| `ContextCollector` | concurrent turns over the context services and the shared store | |
| `WebSearch` | concurrent searches over one TTL cache | |
| `PromptFit` | one prompt from its sections to the provider it is sent to | |
| `CircuitBreaker` | operators on a breaker record | |
| `ProviderChain` | concurrent requests over shared breakers | `CircuitBreaker` |
| `GenerationRouter` | the legacy two-slot router | `CircuitBreaker`; implements `ProviderChain` |
| `Wiring` | operators: which providers a deployment works with | |
| `ManimJobs` | API requests and workers on the job store | |
| `Selection` | the filtering loops of the code: the elements of a sequence that are in a set | |
| `MC...` | constants and definitions for TLC | the module named |
| `...Proofs` | theorems: `RequestProofs` about `RequestAnalyzer`, `RequestPipeline` and `PromptFit`, `ContextProofs` about `ContextCollector` and `WebSearch`, the others about the module they are named after | the modules, `TLAPS` |
| `SequenceLemmas` | what folds, filters and concatenations of sequences compute | `Selection`, `TLAPS` |

The pipeline sees an answer as one step whose outcome is one of those of
`AnswerDelivery`; `ResponseStream` is proved to implement `AnswerDelivery`; the tokens
`ResponseStream` reads are those one request of `ProviderChain` (or of `GenerationRouter`,
which is proved to implement it) yields; a handler call of `KafkaConsumer` is one run of
the pipeline. `RequestPipeline.CollectContext` takes the four outcomes of retrieval that
`ContextCollector` ends with, `Analyze` a plan of `RequestAnalyzer`, a tool call that
succeeds or fails is one search of `WebSearch`, `Fit` is the first half of `PromptFit`, and
`ProviderChain.fits` the verdicts of its second half. The MC modules of the chain, the
router, the fitter and the analyzer take their providers from `Wiring`.

Definitions named `...Wraps`, `...Unchecked` and so on, commented "mutated form", are the
bugs the properties are tested against: each property of each passing run is violated
when the definition of `PROJECT.json`'s `mutants` is replaced by its mutated form.

### KafkaConsumer

State: `phase` (lifespan), `running`, `publisherUp`, the broker's `committed` and the
consumer's `position`; per task, that is per delivery of an offset, `pc` and `attempt`;
`permits`; the live cache entries `remembered`; history of how often an offset was
delivered and an id admitted and forgotten, and of the tasks that entered the handler,
returned from it, put their record on the dead-letter topic and committed.

| Action | Code |
|---|---|
| `Boot`, `Stop`, `StopPublisher`, `Restart` | `main.py` lifespan: publisher then consumer, errors swallowed; consumer then publisher; the process dies |
| `Rebalance`, `Forget` | the broker; TTL or LRU eviction of `utils/cache.py` |
| `Poll` | one `getmany` and its `create_task`s |
| `StartUndecodable`, `StartRejected`, `StartDuplicate`, `StartFresh` | a task gets a permit and runs to its first await |
| `HandlerReturns`, `HandlerRaises`, `RetryAfterBackoff` | `_execute_with_consumer_retries` |
| `PublishDLQ`, `PublishDLQFails`, `CommitApplied`, `CommitFails` | the two awaits a task ends with |

`LossIsOvertaking` is not a promise that nothing is lost. It names the two ways a record
is: the commit of a later record passes over it, or a duplicate commits it while the first
copy, remembered before it was processed, is still in its handler or has failed there. The
duplicate may be a redelivery of the same record, whose first delivery failed and could not
be dead-lettered. A task whose own processing and dead letter failed never commits.

One partition is enough: tasks of different partitions share only the semaphore and the
cache, and both are contended for within one. The semaphore's waiting order is left
open (the code's is first come, first served), so the properties hold for any. A dead
letter that is stored although its send reported an error is the same as one that failed:
no property counts on its absence.

### AnswerDelivery and ResponseStream

`AnswerDelivery` knows three things: how much text was produced, how much of it is on the
chunk topic, and the outcome: `answered`, `failed` (an error event), `retracted` (an error
event after the response, which the code publishes when the memory update fails) or
`silent`. It promises that text is only added, that it is shown in order, and that an
`answered` outcome is given only with the whole text shown.

`ResponseStream` holds the local variables of `StreamingEngine.stream` (`count`, `index`,
`first`, `code`, text numbered in reading order), the send in progress and its attempt, and
the topics. A token is text, a code fence or empty. `ReadToken` takes the flush decision
with the elapsed time as a choice; `StreamEnds` does the final flush; `Sent`,
`SendTransient` and `SendFails` are the ends of one attempt of `_send`, the latter two with
or without the record on the broker; `Raise` is the way of an exception through
`RequestPipeline.run` to the error event. `StopPublisher` may happen at any time. The
refinement maps `produced` to the text read, `shown` to the last chunk's end, and `outcome`
to the events that landed.

### ResponseModes and RequestPipeline

`ResponseModes` translates `resolve_requested_mode`, custom modes and saved defaults,
`filter_default_tools` and `build_selected_calls`, the analyzer's safety overrides,
`apply_requested_mode`, the fast path and the handlers' tool lists.

`RequestPipeline` is one action per stage: `Validate`, `CollectContext` with
`_enforce_document_context`, `Analyze` (the plan, the overrides, the user's mode, the
picked tools taken off the plan), `RunHandler` or the graphs (`PlanSubtasks`, `RunSubtask`,
`DraftAnswer`; `Search`, `AnalyzeFindings`, `CompareSources`, `Report`), `RunSelected`,
`Fit`, `Stream`, `PublishError`. A tool outcome is a choice of the calls that succeed; the
planner is a choice among `Plans`. Every stage ends with `GoTo` or with `Raise` of the
exception the code raises there, and `PublishError` tells the caller what `ErrorTaxonomy`
makes of it.

Texts are abstracted to what decisions depend on: a message is a question, small talk, or
one whose wording makes the smart planner search; a result or finding of deep research is
the source it came from, because the corroboration marks compare sources.

`ErrorTaxonomy` has an exception as the set of the classes `classify` asks for, and the
rules of `classify` in their order. It is about which rule is reached first: the hierarchy
rules come before those that go by name.

### RequestAnalyzer

`Admit` is `CircuitBreaker.call` on entry, `GroqAnswers` and `GroqFails` the end of one
attempt, `DelayOver` the pause before the second (the breaker is around the retries, so it
hears of an answer or of the last failure only), `FallbackPlans` and
`FallbackFails` one rung of the ladder, `Return` the start of a task's next analysis,
`CoolDown` the recovery window. `heard` (who failed a turn) and `fresh` (successes since
the last failure that counted) are history.

### ContextCollector

Retrieval is the only fetch that touches shared state between its awaits, so it has a step
per await: `WholeText` or `NoWholeText`, `QueryRewritten`, `SearchAnswered`, `PauseOver`,
`SearchRaises`; memory and graph are results of `Gather`, which also merges. `HandOver` is
the pipeline's use of the bundle. `remembered` is the store as a sequence, least recently
recorded first, `IdsAge` its clock. Chunks have a text, a file (`NoFile` when the service
names none) and a score; the graph may describe a node with the text of a chunk; a window
is what memory and the event know of the conversation.

### WebSearch

The cache is a sequence from least to most recently accessed entry; `get` and `set` do not
suspend and are operators. A search rewrites (`NeedsRewrite`, `ModelFails`, `Rewritten`,
`PassThrough`), is refused, hits or misses, hears each source (`SourceAnswers`,
`SourceDown`) until all have answered or `TimerFires`, and concludes. `Tick` ages the
cache. A URL has a canonical page and a page has a domain, which is what deduplication
compares. `GatherMs` is the arithmetic of the two deadlines.

### PromptFit

Text is a number of tokens. `Layout` lists the sections `PromptBuilder` composes with
priority, lock and floor. `Managed` is the trimmer's passes, `Compacted` the condensing of
old messages, `FitFor` the refit loop. `Budget`, `Refuse` and `Trim` are the first fit
(`_fit_to_first_fitting_provider`), with the growing margin one step per pass;
`BreakerOpen`, `TooBig`, `Send`, `ProviderFails`, `ProviderSpeaks` the chain with its
per-provider fitter.

### CircuitBreaker and ProviderChain

A breaker is a record; its methods hold a lock and never suspend, so they are operators.
`cooling` is the only question the code asks the clock: is the last failure younger than
the recovery timeout. The failure count saturates at the threshold, which is exact,
because above it the count is only ever reset or compared.

The chain never calls `CircuitBreaker.call`, so nothing takes its breakers to half-open;
the analyzer does, with `Entered`. `Start`, `FirstToken`, `StreamEnds` and
`ProviderFails` are the segments between awaits on the provider's stream, each with the
skips it performs on the way to the next stream (`Advance`). Deadlines are failures at any
time. `ConsumerGone` is a consumer that drops the generator, which no `except Exception`
sees. `fits` is the verdict of the per-provider budget check.

### GenerationRouter and Wiring

`GenerationRouter` is `generate_stream` of the router that answers when no chain is
configured: a primary, and a fallback that may be switched off. Its `generate` has no
caller. `Chain` instantiates `ProviderChain` with one or two providers, `slot` for the
chain's `at`, and every slot as fitting, because the prompt goes to either unchanged.

`Wiring` computes, from the API keys, the provider order and the switches, what `lifespan`
builds: the chain's entries, the router's slots, the analyzer's ladder, and the candidates
the pipeline fits a prompt to. It has no state.

### ManimJobs

Each Redis call is a step together with the local computation before it. State: the
record's `state`; the `claim` key, "young" if it was set after the record's last write and
so outlives it; `queue`, `media`, the hourly counter `hits`; the step of every request
(`client`) and worker task (`task`, with the attempts used, the repair flag and the
watcher's cancel flag); `mishaps` counts crashes and expiries. `outgrown` says of which
animation the canonical spec, with the title the validator adds, exceeds the limit that the
submitted form met.

`Submit`, `CheckLimits`, `Create`, `Overwrite`, `Unclaim`, `Enqueue` and `Cancel` are the
API; `Take` to `Fail` the worker and `_run_job`; `CrashTask`, `CrashRequest` and `Expire`
the environment. `update`'s optimistic transaction is one step, `Update`, that is refused
exactly when `_ALLOWED` says so; where the runner ignores the result, so does the action.
Left out: the in-process store (the same runner with fewer interleavings, whose crash
handler writes FAILED), that `update` gives up, as if refused, when five tries in a row meet
another write of the record, thumbnails, the purge of media a day after a record's last hour,
the end of the hour that the counter is for, a claim key that lapses before its record.

## 3. The runs

Every bound is a CONSTANT in a `.cfg`; the proofs of section 5 hold for all values.

| Run | Instance | Shows |
|---|---|---|
| `kafka_redelivery` | 3 records: a message, a malformed body, the message again; 2 tasks at once; 2 attempts; 1 rebalance, 1 cache expiry | permits are conserved, an id is handled once per life of its cache entry (`OncePerCacheLife`, `NoConcurrentDuplicate`), a record is lost by the commit of another task only, never by its own failure (`LossIsOvertaking`) |
| `kafka_restart` | 3 records, one undecodable; 1 restart at any point; fair | `NoSkippedRecord`; the log is handed out and worked off, with no task stuck and every permit back (`LogDrained`) |
| `kafka_at_least_once` | 3 records, 1 restart | violation of the documented at-least-once guarantee (finding) |
| `response_stream` | up to 6 tokens of text, fence or nothing; chunk sizes 1, 2, 3; 2 attempts per send; publisher stopped at any point | the chunks spell the text, the last mark is at the end, only shown answers are remembered, every run that can send is heard, refinement of `AnswerDelivery` |
| `request_pipeline` | all flags that matter together, all request features that can affect each other, three planner tool lists, budgets 1 and 4 against caps 2 and 3, two sources | documents are read or the user hears why not, choices are honoured, picked searches ground the answer, loop budgets |
| `request_analyzer` | 3 concurrent analyses; Groq, another Groq model, NVIDIA; 2 attempts; breaker thresholds 2 and 2 | `FirstThatCould`, `ClosesOnFreshSuccesses`, `PlanMade` |
| `context_collector` | 2 turns, 2 conversations, a store for one; 5 chunks in 2 files or in none; 3 windows of memory and event | `PassagesAccounted`, `HistoryMerged`, `OfferedAreLatest`, `CollectionEnds` |
| `web_search` | 2 tasks, 3 queries, cache for 2, 2 sources, 3 pages of one domain of which 2 may stay | `AnsweredNotLost`, `ServedIsLatest`, `GoodAnswersKept`, `ResultsSpread` |
| `prompt_fit` | 5 deployments, 288 prompts; the default configuration's sizes and budgets | `SentFits`, `DocumentsLast`, `NewestKept`, `SkippedOnlyIfTooBig` |
| `provider_chain` | 2 requests, 2 providers, failure threshold 2, success threshold 1 | `OneVoice`, `TriedInOrder`, `ClosedBelowThreshold`, `FirstChoiceReturns` |
| `generation_router` | 2 requests, 2 slots, the same thresholds | the router implements the chain (`RouterIsChain`) |
| `manim_jobs` | 1 job, 2 requests, 2 workers, 2 attempts, 3 submissions, 1 crash or expiry | who renders, finished records, attempts, every job ends |

Why the bounds are enough for the interesting cases:

- *Kafka.* Overtaking needs two records in tasks at once, a duplicate with a third record
  between them needs three; one rebalance gives every record a second delivery beside its
  first; the second restart meets no state the first does not. Restart and rebalance are
  in different runs only for size; the safety proofs have both, any number of times.
- *Stream.* Six tokens are enough to flush a first chunk, open a code block, fill a code
  chunk, close it and leave a rest; two attempts are one retry.
- *Pipeline.* `MCRequests` drops combinations in which two features cannot meet (small talk
  with files, say), and `MCConfigs` turns the fast path off only when all modes are on. A
  budget above both caps and one below them; three planned tools with an unknown, a
  required and an optional call; two sources are enough to differ. The run uses the
  symmetry of the sources, which nothing orders; it checks no liveness.
- *Analyzer.* Three tasks are needed for a call that was admitted before a failure to
  report among the probes of the recovery after it; two successes to close, so that one of
  them can be stale.
- *Collector.* Two chunks of the same text in different files, one repeated in its file,
  one that comes without a file and one the graph describes too cover the deduplication
  rules; memory lags behind with an end the request overlaps, shares only one message with
  the request, or has none of its turns, once below inherited ones. A store for one
  conversation makes two turns evict each other.
- *Web search.* Three queries for a cache of two force an eviction; two tasks overlap on
  one query; one page reaches both sources by two URLs. Time to live is one tick, so that
  an entry may be fresh, at its limit or expired.
- *Prompt.* Sizes are those of the real sections around the points where something changes:
  a document that fits the first budget and one that fits none, a history of small messages
  and one with messages larger than the budget. A line of prose has ten tokens, short
  enough for the rounding of Gemini's 0.97 to show: the lines kept for a budget may count
  more than it (the same properties hold with lines of 1, 3, 5, 12 and 66 tokens). All
  lines of a section are equally long. The chains cover each path of the fit: a rate limit
  smaller than the window, a registered window, a provider without key or switched off, one
  that is misconfigured in first or in second place.
- *Chain, router.* Two requests are needed for a late report, two providers for a fallback,
  and threshold 2 for a breaker that has counted a failure and is still closed.
- *Manim.* One job: jobs share only the owner's limits, which refuse a submission and
  change nothing else. Three submissions let a finished job be replaced while its first run
  is still at work, and a third request meet that; `MaxActive` 1 and `HourlyLimit` 2 are
  both reached.

Deadlock checking is off where a run of the system ends (a request, a stream, a prompt) or
where all bounds can be used up (restarts, submissions); liveness properties say instead
what must have happened by then.

Type invariants are not run, because they are proved; the collector's types are in the
invariant of its proof (`CollectorInv` and `StoreInv`).

## 4. Fairness

- *Kafka:* weak fairness of the poll loop and of each task: the event loop runs what is
  ready and broker calls return or raise. For a task that waits for the semaphore weak
  fairness of its step is enough because permits are freed by others and, in a finite log,
  contention ends. Nothing forces a stop, a crash, a rebalance or an expiry. `LogDrained`
  assumes that the engine stays up.
- *Stream:* weak fairness of the one task: providers and sends have deadlines
  (`with_deadlines`, the Kafka client's own request timeout).
- *Analyzer:* weak fairness of each task that has left the idle state: the clients have
  timeouts, the retry delay is a sleep. Nobody has to send a request.
- *Collector:* strong fairness of each turn. Its gRPC calls and the rewrite have
  timeouts, so every step becomes ready and is run; the strength is an artefact of one
  guard, which lets no other turn move between the merge of one turn and its hand-over
  (one segment of the code, two actions of the model), and so disables a waiting turn for a
  moment again and again, whereas the event loop resumes it.
- *Chain:* weak fairness of each started request and of time. That a provider recovers is
  a hypothesis of `FirstChoiceReturns`, not an assumption.
- *Manim:* weak fairness of requests and worker tasks once started: renderer and repair
  call have timeouts, the worker pops the queue for ever. Nobody has to submit or cancel.
  `JobsEnd` exempts executions with a crash or an expiry, after which a job is in fact
  stranded until its TTL.
- *Pipeline, web search, prompt, router:* only safety is checked, and none is assumed.

## 5. Proofs

TLAPS proves the following for every value of the constants the named `ASSUME`s allow.
The assumptions say

- that limits and sizes are naturals, positive where the code needs it, that the Kafka log
  is a function on its offsets and that the analyzer's fallbacks are distinct;
- `CollectorConstantsOK`: the conversations are finitely many, and a service answers with
  chunks there are;
- `WindowsOK`: memory and event each name a message once, and turns inherited from an
  ancestor come without ids, as `_ensure_conversation_history` builds them;
- `PipelineConstantsOK`: the planner's tool lists name the search or a tool nobody knows;
- `PromptConstantsOK`: messages of a conversation have ids of their own, 0 being the note's,
  and no multiplier is above 1;
- `QueryOK`: the section of the user's message is never empty, because of its header.

**`KafkaConsumerProofs`.** `BaseOK` (types, and that a task in backoff has an attempt
left) is inductive alone. On it rest four layers: `FetchInv` bounds deliveries of a record
by restarts and rebalances and says they form a prefix of the log that contains position
and committed offset (`NoRecordSkipped`); `PermitInv` counts the tasks inside the semaphore
as a finite set (`PermitsConserved`, and with both `TypeCorrect`); `CacheInv` bounds
admissions of an id by the entries its cache has lost, one less while it is remembered,
and says that a task in the handler has its id either remembered or forgotten since
(`AdmittedOncePerCacheLife`, `ConcurrentDuplicatesExcluded`); `EntryInv` says that an id in
the cache was put there by a task that entered the handler, and that such a task never
waits for a permit again; `CommitInv` says that the committed offset is the end of a record
some task committed, and that a task reaches its commit only after its handler returned,
after its dead letter was stored, or as the duplicate of another task that entered the
handler (`OnlyOvertakingLoses`). None of the properties is inductive: each needs the layer
to know where tasks stand.

**`ResponseStreamProofs`.** `IInv` adds to the properties what is in the buffer
(`Buffered`), where the chunk topic ends, that is at the flushed text or with the chunk in
flight, which may have landed already (`Frontier`), which chunk may be marked (`Marked`)
and which events may have landed (`Landed`). Retries are the reason it is needed: a send
repeated after it landed must find its own chunk at the end of the topic. From it follow
`StreamTypeCorrect`, `ChunksInOrder`, `LastMarksTheEnd`, `RememberedAnswers`,
`EveryEndIsTold` and `StreamDelivers`, the refinement: initial states map to initial
states, and under `IInv` every step is a step of `AnswerDelivery` or leaves its variables
alone.

**`ProviderChainProofs`.** One inductive invariant: the properties with the fact that a
request which is still trying has yielded nothing. `ChainTypeCorrect`, `NeverSplices`,
`WholeChainTried`, `ClosedMeansBelow`; the breaker's operators have lemmas of their own.

**`GenerationRouterProofs`.** `RouterImplementsChain`: the router is the chain with one or
two providers. The invariant says what a request has given up on by the slot it reads
(`Behind`); under it the fallback's opening is what is left of the chain's loop
(`FallBackAdvances`) and each action is one of the chain. Through it the chain's
theorems, instantiated (`Proven`), become the router's: `RouterTypeCorrect`,
`RouterNeverSplices`, `RouterTriesBoth`, `RouterClosedMeansBelow`. Nothing of the chain is
proved twice.

**`ManimJobsProofs`.** `IInv` adds how many attempts a run has used by its place in the
loop, and that a run about to write READY has its video stored. `JobsTypeCorrect`,
`ReadyJobsHaveMedia`, `AttemptsWithinBudget`, and from it the action properties
`FinishedStaysFinished` and `EndedJobsAreLeft`. A second layer is about jobs whose finished
record was never replaced: their claim is deleted only while no task has it, so that one
task at most holds it (`Exclusive`), and the record is where that task put it, or cancelled
(`Standing`). From it follow `OneRenderPerJob` and `RenderedWorkLands`.

**`RequestProofs`, analyzer.** The invariant says, for every task, which rungs it has heard
fail by where it stands on the ladder, and of the breaker that its count of half-open
successes never exceeds `fresh`, the successes since the last counted failure. From it
follow `AnalyzerTypeCorrect` (with the bound on attempts), `PlanFromFirst` and
`RecoveryIsEarned`, an action property.

**`RequestProofs`, pipeline.** The invariant says what the stages behind a request have
settled: past the context its documents were read (`Documents`), past the analysis it has
the mode that was asked for (`Chosen`), a picked search is still to come until the prompt
is fitted (`Picks`), and a loop is entered only below a budget within that of its mode
(`Loops`, from the lemmas on the plans of `ResponseModes`: `PlansAreBounded`,
`SettledPlan`). From it follow `DocumentsAreRead`, `ChosenModeRuns`, `PickedSearchGrounds`
and `LoopsKeepBudget`, for any planner, caps, tool lists and results. `PipelineTypeCorrect`
is a layer of its own, because it is about more than shapes: the error event must be one
that `ErrorEvent` builds, so whatever a stage raises some rule of `classify` has to answer.

**`RequestProofs`, prompt.** Two relations carry the argument. `Trimmed` says what a pass
may do to a prompt: no section grows, a locked one stays, the history loses messages at its
old end only, and what the history section measures is still what its messages are.
`Condensed` says what a history may have become of the conversation: an end of it, with at
most one note before. Both compose, so that any number of compactions, passes and fallbacks
is one (`TrimmedAgain`, `EndOfCondensed`, `CompactedIsCondensed`). `CutIsCut` shows what one
section of `trim`'s loop does, `AllCut` by induction over the loop that a passage of an
attached document is touched only when the excess has outlasted every section before it in
the order of priorities (`TrimmableOrder`), each at its minimum by then (`Minimal`); a
section at its minimum stays as it is, in every later pass too (`FloorsStay`). At its
minimum means that it counts no more than it, or that trimming it to the minimum would
leave it as it is: `_keep_whole_lines` reckons each line by itself and rounds its cost, so
that under a multiplier below 1 the lines kept for a budget can count more than the budget,
by less than a token for each of them. Keeping lines for the same budget again keeps
them all (`WholeLinesKept`), which is why a later pass leaves such a section alone, and why
nothing has to be assumed about lines. `PromptInv` adds to the types what is known of the
prompt at each stage: composed from the input and a condensed history (`Drafted`), fitted
(`ReadyToSend`), sent (`SentTo`). From it follow `PromptTypeCorrect`, `SentPromptsFit`,
`DocumentsGoLast` and `NewestMessagesKept`.

`PlainChainsSkipFairly` is about the loop of two passes in `build_chain_fitter`, which trims
to the budget and once more by what the counts turned out to leave out. The argument puts
the two passes side by side: what measuring adds to the counts (framing, a title) does not
grow when more is cut, because a section goes to zero with its frame or keeps it; so the
second target is reached with room for everything that is added, unless every section is at
its minimum already. `WeightInv` says what the argument needs of a prompt at every stage: no
section is counted for more than it measures, and the user's message is never empty
(`QueryOK`), so that one token, the least target the fitter sets, is not above what any
prompt needs. The argument holds where tokens are
counted as they are. For a registered Gemini, trimmed with its multiplier of 0.97, the
sentence is false: lines kept for a target count more than it, and a long section of short
lines overflows although more of it could go (`MCShortLines`, section 6), so
`SkippedOnlyIfTooBig` leaves it out. A Gemini model that is not registered is trimmed with
a multiplier of 1 and measured with its own: for it the property is checked for the sizes
of the deployments and not proved. `SkippedPlainlyTooBig` says of a mixed chain that its plain providers are still
passed over fairly.

**`ContextProofs`, collector.** `CollectorInv` has a part for the store of previous chunk
ids and one for each turn. The store against its history (`StoreInv`): an entry is what its
conversation found last, as old as that is (`Mirrors`); a conversation that could be
offered ids has an entry, or has been displaced by as many newer ones as the store holds
(`Displaced`); and the entries are in the order of their ages (`OldestFirst`), which is why
the one evicted is the oldest. A turn that asks has a conversation, and a merged bundle
accounts for what was found (`TurnInv`). That the merge loses nothing and repeats nothing
(`UniqueFacts`, `RankedFacts`) and that the history does (`HistoryFacts`) is proved by
induction over the chunks and messages, whatever they are. From it follow
`NothingFoundIsLost`, `HistoriesAreMerged` and the action property `OfferedIdsAreLatest`.

**`ContextProofs`, web search.** The invariant relates where a search stands to what it has
heard: only a search whose sources were asked has heard anything, and neither silence nor a
failure carries a result. `AnsweredSearchSucceeds` assumes `TimeoutMs > 1000`: then the
tool's own deadline is strictly before the executor's (`DeadlinesDiffer`), and no search
fails that some source has answered. `CacheInv` adds the cache: a key once, no empty result,
and a live entry is what was gathered last for its query and as old (`Truthful`). From it
`CacheServesLatest` and, with what making room does to a store (`MadeRoomFacts`),
`CacheKeepsGoodAnswers`, and with the types of the calls (`CallsOK`) `SearchTypeCorrect`,
where the bound on the entries is the one making room keeps. `ResultsAreSpread` is an induction over the URLs: a page is taken
unless it was seen or its site has its share (`Spread`).

**`SequenceLemmas`.** The models filter and sum with folds, and the library's induction
theorems take an operator, which the provers cannot instantiate. The module derives
induction for sets of numbers from the least-number principle (`LeastNumber`, from
`WFMin`; `Induction`), shows that the function a fold is defined through exists
(`FoldExists`) and that the fold is the last of a sequence of partial results
(`FoldTrace`, `TraceExists`). Every fold of a model is then used through its trace:
`Selected` (`SelectedPlaces`, `SelectedSet`, `SelectedCount`, `ChainSelected`,
`SelectedEnd`), `FlattenSeq` (`FlattenedSet`, `ChainFlatten`), the deduplications, the
ranking, the trimmer's loop and the sums.

**What ends.** Liveness under fairness is out of the prover's reach, but the half of it
that depends on the algorithm is not: that no step of a loop can be taken for ever. Five
action theorems name a natural number that each step of one actor lowers and no step of
another raises.

| Theorem | What falls | Fairness then gives |
|---|---|---|
| `AnalysesAreFinite` | attempts and delays left at Groq, then rungs left on the ladder | `PlanMade` |
| `CollectionsAreFinite` | answers a turn still waits for; `again` is why the one repeated search is the last | `CollectionEnds` |
| `RunsAreFinite` | stages left, and for every iteration left the most a loop's body takes | every request ends |
| `FittingIsFinite` | refits left for the candidate, and the steps of the providers after it | every fit ends |
| `JobRunsAreFinite` | steps left of the attempt, and eight for each one after it | every run ends, which is part of `JobsEnd` |

The remaining half, that a step is taken when one is enabled, is what the runs check for the
analyzer, the collector and the jobs; for a request and a fit it is the deadline of each
call.

Only model-checked: liveness (`LogDrained`, `FirstChoiceReturns`, `JobsEnd`,
`CollectionEnds`, `PlanMade`), because fairness and ENABLED are out of reach here; and
`SkippedOnlyIfTooBig` for a provider that is trimmed with a multiplier of 1 and measured
with one below (an unregistered Gemini model).

## 6. Where code and documents disagree

Listed as a finding, with a run: the at-least-once guarantee of `docs/lld2.md:782`
(`kafka_at_least_once`). A commit is `offset + 1` of the task that ends, so the commit of a
later record passes over an earlier one that is still in its task; after a crash it is
lost.

**Counterexample configurations.** Each checks one sentence of the repository against one
of the modules, and TLC finds it violated. They are kept beside the project for the reader
(`tlc -config X.cfg M`) and are not runs of `PROJECT.json`.

| Configuration | Sentence | What the code does |
|---|---|---|
| `MCRepeatedText` (`MCContextCollector`) | `app/pipeline/request_pipeline.py:348`: a message is recognised "by id when both sides have one, else by role + whitespace-normalised text" | compares texts also when both have ids: a repeated short message cuts older turns of memory away |
| `MCDisabledMode` (`MCRequestPipeline`) | `app/request_analyzer/analyzer.py:238`: "a disabled mode can't be chosen by the planner either" | only Deep research is checked there: a planner may choose Smart while it is switched off |
| `MCSearchRequired` (`MCRequestPipeline`) | `app/workflow_engine/mode_handlers/web_search_handler.py:24`: "Guarantees required web_search tool execution" | a search the planner listed as optional stays optional: it may fail, and the mode answers without one |
| `MCDistinctFindings` (`MCRequestPipeline`) | `deep_research/nodes.py:86` and the report: "distinct findings" | each round appends the findings of all results so far |
| `MCVerifiedSources` (`MCRequestPipeline`) | `deep_research/nodes.py:149`: "mark findings backed by multiple sources" | marks a finding when its own source was seen before |
| `MCBreakerCloses` (`MCProviderChain`) | `docs/updates/task_update2.md:301`: "Closes after 2 consecutive probe successes" | the chain never enters HALF_OPEN; a success while OPEN changes nothing |
| `MCManimStranded` (`MCManimJobs`) | `app/visualization/runner.py:4`: repairable failures are repaired, permanent ones stop immediately, then the job is failed | a spec that outgrows its limit while it is canonicalised fails while the record is VALIDATING: the next attempt is refused by the state machine (`:60`), taken for a cancellation, and the job stays there |
| `MCSearchOutage` (`MCWebSearch`) | `app/tools/web_search.py:195`: "Nothing answered at all ... that is a failure, not 'no results'" | most sources turn their own failure into an empty list, which counts as an answer |
| `MCRefitGivesUp` (`MCPromptFit`) | `app/context_window/fit.py:54`: trims again "until it fits" | gives up after a bounded number of passes on a prompt whose locked part would have fitted |
| `MCShortLines` (`MCPromptFit`) | `app/context_window/fit.py:156`: "if the mandatory content cannot fit, raises ContextOverflowError" | with lines of ten tokens and Gemini's 0.97, the lines `_keep_whole_lines` keeps for a target of 4066 tokens count 4332: the fit overflows and the provider is skipped, although the documents could be cut further |

Met while modelling, in the models, and without a configuration of their own:

- *Pipeline.* `app/pipeline/request_pipeline.py:213` says explicitly chosen tools run
  exactly once; the smart graph's fallback searches may run the same tool before. When
  error events cannot be published the failure is swallowed (`:297`), so `:97`, "never left
  waiting", holds only as `NeverLeftWaiting` states it. A timestamp without a zone raises
  before the `try` (`:106`). A smart draft claims its sources even when there are none.
- *Errors.* `classify` asks for the class hierarchy before it asks by name, so that several
  name rules (`ToolTimeoutError`, `GRPCTimeoutError`, `PlanParseError`) are never reached.
  An `AllProvidersFailedError` whose joined text mentions the rate limit of one provider is
  told as `RATE_LIMIT_EXCEEDED`. Retriability is computed and reaches nobody.
  `ContextBudgetError` is a `ValueError` and is told as `UNEXPECTED_ERROR`.
- *Stream.* A failed memory update retracts an answer that was already published
  (`app/services/streaming_service.py:218`). When the last token triggers a normal flush no
  chunk is marked last, contrary to `docs/updates/task_update10.md:70`. Retries may put a
  chunk on the topic twice: readers must drop a repeated sequence number. Buffers of empty
  text leave gaps in the numbers.
- *Chain and breaker.* `app/providers/chain.py:4` counts a provider as having answered only
  with a token; a stream that ends without one is returned as an answer. `docs/lld2.md:3093`
  gives each downstream service a breaker; `app/main.py:263` creates them and nothing uses
  them. HALF_OPEN admits any number of probes (`docs/hld2.md:1139`: "a single probe call"),
  and a call admitted before the failure counts as a probe; failures are decremented by a
  success instead of being consecutive (`docs/hld2.md:1122`); a failure that is not counted
  leaves a breaker in HALF_OPEN.
- *Analyzer.* A lost connection to Groq is wrapped without a status and so neither retried
  nor counted. NVIDIA is a rung of the analyzer's ladder whether it is enabled, or has a
  key, or not.
- *Wiring.* The pipeline fits the prompt to the first slot of the legacy router only; the
  router's fallback gets a prompt that was fitted to another model.
- *Prompt.* With `GROQ_MAX_TOKENS` as large as `GROQ_TPM_LIMIT` a Groq model in first place
  makes the first fit raise instead of passing on to the next candidate. The fit for a
  second provider compacts a history the first has compacted already. One newest message
  larger than the budget empties the history. `prompt_history_as_messages` drops the note
  that stands for condensed messages.
- *Collector.* The graph's descriptions may remove every chunk while the status stays OK.
  Of duplicates the first is kept, not the best scored. Turns that read a whole document
  record no ids, and a late older turn overwrites the ids of a newer one. A memory window
  without overlap drops the event's newest turns.
- *Web search.* With `web_search_timeout_ms` of 1000 or less the tool's deadline is not
  before the executor's, and answered sources are lost; the theorem assumes more. A search
  that was cut short by its deadline is cached for the whole TTL.
- *Jobs.* `app/visualization/jobs.py:11` says a submission "can never render twice"; it can
  after the finished record was replaced while the first run still renders, which is why
  `RenderTwiceOnlyResubmitted` excepts it. A cancellation that the first run acknowledges
  late cancels the second. Two requests that check the limits at once exceed them
  (`app/api/visualizations.py:142`).
- *Kafka.* The poll loop creates tasks without bound (`app/consumers/kafka_consumer.py:116`).

## 7. What is not modelled

Text processing (the wording of prompts, templates of the Manim scenes, Mermaid, block
extraction, sanitizing, PII), protobuf conversion, the adapters' HTTP requests and parsers
(an adapter is external to the chain: tokens, an end or an error at any point), the round
robin of the gRPC pool, metrics and tracing have no control worth a model. The cancellation
token of the streaming engine, `GenerationRouter.generate` and the breaker's `trip` have no
caller. Deadlines and clocks are choices, except where two deadlines are compared (web
search) or an age is (the caches): no other property depends on a duration. The in-process
job store runs the same runner with fewer interleavings. `PROJECT.json` gives the status of
each component.

## 8. Plan

Done: every component with state that is shared or survives a step, the refinements of the
stream and of the router, a theorem for every safety property of a run (one of them under
a condition on the chain), type correctness of every module, and the termination arguments
behind the liveness properties. What is left, most useful first:

1. Composition of consumer and pipeline: a retry of the handler and a redelivery against
   what the user sees, as a refinement of a specification of one conversation.
2. The accumulation of streamed deltas and reasoning tags in the adapters, as operators
   checked against a definition on the whole text.
3. A bound on the consumer's tasks, once the poll loop has one, as a property of
   `KafkaConsumer`.
