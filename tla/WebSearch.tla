------------------------------ MODULE WebSearch ------------------------------
(***************************************************************************)
(* WebSearchTool (app/tools/web_search.py) under the ToolExecutor, with    *)
(* its result cache (TTLCache, app/utils/cache.py) and the rewriter that   *)
(* makes the query (app/tools/query_rewrite.py).  Searches run             *)
(* concurrently and share the cache; each asks every source at once and    *)
(* keeps what has answered when the gather deadline passes.                *)
(*                                                                         *)
(* A URL is a model value: Page[u] is its canonical form (NoPage when the  *)
(* URL is unusable), Domain[p] the domain of a page.  Time passes in       *)
(* ticks, of which the cache keeps an entry for TTL.                       *)
(***************************************************************************)
EXTENDS Integers, FiniteSets, Selection

CONSTANTS
    Searches,       \* tasks that run the tool, one search after the other
    Queries,        \* normalized query and max_results: the cache keys
    LastSource,     \* number of sources; results keep the order 1..LastSource
    Found,          \* Found[p]: URL lists source p may return when it is up
    Page,           \* canonical_url of a URL
    NoPage,         \* a URL that is not http(s)
    Domain,         \* netloc of a page
    MaxPerDomain,   \* MAX_RESULTS_PER_DOMAIN
    CacheSize,      \* max_size of the cache
    TTL,            \* default_ttl_seconds, in ticks
    Rungs,          \* models the rewriter may ask: clients, then adapters
    TimeoutMs,      \* web_search_timeout_ms
    NoQuery         \* a task that has no query yet

Sources == 1..LastSource

ASSUME SearchConstantsOK ==
    /\ LastSource \in Nat \ {0} /\ MaxPerDomain \in Nat \ {0} /\ CacheSize \in Nat \ {0}
    /\ TTL \in Nat /\ Rungs \in Nat /\ TimeoutMs \in Nat \ {0}
    /\ Found \in [Sources -> SUBSET Seq(DOMAIN Page)]
    /\ \A u \in DOMAIN Page : Page[u] \in (DOMAIN Domain) \union {NoPage}
    /\ NoPage \notin DOMAIN Domain /\ NoQuery \notin Queries

VARIABLES
    pc,         \* idle, rewriting, asking, gathering, concluding
    rung,       \* models the rewriter has left behind
    query,      \* cache key of each search
    answer,     \* what each source has said to each search
    outcome,    \* ToolResult of the latest search of each task
    store,      \* the cache, from least to most recently accessed entry
    down,       \* history: sources whose API failed the search
    latest      \* history: the last result gathered for a query, and its age

tool == <<pc, rung, query, answer, outcome, down>>
vars == <<tool, store, latest>>

Silent == [reply |-> "none", urls |-> <<>>]
Failed == [reply |-> "failed", urls |-> <<>>]
List(us) == [reply |-> "list", urls |-> us]
NoOutcome == [ok |-> FALSE, cached |-> FALSE, pages |-> <<>>]
Unasked == [p \in Sources |-> Silent]
Nothing == [pages |-> <<>>, age |-> TTL + 1]

Init ==
    /\ pc = [s \in Searches |-> "idle"]
    /\ rung = [s \in Searches |-> 0]
    /\ query = [s \in Searches |-> NoQuery]
    /\ answer = [s \in Searches |-> Unasked]
    /\ outcome = [s \in Searches |-> NoOutcome]
    /\ store = <<>>
    /\ down = [s \in Searches |-> {}]
    /\ latest = [k \in Queries |-> Nothing]

-----------------------------------------------------------------------------
(* TTLCache: get and set are synchronous, so each is one operator.         *)

Expired(e) == e.age > TTL

Live(es) == Selected(es, {e \in ToSet(es) : ~Expired(e)})
Without(es, k) == Selected(es, {e \in ToSet(es) : e.key # k})
Holds(es, k) == \E i \in DOMAIN es : es[i].key = k
Entry(es, k) == CHOOSE e \in ToSet(es) : e.key = k

(* Mutated form: a hit starts the entry's time to live again. *)
TouchedRenews(es, k) == Append(Without(es, k), [Entry(es, k) EXCEPT !.age = 0])

(* get: a live entry becomes the most recently accessed one. *)
Touched(es, k) == Append(Without(es, k), Entry(es, k))

(* Mutated form: the least recently accessed entry goes, expired or not. *)
MadeRoomLRU(es) == Tail(es)

(* _evict_lru: expired entries first, then the least recently accessed. *)
MadeRoom(es) == IF Len(Live(es)) < CacheSize THEN Live(es) ELSE Tail(Live(es))

(* Mutated form: a full cache grows. *)
StoredBeyond(es, k, pages) == Append(Without(es, k), [key |-> k, pages |-> pages, age |-> 0])

(* set: a full cache that does not hold the key makes room first. *)
Stored(es, k, pages) ==
    LET room == IF Len(es) >= CacheSize /\ ~Holds(es, k) THEN MadeRoom(es) ELSE es
    IN  Append(Without(room, k), [key |-> k, pages |-> pages, age |-> 0])

-----------------------------------------------------------------------------
(* _deduplicate_by_domain: the pages of the URLs, in source order, each    *)
(* once and at most MaxPerDomain of a domain.                              *)
Usable(u) == Page[u] # NoPage
OfDomain(pages, d) == Selected(pages, {p \in ToSet(pages) : Domain[p] = d})

(* Mutated form: URLs are compared before they are canonical. *)
KeepsAnyUrl(pages, u) ==
    IF ~Usable(u) \/ Len(OfDomain(pages, Domain[Page[u]])) >= MaxPerDomain
    THEN pages
    ELSE Append(pages, Page[u])

Keep(pages, u) ==
    IF \/ ~Usable(u)
       \/ Page[u] \in ToSet(pages)
       \/ Len(OfDomain(pages, Domain[Page[u]])) >= MaxPerDomain
    THEN pages
    ELSE Append(pages, Page[u])

Deduplicated(urls) == FoldLeft(Keep, <<>>, urls)

(* _gather_provider_searches: the lists, one source after the other. *)
Aggregated(replies) == FlattenSeq([p \in Sources |-> replies[p].urls])

(* Mutated form: the sources may use all of the tool's time. *)
GatherAll == TimeoutMs

(* gather_deadline_s: 60% of the tool's time, but no less than a second. *)
GatherMs ==
    LET share == (TimeoutMs * 6) \div 10 IN IF share > 1000 THEN share ELSE 1000

-----------------------------------------------------------------------------
(* SearchQueryRewriter.rewrite: a self-contained message is the query;     *)
(* otherwise each model is asked in turn and the heuristic comes last.     *)
NeedsRewrite(s) ==
    /\ pc[s] = "idle"
    /\ pc' = [pc EXCEPT ![s] = "rewriting"]
    /\ outcome' = [outcome EXCEPT ![s] = NoOutcome]
    /\ UNCHANGED <<rung, query, answer, down, store, latest>>

PassThrough(s, k) ==
    /\ pc[s] = "idle"
    /\ pc' = [pc EXCEPT ![s] = "asking"]
    /\ query' = [query EXCEPT ![s] = k]
    /\ outcome' = [outcome EXCEPT ![s] = NoOutcome]
    /\ UNCHANGED <<rung, answer, down, store, latest>>

(* A timeout, an error, unreadable JSON or an empty query. *)
ModelFails(s) ==
    /\ pc[s] = "rewriting" /\ rung[s] < Rungs
    /\ rung' = [rung EXCEPT ![s] = @ + 1]
    /\ UNCHANGED <<pc, query, answer, outcome, down, store, latest>>

(* A model's query, or the fallback query when no model is left. *)
Rewritten(s, k) ==
    /\ pc[s] = "rewriting"
    /\ pc' = [pc EXCEPT ![s] = "asking"]
    /\ query' = [query EXCEPT ![s] = k]
    /\ rung' = [rung EXCEPT ![s] = 0]
    /\ UNCHANGED <<answer, outcome, down, store, latest>>

(* The tool's result reaches ToolExecutor.execute, which returns it. *)
Return(s, result) ==
    /\ outcome' = [outcome EXCEPT ![s] = result]
    /\ pc' = [pc EXCEPT ![s] = "idle"]
    /\ query' = [query EXCEPT ![s] = NoQuery]
    /\ answer' = [answer EXCEPT ![s] = Unasked]
    /\ down' = [down EXCEPT ![s] = {}]
    /\ UNCHANGED rung

(* Parameters the tool refuses end the call. *)
Refused(s) ==
    /\ pc[s] = "asking"
    /\ Return(s, NoOutcome)
    /\ UNCHANGED <<store, latest>>

(* execute, up to its first await: a live entry answers at once; an        *)
(* expired one is dropped and the sources are asked.                       *)
CacheHit(s) ==
    /\ pc[s] = "asking"
    /\ Holds(store, query[s]) /\ ~Expired(Entry(store, query[s]))
    /\ store' = Touched(store, query[s])
    /\ Return(s, [ok |-> TRUE, cached |-> TRUE, pages |-> Entry(store, query[s]).pages])
    /\ UNCHANGED latest

CacheMiss(s) ==
    /\ pc[s] = "asking"
    /\ Holds(store, query[s]) => Expired(Entry(store, query[s]))
    /\ store' = Without(store, query[s])
    /\ pc' = [pc EXCEPT ![s] = "gathering"]
    /\ UNCHANGED <<rung, query, answer, outcome, down, latest>>

(* asyncio.wait returns as soon as no source is left to wait for. *)
Heard(s, p, a) ==
    /\ pc[s] = "gathering" /\ answer[s][p] = Silent
    /\ answer' = [answer EXCEPT ![s][p] = a]
    /\ pc' = [pc EXCEPT ![s] =
                 IF \A q \in Sources \ {p} : answer[s][q] # Silent THEN "concluding" ELSE @]
    /\ UNCHANGED <<rung, query, outcome, store, latest>>

SourceAnswers(s, p) ==
    /\ \E urls \in Found[p] : Heard(s, p, List(urls))
    /\ UNCHANGED down

(* A source whose API fails: every adapter catches the error and returns   *)
(* the empty list it started from.                                         *)
SourceDown(s, p) ==
    /\ Heard(s, p, List(<<>>))
    /\ down' = [down EXCEPT ![s] = @ \union {p}]

(* The first of two timers: at the gather deadline whoever has not         *)
(* answered is cancelled and what there is gets used; ToolExecutor's       *)
(* wait_for, armed first, abandons the search with all it heard.           *)
TimerFires(s) ==
    /\ pc[s] = "gathering"
    /\ IF GatherMs < TimeoutMs
       THEN /\ answer' = [answer EXCEPT ![s] =
                            [p \in Sources |-> IF @[p] = Silent THEN Failed ELSE @[p]]]
            /\ pc' = [pc EXCEPT ![s] = "concluding"]
            /\ UNCHANGED <<rung, query, outcome, down>>
       ELSE Return(s, NoOutcome)
    /\ UNCHANGED <<store, latest>>

(* execute, after the gathering.  Nothing is awaited any more, so the      *)
(* verdict and the entry in the cache are one step.                        *)
Conclude(s) ==
    /\ pc[s] = "concluding"
    /\ LET urls  == Aggregated(answer[s])
           pages == Deduplicated(urls)
           none  == urls = <<>> /\ \A p \in Sources : answer[s][p] = Failed
       IN  /\ Return(s, [ok |-> ~none, cached |-> FALSE, pages |-> pages])
           /\ \/ pages = <<>> /\ UNCHANGED <<store, latest>>
              \/ /\ pages # <<>>
                 /\ store' = Stored(store, query[s], pages)
                 /\ latest' = [latest EXCEPT ![query[s]] = [pages |-> pages, age |-> 0]]

(* Ages only matter up to the tick after which everything has expired. *)
Older(e) == [e EXCEPT !.age = IF @ > TTL THEN @ ELSE @ + 1]

Tick ==
    /\ store' = [i \in DOMAIN store |-> Older(store[i])]
    /\ latest' = [k \in Queries |->
                     IF Older(latest[k]).age > TTL THEN Nothing ELSE Older(latest[k])]
    /\ UNCHANGED tool

-----------------------------------------------------------------------------
SearchStep(s) ==
    \/ NeedsRewrite(s) \/ ModelFails(s)
    \/ \E k \in Queries : PassThrough(s, k) \/ Rewritten(s, k)
    \/ Refused(s) \/ CacheHit(s) \/ CacheMiss(s)
    \/ \E p \in Sources : SourceAnswers(s, p) \/ SourceDown(s, p)
    \/ TimerFires(s) \/ Conclude(s)

Next == Tick \/ \E s \in Searches : SearchStep(s)

Spec == Init /\ [][Next]_vars

-----------------------------------------------------------------------------
(* Properties. *)

Replies == {Silent, Failed} \union {List(us) : us \in {<<>>} \union UNION {Found[p] : p \in Sources}}

TypeOK ==
    /\ pc \in [Searches -> {"idle", "rewriting", "asking", "gathering", "concluding"}]
    /\ rung \in [Searches -> 0..Rungs]
    /\ query \in [Searches -> Queries \union {NoQuery}]
    /\ answer \in [Searches -> [Sources -> Replies]]
    /\ outcome \in [Searches -> [ok : BOOLEAN, cached : BOOLEAN, pages : Seq(DOMAIN Domain)]]
    /\ Len(store) <= CacheSize
    /\ \A i, j \in DOMAIN store : i # j => store[i].key # store[j].key
    /\ \A e \in ToSet(store) :
          e \in [key : Queries, pages : Seq(DOMAIN Domain), age : 0..TTL + 1]
    /\ latest \in [Queries -> [pages : Seq(DOMAIN Domain), age : 0..TTL + 1]]
    /\ down \in [Searches -> SUBSET Sources]

Returns(s) == pc[s] # "idle" /\ pc'[s] = "idle"

(* _gather_provider_searches: "one slow source can never turn a search     *)
(* that other sources already answered into a failed (and, for required    *)
(* tools, fatal) one".                                                     *)
AnsweredNotLost ==
    [][\A s \in Searches : (Returns(s) /\ ~outcome'[s].ok) =>
          \A p \in Sources : answer[s][p].urls = <<>>]_vars

(* What the cache hands out is the last result gathered for that query, at *)
(* most a TTL ago, however hits, overwrites by slower searches and         *)
(* evictions for other queries interleave; an empty answer is never        *)
(* repeated from it (execute, TTLCache.get).                               *)
ServedIsLatest ==
    [][\A s \in Searches : (Returns(s) /\ outcome'[s].cached) =>
          /\ outcome'[s].pages = latest[query[s]].pages
          /\ outcome'[s].pages # <<>>]_vars

(* An answer that is still good leaves the cache for one reason only: the  *)
(* cache is full of answers that are still good (_evict_lru; the entry     *)
(* that was read last is not the one that expires last).  The              *)
(* deduplication of Kafka messages rests on the same class.                *)
GoodAnswersKept ==
    [][\A e \in ToSet(store) :
          (e.age <= TTL /\ ~Holds(store', e.key)) =>
              Len(store) = CacheSize /\ \A i \in DOMAIN store : store[i].age <= TTL]_vars

(* Every gathered result is what the answering sources found: each usable  *)
(* page once, no domain above its share, and nothing dropped while its     *)
(* domain has room (_deduplicate_by_domain).                               *)
ResultsSpread ==
    [][\A s \in Searches : (Returns(s) /\ outcome'[s].ok /\ ~outcome'[s].cached) =>
        LET pages == outcome'[s].pages
            found == (UNION {{Page[u] : u \in ToSet(answer[s][p].urls)} : p \in Sources}) \ {NoPage}
            kept(d) == {i \in DOMAIN pages : Domain[pages[i]] = d}
            of(d) == {p \in found : Domain[p] = d}
        IN  /\ ToSet(pages) \subseteq found
            /\ \A i, j \in DOMAIN pages : i # j => pages[i] # pages[j]
            /\ \A p \in found :
                  LET all == Cardinality(of(Domain[p])) IN
                  Cardinality(kept(Domain[p])) = IF all < MaxPerDomain THEN all ELSE MaxPerDomain]_vars

(* execute: "Nothing answered at all (outage / every source timed out):    *)
(* that is a failure, not 'no results'."                                   *)
OutageIsFailure ==
    [][\A s \in Searches : (Returns(s) /\ down[s] = Sources) => ~outcome'[s].ok]_vars
=============================================================================
