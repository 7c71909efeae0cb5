--------------------------- MODULE ContextCollector ---------------------------
(***************************************************************************)
(* ContextCollector (app/context/collector.py) with the gRPC clients it    *)
(* calls, ContextMerger (merger.py), the PreviousChunkStore all turns      *)
(* share (previous_chunks.py), and what the pipeline does next with the    *)
(* conversation (RequestPipeline._ensure_conversation_history).            *)
(*                                                                         *)
(* Memory, graph and retrieval are fetched in parallel, but only the       *)
(* retrieval touches shared state between its awaits: it has the steps     *)
(* below, and the other two are taken to have ended when the three are     *)
(* gathered.  A turn is the task of a Kafka event; turns of one            *)
(* conversation may run at the same time.                                  *)
(***************************************************************************)
EXTENDS Integers, FiniteSets, Selection

CONSTANTS
    Turns,              \* tasks that collect a context
    Conversations,
    NoConversation,
    Text, File, Score,  \* of each chunk
    NoFile,             \* the file of a chunk that comes without its file's id
    Answers,            \* chunk lists the Retrieval Service may return
    Refusals,           \* statuses other than OK that are not worth a second search
    Descriptions,       \* sets of texts the graph may describe its nodes with
    Texts,              \* role and normalized content of a message
    Windows,            \* what memory and the event know of the conversation
    MaxConversations,   \* max_conversations of the store
    MaxIds,             \* max_ids of the store
    IdsTTL              \* ttl_s, in ticks

Chunks == DOMAIN Text

ASSUME CollectorConstantsOK ==
    /\ MaxConversations \in Nat \ {0} /\ MaxIds \in Nat \ {0} /\ IdsTTL \in Nat
    /\ DOMAIN File = Chunks /\ Score \in [Chunks -> Nat]
    /\ Answers \subseteq Seq(Chunks) /\ <<>> \notin Answers
    /\ NoConversation \notin Conversations
    /\ Refusals \subseteq {"NO_MATCH", "ACCESS_DENIED", "NOT_INDEXED", "INDEXING", "INDEXING_FAILED"}
    /\ IsFiniteSet(Conversations)

(* Each side names a message once; the turns of an ancestor come without   *)
(* an id, which is 0 (_ensure_conversation_history).                       *)
Messages == [id : Nat, text : Texts]

NamedOnce(messages) ==
    \A i, j \in DOMAIN messages : i # j /\ messages[i].id # 0 => messages[i].id # messages[j].id

ASSUME WindowsOK ==
    /\ Windows \subseteq [inherited : Seq(Messages), memory : Seq(Messages), event : Seq(Messages)]
    /\ \A w \in Windows :
          /\ \A m \in ToSet(w.inherited) : m.id = 0
          /\ NamedOnce(w.memory) /\ NamedOnce(w.event)

VARIABLES
    stage,      \* idle, reading, rewriting, searching, pausing, retrieved, collected
    conv,       \* conversation of each turn
    offered,    \* previous chunk ids sent with the searches of a turn
    again,      \* whether a turn was told to search again
    found,      \* RetrievalContext of a turn
    bundle,     \* ContextBundle of a turn
    remembered, \* the store, least recently recorded conversation first
    shown       \* history: chunks a turn last found per conversation, their age

turn == <<stage, conv, offered, again, found, bundle>>
collectorVars == <<turn, remembered, shown>>

Transient == {"UNAVAILABLE", "TIMEOUT"}

NotFetched == [status |-> "none", chunks |-> <<>>]
Raised == [NotFetched EXCEPT !.status = "raised"]
Reply(status, chunks) == [status |-> status, chunks |-> chunks]
NoBundle == [chunks |-> <<>>, described |-> {}, history |-> <<>>, window |-> [memory |-> <<>>]]
NoIds == [ids |-> <<>>, age |-> IdsTTL + 1]

CollectorInit ==
    /\ stage = [t \in Turns |-> "idle"]
    /\ conv = [t \in Turns |-> NoConversation]
    /\ offered = [t \in Turns |-> <<>>]
    /\ again = [t \in Turns |-> FALSE]
    /\ found = [t \in Turns |-> NotFetched]
    /\ bundle = [t \in Turns |-> NoBundle]
    /\ remembered = <<>>
    /\ shown = [c \in Conversations |-> NoIds]

-----------------------------------------------------------------------------
(* PreviousChunkStore. *)

Of(c) == Selected(remembered, {e \in ToSet(remembered) : e.conv = c})
But(c) == Selected(remembered, {e \in ToSet(remembered) : e.conv # c})

(* get: an entry past its time to live is dropped. *)
Stale(c) == Of(c) # <<>> /\ Of(c)[1].age > IdsTTL

Ids(c) == IF Of(c) = <<>> \/ Stale(c) THEN <<>> ELSE Of(c)[1].ids

(* The ids worth recording: each once, at most MaxIds. *)
Listed(ids, c) == IF c \in ToSet(ids) THEN ids ELSE Append(ids, c)

Recordable(chunks) ==
    LET once == FoldLeft(Listed, <<>>, chunks)
    IN  SubSeq(once, 1, IF Len(once) < MaxIds THEN Len(once) ELSE MaxIds)

(* Mutated form: an empty turn forgets the earlier ids. *)
RecordedAlways(c, ids) == Append(But(c), [conv |-> c, ids |-> ids, age |-> 0])

(* record: the conversation becomes the most recent one, the least recent  *)
(* one leaves a store that is too full.                                    *)
Recorded(c, ids) ==
    LET all == Append(But(c), [conv |-> c, ids |-> ids, age |-> 0])
    IN  IF ids = <<>> THEN remembered
        ELSE IF Len(all) > MaxConversations THEN Tail(all) ELSE all

-----------------------------------------------------------------------------
(* ContextMerger. *)

(* _deduplicate_chunks: a chunk goes when the graph describes a node with  *)
(* its text, or an earlier chunk of its file, or of none, has its text.    *)
Same(k, c) == Text[k] = Text[c] /\ File[k] \in {File[c], NoFile}

(* Mutated form: the same text in two files is kept once. *)
AddsText(kept, c, described) ==
    IF Text[c] \in described \/ \E k \in ToSet(kept) : Text[k] = Text[c]
    THEN kept ELSE Append(kept, c)

Adds(kept, c, described) ==
    IF Text[c] \in described \/ \E k \in ToSet(kept) : Same(k, c)
    THEN kept ELSE Append(kept, c)

Unique(chunks, described) == FoldLeft(LAMBDA kept, c : Adds(kept, c, described), <<>>, chunks)

(* _rank_chunks: sorted is stable. *)
Placed(sorted, c) ==
    Selected(sorted, {k \in Chunks : Score[k] >= Score[c]}) \o <<c>>
        \o Selected(sorted, {k \in Chunks : Score[k] < Score[c]})
Ranked(chunks) == FoldLeft(Placed, <<>>, chunks)

-----------------------------------------------------------------------------
(* RequestPipeline.merge_histories: the text of a message is its role and  *)
(* its normalized content.                                                 *)

(* Mutated form: the request's turns come after all that memory has. *)
Concatenated(memory, event) == memory \o event

Recognized(m, event) ==
    \E e \in ToSet(event) : (m.id # 0 /\ e.id = m.id) \/ e.text = m.text

MergedHistory(memory, event) ==
    LET known == {i \in DOMAIN memory : Recognized(memory[i], event)}
        first == CHOOSE i \in known : \A j \in known : i <= j
    IN  IF event = <<>> THEN memory
        ELSE IF memory = <<>> THEN event
        ELSE IF known = {} THEN memory
        ELSE SubSeq(memory, 1, first - 1) \o event

(* _ensure_conversation_history: the turns inherited from the ancestors of *)
(* a branch come first.                                                    *)
History(w) == w.inherited \o MergedHistory(w.memory, w.event)

(* merge, with what is kept of the sources next to the chunks. *)
Merge(chunks, known, window) ==
    [chunks |-> Ranked(Unique(chunks, known)),
     described |-> known,
     history |-> History(window),
     window |-> window]

-----------------------------------------------------------------------------
(* collect, for a request without files: there is nothing to retrieve.     *)
CollectWithoutFiles(t) ==
    /\ stage[t] = "idle"
    /\ stage' = [stage EXCEPT ![t] = "retrieved"]
    /\ UNCHANGED <<conv, offered, again, found, bundle, remembered, shown>>

(* collect, for a request with files: the whole text is tried first. *)
Collect(t, c) ==
    /\ stage[t] = "idle"
    /\ stage' = [stage EXCEPT ![t] = "reading"]
    /\ conv' = [conv EXCEPT ![t] = c]
    /\ UNCHANGED <<offered, again, found, bundle, remembered, shown>>

(* _try_full_text: the documents are small and came whole.                 *)
WholeText(t, chunks) ==
    /\ stage[t] = "reading"
    /\ found' = [found EXCEPT ![t] = Reply("OK", chunks)]
    /\ stage' = [stage EXCEPT ![t] = "retrieved"]
    /\ conv' = [conv EXCEPT ![t] = NoConversation]
    /\ UNCHANGED <<offered, again, bundle, remembered, shown>>

(* Too big, an older server, any error, any other status. *)
NoWholeText(t) ==
    /\ stage[t] = "reading"
    /\ stage' = [stage EXCEPT ![t] = "rewriting"]
    /\ UNCHANGED <<conv, offered, again, found, bundle, remembered, shown>>

(* The rewriter always ends with a query; the ids of the last turn are     *)
(* read after it.                                                          *)
QueryRewritten(t) ==
    /\ stage[t] = "rewriting"
    /\ offered' = [offered EXCEPT ![t] = Ids(conv[t])]
    /\ remembered' = IF Stale(conv[t]) THEN But(conv[t]) ELSE remembered
    /\ stage' = [stage EXCEPT ![t] = "searching"]
    /\ UNCHANGED <<conv, again, found, bundle, shown>>

(* Mutated form: a transient answer is asked again every time. *)
EndsUnlessTransient(t, reply) == reply.status \notin Transient

Ends(t, reply) == reply.status \notin Transient \/ again[t]

(* Nothing of the search is used once it is over. *)
SearchOver(t, result) ==
    /\ stage' = [stage EXCEPT ![t] = "retrieved"]
    /\ found' = [found EXCEPT ![t] = result]
    /\ conv' = [conv EXCEPT ![t] = NoConversation]
    /\ offered' = [offered EXCEPT ![t] = <<>>]
    /\ again' = [again EXCEPT ![t] = FALSE]

(* get_relevant_chunks answers: a transient status is asked again once,    *)
(* with the same ids; otherwise what was found is recorded.                *)
SearchAnswered(t, reply) ==
    /\ stage[t] = "searching"
    /\ IF Ends(t, reply)
       THEN LET c == conv[t]
                ids == Recordable(reply.chunks)
            IN  /\ SearchOver(t, reply)
                /\ remembered' = Recorded(c, ids)
                /\ shown' = IF ids = <<>> THEN shown
                            ELSE [shown EXCEPT ![c] = [ids |-> ids, age |-> 0]]
       ELSE /\ stage' = [stage EXCEPT ![t] = "pausing"]
            /\ again' = [again EXCEPT ![t] = TRUE]
            /\ UNCHANGED <<conv, offered, found, remembered, shown>>
    /\ UNCHANGED bundle

PauseOver(t) ==
    /\ stage[t] = "pausing"
    /\ stage' = [stage EXCEPT ![t] = "searching"]
    /\ UNCHANGED <<conv, offered, again, found, bundle, remembered, shown>>

(* handle_rpc_error: a gRPC error is not asked again. *)
SearchRaises(t) ==
    /\ stage[t] = "searching"
    /\ SearchOver(t, Raised)
    /\ UNCHANGED <<bundle, remembered, shown>>

(* MemoryClient.get_memory, GraphClient.get_graph_context and what         *)
(* collect makes of their errors: a memory that fails leaves the turns the *)
(* request brought, a graph that fails describes nothing.                  *)
FromMemory(ok, w) == IF ok THEN w ELSE [w EXCEPT !.memory = <<>>]

FromGraph(ok, described) == IF ok THEN described ELSE {}

(* gather, merge and the history: memory and graph have answered or        *)
(* failed; the list of sources that are missing is left out.               *)
Gather(t, memoryOK, graphOK, described, w) ==
    /\ stage[t] = "retrieved"
    /\ bundle' = [bundle EXCEPT ![t] =
           Merge(found[t].chunks, FromGraph(graphOK, described), FromMemory(memoryOK, w))]
    /\ stage' = [stage EXCEPT ![t] = "collected"]
    /\ UNCHANGED <<conv, offered, again, found, remembered, shown>>

(* The pipeline goes on with the bundle, and the task to another event.    *)
HandOver(t) ==
    /\ stage[t] = "collected"
    /\ stage' = [stage EXCEPT ![t] = "idle"]
    /\ found' = [found EXCEPT ![t] = NotFetched]
    /\ bundle' = [bundle EXCEPT ![t] = NoBundle]
    /\ UNCHANGED <<conv, offered, again, remembered, shown>>

Aged(e) == [e EXCEPT !.age = IF @ > IdsTTL THEN @ ELSE @ + 1]

IdsAge ==
    /\ remembered' = [i \in DOMAIN remembered |-> Aged(remembered[i])]
    /\ shown' = [c \in Conversations |-> IF Aged(shown[c]).age > IdsTTL THEN NoIds ELSE Aged(shown[c])]
    /\ UNCHANGED turn

Start(t) == CollectWithoutFiles(t) \/ \E c \in Conversations : Collect(t, c)

Fetch(t) ==
    \/ NoWholeText(t) \/ QueryRewritten(t) \/ PauseOver(t) \/ SearchRaises(t)
    \/ \E chunks \in Answers : WholeText(t, chunks) \/ SearchAnswered(t, Reply("OK", chunks))
    \/ \E status \in Transient \union Refusals : SearchAnswered(t, Reply(status, <<>>))
    \/ \E memoryOK, graphOK \in BOOLEAN, described \in Descriptions, w \in Windows :
          Gather(t, memoryOK, graphOK, described, w)

(* Nothing is awaited between the merge and the next stage of the request, *)
(* so no other task runs while a turn is collected.                        *)
Merging == \E t \in Turns : stage[t] = "collected"

TurnStep(t) == HandOver(t) \/ (~Merging /\ Fetch(t))

CollectorNext ==
    \/ \E t \in Turns : TurnStep(t) \/ (~Merging /\ Start(t))
    \/ ~Merging /\ IdsAge

(* Every call a turn waits for ends (the gRPC calls have deadlines, the    *)
(* rewrite a timeout), and the event loop runs its ready tasks in turn: a  *)
(* merge of another task delays a turn, and cannot do so for ever.         *)
CollectorSpec == CollectorInit /\ [][CollectorNext]_collectorVars /\ \A t \in Turns : SF_collectorVars(TurnStep(t))

-----------------------------------------------------------------------------
(* Safety: every passage that was found is in the merged context, under    *)
(* its own file if the service named the files, unless the graph says the  *)
(* same; none is there twice, and they are ranked                          *)
(* (ContextMerger._deduplicate_chunks and _rank_chunks).                   *)
PassagesAccounted ==
    \A t \in Turns : stage[t] = "collected" =>
        LET kept == bundle[t].chunks
        IN  /\ \A c \in ToSet(found[t].chunks) :
                  Text[c] \in bundle[t].described \/ \E k \in ToSet(kept) : Same(k, c)
            /\ \A i, j \in DOMAIN kept : i < j =>
                  /\ Score[kept[i]] >= Score[kept[j]]
                  /\ <<Text[kept[i]], File[kept[i]]>> # <<Text[kept[j]], File[kept[j]]>>

InCommon(w) == \E m \in ToSet(w.memory), e \in ToSet(w.event) : m.id = e.id /\ m.id # 0

(* Safety: however memory lags behind the request, no turn comes twice in  *)
(* the history, and once memory and the request know a turn in common the  *)
(* history ends with all the turns of the request                          *)
(* (RequestPipeline.merge_histories).                                      *)
HistoryMerged ==
    \A t \in Turns : stage[t] = "collected" =>
        LET w == bundle[t].window
            h == bundle[t].history
        IN  /\ NamedOnce(h)
            /\ InCommon(w) => IsSuffix(w.event, h)

(* Conversations whose chunks were found after those of c. *)
Newer(c) == {d \in Conversations \ {c} : shown[d].ids # <<>> /\ shown[d].age <= shown[c].age}

LatestOffered(t) ==
    LET c == conv[t]
    IN  \/ offered'[t] = shown[c].ids
        \/ offered'[t] = <<>> /\ Cardinality(Newer(c)) >= MaxConversations

(* Safety: a search names the chunks of the last search of its own         *)
(* conversation that found any, and none once they are too old; they are   *)
(* missing only when as many other conversations as the store holds found  *)
(* theirs later (PreviousChunkStore, ContextCollector._fetch_retrieval).   *)
OfferedAreLatest ==
    [][\A t \in Turns : stage[t] = "rewriting" /\ stage'[t] = "searching" => LatestOffered(t)]_collectorVars

(* Liveness: a turn with files gets its context, whatever the services     *)
(* answer and however often they ask to come back later.                   *)
CollectionEnds == \A t \in Turns : stage[t] = "reading" ~> stage[t] = "collected"

(* What merge_histories says of itself: a message is recognized "by id     *)
(* when both sides have one, else by role + whitespace-normalised text",   *)
(* and memory contributes the messages older than the first one both know. *)
SameMessage(m, e) == IF m.id # 0 /\ e.id # 0 THEN m.id = e.id ELSE m.text = e.text

(* Refuted: the code also compares the texts of messages that have ids, so *)
(* the first short answer that is repeated ("ok") cuts away every later    *)
(* message of memory.                                                      *)
OlderTurnsKept ==
    \A t \in Turns : stage[t] = "collected" =>
        LET w == bundle[t].window
            Older(i) == \A j \in 1..i, e \in ToSet(w.event) : ~SameMessage(w.memory[j], e)
        IN  \A i \in DOMAIN w.memory : Older(i) => w.memory[i] \in ToSet(bundle[t].history)
=============================================================================
