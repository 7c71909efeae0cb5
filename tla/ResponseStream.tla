---------------------------- MODULE ResponseStream ----------------------------
(***************************************************************************)
(* The answer of one request on its way to Kafka: StreamingEngine.stream   *)
(* buffers the tokens of the provider and publishes chunks, the response   *)
(* and the memory update through KafkaPublisher._send, and RequestPipeline *)
(* .run turns an exception into one error event.  The publisher is shared  *)
(* with the process, which may stop it under a running request.            *)
(*                                                                         *)
(* A token is a piece of text, a code fence or empty; pieces of text are   *)
(* numbered in the order they are read.                                    *)
(***************************************************************************)
EXTENDS Integers, Sequences

CONSTANTS
    MaxTokens,      \* max_tokens of the request: the longest stream
    FirstChunk,     \* first_chunk_size
    DefaultChunk,   \* default_chunk_size
    CodeChunk,      \* code_block_chunk_size
    MaxAttempts     \* max_attempts of the publisher's RetryPolicy

ASSUME StreamConstantsOK ==
    /\ MaxTokens \in Nat
    /\ FirstChunk \in Nat \ {0} /\ DefaultChunk \in Nat \ {0} /\ CodeChunk \in Nat \ {0}
    /\ MaxAttempts \in Nat \ {0}

VARIABLES
    up,         \* KafkaPublisher._started
    pc,         \* reading (a token), sending, done
    event,      \* what is being sent: chunk, last, response, memory, error
    attempt,    \* attempt of execute_with_retry
    tokens,     \* tokens read
    text,       \* pieces of text read
    count,      \* buffer_tokens
    sent,       \* pieces of text in the chunks already flushed
    index,      \* chunk_index
    first,      \* first_chunk_emitted
    code,       \* in_code_block
    chunks,     \* the chunk topic: this answer's chunks as they landed
    published   \* events of the answer that landed: response, memory, error

stream == <<tokens, text, count, sent, index, first, code>>
topics == <<chunks, published>>
vars == <<up, pc, event, attempt, stream, topics>>

Init ==
    /\ up = TRUE /\ pc = "reading" /\ event = "none" /\ attempt = 0
    /\ tokens = 0 /\ text = 0 /\ count = 0 /\ sent = 0 /\ index = 0
    /\ first = FALSE /\ code = FALSE
    /\ chunks = <<>> /\ published = {}

-----------------------------------------------------------------------------
(* The call _send(e) up to its first await, which raises when the          *)
(* publisher is not started; the exception of anything but the error event *)
(* itself makes run() send the error event.                                *)
Give(e) == pc' = "sending" /\ event' = e /\ attempt' = 1
Quit == pc' = "done" /\ event' = "none" /\ attempt' = 0

(* Mutated form: a chunk that cannot be sent ends the run unheard. *)
RaiseQuietly(e) == IF up /\ e \notin {"error", "chunk"} THEN Give("error") ELSE Quit

Raise(e) == IF up /\ e # "error" THEN Give("error") ELSE Quit

Send(e) == IF up THEN Give(e) ELSE Quit

(* target_chunk_size *)
Target(inCode) ==
    CASE ~first           -> FirstChunk
      [] first /\ inCode  -> CodeChunk
      [] first /\ ~inCode -> DefaultChunk

(* One token; a full buffer, or one the flush interval has passed for, is  *)
(* flushed, which publishes nothing when its tokens hold no text.          *)
ReadToken(kind, late) ==
    LET inCode == IF kind = "fence" THEN ~code ELSE code
        more   == IF kind = "empty" THEN 0 ELSE 1
        flush  == late \/ count + 1 >= Target(inCode)
        full   == flush /\ text + more > sent
        blank  == flush /\ text + more = sent
    IN
    /\ pc = "reading" /\ tokens < MaxTokens
    /\ tokens' = tokens + 1
    /\ text' = text + more
    /\ code' = inCode
    /\ count' = IF blank THEN 0 ELSE count + 1
    /\ index' = IF blank THEN index + 1 ELSE index
    /\ first' = (first \/ blank)
    /\ IF full THEN Send("chunk") ELSE UNCHANGED <<pc, event, attempt>>
    /\ UNCHANGED <<up, sent, topics>>

(* Mutated form: the rest of the buffer is forgotten. *)
EndsUnflushed ==
    /\ pc = "reading"
    /\ Send("response")
    /\ UNCHANGED <<up, tokens, text, count, sent, index, first, code, topics>>

(* The provider's stream is over: what is left in the buffer goes out as   *)
(* the last chunk, then the response.                                      *)
StreamEnds ==
    /\ pc = "reading"
    /\ \/ text > sent /\ Send("last") /\ UNCHANGED <<count, index>>
       \/ /\ text = sent /\ Send("response")
          /\ index' = IF count > 0 THEN index + 1 ELSE index
          /\ count' = 0
    /\ UNCHANGED <<up, tokens, text, sent, first, code, topics>>

(* Every provider failed, or one failed in the middle of the answer. *)
ProviderRaises ==
    /\ pc = "reading"
    /\ Raise("token")
    /\ UNCHANGED <<up, stream, topics>>

(* Mutated form: a chunk below the usual size is taken for the last one. *)
ChunkShortIsLast ==
    [seq |-> index + 1, from |-> sent + 1, to |-> text, last |-> count < DefaultChunk]

Chunk == [seq |-> index + 1, from |-> sent + 1, to |-> text, last |-> event = "last"]

(* The broker has stored the event. *)
Land ==
    IF event \in {"chunk", "last"}
    THEN chunks' = Append(chunks, Chunk) /\ UNCHANGED published
    ELSE published' = published \union {event} /\ UNCHANGED chunks

(* Mutated form: the buffer is not emptied after a flush. *)
FlushedButKept ==
    /\ index' = index + 1
    /\ first' = TRUE
    /\ UNCHANGED <<tokens, text, count, sent, code>>

Flushed ==
    /\ sent' = text
    /\ count' = 0
    /\ index' = index + 1
    /\ first' = TRUE
    /\ UNCHANGED <<tokens, text, code>>

(* Mutated form: the memory update goes out before the response. *)
SentMemoryFirst ==
    /\ pc = "sending"
    /\ Land
    /\ \/ event = "chunk" /\ Flushed /\ pc' = "reading" /\ event' = "none" /\ attempt' = 0
       \/ event = "last" /\ Flushed /\ Send("memory")
       \/ event = "memory" /\ Send("response") /\ UNCHANGED stream
       \/ event \in {"response", "error"} /\ Quit /\ UNCHANGED stream
    /\ UNCHANGED up

(* _send returns and stream() goes on with the next event. *)
Sent ==
    /\ pc = "sending"
    /\ Land
    /\ \/ event = "chunk" /\ Flushed /\ pc' = "reading" /\ event' = "none" /\ attempt' = 0
       \/ event = "last" /\ Flushed /\ Send("response")
       \/ event = "response" /\ Send("memory") /\ UNCHANGED stream
       \/ event \in {"memory", "error"} /\ Quit /\ UNCHANGED stream
    /\ UNCHANGED up

(* A retriable error, before or after the broker stored the event: the     *)
(* same event is sent again while attempts remain and the producer lives.  *)
SendTransient(landed) ==
    /\ pc = "sending"
    /\ IF landed THEN Land ELSE UNCHANGED topics
    /\ IF up /\ attempt < MaxAttempts
       THEN attempt' = attempt + 1 /\ UNCHANGED <<pc, event>>
       ELSE Raise(event)
    /\ UNCHANGED <<up, stream>>

(* An error that is not retriable, as most of the client library's are. *)
SendFails(landed) ==
    /\ pc = "sending"
    /\ IF landed THEN Land ELSE UNCHANGED topics
    /\ Raise(event)
    /\ UNCHANGED <<up, stream>>

(* lifespan shutdown stops the publisher; the request's task lives on. *)
StopPublisher ==
    /\ up
    /\ up' = FALSE
    /\ UNCHANGED <<pc, event, attempt, stream, topics>>

Run ==
    \/ \E kind \in {"text", "fence", "empty"}, late \in BOOLEAN : ReadToken(kind, late)
    \/ StreamEnds \/ ProviderRaises
    \/ Sent \/ \E landed \in BOOLEAN : SendTransient(landed) \/ SendFails(landed)

Next == Run \/ StopPublisher

Spec == Init /\ [][Next]_vars

(* The request's task runs on: the provider answers or misses its          *)
(* deadline, a send succeeds or fails.                                     *)
FairSpec == Spec /\ WF_vars(Run)

-----------------------------------------------------------------------------
(* Properties. *)

Events == {"chunk", "last", "response", "memory", "error"}

Chunks == [seq : Nat, from : Nat, to : Nat, last : BOOLEAN]

TypeOK ==
    /\ up \in BOOLEAN
    /\ pc \in {"reading", "sending", "done"}
    /\ event \in Events \union {"none"} /\ (pc = "sending" <=> event # "none")
    /\ attempt \in 0..MaxAttempts
    /\ tokens \in 0..MaxTokens /\ text \in 0..MaxTokens /\ sent \in 0..MaxTokens
    /\ count \in 0..MaxTokens /\ index \in 0..MaxTokens
    /\ first \in BOOLEAN /\ code \in BOOLEAN
    /\ chunks \in Seq(Chunks)
    /\ published \subseteq {"response", "memory", "error"}

(* A reader of the chunk topic that drops a chunk whose sequence_number it *)
(* has just seen gets the text from its first piece on, in order and       *)
(* without gap or repetition, whatever sends were retried (stream,         *)
(* _flush_buffer).  Numbers rise, and skip where a buffer held no text.    *)
ChunksSpellText ==
    \A i \in DOMAIN chunks :
        /\ chunks[i].from <= chunks[i].to /\ chunks[i].to <= text
        /\ i = 1 => chunks[i].from = 1
        /\ i > 1 =>
              \/ chunks[i] = chunks[i - 1]
              \/ /\ chunks[i].seq > chunks[i - 1].seq
                 /\ chunks[i].from = chunks[i - 1].to + 1

(* is_last is only ever set on the end of the text: a reader that stops at *)
(* the chunk marked last has missed nothing (stream, final flush).         *)
LastEndsText ==
    \A i \in DOMAIN chunks : chunks[i].last =>
        /\ chunks[i].to = text
        /\ \A j \in DOMAIN chunks : j > i => chunks[j] = chunks[i]

(* Only an answer the user can see is handed to the memory service.        *)
RememberedWasShown ==
    "memory" \in published =>
        /\ "response" \in published
        /\ text > 0 => chunks # <<>> /\ chunks[Len(chunks)].to = text

(* run(): "on failure, publishes an error-variant event so the             *)
(* Conversation Service is never left waiting indefinitely".  A run ends   *)
(* unheard only when the error event itself cannot be sent.                *)
NeverLeftWaiting ==
    [][(pc # "done" /\ pc' = "done") =>
          (published' \intersect {"response", "error"} # {} \/ event = "error" \/ ~up)]_vars

(* The stream keeps the promise AnswerDelivery states. *)
Shown == IF chunks = <<>> THEN 0 ELSE chunks[Len(chunks)].to

Outcome ==
    CASE {"response", "error"} \subseteq published -> "retracted"
      [] "response" \in published /\ "error" \notin published -> "answered"
      [] "response" \notin published /\ "error" \in published -> "failed"
      [] published \intersect {"response", "error"} = {} /\ pc = "done" -> "silent"
      [] published \intersect {"response", "error"} = {} /\ pc # "done" -> "open"

Promise == INSTANCE AnswerDelivery WITH produced <- text, shown <- Shown, outcome <- Outcome

DeliversAnswer == Promise!Spec

=============================================================================
