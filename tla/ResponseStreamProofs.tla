------------------------- MODULE ResponseStreamProofs -------------------------
(***************************************************************************)
(* Proofs about ResponseStream: type correctness, the order and            *)
(* completeness of the chunk topic, and that the stream implements         *)
(* AnswerDelivery.  The strengthening is IInv: what has landed on the      *)
(* chunk topic is exactly what was flushed, but for the chunk in flight,   *)
(* which may have landed already.                                          *)
(***************************************************************************)
EXTENDS ResponseStream, TLAPS

(* The buffer: text that is not flushed is among the buffered tokens, and  *)
(* every chunk number but the next one stands for a token at least.        *)
Buffered ==
    /\ sent <= text /\ text - sent <= count
    /\ text <= tokens /\ index + count <= tokens
    /\ event \in {"chunk", "last"} => sent < text
    /\ event \in {"response", "memory"} => sent = text

InFlight == event \in {"chunk", "last"}
Over == pc # "reading" /\ event \in {"none", "error"}
LastChunk == chunks[Len(chunks)]

(* Where the chunk topic ends. *)
Frontier ==
    \/ Over
    \/ InFlight /\ chunks # <<>> /\ LastChunk = Chunk
    \/ Shown = sent /\ (chunks # <<>> => LastChunk.seq <= index)

(* A chunk marked last belongs to the final flush. *)
Marked ==
    \A i \in DOMAIN chunks : chunks[i].last =>
        /\ pc # "reading" /\ event # "chunk"
        /\ event = "last" => chunks[i] = Chunk

(* Which events may have landed. *)
Landed ==
    /\ (pc = "reading" \/ InFlight) => published = {}
    /\ event = "response" => published \subseteq {"response"}
    /\ event = "memory" => "response" \in published /\ "error" \notin published
    /\ "memory" \in published => "response" \in published
    /\ "response" \in published => Shown = text

IInv ==
    /\ TypeOK
    /\ Buffered
    /\ Frontier
    /\ Marked
    /\ Landed
    /\ ChunksSpellText
    /\ LastEndsText

-----------------------------------------------------------------------------
(* A chunk is well formed when it is sent: it holds text, and it starts    *)
(* where the flushed text ends.                                            *)
LEMMA ChunkType ==
    ASSUME StreamConstantsOK, TypeOK, Buffered, InFlight
    PROVE  /\ Chunk \in Chunks
           /\ Chunk.seq = index + 1 /\ Chunk.from = sent + 1 /\ Chunk.to = text
           /\ Chunk.last <=> event = "last"
           /\ sent < text
<1>1. index + 1 \in Nat /\ sent + 1 \in Nat /\ text \in Nat /\ (event = "last") \in BOOLEAN
  BY DEF StreamConstantsOK, TypeOK
<1>2. Chunk \in Chunks
  BY <1>1 DEF Chunk, Chunks
<1>3. Chunk.seq = index + 1 /\ Chunk.from = sent + 1 /\ Chunk.to = text
  BY DEF Chunk
<1>4. Chunk.last <=> event = "last"
  BY Zenon DEF Chunk
<1>5. sent < text
  BY DEF Buffered, InFlight
<1> QED BY <1>2, <1>3, <1>4, <1>5

(* What landing does to the chunk topic while a chunk is in flight: it     *)
(* continues the text or repeats the chunk that landed before.             *)
LEMMA ChunkLands ==
    ASSUME StreamConstantsOK, IInv, InFlight, Land, UNCHANGED text
    PROVE  /\ chunks' = Append(chunks, Chunk) /\ chunks' \in Seq(Chunks)
           /\ published' = published
           /\ chunks' # <<>> /\ chunks'[Len(chunks')] = Chunk /\ Shown' = text
           /\ ChunksSpellText'
           /\ event = "chunk" => \A i \in DOMAIN chunks' : ~chunks'[i].last
           /\ event = "last" => \A i \in DOMAIN chunks' : chunks'[i].last => chunks'[i] = Chunk
           /\ LastEndsText'
<1> DEFINE n == Len(chunks)
<1>1. /\ chunks \in Seq(Chunks) /\ n \in Nat /\ DOMAIN chunks = 1..n
      /\ \A i \in 1..n : chunks[i] \in Chunks
  BY DEF IInv, TypeOK
<1>2. /\ Chunk \in Chunks /\ Chunk.seq = index + 1 /\ Chunk.from = sent + 1
      /\ Chunk.to = text /\ (Chunk.last <=> event = "last") /\ sent < text
  BY ChunkType DEF IInv
<1>3. chunks' = Append(chunks, Chunk) /\ published' = published
  BY DEF Land, InFlight
<1>4. /\ Len(chunks') = n + 1 /\ DOMAIN chunks' = 1..n + 1
      /\ \A i \in 1..n : chunks'[i] = chunks[i]
      /\ chunks'[n + 1] = Chunk /\ chunks' # <<>> /\ chunks' \in Seq(Chunks)
  BY <1>1, <1>2, <1>3
<1>5. Shown' = text
  BY <1>2, <1>4 DEF Shown
<1>6. n > 0 => chunks # <<>> /\ LastChunk = chunks[n] /\ Shown = chunks[n].to
  BY <1>1 DEF LastChunk, Shown
<1>7. n = 0 => Shown = 0 /\ chunks = <<>>
  BY <1>1 DEF Shown
<1>8. \/ n > 0 /\ chunks[n] = Chunk
      \/ n = 0 /\ sent = 0
      \/ n > 0 /\ chunks[n].to = sent /\ chunks[n].seq <= index
  BY <1>6, <1>7, <1>1 DEF IInv, Frontier, Over, InFlight
<1>9. ChunksSpellText'
  <2>1. \A i \in 1..n : /\ chunks[i].from <= chunks[i].to /\ chunks[i].to <= text
                        /\ i = 1 => chunks[i].from = 1
                        /\ i > 1 =>
                              \/ chunks[i] = chunks[i - 1]
                              \/ /\ chunks[i].seq > chunks[i - 1].seq
                                 /\ chunks[i].from = chunks[i - 1].to + 1
    BY <1>1 DEF IInv, ChunksSpellText
  <2>2. Chunk.from <= Chunk.to /\ Chunk.to <= text
    BY <1>2 DEF IInv, TypeOK, StreamConstantsOK
  <2>3. n + 1 = 1 => Chunk.from = 1
    BY <1>1, <1>2, <1>8
  <2>4. n + 1 > 1 =>
           \/ Chunk = chunks[n]
           \/ Chunk.seq > chunks[n].seq /\ Chunk.from = chunks[n].to + 1
    <3>1. index \in Nat /\ (n > 0 => chunks[n].seq \in Nat)
      BY <1>1 DEF IInv, TypeOK, StreamConstantsOK, Chunks
    <3>2. Chunk.seq = index + 1 /\ Chunk.from = sent + 1
      BY <1>2
    <3>3. CASE n > 0 /\ chunks[n] = Chunk
      <4>1. Chunk = chunks[n]
        BY <3>3
      <4> QED BY <4>1
    <3>4. CASE n = 0
      BY <3>4
    <3>5. CASE n > 0 /\ chunks[n].to = sent /\ chunks[n].seq <= index
      BY <3>1, <3>2, <3>5
    <3> QED BY <1>8, <3>3, <3>4, <3>5
  <2>5. SUFFICES ASSUME NEW i \in 1..n + 1
                 PROVE  /\ chunks'[i].from <= chunks'[i].to /\ chunks'[i].to <= text
                        /\ i = 1 => chunks'[i].from = 1
                        /\ i > 1 =>
                              \/ chunks'[i] = chunks'[i - 1]
                              \/ /\ chunks'[i].seq > chunks'[i - 1].seq
                                 /\ chunks'[i].from = chunks'[i - 1].to + 1
    BY <1>4 DEF ChunksSpellText
  <2>6. CASE i \in 1..n
    <3>1. i > 1 => i - 1 \in 1..n /\ chunks'[i - 1] = chunks[i - 1]
      BY <2>6, <1>1, <1>4
    <3> QED BY <2>1, <2>6, <1>4, <3>1
  <2>7. CASE i = n + 1
    <3>1. i > 1 => n \in 1..n /\ i - 1 = n /\ chunks'[i - 1] = chunks[n]
      BY <2>7, <1>1, <1>4
    <3> QED BY <2>2, <2>3, <2>4, <2>7, <1>4, <3>1
  <2> QED BY <2>6, <2>7, <1>1
<1>10. event = "chunk" => \A i \in DOMAIN chunks' : ~chunks'[i].last
  <2>1. event = "chunk" => ~Chunk.last /\ \A i \in 1..n : ~chunks[i].last
    BY <1>1, <1>2 DEF IInv, Marked
  <2> QED BY <2>1, <1>1, <1>4
<1>11. event = "last" => \A i \in DOMAIN chunks' : chunks'[i].last => chunks'[i] = Chunk
  <2>1. event = "last" => \A i \in 1..n : chunks[i].last => chunks[i] = Chunk
    BY <1>1 DEF IInv, Marked
  <2> QED BY <2>1, <1>1, <1>4
<1>12. LastEndsText'
  <2>1. CASE event = "chunk"
    BY <1>10, <2>1 DEF LastEndsText
  <2>2. CASE event = "last"
    <3>1. \A i \in 1..n : chunks[i].last =>
             chunks[i] = Chunk /\ \A j \in 1..n : j > i => chunks[j] = chunks[i]
      BY <1>1, <2>2 DEF IInv, Marked, LastEndsText
    <3>2. SUFFICES ASSUME NEW i \in 1..n + 1, chunks'[i].last
                   PROVE  chunks'[i].to = text
                          /\ \A j \in 1..n + 1 : j > i => chunks'[j] = chunks'[i]
      BY <1>4 DEF LastEndsText
    <3>3. chunks'[i] = Chunk
      BY <1>4, <1>11, <2>2, <3>2
    <3>4. ASSUME NEW j \in 1..n + 1, j > i PROVE chunks'[j] = Chunk
      <4>1. CASE j = n + 1  BY <4>1, <1>4
      <4>2. CASE j \in 1..n
        <5>1. i \in 1..n /\ chunks[i].last
          BY <4>2, <3>4, <3>2, <1>1, <1>4
        <5> QED BY <5>1, <4>2, <3>1, <3>4, <1>4
      <4> QED BY <4>1, <4>2, <1>1
    <3> QED BY <3>3, <3>4, <1>2
  <2> QED BY <2>1, <2>2 DEF InFlight
<1> QED BY <1>3, <1>4, <1>5, <1>9, <1>10, <1>11, <1>12

(* Any other event leaves the chunk topic alone. *)
LEMMA EventLands ==
    ASSUME IInv, pc = "sending", ~InFlight, Land
    PROVE  chunks' = chunks /\ published' = published \union {event}
           /\ event \in {"response", "memory", "error"}
  BY DEF IInv, TypeOK, InFlight, Land, Events

-----------------------------------------------------------------------------
(* The part of IInv that speaks of the topics alone. *)
TopicsOK ==
    /\ chunks \in Seq(Chunks) /\ published \subseteq {"response", "memory", "error"}
    /\ ChunksSpellText /\ LastEndsText
    /\ "memory" \in published => "response" \in published
    /\ "response" \in published => Shown = text

(* Whether the event landed or not, the topics stay in order. *)
LEMMA TopicsAfter ==
    ASSUME StreamConstantsOK, IInv, pc = "sending", Land \/ UNCHANGED topics, UNCHANGED text
    PROVE  /\ TopicsOK'
           /\ InFlight => published' = {}
           /\ ~InFlight => chunks' = chunks
           /\ event = "response" => published' \subseteq {"response"}
           /\ event = "memory" => "response" \in published' /\ "error" \notin published'
           /\ InFlight => \/ chunks' = chunks
                          \/ chunks' # <<>> /\ chunks'[Len(chunks')] = Chunk /\ Shown' = text
           /\ event = "chunk" => \A i \in DOMAIN chunks' : ~chunks'[i].last
           /\ event = "last" => \A i \in DOMAIN chunks' : chunks'[i].last => chunks'[i] = Chunk
<1>1. CASE Land /\ InFlight
  <2>1. /\ chunks' \in Seq(Chunks) /\ published' = published
        /\ chunks' # <<>> /\ chunks'[Len(chunks')] = Chunk /\ Shown' = text
        /\ ChunksSpellText' /\ LastEndsText'
        /\ event = "chunk" => \A i \in DOMAIN chunks' : ~chunks'[i].last
        /\ event = "last" => \A i \in DOMAIN chunks' : chunks'[i].last => chunks'[i] = Chunk
    BY <1>1, ChunkLands
  <2>2. published = {}
    BY <1>1 DEF IInv, Landed
  <2> QED BY <2>1, <2>2, <1>1 DEF TopicsOK, InFlight
<1>2. CASE Land /\ ~InFlight
  <2>1. chunks' = chunks /\ published' = published \union {event}
        /\ event \in {"response", "memory", "error"}
    BY <1>2, EventLands
  <2>2. ChunksSpellText' /\ LastEndsText' /\ Shown' = Shown /\ chunks' \in Seq(Chunks)
    BY <2>1 DEF IInv, TypeOK, ChunksSpellText, LastEndsText, Shown
  <2>3. event = "response" => Shown = text
    BY DEF IInv, Frontier, Over, Buffered, InFlight
  <2> QED BY <1>2, <2>1, <2>2, <2>3 DEF TopicsOK, InFlight, IInv, Landed, TypeOK
<1>3. CASE UNCHANGED topics
  <2>1. chunks' = chunks /\ published' = published /\ Shown' = Shown
    BY <1>3 DEF topics, Shown
  <2>2. TopicsOK'
    BY <2>1 DEF TopicsOK, IInv, TypeOK, ChunksSpellText, LastEndsText, Landed
  <2>3. InFlight => published' = {}
    BY <2>1 DEF IInv, Landed
  <2>4. /\ event = "response" => published' \subseteq {"response"}
        /\ event = "memory" => "response" \in published' /\ "error" \notin published'
    BY <2>1 DEF IInv, Landed
  <2>5. /\ event = "chunk" => \A i \in DOMAIN chunks' : ~chunks'[i].last
        /\ event = "last" => \A i \in DOMAIN chunks' : chunks'[i].last => chunks'[i] = Chunk
    BY <2>1 DEF IInv, Marked
  <2> QED BY <2>1, <2>2, <2>3, <2>4, <2>5
<1> QED BY <1>1, <1>2, <1>3

(* The run is over, or only its error event is left to send. *)
LEMMA Ending ==
    ASSUME StreamConstantsOK, IInv, TopicsOK', Quit \/ Give("error"), up' \in BOOLEAN,
           UNCHANGED stream
    PROVE  IInv'
<1>1. /\ pc' # "reading" /\ pc' \in {"sending", "done"} /\ event' \in {"none", "error"}
      /\ (pc' = "sending" <=> event' # "none") /\ attempt' \in {0, 1}
  BY DEF Quit, Give
<1>2. TypeOK'
  BY <1>1 DEF IInv, TypeOK, TopicsOK, stream, StreamConstantsOK, Events
<1>3. Buffered'
  BY <1>1 DEF IInv, Buffered, stream
<1>4. Frontier' /\ Marked'
  BY <1>1 DEF Frontier, Marked, Over
<1>5. Landed'
  BY <1>1 DEF Landed, TopicsOK, InFlight
<1> QED BY <1>2, <1>3, <1>4, <1>5 DEF IInv, TopicsOK

LEMMA RetryStep ==
    ASSUME StreamConstantsOK, IInv, pc = "sending", Land \/ UNCHANGED topics,
           attempt < MaxAttempts, attempt' = attempt + 1, UNCHANGED <<pc, event, up, stream>>
    PROVE  IInv'
<1>1. UNCHANGED <<pc, event, up, tokens, text, count, sent, index, first, code>>
  BY DEF stream
<1>2. /\ TopicsOK'
      /\ InFlight => published' = {}
      /\ ~InFlight => chunks' = chunks
      /\ event = "response" => published' \subseteq {"response"}
      /\ event = "memory" => "response" \in published' /\ "error" \notin published'
      /\ InFlight => \/ chunks' = chunks
                     \/ chunks' # <<>> /\ chunks'[Len(chunks')] = Chunk /\ Shown' = text
      /\ event = "chunk" => \A i \in DOMAIN chunks' : ~chunks'[i].last
      /\ event = "last" => \A i \in DOMAIN chunks' : chunks'[i].last => chunks'[i] = Chunk
  BY <1>1, TopicsAfter
<1>3. TypeOK'
  BY <1>1, <1>2 DEF IInv, TypeOK, TopicsOK, StreamConstantsOK, Events
<1>4. Buffered'
  BY <1>1 DEF IInv, Buffered
<1>5. Chunk' = Chunk
  BY <1>1 DEF Chunk
<1>6. Frontier'
  <2>1. CASE chunks' = chunks
    BY <1>1, <1>5, <2>1 DEF IInv, Frontier, Over, InFlight, Shown, LastChunk
  <2>2. CASE InFlight /\ chunks' # <<>> /\ chunks'[Len(chunks')] = Chunk
    BY <1>1, <1>5, <2>2 DEF Frontier, InFlight, LastChunk
  <2> QED BY <1>2, <2>1, <2>2
<1>7. Marked'
  <2>1. CASE InFlight
    BY <1>1, <1>2, <1>5, <2>1 DEF Marked, InFlight
  <2>2. CASE ~InFlight
    BY <1>1, <1>2, <1>5, <2>2 DEF IInv, Marked, InFlight
  <2> QED BY <2>1, <2>2
<1>8. Landed'
  BY <1>1, <1>2 DEF IInv, Landed, InFlight, TopicsOK
<1> QED BY <1>2, <1>3, <1>4, <1>6, <1>7, <1>8 DEF IInv, TopicsOK

-----------------------------------------------------------------------------
LEMMA ChunksTyped ==
    ASSUME TypeOK
    PROVE  /\ \A i \in DOMAIN chunks : chunks[i].to \in Nat /\ chunks[i].seq \in Nat
           /\ chunks # <<>> => LastChunk.seq \in Nat
<1>1. chunks \in Seq(Chunks) /\ \A i \in DOMAIN chunks : chunks[i] \in Chunks
  BY DEF TypeOK
<1>2. \A i \in DOMAIN chunks : chunks[i].to \in Nat /\ chunks[i].seq \in Nat
  BY <1>1 DEF Chunks
<1>3. chunks # <<>> => Len(chunks) \in DOMAIN chunks
  BY <1>1
<1> QED BY <1>2, <1>3 DEF LastChunk

(* The code between two sends leaves the topics alone. *)
LEMMA TopicsStay ==
    ASSUME IInv, UNCHANGED topics, text' \in Nat, text' >= text,
           text' = text \/ (published = {} /\ \A i \in DOMAIN chunks : ~chunks[i].last)
    PROVE  TopicsOK' /\ Shown' = Shown
<1>1. chunks' = chunks /\ published' = published /\ Shown' = Shown
  BY DEF topics, Shown
<1>2. ChunksSpellText'
  <2>1. \A i \in DOMAIN chunks : chunks[i].to \in Nat
    BY ChunksTyped DEF IInv
  <2>2. text \in Nat
    BY DEF IInv, TypeOK
  <2> QED BY <1>1, <2>1, <2>2 DEF IInv, ChunksSpellText
<1>3. LastEndsText'
  BY <1>1 DEF IInv, LastEndsText
<1> QED BY <1>1, <1>2, <1>3 DEF IInv, TypeOK, TopicsOK, Landed

LEMMA ReadTokenStep ==
    ASSUME StreamConstantsOK, IInv, NEW kind \in {"text", "fence", "empty"}, NEW late \in BOOLEAN,
           ReadToken(kind, late)
    PROVE  IInv'
<1> DEFINE more == IF kind = "empty" THEN 0 ELSE 1
<1>1. /\ pc = "reading" /\ tokens < MaxTokens /\ tokens' = tokens + 1 /\ text' = text + more
      /\ code' \in BOOLEAN /\ first' \in BOOLEAN /\ sent' = sent /\ up' = up
      /\ UNCHANGED topics /\ more \in {0, 1}
      /\ \/ count' = count + 1 /\ index' = index
         \/ count' = 0 /\ index' = index + 1 /\ text' = sent
      /\ \/ pc' = pc /\ event' = event /\ attempt' = attempt
         \/ Quit
         \/ Give("chunk") /\ text' > sent
  BY DEF ReadToken, IInv, TypeOK, StreamConstantsOK, Send, topics
<1>2. event = "none" /\ published = {} /\ \A i \in DOMAIN chunks : ~chunks[i].last
  BY <1>1 DEF IInv, TypeOK, Landed, Marked, Events
<1>3. /\ tokens \in Nat /\ text \in Nat /\ sent \in Nat /\ count \in Nat /\ index \in Nat
      /\ MaxTokens \in Nat /\ MaxAttempts \in Nat \ {0} /\ attempt \in Nat
  BY DEF IInv, TypeOK, StreamConstantsOK
<1>4. /\ sent <= text /\ text - sent <= count /\ text <= tokens /\ index + count <= tokens
  BY DEF IInv, Buffered
<1>5. TopicsOK' /\ Shown' = Shown
  BY <1>1, <1>2, <1>3, TopicsStay
<1>6. /\ sent' <= text' /\ text' - sent' <= count' /\ text' <= tokens'
      /\ index' + count' <= tokens'
  BY <1>1, <1>3, <1>4
<1>7. Buffered'
  BY <1>1, <1>2, <1>6 DEF Buffered, Quit, Give
<1>8. TypeOK'
  <2>1. /\ tokens' \in 0..MaxTokens /\ text' \in 0..MaxTokens /\ sent' \in 0..MaxTokens
        /\ count' \in 0..MaxTokens /\ index' \in 0..MaxTokens
    BY <1>1, <1>3, <1>6
  <2>2. /\ pc' \in {"reading", "sending", "done"} /\ event' \in Events \union {"none"}
        /\ (pc' = "sending" <=> event' # "none") /\ attempt' \in 0..MaxAttempts
    BY <1>1, <1>2, <1>3 DEF IInv, TypeOK, Quit, Give, Events
  <2> QED BY <1>1, <1>5, <2>1, <2>2 DEF IInv, TypeOK, TopicsOK
<1>9. Shown' = sent' /\ (chunks' # <<>> => LastChunk'.seq <= index')
  <2>1. Shown = sent /\ (chunks # <<>> => LastChunk.seq <= index)
    BY <1>1, <1>2 DEF IInv, Frontier, Over, InFlight
  <2>2. chunks # <<>> => LastChunk.seq \in Nat
    BY ChunksTyped DEF IInv
  <2>3. chunks' = chunks /\ LastChunk' = LastChunk
    BY <1>1 DEF topics, LastChunk
  <2> QED BY <1>1, <1>3, <1>5, <2>1, <2>2, <2>3
<1>10. Frontier'
  BY <1>9 DEF Frontier
<1>11. Marked' /\ Landed'
  <2>1. chunks' = chunks /\ published' = {} /\ event' \notin {"memory"}
    BY <1>1, <1>2 DEF topics, Quit, Give, Send
  <2> QED BY <1>2, <2>1 DEF Marked, Landed
<1> QED BY <1>5, <1>7, <1>8, <1>10, <1>11 DEF IInv, TopicsOK

LEMMA StreamEndsStep ==
    ASSUME StreamConstantsOK, IInv, StreamEnds
    PROVE  IInv'
<1>1. /\ pc = "reading" /\ UNCHANGED <<up, tokens, text, sent, first, code, topics>>
      /\ \/ count' = count /\ index' = index /\ text > sent /\ Send("last")
         \/ /\ text = sent /\ Send("response")
            /\ count' = 0 /\ index' = IF count > 0 THEN index + 1 ELSE index
  BY DEF StreamEnds
<1>2. event = "none" /\ published = {} /\ \A i \in DOMAIN chunks : ~chunks[i].last
  BY <1>1 DEF IInv, TypeOK, Landed, Marked, Events
<1>3. /\ tokens \in Nat /\ text \in Nat /\ sent \in Nat /\ count \in Nat /\ index \in Nat
      /\ MaxTokens \in Nat /\ MaxAttempts \in Nat \ {0} /\ tokens <= MaxTokens
  BY DEF IInv, TypeOK, StreamConstantsOK
<1>4. TopicsOK' /\ Shown' = Shown
  BY <1>1, <1>3, TopicsStay
<1>5. /\ index' \in Nat /\ count' \in Nat /\ index <= index' /\ index' + count' <= tokens
      /\ text - sent <= count'
  BY <1>1, <1>3 DEF IInv, Buffered
<1>6. \/ Quit
      \/ Give("last") /\ text > sent
      \/ Give("response") /\ text = sent
  BY <1>1 DEF Send
<1>7. Buffered'
  BY <1>1, <1>3, <1>5, <1>6 DEF IInv, Buffered, Quit, Give
<1>8. TypeOK'
  <2>1. count' \in 0..MaxTokens /\ index' \in 0..MaxTokens
    <3>1. index' \in Nat /\ count' \in Nat /\ index' + count' <= tokens
      BY <1>5
    <3>2. tokens \in Nat /\ MaxTokens \in Nat /\ tokens <= MaxTokens
      BY <1>3
    <3>3. \A i, c, t, m \in Nat : i + c <= t /\ t <= m => i \in 0..m /\ c \in 0..m
      OBVIOUS
    <3> QED BY <3>1, <3>2, <3>3
  <2>2. /\ pc' \in {"reading", "sending", "done"} /\ event' \in Events \union {"none"}
        /\ (pc' = "sending" <=> event' # "none") /\ attempt' \in 0..MaxAttempts
    BY <1>3, <1>6 DEF Quit, Give, Events
  <2> QED BY <1>1, <1>4, <2>1, <2>2 DEF IInv, TypeOK, TopicsOK
<1>9. Frontier'
  <2>1. Shown = sent /\ (chunks # <<>> => LastChunk.seq <= index)
    BY <1>1, <1>2 DEF IInv, Frontier, Over, InFlight
  <2>2. chunks # <<>> => LastChunk.seq \in Nat
    BY ChunksTyped DEF IInv
  <2>3. chunks' = chunks /\ LastChunk' = LastChunk /\ sent' = sent
    BY <1>1 DEF topics, LastChunk
  <2>4. Shown' = sent' /\ (chunks' # <<>> => LastChunk'.seq <= index')
    BY <1>3, <1>4, <1>5, <2>1, <2>2, <2>3
  <2> QED BY <2>4 DEF Frontier
<1>10. Marked' /\ Landed'
  <2>1. chunks' = chunks /\ published' = {} /\ event' \notin {"memory"}
    BY <1>1, <1>2 DEF topics, Quit, Give, Send
  <2> QED BY <1>2, <2>1 DEF Marked, Landed
<1> QED BY <1>4, <1>7, <1>8, <1>9, <1>10 DEF IInv, TopicsOK

LEMMA SentStep ==
    ASSUME StreamConstantsOK, IInv, Sent
    PROVE  IInv'
<1>1. pc = "sending" /\ Land /\ up' = up /\ event \in Events
  BY DEF Sent, IInv, TypeOK
<1>2. UNCHANGED text
  BY DEF Sent, Flushed, stream
<1>3. /\ TopicsOK'
      /\ InFlight => published' = {}
      /\ event = "chunk" => \A i \in DOMAIN chunks' : ~chunks'[i].last
      /\ event = "last" => \A i \in DOMAIN chunks' : chunks'[i].last => chunks'[i] = Chunk
  BY <1>1, <1>2, TopicsAfter
<1>4. /\ tokens \in Nat /\ text \in Nat /\ sent \in Nat /\ count \in Nat /\ index \in Nat
      /\ MaxTokens \in Nat /\ MaxAttempts \in Nat \ {0} /\ tokens <= MaxTokens
      /\ up \in BOOLEAN
  BY DEF IInv, TypeOK, StreamConstantsOK
<1>5. CASE InFlight
  <2>1. chunks' # <<>> /\ LastChunk' = Chunk /\ Shown' = text
    BY <1>1, <1>2, <1>5, ChunkLands DEF LastChunk
  <2>2. /\ sent' = text /\ count' = 0 /\ index' = index + 1 /\ first' = TRUE
        /\ tokens' = tokens /\ text' = text /\ code' = code
        /\ \/ event = "chunk" /\ pc' = "reading" /\ event' = "none" /\ attempt' = 0
           \/ event = "last" /\ Give("response")
           \/ event = "last" /\ Quit
    BY <1>5 DEF Sent, Flushed, Send, InFlight
  <2>3. Chunk.seq = index + 1 /\ sent < text
    BY <1>5, ChunkType DEF IInv
  <2>4. /\ index' + count' <= tokens' /\ text' <= tokens' /\ index' \in 0..MaxTokens
        /\ sent' <= text' /\ text' - sent' <= count'
    BY <1>4, <2>2, <2>3 DEF IInv, Buffered
  <2>5. Buffered'
    BY <2>2, <2>4 DEF Buffered, Quit, Give
  <2>6. TypeOK'
    <3>1. /\ pc' \in {"reading", "sending", "done"} /\ event' \in Events \union {"none"}
          /\ (pc' = "sending" <=> event' # "none") /\ attempt' \in 0..MaxAttempts
      BY <1>4, <2>2 DEF Quit, Give, Events
    <3>2. /\ tokens' \in 0..MaxTokens /\ text' \in 0..MaxTokens /\ sent' \in 0..MaxTokens
          /\ count' \in 0..MaxTokens /\ code' \in BOOLEAN /\ first' \in BOOLEAN
      BY <1>4, <2>2 DEF IInv, TypeOK
    <3> QED BY <1>1, <1>3, <1>4, <2>4, <3>1, <3>2 DEF TypeOK, TopicsOK
  <2>7. Frontier'
    <3>1. Shown' = sent' /\ LastChunk'.seq <= index'
      BY <1>4, <2>1, <2>2, <2>3
    <3> QED BY <3>1 DEF Frontier
  <2>8. Marked'
    BY <1>3, <2>2 DEF Marked, Quit, Give
  <2>9. Landed'
    BY <1>3, <1>5, <2>2 DEF Landed, Quit, Give
  <2> QED BY <1>3, <2>5, <2>6, <2>7, <2>8, <2>9 DEF IInv, TopicsOK
<1>6. CASE event = "response" /\ Give("memory")
  <2>1. UNCHANGED <<tokens, text, count, sent, index, first, code>>
    BY <1>6 DEF Sent, stream
  <2>2. chunks' = chunks /\ published' = published \union {"response"} /\ published \subseteq {"response"}
    BY <1>1, <1>6, EventLands DEF InFlight, IInv, Landed
  <2>3. pc' = "sending" /\ event' = "memory" /\ attempt' = 1
    BY <1>6 DEF Give
  <2>4. Buffered'
    BY <1>6, <2>1, <2>3 DEF IInv, Buffered
  <2>5. TypeOK'
    BY <1>1, <1>3, <1>4, <2>1, <2>3 DEF IInv, TypeOK, TopicsOK, Events
  <2>6. Frontier'
    BY <1>6, <2>1, <2>2 DEF IInv, Frontier, Over, InFlight, Shown, LastChunk
  <2>7. Marked'
    BY <2>2, <2>3, <1>6 DEF IInv, Marked
  <2>8. Landed'
    BY <1>3, <2>2, <2>3 DEF Landed, TopicsOK, InFlight
  <2> QED BY <1>3, <2>4, <2>5, <2>6, <2>7, <2>8 DEF IInv, TopicsOK
<1>7. CASE Quit /\ UNCHANGED stream
  BY <1>1, <1>3, <1>4, <1>7, Ending
<1> QED BY <1>1, <1>5, <1>6, <1>7 DEF Sent, Send, InFlight, Events

LEMMA FailureSteps ==
    ASSUME StreamConstantsOK, IInv, NEW landed \in BOOLEAN,
           SendTransient(landed) \/ SendFails(landed)
    PROVE  IInv'
<1>1. /\ pc = "sending" /\ (Land \/ UNCHANGED topics) /\ UNCHANGED <<up, stream>>
      /\ \/ attempt < MaxAttempts /\ attempt' = attempt + 1 /\ UNCHANGED <<pc, event>>
         \/ Quit \/ Give("error")
  BY DEF SendTransient, SendFails, Raise
<1>2. text' = text /\ up' \in BOOLEAN
  BY <1>1 DEF stream, IInv, TypeOK
<1>3. CASE attempt < MaxAttempts /\ attempt' = attempt + 1 /\ UNCHANGED <<pc, event>>
  <2>1. UNCHANGED <<pc, event, up, stream>>
    BY <1>1, <1>3
  <2> QED BY <1>1, <1>3, <2>1, RetryStep
<1>4. CASE Quit \/ Give("error")
  <2>1. TopicsOK'
    BY <1>1, <1>2, TopicsAfter
  <2>2. UNCHANGED stream
    BY <1>1
  <2> QED BY <1>2, <1>4, <2>1, <2>2, Ending
<1> QED BY <1>1, <1>3, <1>4

LEMMA ProviderRaisesStep ==
    ASSUME StreamConstantsOK, IInv, ProviderRaises
    PROVE  IInv'
<1>1. UNCHANGED <<up, stream, topics>> /\ (Quit \/ Give("error"))
  BY DEF ProviderRaises, Raise
<1>2. up' \in BOOLEAN /\ text' = text /\ text \in Nat
  BY <1>1 DEF IInv, TypeOK, stream
<1>3. TopicsOK'
  BY <1>1, <1>2, TopicsStay
<1> QED BY <1>1, <1>2, <1>3, Ending

LEMMA QuietSteps ==
    ASSUME StreamConstantsOK, IInv, UNCHANGED <<pc, event, attempt, stream, topics>>, up' \in BOOLEAN
    PROVE  IInv'
<1>1. /\ UNCHANGED <<pc, event, attempt, tokens, text, count, sent, index, first, code>>
      /\ UNCHANGED <<chunks, published>>
  BY DEF stream, topics
<1>2. TypeOK' /\ Buffered'
  BY <1>1 DEF IInv, TypeOK, Buffered
<1>3. Frontier' /\ Marked' /\ Landed'
  BY <1>1 DEF IInv, Frontier, Marked, Landed, Over, InFlight, LastChunk, Chunk, Shown
<1>4. ChunksSpellText' /\ LastEndsText'
  BY <1>1 DEF IInv, ChunksSpellText, LastEndsText
<1> QED BY <1>2, <1>3, <1>4 DEF IInv

-----------------------------------------------------------------------------
LEMMA InitIInv == StreamConstantsOK /\ Init => IInv
<1> SUFFICES ASSUME StreamConstantsOK, Init PROVE IInv
  OBVIOUS
<1>1. TypeOK
  <2>1. chunks \in Seq(Chunks) /\ published \subseteq {"response", "memory", "error"}
    BY DEF Init
  <2>2. 0 \in 0..MaxTokens /\ 0 \in 0..MaxAttempts
    BY DEF StreamConstantsOK
  <2>3. /\ tokens \in 0..MaxTokens /\ text \in 0..MaxTokens /\ sent \in 0..MaxTokens
        /\ count \in 0..MaxTokens /\ index \in 0..MaxTokens /\ attempt \in 0..MaxAttempts
    BY <2>2 DEF Init
  <2>4. /\ up \in BOOLEAN /\ first \in BOOLEAN /\ code \in BOOLEAN
        /\ pc \in {"reading", "sending", "done"}
        /\ event \in Events \union {"none"} /\ (pc = "sending" <=> event # "none")
    BY DEF Init
  <2> QED BY <2>1, <2>3, <2>4 DEF TypeOK
<1>2. Buffered
  BY DEF Init, Buffered
<1>3. Landed
  BY DEF Init, Landed
<1>4. chunks = <<>> /\ DOMAIN chunks = {} /\ Shown = sent
  BY DEF Init, Shown
<1> QED BY <1>1, <1>2, <1>3, <1>4 DEF IInv, Frontier, Marked, ChunksSpellText, LastEndsText

LEMMA NextIInv == StreamConstantsOK /\ IInv /\ [Next]_vars => IInv'
<1> SUFFICES ASSUME StreamConstantsOK, IInv, [Next]_vars PROVE IInv'
  OBVIOUS
<1>1. ASSUME NEW kind \in {"text", "fence", "empty"}, NEW late \in BOOLEAN, ReadToken(kind, late)
      PROVE  IInv'
  BY <1>1, ReadTokenStep
<1>2. CASE StreamEnds
  BY <1>2, StreamEndsStep
<1>3. CASE ProviderRaises
  BY <1>3, ProviderRaisesStep
<1>4. CASE Sent
  BY <1>4, SentStep
<1>5. ASSUME NEW landed \in BOOLEAN, SendTransient(landed) \/ SendFails(landed) PROVE IInv'
  BY <1>5, FailureSteps
<1>6. CASE StopPublisher
  BY <1>6, QuietSteps DEF StopPublisher
<1>7. CASE UNCHANGED vars
  BY <1>7, QuietSteps DEF vars, IInv, TypeOK
<1> QED BY <1>1, <1>2, <1>3, <1>4, <1>5, <1>6, <1>7 DEF Next, Run

(* The inductive invariant of the stream. *)
THEOREM StreamInvariant == Spec => []IInv
<1>1. StreamConstantsOK
  BY StreamConstantsOK
<1> QED BY <1>1, InitIInv, NextIInv, PTL DEF Spec

(* Type correctness, with every counter within the request's token limit.  *)
THEOREM StreamTypeCorrect == Spec => []TypeOK
<1>1. IInv => TypeOK
  BY DEF IInv
<1> QED BY <1>1, StreamInvariant, PTL

(* Whatever is retried or fails, the chunk topic spells the text in order, *)
(* without a gap and without a repetition.                                 *)
THEOREM ChunksInOrder == Spec => []ChunksSpellText
<1>1. IInv => ChunksSpellText
  BY DEF IInv
<1> QED BY <1>1, StreamInvariant, PTL

(* A chunk marked last ends the text. *)
THEOREM LastMarksTheEnd == Spec => []LastEndsText
<1>1. IInv => LastEndsText
  BY DEF IInv
<1> QED BY <1>1, StreamInvariant, PTL

(* Only an answer that was shown and published is remembered. *)
THEOREM RememberedAnswers == Spec => []RememberedWasShown
<1>1. IInv => RememberedWasShown
  BY DEF IInv, TypeOK, Landed, RememberedWasShown, Shown
<1> QED BY <1>1, StreamInvariant, PTL

(* A run that ends has told the user how it ended, or was sending the      *)
(* error event, or had no publisher left to tell with (run, _send).        *)
LEMMA EndsHeard ==
    ASSUME IInv, [Next]_vars, pc # "done", pc' = "done"
    PROVE  published' \intersect {"response", "error"} # {} \/ event = "error" \/ ~up
<1>1. ASSUME NEW kind \in {"text", "fence", "empty"}, NEW late \in BOOLEAN, ReadToken(kind, late)
      PROVE  ~up
  BY <1>1 DEF ReadToken, Send, Give
<1>2. CASE StreamEnds
  BY <1>2 DEF StreamEnds, Send, Give
<1>3. CASE ProviderRaises
  BY <1>3 DEF ProviderRaises, Raise, Give
<1>4. CASE Sent
  <2>1. CASE event = "memory"
    <3>1. "response" \in published /\ published' = published \union {"memory"}
      BY <1>4, <2>1 DEF IInv, Landed, Sent, Land
    <3> QED BY <3>1
  <2>2. CASE event # "memory"
    BY <1>4, <2>2 DEF Sent, Send, Give
  <2> QED BY <2>1, <2>2
<1>5. ASSUME NEW landed \in BOOLEAN, SendTransient(landed) \/ SendFails(landed)
      PROVE  event = "error" \/ ~up
  BY <1>5 DEF SendTransient, SendFails, Raise, Give
<1>6. CASE StopPublisher \/ UNCHANGED vars
  BY <1>6 DEF StopPublisher, vars
<1> QED BY <1>1, <1>2, <1>3, <1>4, <1>5, <1>6 DEF Next, Run

(* The conversation is told of every end that can be told. *)
THEOREM EveryEndIsTold == Spec => NeverLeftWaiting
<1>1. IInv /\ [Next]_vars =>
        [(pc # "done" /\ pc' = "done") =>
            (published' \intersect {"response", "error"} # {} \/ event = "error" \/ ~up)]_vars
  BY EndsHeard
<1> QED BY <1>1, StreamInvariant, PTL DEF Spec, NeverLeftWaiting
-----------------------------------------------------------------------------
(* The stream implements AnswerDelivery. *)
LEMMA OutcomeOf ==
    /\ Outcome = "retracted" <=> "response" \in published /\ "error" \in published
    /\ Outcome = "answered" <=> "response" \in published /\ "error" \notin published
    /\ Outcome = "failed" <=> "response" \notin published /\ "error" \in published
    /\ Outcome = "silent" <=>
          "response" \notin published /\ "error" \notin published /\ pc = "done"
    /\ Outcome = "open" <=>
          "response" \notin published /\ "error" \notin published /\ pc # "done"
  BY DEF Outcome

LEMMA OutcomeAfter ==
    /\ Outcome' = "retracted" <=> "response" \in published' /\ "error" \in published'
    /\ Outcome' = "answered" <=> "response" \in published' /\ "error" \notin published'
    /\ Outcome' = "failed" <=> "response" \notin published' /\ "error" \in published'
    /\ Outcome' = "silent" <=>
          "response" \notin published' /\ "error" \notin published' /\ pc' = "done"
    /\ Outcome' = "open" <=>
          "response" \notin published' /\ "error" \notin published' /\ pc' # "done"
  BY DEF Outcome

(* A step that lands nothing and reads no text at most ends the run. *)
LEMMA QuietStep ==
    ASSUME pc # "done", text' = text, Shown' = Shown, published' = published
    PROVE  [Promise!Next]_(Promise!vars)
<1>1. Outcome' = Outcome \/ (Outcome = "open" /\ Outcome' = "silent")
  BY OutcomeOf, OutcomeAfter
<1> QED BY <1>1 DEF Promise!Next, Promise!Conclude, Promise!vars

(* A chunk lands: text appears, up to all that has been read. *)
LEMMA ChunkShows ==
    ASSUME StreamConstantsOK, IInv, pc = "sending", InFlight, Land, UNCHANGED text
    PROVE  [Promise!Next]_(Promise!vars)
<1>1. published = {} /\ published' = {} /\ Shown' = text /\ text \in Nat /\ sent \in Nat
  <2>1. published' = published /\ Shown' = text
    BY ChunkLands
  <2>2. published = {}
    BY DEF IInv, Landed
  <2>3. text \in Nat /\ sent \in Nat
    BY DEF IInv, TypeOK, StreamConstantsOK
  <2> QED BY <2>1, <2>2, <2>3
<1>2. Shown = text \/ (Shown = sent /\ sent < text)
  <2>1. InFlight /\ chunks # <<>> /\ LastChunk = Chunk => Shown = text
    BY DEF Shown, LastChunk, Chunk
  <2> QED BY <2>1 DEF IInv, Frontier, Over, InFlight, Buffered
<1>3. CASE Shown = text
  BY <1>1, <1>3, QuietStep
<1>4. CASE Shown = sent /\ sent < text
  <2>1. Outcome = "open" /\ Outcome' \in {"open", "silent"}
    BY <1>1, OutcomeOf, OutcomeAfter
  <2>2. Shown' \in Shown + 1 .. text
    BY <1>1, <1>4
  <2> QED BY <2>1, <2>2 DEF Promise!Next, Promise!Show, Promise!GoesOn
<1> QED BY <1>2, <1>3, <1>4

(* Any other event lands: it concludes the answer, or repeats a conclusion. *)
LEMMA EventConcludes ==
    ASSUME StreamConstantsOK, IInv, pc = "sending", ~InFlight, Land, UNCHANGED text
    PROVE  [Promise!Next]_(Promise!vars)
<1>1. /\ chunks' = chunks /\ published' = published \union {event}
      /\ event \in {"response", "memory", "error"}
  BY EventLands
<1>2. Shown' = Shown /\ text' = text
  BY <1>1 DEF Shown
<1>3. CASE event = "response"
  <2>1. Shown = text
    BY <1>3 DEF IInv, Frontier, Over, Buffered, InFlight
  <2>2. Outcome' = "answered" /\ Outcome \in {"open", "answered"}
    BY <1>1, <1>3, OutcomeOf, OutcomeAfter DEF IInv, Landed
  <2> QED BY <1>2, <2>1, <2>2 DEF Promise!Next, Promise!Conclude, Promise!vars
<1>4. CASE event = "memory"
  <2>1. Outcome' = "answered" /\ Outcome = "answered"
    BY <1>1, <1>4, OutcomeOf, OutcomeAfter DEF IInv, Landed
  <2> QED BY <1>2, <2>1 DEF Promise!vars
<1>5. CASE event = "error"
  <2>1. \/ Outcome = "open" /\ Outcome' = "failed"
        \/ Outcome = "answered" /\ Outcome' = "retracted"
        \/ Outcome' = Outcome
    BY <1>1, <1>5, OutcomeOf, OutcomeAfter
  <2> QED BY <1>2, <2>1 DEF Promise!Next, Promise!Conclude, Promise!vars
<1> QED BY <1>1, <1>3, <1>4, <1>5

LEMMA SendingSteps ==
    ASSUME StreamConstantsOK, IInv, pc = "sending", Land \/ UNCHANGED topics, UNCHANGED text
    PROVE  [Promise!Next]_(Promise!vars)
<1>1. CASE Land
  BY <1>1, ChunkShows, EventConcludes
<1>2. CASE UNCHANGED topics
  <2>1. text' = text /\ Shown' = Shown /\ published' = published /\ pc # "done"
    BY <1>2 DEF topics, Shown
  <2> QED BY <2>1, QuietStep
<1> QED BY <1>1, <1>2

LEMMA ReadTokenShows ==
    ASSUME StreamConstantsOK, IInv, NEW kind \in {"text", "fence", "empty"}, NEW late \in BOOLEAN,
           ReadToken(kind, late)
    PROVE  [Promise!Next]_(Promise!vars)
<1>1. /\ pc = "reading" /\ chunks' = chunks /\ published' = published
      /\ text' = text + (IF kind = "empty" THEN 0 ELSE 1) /\ text \in Nat
  BY DEF ReadToken, topics, IInv, TypeOK, StreamConstantsOK
<1>2. Shown' = Shown /\ published = {}
  BY <1>1 DEF Shown, IInv, Landed
<1>3. CASE kind = "empty"
  <2>1. text' = text /\ pc # "done"
    BY <1>1, <1>3
  <2> QED BY <1>1, <1>2, <2>1, QuietStep
<1>4. CASE kind # "empty"
  <2>1. Outcome = "open" /\ Outcome' \in {"open", "silent"}
    BY <1>1, <1>2, OutcomeOf, OutcomeAfter
  <2> QED BY <1>1, <1>2, <1>4, <2>1 DEF Promise!Next, Promise!Produce, Promise!GoesOn
<1> QED BY <1>3, <1>4

LEMMA NextShows == StreamConstantsOK /\ IInv /\ [Next]_vars => [Promise!Next]_(Promise!vars)
<1> SUFFICES ASSUME StreamConstantsOK, IInv, [Next]_vars PROVE [Promise!Next]_(Promise!vars)
  OBVIOUS
<1>1. ASSUME NEW kind \in {"text", "fence", "empty"}, NEW late \in BOOLEAN, ReadToken(kind, late)
      PROVE  [Promise!Next]_(Promise!vars)
  BY <1>1, ReadTokenShows
<1>2. CASE StreamEnds \/ ProviderRaises
  <2>1. text' = text /\ Shown' = Shown /\ published' = published /\ pc # "done"
    BY <1>2 DEF StreamEnds, ProviderRaises, stream, topics, Shown
  <2> QED BY <2>1, QuietStep
<1>3. CASE Sent
  <2>1. pc = "sending" /\ Land /\ UNCHANGED text
    BY <1>3 DEF Sent, Flushed, stream
  <2> QED BY <2>1, SendingSteps
<1>4. ASSUME NEW landed \in BOOLEAN, SendTransient(landed) \/ SendFails(landed)
      PROVE  [Promise!Next]_(Promise!vars)
  <2>1. pc = "sending" /\ (Land \/ UNCHANGED topics) /\ UNCHANGED text
    BY <1>4 DEF SendTransient, SendFails, stream
  <2> QED BY <2>1, SendingSteps
<1>5. CASE StopPublisher \/ UNCHANGED vars
  <2>1. text' = text /\ Shown' = Shown /\ Outcome' = Outcome
    BY <1>5 DEF StopPublisher, vars, stream, topics, Shown, Outcome
  <2> QED BY <2>1 DEF Promise!vars
<1> QED BY <1>1, <1>2, <1>3, <1>4, <1>5 DEF Next, Run

(* Every behaviour of the stream, with its retries, failures and shutdown, *)
(* is a behaviour AnswerDelivery allows.                                   *)
THEOREM StreamDelivers == Spec => DeliversAnswer
<1>1. StreamConstantsOK
  BY StreamConstantsOK
<1>2. Init => Promise!Init
  BY DEF Init, Promise!Init, Shown, Outcome
<1> QED BY <1>1, <1>2, NextShows, StreamInvariant, PTL DEF Spec, DeliversAnswer, Promise!Spec
=============================================================================
