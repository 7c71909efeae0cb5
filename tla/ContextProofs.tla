---------------------------- MODULE ContextProofs -----------------------------
(***************************************************************************)
(* Theorems about what a request is grounded in.  ContextCollector, for    *)
(* any number of turns and conversations, any answers of the services and  *)
(* any limits of the store of previous chunks: what was found is merged,   *)
(* the history has each turn once, a search is offered the latest chunks   *)
(* of its conversation, and a collection ends.  WebSearch, for any number  *)
(* of tasks, queries, sources and pages, any cache and any answers: a      *)
(* search that was answered succeeds, the cache serves and keeps what it   *)
(* should, and the results are spread over the sites.                      *)
(***************************************************************************)
EXTENDS WebSearch, ContextCollector, SequenceLemmas, TLAPS

(***************************************************************************)
(* ContextCollector.                                                       *)
(***************************************************************************)

(* The store of previous chunk ids, and what the history says of it.       *)
Remembered == [conv : Conversations, ids : Seq(Chunks), age : 0..IdsTTL + 1]
Showing == [ids : Seq(Chunks), age : 0..IdsTTL + 1]

OneEach(r) == \A i, j \in DOMAIN r : i # j => r[i].conv # r[j].conv
OldestFirst(r) == \A i, j \in DOMAIN r : i < j => r[i].age >= r[j].age
Remembers(r, c) == \E i \in DOMAIN r : r[i].conv = c

Orderly(r) == r \in Seq(Remembered) /\ OneEach(r) /\ OldestFirst(r)

LEMMA SelectedOrderly ==
  ASSUME NEW r, Orderly(r), NEW K
  PROVE  Orderly(Selected(r, K)) /\ ToSet(Selected(r, K)) = ToSet(r) \cap K
  <1> DEFINE s == Selected(r, K)
  <1>1. r \in Seq(Remembered) /\ s \in Seq(Remembered)
    BY SelectedPlaces DEF Orderly
  <1>2. PICK pos \in [DOMAIN s -> DOMAIN r] : Places(s, r, K, pos)
    BY <1>1, SelectedPlaces
  <1> HIDE DEF s
  <1>3. /\ \A i, j \in DOMAIN s : i # j => i < j \/ j < i
        /\ \A i, j \in DOMAIN s : i < j => pos[i] < pos[j] /\ pos[i] # pos[j]
    <2>1. \A i \in DOMAIN r : i \in Nat
      BY <1>1
    <2>2. \A i \in DOMAIN s : i \in Nat
      BY <1>1
    <2>3. QED
      BY <1>2, <2>1, <2>2 DEF Places
  <1>4. OneEach(s)
    BY <1>2, <1>3 DEF Orderly, OneEach, Places
  <1>5. OldestFirst(s)
    BY <1>2, <1>3 DEF Orderly, OldestFirst, Places
  <1>6. ToSet(s) = ToSet(r) \cap K
    BY <1>1, SelectedSet DEF s
  <1>7. QED
    BY <1>1, <1>4, <1>5, <1>6 DEF Orderly, s

LEMMA OfFacts ==
  ASSUME Orderly(remembered), NEW c
  PROVE  /\ Of(c) # <<>> => Of(c)[1] \in ToSet(remembered) /\ Of(c)[1] \in Remembered /\ Of(c)[1].conv = c
         /\ Of(c) = <<>> => ~Remembers(remembered, c)
  <1> DEFINE K == {e \in ToSet(remembered) : e.conv = c}
  <1>1. Of(c) = Selected(remembered, K)
    BY DEF Of
  <1>2. Of(c) \in Seq(Remembered) /\ ToSet(Of(c)) = K
    <2>1. ToSet(remembered) \cap K = K
      OBVIOUS
    <2> HIDE DEF K
    <2>2. QED
      BY <1>1, <2>1, SelectedOrderly DEF Orderly
  <1>3. Of(c) # <<>> => 1 \in DOMAIN Of(c) /\ Of(c)[1] \in Remembered
    BY <1>2
  <1>4. Of(c) # <<>> => Of(c)[1] \in K
    BY <1>2, <1>3 DEF ToSet
  <1>5. Of(c) = <<>> => K = {}
    BY <1>2 DEF ToSet
  <1>6. K = {} => ~Remembers(remembered, c)
    BY DEF Remembers, ToSet
  <1> HIDE DEF K
  <1>7. Of(c) # <<>> => Of(c)[1] \in ToSet(remembered) /\ Of(c)[1].conv = c
    BY <1>4 DEF K
  <1>8. QED
    BY <1>3, <1>5, <1>6, <1>7

LEMMA ButFacts ==
  ASSUME Orderly(remembered), NEW c
  PROVE  /\ Orderly(But(c)) /\ Len(But(c)) <= Len(remembered)
         /\ ToSet(But(c)) = {e \in ToSet(remembered) : e.conv # c}
         /\ ~Remembers(But(c), c)
  <1> DEFINE K == {e \in ToSet(remembered) : e.conv # c}
  <1>1. But(c) = Selected(remembered, K)
    BY DEF But
  <1>2. ToSet(remembered) \cap K = K
    OBVIOUS
  <1>3. Orderly(But(c)) /\ ToSet(But(c)) = K
    <2> HIDE DEF K
    <2>1. QED
      BY <1>1, <1>2, SelectedOrderly
  <1>4. Len(But(c)) <= Len(remembered)
    <2> HIDE DEF K
    <2>1. QED
      BY <1>1, SelectedPlaces DEF Orderly
  <1>5. ~Remembers(But(c), c)
    BY <1>3 DEF Remembers, ToSet
  <1>6. QED
    BY <1>3, <1>4, <1>5

LEMMA AppendOrderly ==
  ASSUME NEW r, Orderly(r), NEW e \in Remembered, e.age = 0, ~Remembers(r, e.conv)
  PROVE  /\ Orderly(Append(r, e)) /\ Len(Append(r, e)) = Len(r) + 1 /\ Len(r) \in Nat
         /\ ToSet(Append(r, e)) = ToSet(r) \union {e}
  <1>1. r \in Seq(Remembered)
    BY DEF Orderly
  <1>2. /\ DOMAIN Append(r, e) = 1..Len(r)+1 /\ DOMAIN r = 1..Len(r) /\ Len(r) \in Nat
        /\ Append(r, e)[Len(r) + 1] = e /\ Len(Append(r, e)) = Len(r) + 1
        /\ \A i \in 1..Len(r) : Append(r, e)[i] = r[i]
    BY <1>1
  <1>3. Append(r, e) \in Seq(Remembered) /\ ToSet(Append(r, e)) = ToSet(r) \union {e}
    BY <1>1, ToSetAppend
  <1> DEFINE a == Append(r, e)
             n == Len(r)
  <1> HIDE DEF a, n
  <1>4. \A i \in 1..n+1 : i \in 1..n \/ i = n + 1
    BY <1>2 DEF n
  <1>5. OneEach(a)
    <2>1. \A i \in 1..n : r[i].conv # e.conv
      BY <1>2 DEF Remembers, n
    <2>2. \A i, j \in 1..n : i # j => r[i].conv # r[j].conv
      BY <1>2 DEF Orderly, OneEach, n
    <2>3. QED
      BY <1>2, <1>4, <2>1, <2>2 DEF OneEach, a, n
  <1>6. OldestFirst(a)
    <2>1. \A i \in 1..n : r[i].age \in Nat
      <3>1. \A i \in 1..n : r[i] \in Remembered
        BY <1>1, <1>2 DEF n
      <3>2. \A f \in Remembered : f.age \in Nat
        BY CollectorConstantsOK DEF Remembered, CollectorConstantsOK
      <3>3. QED
        BY <3>1, <3>2
    <2>2. \A i, j \in 1..n : i < j => r[i].age >= r[j].age
      BY <1>2 DEF Orderly, OldestFirst, n
    <2>3. \A i \in 1..n : ~(n + 1 < i)
      BY <1>2 DEF n
    <2>4. ~(n + 1 < n + 1)
      BY <1>2 DEF n
    <2>5. QED
      BY <1>2, <1>4, <2>1, <2>2, <2>3, <2>4 DEF OldestFirst, a, n
  <1>7. QED
    BY <1>2, <1>3, <1>5, <1>6 DEF Orderly, a, n

LEMMA TailOrderly ==
  ASSUME NEW r, Orderly(r), r # <<>>
  PROVE  /\ Orderly(Tail(r)) /\ Len(Tail(r)) = Len(r) - 1
         /\ ToSet(r) = ToSet(Tail(r)) \union {r[1]} /\ r[1] \in Remembered
         /\ \A e \in ToSet(Tail(r)) : r[1].age >= e.age /\ r[1].conv # e.conv
  <1>1. r \in Seq(Remembered)
    BY DEF Orderly
  <1>2. /\ Tail(r) \in Seq(Remembered) /\ Len(Tail(r)) = Len(r) - 1
        /\ DOMAIN Tail(r) = 1..Len(r)-1 /\ DOMAIN r = 1..Len(r) /\ Len(r) \in Nat \ {0}
        /\ \A i \in 1..Len(r)-1 : i + 1 \in 1..Len(r) /\ Tail(r)[i] = r[i + 1]
    BY <1>1
  <1>3. OneEach(Tail(r)) /\ OldestFirst(Tail(r))
    BY SMTT(40), <1>2 DEF Orderly, OneEach, OldestFirst
  <1>4. ToSet(r) = ToSet(Tail(r)) \union {r[1]}
    <2>1. \A j \in 1..Len(r) : j = 1 \/ (j - 1 \in 1..Len(r)-1 /\ r[j] = Tail(r)[j - 1])
      BY <1>2
    <2>2. ASSUME NEW e \in ToSet(r) PROVE e \in ToSet(Tail(r)) \union {r[1]}
      <3>1. PICK j \in 1..Len(r) : e = r[j]
        BY <1>2 DEF ToSet
      <3>2. CASE j - 1 \in 1..Len(r)-1 /\ r[j] = Tail(r)[j - 1]
        BY <1>2, <3>1, <3>2 DEF ToSet
      <3>3. QED
        BY <2>1, <3>1, <3>2
    <2>3. \A i \in DOMAIN Tail(r) : Tail(r)[i] \in ToSet(r)
      BY <1>2 DEF ToSet
    <2>4. r[1] \in ToSet(r)
      BY <1>2 DEF ToSet
    <2>5. ToSet(Tail(r)) \subseteq ToSet(r)
      BY <2>3 DEF ToSet
    <2>6. QED
      BY <2>2, <2>4, <2>5
  <1>5. \A e \in ToSet(Tail(r)) : r[1].age >= e.age /\ r[1].conv # e.conv
    BY <1>2 DEF Orderly, OneEach, OldestFirst, ToSet
  <1>6. QED
    BY <1>1, <1>2, <1>3, <1>4, <1>5 DEF Orderly

LEMMA RecordedFacts ==
  ASSUME Orderly(remembered), Len(remembered) <= MaxConversations,
         NEW c \in Conversations, NEW ids \in Seq(Chunks), ids # <<>>
  PROVE  LET new == [conv |-> c, ids |-> ids, age |-> 0]
             to == Recorded(c, ids)
         IN  /\ Orderly(to) /\ Len(to) <= MaxConversations /\ new \in ToSet(to)
             /\ \A e \in ToSet(to) : e = new \/ (e \in ToSet(remembered) /\ e.conv # c)
             /\ \A e \in ToSet(remembered) : e.conv = c \/ e \in ToSet(to)
                   \/ (Len(to) = MaxConversations /\ \A f \in ToSet(to) : e.age >= f.age /\ e.conv # f.conv)
  <1> DEFINE new == [conv |-> c, ids |-> ids, age |-> 0]
             but == But(c)
             all == Append(but, new)
             to == Recorded(c, ids)
  <1>1. new \in Remembered /\ new.age = 0 /\ new.conv = c
    BY CollectorConstantsOK DEF Remembered, CollectorConstantsOK
  <1>2. /\ Orderly(but) /\ Len(but) <= Len(remembered) /\ ~Remembers(but, c)
        /\ ToSet(but) = {e \in ToSet(remembered) : e.conv # c}
    BY ButFacts
  <1>3. to = IF Len(all) > MaxConversations THEN Tail(all) ELSE all
    BY DEF Recorded
  <1> HIDE DEF new, but, to
  <1>4. /\ Orderly(all) /\ Len(all) = Len(but) + 1 /\ Len(but) \in Nat
        /\ ToSet(all) = ToSet(but) \union {new}
    BY <1>1, <1>2, AppendOrderly
  <1>5. MaxConversations \in Nat \ {0} /\ Len(remembered) \in Nat
    BY CollectorConstantsOK DEF CollectorConstantsOK, Orderly
  <1>6. all[Len(but) + 1] = new /\ Len(but) + 1 \in DOMAIN all
    BY <1>1, <1>2 DEF Orderly
  <1> HIDE DEF all
  <1>7. CASE Len(all) > MaxConversations
    <2>1. all # <<>> /\ to = Tail(all) /\ Len(but) + 1 \in Nat /\ Len(but) >= 1
      BY <1>3, <1>4, <1>5, <1>7
    <2>2. /\ Orderly(to) /\ Len(to) = Len(all) - 1
          /\ ToSet(all) = ToSet(to) \union {all[1]} /\ all[1] \in Remembered
          /\ \A e \in ToSet(to) : all[1].age >= e.age /\ all[1].conv # e.conv
      BY <1>4, <2>1, TailOrderly
    <2>3. Len(to) = MaxConversations
      BY <1>2, <1>4, <1>5, <1>7, <2>2
    <2>4. all[1] # new
      <3>1. 1 \in DOMAIN all /\ 1 # Len(but) + 1
        BY <1>4, <2>1 DEF Orderly
      <3>2. QED
        BY <1>4, <1>6, <3>1 DEF Orderly, OneEach
    <2>5. QED
      BY <1>2, <1>4, <2>2, <2>3, <2>4 DEF new, to
  <1>8. CASE ~(Len(all) > MaxConversations)
    <2>1. to = all /\ Len(all) <= MaxConversations
      BY <1>3, <1>4, <1>5, <1>8
    <2>2. QED
      BY <1>2, <1>4, <2>1 DEF new, to
  <1>9. QED
    BY <1>7, <1>8
-----------------------------------------------------------------------------
(* The ids that are recorded: one chunk after the other.                   *)
Listing(trace, chunks) ==
  /\ trace[0] = <<>>
  /\ \A i \in 1..Len(chunks) : trace[i] = Listed(trace[i - 1], chunks[i])
  /\ FoldLeft(Listed, <<>>, chunks) = trace[Len(chunks)]

LEMMA ListedTyped ==
  ASSUME NEW ids \in Seq(Chunks), NEW c \in Chunks
  PROVE  Listed(ids, c) \in Seq(Chunks)
  BY DEF Listed

LEMMA ListedTrace ==
  ASSUME NEW chunks \in Seq(Chunks)
  PROVE  \E trace \in [0..Len(chunks) -> Seq(Chunks)] : Listing(trace, chunks)
  <1> DEFINE T == Seq(Chunks)
             n == Len(chunks)
             step == [i \in 1..n |-> [acc \in T |-> Listed(acc, chunks[i])]]
             Rec(it) == [d \in SUBSET (1..n) |->
                            IF d = {} THEN <<>> ELSE Listed(it[d \ {Max(d)}], chunks[Max(d)])]
             iter == CHOOSE it : it = Rec(it)
  <1>1. n \in Nat /\ DOMAIN chunks = 1..n /\ <<>> \in T
    OBVIOUS
  <1>2. step \in [1..n -> [T -> T]]
    <2>1. \A i \in 1..n : chunks[i] \in Chunks
      OBVIOUS
    <2>2. \A i \in 1..n : \A acc \in T : Listed(acc, chunks[i]) \in T
      BY <2>1, ListedTyped
    <2> HIDE DEF T
    <2>3. QED
      BY <2>2
  <1>3. \A d \in SUBSET (1..n) : d # {} => Max(d) \in 1..n /\ d \ {Max(d)} \in SUBSET (1..n)
    BY <1>1, MaxIsMember
  <1> HIDE DEF T
  <1>4. \E it : it = Rec(it)
    <2>1. PICK it \in [SUBSET (1..n) -> T] : IsFold(it, n, <<>>, step)
      <3> HIDE DEF step, n
      <3>1. QED
        BY <1>1, <1>2, FoldExists
    <2>2. \A d \in SUBSET (1..n) :
             it[d] = IF d = {} THEN <<>> ELSE Listed(it[d \ {Max(d)}], chunks[Max(d)])
      BY <1>3, <2>1 DEF IsFold
    <2>3. it = Rec(it)
      BY <2>1, <2>2
    <2> HIDE DEF Rec
    <2>4. QED
      BY <2>3
  <1>5. iter = Rec(iter)
    <2> HIDE DEF Rec
    <2>1. QED
      BY <1>4
  <1>6. FoldLeft(Listed, <<>>, chunks) = iter[1..n]
    BY <1>1 DEF FoldLeft, MapThenFoldSet
  <1> HIDE DEF iter
  <1>7. Recurs(iter, n, T, <<>>, step)
    <2>1. \A d \in SUBSET (1..n) :
             iter[d] = IF d = {} THEN <<>> ELSE Listed(iter[d \ {Max(d)}], chunks[Max(d)])
      BY <1>5
    <2>2. \A i \in 1..n : \A acc \in T : step[i][acc] = Listed(acc, chunks[i])
      OBVIOUS
    <2> HIDE DEF step, Rec
    <2>3. QED
      BY <1>3, <2>1, <2>2 DEF Recurs
  <1>8. PICK trace \in [0..n -> T] : IsTrace(trace, n, <<>>, step) /\ iter[1..n] = trace[n]
    <2>1. Traces(iter, n, T, <<>>, step)
      <3> HIDE DEF step, n, Rec
      <3>1. QED
        BY <1>1, <1>2, <1>7, FoldTrace
    <2>2. QED
      BY <2>1 DEF Traces
  <1>9. ASSUME NEW i \in 1..n PROVE trace[i] = Listed(trace[i - 1], chunks[i])
    <2>1. i - 1 \in 0..n
      BY <1>1
    <2>2. trace[i - 1] \in T
      BY <2>1, <1>8
    <2>3. trace[i] = step[i][trace[i - 1]]
      <3> HIDE DEF step, n
      <3>1. QED
        BY <1>8 DEF IsTrace
    <2>4. QED
      BY <2>2, <2>3
  <1>10. QED
    BY <1>6, <1>8, <1>9 DEF IsTrace, Listing, T

LEMMA RecordableTyped ==
  ASSUME NEW chunks \in Seq(Chunks)
  PROVE  Recordable(chunks) \in Seq(Chunks)
  <1> DEFINE once == FoldLeft(Listed, <<>>, chunks)
  <1>1. PICK trace \in [0..Len(chunks) -> Seq(Chunks)] : Listing(trace, chunks)
    BY ListedTrace
  <1>2. once \in Seq(Chunks)
    BY <1>1 DEF Listing
  <1>3. Recordable(chunks) = SubSeq(once, 1, IF Len(once) < MaxIds THEN Len(once) ELSE MaxIds)
    BY DEF Recordable
  <1> HIDE DEF once
  <1>4. QED
    BY <1>2, <1>3, CollectorConstantsOK DEF CollectorConstantsOK

-----------------------------------------------------------------------------
(* The merge: the deduplication and the ranking, one chunk after the other. *)
Adding(trace, chunks, described) ==
  /\ trace[0] = <<>>
  /\ \A i \in 1..Len(chunks) : trace[i] = Adds(trace[i - 1], chunks[i], described)
  /\ Unique(chunks, described) = trace[Len(chunks)]

LEMMA AddsTyped ==
  ASSUME NEW kept \in Seq(Chunks), NEW c \in Chunks, NEW described
  PROVE  Adds(kept, c, described) \in Seq(Chunks)
  BY DEF Adds

LEMMA AddsTrace ==
  ASSUME NEW chunks \in Seq(Chunks), NEW described
  PROVE  \E trace \in [0..Len(chunks) -> Seq(Chunks)] : Adding(trace, chunks, described)
  <1> DEFINE T == Seq(Chunks)
             n == Len(chunks)
             step == [i \in 1..n |-> [acc \in T |-> Adds(acc, chunks[i], described)]]
             Rec(it) == [d \in SUBSET (1..n) |->
                            IF d = {} THEN <<>> ELSE Adds(it[d \ {Max(d)}], chunks[Max(d)], described)]
             iter == CHOOSE it : it = Rec(it)
  <1>1. n \in Nat /\ DOMAIN chunks = 1..n /\ <<>> \in T
    OBVIOUS
  <1>2. step \in [1..n -> [T -> T]]
    <2>1. \A i \in 1..n : chunks[i] \in Chunks
      OBVIOUS
    <2>2. \A i \in 1..n : \A acc \in T : Adds(acc, chunks[i], described) \in T
      BY <2>1, AddsTyped
    <2> HIDE DEF T
    <2>3. QED
      BY <2>2
  <1>3. \A d \in SUBSET (1..n) : d # {} => Max(d) \in 1..n /\ d \ {Max(d)} \in SUBSET (1..n)
    BY <1>1, MaxIsMember
  <1> HIDE DEF T
  <1>4. \E it : it = Rec(it)
    <2>1. PICK it \in [SUBSET (1..n) -> T] : IsFold(it, n, <<>>, step)
      <3> HIDE DEF step, n
      <3>1. QED
        BY <1>1, <1>2, FoldExists
    <2>2. \A d \in SUBSET (1..n) :
             it[d] = IF d = {} THEN <<>> ELSE Adds(it[d \ {Max(d)}], chunks[Max(d)], described)
      BY <1>3, <2>1 DEF IsFold
    <2>3. it = Rec(it)
      BY <2>1, <2>2
    <2> HIDE DEF Rec
    <2>4. QED
      BY <2>3
  <1>5. iter = Rec(iter)
    <2> HIDE DEF Rec
    <2>1. QED
      BY <1>4
  <1>6. Unique(chunks, described) = iter[1..n]
    BY <1>1 DEF Unique, FoldLeft, MapThenFoldSet
  <1> HIDE DEF iter
  <1>7. Recurs(iter, n, T, <<>>, step)
    <2>1. \A d \in SUBSET (1..n) :
             iter[d] = IF d = {} THEN <<>> ELSE Adds(iter[d \ {Max(d)}], chunks[Max(d)], described)
      BY <1>5
    <2>2. \A i \in 1..n : \A acc \in T : step[i][acc] = Adds(acc, chunks[i], described)
      OBVIOUS
    <2> HIDE DEF step, Rec
    <2>3. QED
      BY <1>3, <2>1, <2>2 DEF Recurs
  <1>8. PICK trace \in [0..n -> T] : IsTrace(trace, n, <<>>, step) /\ iter[1..n] = trace[n]
    <2>1. Traces(iter, n, T, <<>>, step)
      <3> HIDE DEF step, n, Rec
      <3>1. QED
        BY <1>1, <1>2, <1>7, FoldTrace
    <2>2. QED
      BY <2>1 DEF Traces
  <1>9. ASSUME NEW i \in 1..n PROVE trace[i] = Adds(trace[i - 1], chunks[i], described)
    <2>1. i - 1 \in 0..n
      BY <1>1
    <2>2. trace[i - 1] \in T
      BY <2>1, <1>8
    <2>3. trace[i] = step[i][trace[i - 1]]
      <3> HIDE DEF step, n
      <3>1. QED
        BY <1>8 DEF IsTrace
    <2>4. QED
      BY <2>2, <2>3
  <1>10. QED
    BY <1>6, <1>8, <1>9 DEF IsTrace, Adding, T

Placing(trace, chunks) ==
  /\ trace[0] = <<>>
  /\ \A i \in 1..Len(chunks) : trace[i] = Placed(trace[i - 1], chunks[i])
  /\ Ranked(chunks) = trace[Len(chunks)]

LEMMA PlacedTyped ==
  ASSUME NEW sorted \in Seq(Chunks), NEW c \in Chunks
  PROVE  Placed(sorted, c) \in Seq(Chunks)
  <1>1. \A K : Selected(sorted, K) \in Seq(Chunks)
    BY SelectedPlaces
  <1>2. QED
    BY <1>1 DEF Placed

LEMMA PlacedTrace ==
  ASSUME NEW chunks \in Seq(Chunks)
  PROVE  \E trace \in [0..Len(chunks) -> Seq(Chunks)] : Placing(trace, chunks)
  <1> DEFINE T == Seq(Chunks)
             n == Len(chunks)
             step == [i \in 1..n |-> [acc \in T |-> Placed(acc, chunks[i])]]
             Rec(it) == [d \in SUBSET (1..n) |->
                            IF d = {} THEN <<>> ELSE Placed(it[d \ {Max(d)}], chunks[Max(d)])]
             iter == CHOOSE it : it = Rec(it)
  <1>1. n \in Nat /\ DOMAIN chunks = 1..n /\ <<>> \in T
    OBVIOUS
  <1>2. step \in [1..n -> [T -> T]]
    <2>1. \A i \in 1..n : chunks[i] \in Chunks
      OBVIOUS
    <2>2. \A i \in 1..n : \A acc \in T : Placed(acc, chunks[i]) \in T
      BY <2>1, PlacedTyped
    <2> HIDE DEF T
    <2>3. QED
      BY <2>2
  <1>3. \A d \in SUBSET (1..n) : d # {} => Max(d) \in 1..n /\ d \ {Max(d)} \in SUBSET (1..n)
    BY <1>1, MaxIsMember
  <1> HIDE DEF T
  <1>4. \E it : it = Rec(it)
    <2>1. PICK it \in [SUBSET (1..n) -> T] : IsFold(it, n, <<>>, step)
      <3> HIDE DEF step, n
      <3>1. QED
        BY <1>1, <1>2, FoldExists
    <2>2. \A d \in SUBSET (1..n) :
             it[d] = IF d = {} THEN <<>> ELSE Placed(it[d \ {Max(d)}], chunks[Max(d)])
      BY <1>3, <2>1 DEF IsFold
    <2>3. it = Rec(it)
      BY <2>1, <2>2
    <2> HIDE DEF Rec
    <2>4. QED
      BY <2>3
  <1>5. iter = Rec(iter)
    <2> HIDE DEF Rec
    <2>1. QED
      BY <1>4
  <1>6. Ranked(chunks) = iter[1..n]
    BY <1>1 DEF Ranked, FoldLeft, MapThenFoldSet
  <1> HIDE DEF iter
  <1>7. Recurs(iter, n, T, <<>>, step)
    <2>1. \A d \in SUBSET (1..n) :
             iter[d] = IF d = {} THEN <<>> ELSE Placed(iter[d \ {Max(d)}], chunks[Max(d)])
      BY <1>5
    <2>2. \A i \in 1..n : \A acc \in T : step[i][acc] = Placed(acc, chunks[i])
      OBVIOUS
    <2> HIDE DEF step, Rec
    <2>3. QED
      BY <1>3, <2>1, <2>2 DEF Recurs
  <1>8. PICK trace \in [0..n -> T] : IsTrace(trace, n, <<>>, step) /\ iter[1..n] = trace[n]
    <2>1. Traces(iter, n, T, <<>>, step)
      <3> HIDE DEF step, n, Rec
      <3>1. QED
        BY <1>1, <1>2, <1>7, FoldTrace
    <2>2. QED
      BY <2>1 DEF Traces
  <1>9. ASSUME NEW i \in 1..n PROVE trace[i] = Placed(trace[i - 1], chunks[i])
    <2>1. i - 1 \in 0..n
      BY <1>1
    <2>2. trace[i - 1] \in T
      BY <2>1, <1>8
    <2>3. trace[i] = step[i][trace[i - 1]]
      <3> HIDE DEF step, n
      <3>1. QED
        BY <1>8 DEF IsTrace
    <2>4. QED
      BY <2>2, <2>3
  <1>10. QED
    BY <1>6, <1>8, <1>9 DEF IsTrace, Placing, T

(* Two passages that do not say the same in the same file.                 *)
Differ == {p \in Chunks \X Chunks : <<Text[p[1]], File[p[1]]>> # <<Text[p[2]], File[p[2]]>>}

(* ... of which the first ranks no lower.                                  *)
Ranks == {p \in Differ : Score[p[1]] >= Score[p[2]]}

LEMMA UniqueFacts ==
  ASSUME NEW chunks \in Seq(Chunks), NEW described
  PROVE  /\ Unique(chunks, described) \in Seq(Chunks) /\ Chain(Unique(chunks, described), Differ)
         /\ \A c \in ToSet(chunks) :
               Text[c] \in described \/ \E k \in ToSet(Unique(chunks, described)) : Same(k, c)
  <1> DEFINE n == Len(chunks)
             Kept(kept, c) == Text[c] \in described \/ \E k \in ToSet(kept) : Same(k, c)
  <1>1. PICK trace \in [0..n -> Seq(Chunks)] : Adding(trace, chunks, described)
    BY AddsTrace
  <1> DEFINE good == {m \in 0..n : Chain(trace[m], Differ) /\ \A i \in 1..m : Kept(trace[m], chunks[i])}
  <1>2. n \in Nat /\ DOMAIN chunks = 1..n /\ \A i \in 1..n : chunks[i] \in Chunks
    OBVIOUS
  <1>3. 0 \in good
    BY <1>1, <1>2 DEF Adding, Chain
  <1>4. ASSUME NEW m \in 0..n-1, m \in good PROVE m + 1 \in good
    <2> DEFINE kept == trace[m]
               c == chunks[m + 1]
               more == trace[m + 1]
    <2>1. m + 1 \in 1..n /\ m + 1 \in 0..n /\ m \in 0..n /\ (m + 1) - 1 = m /\ c \in Chunks /\ kept \in Seq(Chunks)
      BY <1>1, <1>2
    <2>2. more = Adds(kept, c, described)
      BY <1>1, <2>1 DEF Adding
    <2>3. Chain(kept, Differ) /\ \A i \in 1..m : Kept(kept, chunks[i])
      BY <1>4
    <2>4. \A i \in 1..m+1 : i \in 1..m \/ i = m + 1
      BY <2>1
    <2> HIDE DEF kept, c, more
    <2>5. CASE Kept(kept, c)
      <3>1. more = kept
        BY <2>2, <2>5 DEF Adds
      <3>2. \A i \in 1..m+1 : Kept(kept, chunks[i])
        BY <2>3, <2>4, <2>5 DEF c
      <3>3. QED
        BY <2>1, <2>3, <3>1, <3>2 DEF more
    <2>6. CASE ~Kept(kept, c)
      <3>1. more = Append(kept, c) /\ ToSet(more) = ToSet(kept) \union {c}
        BY <2>1, <2>2, <2>6, ToSetAppend DEF Adds
      <3>2. \A k \in ToSet(kept) : <<k, c>> \in Differ
        <4>1. \A k \in ToSet(kept) : k \in Chunks
          BY <2>1 DEF ToSet
        <4>2. QED
          BY <2>1, <2>6, <4>1 DEF Differ, Same
      <3>3. Chain(more, Differ)
        BY <2>1, <2>3, <3>1, <3>2, ChainAppend
      <3>4. Same(c, c)
        BY DEF Same
      <3>5. \A i \in 1..m+1 : Kept(more, chunks[i])
        BY <2>3, <2>4, <3>1, <3>4 DEF c
      <3>6. QED
        BY <2>1, <3>3, <3>5 DEF more
    <2>7. QED
      BY <2>5, <2>6
  <1>5. n \in good
    <2> HIDE DEF good
    <2>1. \A m \in 0..n : m \in good
      BY <1>2, <1>3, <1>4, Induction
    <2>2. QED
      BY <1>2, <2>1
  <1>6. Unique(chunks, described) = trace[n] /\ trace[n] \in Seq(Chunks)
    BY <1>1, <1>2 DEF Adding
  <1>7. \A c \in ToSet(chunks) : \E i \in 1..n : c = chunks[i]
    BY <1>2 DEF ToSet
  <1>8. QED
    BY <1>5, <1>6, <1>7

LEMMA PlacedFacts ==
  ASSUME NEW r \in Seq(Chunks), Chain(r, Ranks), NEW c \in Chunks,
         \A k \in ToSet(r) : <<k, c>> \in Differ
  PROVE  /\ Placed(r, c) \in Seq(Chunks) /\ Chain(Placed(r, c), Ranks)
         /\ ToSet(Placed(r, c)) = ToSet(r) \union {c}
  <1> DEFINE hi == {k \in Chunks : Score[k] >= Score[c]}
             lo == {k \in Chunks : Score[k] < Score[c]}
             a == Selected(r, hi)
             b == Selected(r, lo)
  <1>1. /\ a \in Seq(Chunks) /\ ToSet(a) = ToSet(r) \cap hi /\ Chain(a, Ranks)
        /\ b \in Seq(Chunks) /\ ToSet(b) = ToSet(r) \cap lo /\ Chain(b, Ranks)
    <2> HIDE DEF hi, lo
    <2>1. QED
      BY SelectedPlaces, SelectedSet, ChainSelected
  <1>2. Placed(r, c) = (a \o <<c>>) \o b
    BY DEF Placed
  <1> HIDE DEF a, b
  <1>3. \A k \in Chunks : Score[k] \in Nat
    BY CollectorConstantsOK DEF CollectorConstantsOK
  <1>4. ToSet(r) \subseteq Chunks
    BY DEF ToSet
  <1>5. \A k \in ToSet(r) : k \in hi \/ k \in lo
    BY <1>3, <1>4
  <1>6. /\ a \o <<c>> = Append(a, c) /\ Append(a, c) \in Seq(Chunks)
        /\ ToSet(Append(a, c)) = ToSet(a) \union {c}
    BY <1>1, ToSetAppend
  <1>7. \A x \in ToSet(a) : <<x, c>> \in Ranks
    BY <1>1, <1>4 DEF Ranks
  <1>8. Chain(Append(a, c), Ranks)
    BY <1>1, <1>7, ChainAppend
  <1>9. ASSUME NEW y \in ToSet(b), NEW x \in ToSet(a) \union {c} PROVE <<x, y>> \in Ranks
    <2>1. y \in ToSet(r) /\ y \in Chunks /\ Score[y] < Score[c] /\ <<y, c>> \in Differ
      BY <1>1, <1>4
    <2>2. CASE x = c
      BY <1>3, <2>1, <2>2 DEF Ranks, Differ
    <2>3. CASE x \in ToSet(a)
      <3>1. x \in ToSet(r) /\ x \in Chunks /\ Score[x] >= Score[c]
        BY <1>1, <1>4, <2>3
      <3>2. Score[x] >= Score[y] /\ x # y
        BY <1>3, <2>1, <3>1
      <3>3. PICK i \in DOMAIN r, j \in DOMAIN r : x = r[i] /\ y = r[j] /\ i # j
        BY <2>1, <3>1, <3>2 DEF ToSet
      <3>4. i < j \/ j < i
        BY <3>3
      <3>5. <<x, y>> \in Ranks \/ <<y, x>> \in Ranks
        BY <3>3, <3>4 DEF Chain
      <3>6. QED
        BY <3>1, <3>2, <3>5, <2>1 DEF Ranks, Differ
    <2>4. QED
      BY <2>2, <2>3
  <1>10. Chain(Append(a, c) \o b, Ranks)
    BY <1>1, <1>6, <1>8, <1>9, ChainConcat
  <1>11. ToSet(Append(a, c) \o b) = ToSet(r) \union {c} /\ Append(a, c) \o b \in Seq(Chunks)
    <2>1. /\ Append(a, c) \o b \in Seq(Chunks)
          /\ ToSet(Append(a, c) \o b) = (ToSet(a) \union {c}) \union ToSet(b)
      <3> DEFINE ac == Append(a, c)
      <3>1. ac \in Seq(Chunks) /\ b \in Seq(Chunks) /\ ToSet(ac) = ToSet(a) \union {c}
        BY <1>1, <1>6
      <3> HIDE DEF ac
      <3>2. ac \o b \in Seq(Chunks) /\ ToSet(ac \o b) = ToSet(ac) \union ToSet(b)
        BY <3>1, ToSetConcat
      <3>3. QED
        BY <3>1, <3>2 DEF ac
    <2>2. (ToSet(r) \cap hi) \union (ToSet(r) \cap lo) = ToSet(r)
      <3> HIDE DEF hi, lo
      <3>1. QED
        BY <1>5
    <2> HIDE DEF hi, lo
    <2>3. QED
      BY <1>1, <2>1, <2>2
  <1>12. QED
    BY <1>2, <1>6, <1>10, <1>11

LEMMA RankedFacts ==
  ASSUME NEW chunks \in Seq(Chunks), Chain(chunks, Differ)
  PROVE  /\ Ranked(chunks) \in Seq(Chunks) /\ Chain(Ranked(chunks), Ranks)
         /\ ToSet(Ranked(chunks)) = ToSet(chunks)
  <1> DEFINE n == Len(chunks)
             first(m) == {chunks[i] : i \in 1..m}
  <1>1. PICK trace \in [0..n -> Seq(Chunks)] : Placing(trace, chunks)
    BY PlacedTrace
  <1> DEFINE good == {m \in 0..n : Chain(trace[m], Ranks) /\ ToSet(trace[m]) = first(m)}
  <1>2. n \in Nat /\ DOMAIN chunks = 1..n /\ \A i \in 1..n : chunks[i] \in Chunks
    OBVIOUS
  <1>3. 0 \in good
    BY <1>1, <1>2 DEF Placing, Chain, ToSet
  <1>4. ASSUME NEW m \in 0..n-1, m \in good PROVE m + 1 \in good
    <2> DEFINE r == trace[m]
               c == chunks[m + 1]
    <2>1. m + 1 \in 1..n /\ m + 1 \in 0..n /\ m \in 0..n /\ (m + 1) - 1 = m /\ c \in Chunks /\ r \in Seq(Chunks)
      BY <1>1, <1>2
    <2>2. trace[m + 1] = Placed(r, c)
      BY <1>1, <2>1 DEF Placing
    <2>3. Chain(r, Ranks) /\ ToSet(r) = first(m)
      BY <1>4
    <2>4. first(m + 1) = first(m) \union {c}
      <3>1. 1..m+1 = (1..m) \union {m + 1}
        BY <2>1
      <3>2. QED
        BY <3>1
    <2>5. \A k \in ToSet(r) : <<k, c>> \in Differ
      <3>1. \A i \in 1..m : i \in DOMAIN chunks /\ m + 1 \in DOMAIN chunks /\ i < m + 1
        BY <1>2, <2>1
      <3>2. QED
        BY <2>3, <3>1 DEF Chain
    <2> HIDE DEF first, r, c
    <2>6. /\ Chain(Placed(r, c), Ranks)
          /\ ToSet(Placed(r, c)) = ToSet(r) \union {c}
      BY <2>1, <2>3, <2>5, PlacedFacts
    <2>7. ToSet(trace[m + 1]) = first(m + 1)
      BY <2>2, <2>3, <2>4, <2>6
    <2>8. QED
      BY <2>1, <2>2, <2>6, <2>7
  <1>5. n \in good
    <2> HIDE DEF good
    <2>1. \A m \in 0..n : m \in good
      BY <1>2, <1>3, <1>4, Induction
    <2>2. QED
      BY <1>2, <2>1
  <1>6. Ranked(chunks) = trace[n] /\ trace[n] \in Seq(Chunks)
    BY <1>1, <1>2 DEF Placing
  <1>7. first(n) = ToSet(chunks)
    BY <1>2 DEF ToSet
  <1>8. QED
    BY <1>5, <1>6, <1>7

-----------------------------------------------------------------------------
(* The history. *)
Window(w) ==
    /\ w \in [inherited : Seq(Messages), memory : Seq(Messages), event : Seq(Messages)]
    /\ \A m \in ToSet(w.inherited) : m.id = 0
    /\ NamedOnce(w.memory) /\ NamedOnce(w.event)

NamesDiffer == {p \in Messages \X Messages : p[1].id = 0 \/ p[1].id # p[2].id}

LEMMA NamedOnceIsChain ==
  ASSUME NEW h \in Seq(Messages)
  PROVE  NamedOnce(h) <=> Chain(h, NamesDiffer)
  <1>1. \A i \in DOMAIN h : i \in Nat /\ h[i] \in Messages
    OBVIOUS
  <1>2. ASSUME NamedOnce(h), NEW i \in DOMAIN h, NEW j \in DOMAIN h, i < j PROVE <<h[i], h[j]>> \in NamesDiffer
    <2>1. i # j
      BY <1>1, <1>2
    <2>2. QED
      BY <1>1, <1>2, <2>1 DEF NamedOnce, NamesDiffer
  <1>3. ASSUME Chain(h, NamesDiffer), NEW i \in DOMAIN h, NEW j \in DOMAIN h, i # j, h[i].id # 0
        PROVE  h[i].id # h[j].id
    <2>1. i < j \/ j < i
      BY <1>1, <1>3
    <2>2. CASE i < j
      BY <1>3, <2>2 DEF Chain, NamesDiffer
    <2>3. CASE j < i
      BY <1>3, <2>3 DEF Chain, NamesDiffer
    <2>4. QED
      BY <2>1, <2>2, <2>3
  <1>4. QED
    BY <1>2, <1>3 DEF NamedOnce, Chain

LEMMA HistoryFacts ==
  ASSUME NEW w, Window(w)
  PROVE  NamedOnce(History(w)) /\ (InCommon(w) => IsSuffix(w.event, History(w)))
  <1> DEFINE S == Messages
             R == NamesDiffer
             a == w.inherited
             m == w.memory
             e == w.event
             h == MergedHistory(m, e)
             known == {i \in DOMAIN m : Recognized(m[i], e)}
  <1>1. /\ a \in Seq(S) /\ m \in Seq(S) /\ e \in Seq(S) /\ History(w) = a \o h
        /\ \A x \in ToSet(a) : x.id = 0
    BY DEF Window, History
  <1>2. Chain(m, R) /\ Chain(e, R)
    BY <1>1, NamedOnceIsChain DEF Window
  <1>3. known = {} \/ \E n \in known : \A j \in known : n <= j
    <2>1. known \in SUBSET Nat
      BY <1>1
    <2> HIDE DEF known
    <2>2. QED
      BY <2>1, LeastNumber
  <1>4. InCommon(w) => known # {}
    <2>1. ASSUME NEW x \in ToSet(m), NEW y \in ToSet(e), x.id = y.id, x.id # 0 PROVE known # {}
      <3>1. PICK i \in DOMAIN m : m[i] = x
        BY DEF ToSet
      <3>2. QED
        BY <2>1, <3>1 DEF Recognized
    <2>2. QED
      BY <2>1 DEF InCommon
  <1>5. /\ e = <<>> => h = m
        /\ e # <<>> /\ m = <<>> => h = e
        /\ e # <<>> /\ m # <<>> /\ known = {} => h = m
    BY DEF MergedHistory
  <1>6. ASSUME e # <<>>, m # <<>>, known # {}
        PROVE  \E b \in Seq(S) : /\ h = b \o e /\ Chain(b, R)
                                 /\ \A x \in ToSet(b) : ~Recognized(x, e) /\ x \in S
    <2> DEFINE first == CHOOSE i \in known : \A j \in known : i <= j
               b == SubSeq(m, 1, first - 1)
    <2>1. h = b \o e
      BY <1>6 DEF MergedHistory
    <2>2. first \in known /\ \A j \in known : first <= j
      <3> HIDE DEF known
      <3>1. QED
        BY <1>3, <1>6
    <2>3. first \in DOMAIN m
      BY <2>2
    <2> HIDE DEF first, known
    <2>4. /\ b \in Seq(S) /\ DOMAIN b = 1..first-1 /\ first - 1 \in Nat
          /\ \A i \in 1..first-1 : b[i] = m[i] /\ i \in DOMAIN m /\ m[i] \in S /\ i < first
      <3>1. first \in 1..Len(m) /\ Len(m) \in Nat
        BY <1>1, <2>3
      <3>2. \A i \in 1..first-1 : i \in DOMAIN m /\ m[i] \in S /\ i < first
        BY <1>1, <3>1
      <3>3. b \in Seq(S) /\ Len(b) = first - 1 /\ \A i \in 1..first-1 : b[i] = m[i]
        BY <1>1, <3>1
      <3>4. first - 1 \in Nat
        BY <3>1
      <3> HIDE DEF b
      <3>5. DOMAIN b = 1..first-1
        BY <3>3
      <3>6. QED
        BY <3>2, <3>3, <3>4, <3>5
    <2> HIDE DEF b
    <2>5. Chain(b, R)
      BY <1>2, <2>4 DEF Chain
    <2>6. ASSUME NEW x \in ToSet(b) PROVE ~Recognized(x, e) /\ x \in S
      <3>1. PICK i \in 1..first-1 : x = b[i]
        BY <2>4 DEF ToSet
      <3>2. i \in DOMAIN m /\ x = m[i] /\ x \in S /\ i < first
        BY <2>4, <3>1
      <3>3. i \notin known
        <4>1. first \in Nat /\ i \in Nat
          BY <1>1, <2>3, <3>1
        <4>2. ~(first <= i)
          BY <3>2, <4>1
        <4>3. QED
          BY <2>2, <4>2
      <3>4. QED
        BY <3>2, <3>3 DEF known
    <2>7. QED
      BY <2>1, <2>4, <2>5, <2>6
  <1> HIDE DEF h, known
  <1>7. /\ h \in Seq(S) /\ Chain(h, R)
        /\ InCommon(w) => \E b \in Seq(S) : h = b \o e
    <2>1. CASE e = <<>> \/ known = {} \/ m = <<>>
      <3>1. h = m \/ h = e
        BY <1>5, <2>1
      <3>2. InCommon(w) => e # <<>> /\ m # <<>>
        BY DEF InCommon, ToSet
      <3>3. QED
        BY <1>1, <1>2, <1>4, <2>1, <3>1, <3>2
    <2>2. CASE e # <<>> /\ known # {} /\ m # <<>>
      <3>1. PICK b \in Seq(S) : /\ h = b \o e /\ Chain(b, R)
                                /\ \A x \in ToSet(b) : ~Recognized(x, e) /\ x \in S
        BY <1>6, <2>2
      <3>2. \A x \in ToSet(b), y \in ToSet(e) : <<x, y>> \in R
        <4>1. \A y \in ToSet(e) : y \in S
          BY <1>1 DEF ToSet
        <4>2. QED
          BY <3>1, <4>1 DEF Recognized, NamesDiffer
      <3>3. Chain(b \o e, R) /\ b \o e \in Seq(S)
        BY <1>1, <1>2, <3>1, <3>2, ChainConcat, ToSetConcat
      <3>4. QED
        BY <3>1, <3>3
    <2>3. QED
      BY <2>1, <2>2
  <1>8. NamedOnce(History(w))
    <2>1. a \o h \in Seq(S) /\ Chain(a, R) /\ \A x \in ToSet(a), y \in ToSet(h) : <<x, y>> \in R
      <3>1. \A y \in ToSet(h) : y \in S
        BY <1>7 DEF ToSet
      <3>2. \A x \in ToSet(a) : x \in S /\ x.id = 0
        BY <1>1 DEF ToSet
      <3>3. \A i \in DOMAIN a : a[i] \in ToSet(a)
        BY DEF ToSet
      <3>4. QED
        BY <1>1, <1>7, <3>1, <3>2, <3>3, ToSetConcat DEF NamesDiffer, Chain
    <2>2. Chain(a \o h, R)
      BY <1>1, <1>7, <2>1, ChainConcat
    <2>3. QED
      BY <1>1, <2>1, <2>2, NamedOnceIsChain
  <1>9. InCommon(w) => IsSuffix(w.event, History(w))
    <2>1. ASSUME InCommon(w) PROVE IsSuffix(e, a \o h)
      <3>1. PICK b \in Seq(S) : h = b \o e
        BY <1>7, <2>1
      <3>2. QED
        BY <1>1, <3>1, SuffixOfConcat
    <2>2. QED
      BY <1>1, <2>1
  <1>10. QED
    BY <1>8, <1>9

LEMMA WindowsAreWindows ==
  ASSUME NEW w \in Windows, NEW ok \in BOOLEAN
  PROVE  Window(FromMemory(ok, w))
  <1>1. Window(w)
    BY WindowsOK DEF Window
  <1>2. CASE ok
    BY <1>1, <1>2 DEF FromMemory
  <1>3. CASE ~ok
    <2> DEFINE v == [w EXCEPT !.memory = <<>>]
    <2>1. /\ v.inherited = w.inherited /\ v.memory = <<>> /\ v.event = w.event
          /\ v \in [inherited : Seq(Messages), memory : Seq(Messages), event : Seq(Messages)]
      <3> DEFINE X == Seq(Messages)
      <3>1. w \in [inherited : X, memory : X, event : X] /\ <<>> \in X
        BY <1>1 DEF Window
      <3> HIDE DEF X
      <3>2. /\ v.inherited = w.inherited /\ v.memory = <<>> /\ v.event = w.event
            /\ v \in [inherited : X, memory : X, event : X]
        BY <3>1
      <3>3. QED
        BY <3>2 DEF X
    <2>2. NamedOnce(<<>>)
      BY DEF NamedOnce
    <2> HIDE DEF v
    <2>3. Window(v)
      BY <1>1, <2>1, <2>2 DEF Window
    <2>4. QED
      BY <1>3, <2>3 DEF FromMemory, v
  <1>4. QED
    BY <1>2, <1>3

-----------------------------------------------------------------------------
(* The store against the history: an entry is what its conversation found  *)
(* last, and what the store lost was displaced by newer conversations.     *)
Mirrors(e) ==
    IF e.age <= IdsTTL THEN e.ids # <<>> /\ shown[e.conv] = [ids |-> e.ids, age |-> e.age]
    ELSE shown[e.conv] = NoIds

Displaced(c) == Cardinality(Newer(c)) >= MaxConversations

StoreInv ==
    /\ Orderly(remembered) /\ Len(remembered) <= MaxConversations
    /\ shown \in [Conversations -> Showing]
    /\ \A e \in ToSet(remembered) : Mirrors(e)
    /\ \A c \in Conversations : shown[c].ids # <<>> => Remembers(remembered, c) \/ Displaced(c)

LEMMA AgesAreNumbers ==
  /\ IdsTTL \in Nat /\ MaxConversations \in Nat \ {0} /\ IsFiniteSet(Conversations)
  /\ \A e \in Remembered : e.conv \in Conversations /\ e.ids \in Seq(Chunks) /\ e.age \in Nat
  /\ \A e \in Showing : e.ids \in Seq(Chunks) /\ e.age \in Nat
  /\ NoIds \in Showing /\ NoIds.ids = <<>> /\ NoIds.age = IdsTTL + 1
  <1>1. IdsTTL \in Nat /\ MaxConversations \in Nat \ {0} /\ IsFiniteSet(Conversations)
    BY CollectorConstantsOK DEF CollectorConstantsOK
  <1>2. QED
    BY <1>1 DEF Remembered, Showing, NoIds

LEMMA NewerGrows ==
  ASSUME NEW c, Displaced(c), Newer(c) \subseteq Newer(c)'
  PROVE  Cardinality(Newer(c)') >= MaxConversations
  <1>1. IsFiniteSet(Newer(c)')
    <2>1. Newer(c)' \in SUBSET Conversations
      BY DEF Newer
    <2>2. QED
      BY <2>1, AgesAreNumbers, FS_Subset
  <1>2. /\ IsFiniteSet(Newer(c)) /\ Cardinality(Newer(c)) <= Cardinality(Newer(c)')
    BY <1>1, FS_Subset
  <1>3. Cardinality(Newer(c)) \in Nat /\ Cardinality(Newer(c)') \in Nat
    BY <1>1, <1>2, FS_CardinalityType
  <1>4. QED
    BY <1>2, <1>3, AgesAreNumbers DEF Displaced

LEMMA StoreInit ==
  ASSUME CollectorInit
  PROVE  StoreInv
  <1>1. remembered = <<>> /\ shown = [c \in Conversations |-> NoIds]
    BY DEF CollectorInit
  <1>2. Orderly(remembered) /\ Len(remembered) <= MaxConversations /\ ToSet(remembered) = {}
    BY <1>1, AgesAreNumbers DEF Orderly, OneEach, OldestFirst, ToSet
  <1>3. QED
    BY <1>1, <1>2, AgesAreNumbers DEF StoreInv

(* get.                                                                    *)
LEMMA StoreRead ==
  ASSUME StoreInv, NEW c \in Conversations,
         remembered' = IF Stale(c) THEN But(c) ELSE remembered, shown' = shown
  PROVE  StoreInv'
  <1>1. CASE ~Stale(c)
    BY <1>1 DEF StoreInv, Mirrors, Displaced, Newer
  <1>2. CASE Stale(c)
    <2>1. Of(c) # <<>> /\ Of(c)[1] \in ToSet(remembered) /\ Of(c)[1].conv = c /\ Of(c)[1].age > IdsTTL
          /\ Of(c)[1] \in Remembered
      BY <1>2, OfFacts DEF StoreInv, Stale
    <2>2. ~(Of(c)[1].age <= IdsTTL)
      BY <2>1, AgesAreNumbers
    <2>3. shown[c].ids = <<>>
      BY <2>1, <2>2, AgesAreNumbers DEF StoreInv, Mirrors
    <2>4. /\ Orderly(remembered') /\ Len(remembered') <= Len(remembered)
          /\ ToSet(remembered') = {e \in ToSet(remembered) : e.conv # c}
      BY <1>2, ButFacts DEF StoreInv
    <2>5. Len(remembered') <= MaxConversations
      BY <2>4, AgesAreNumbers DEF StoreInv, Orderly
    <2>6. \A e \in ToSet(remembered') : Mirrors(e)'
      BY <2>4 DEF StoreInv, Mirrors
    <2>7. ASSUME NEW d \in Conversations, shown'[d].ids # <<>>
          PROVE  Remembers(remembered', d) \/ Displaced(d)'
      <3>1. d # c /\ shown[d].ids # <<>>
        BY <2>3, <2>7
      <3>2. CASE Remembers(remembered, d)
        <4>1. PICK i \in DOMAIN remembered : remembered[i].conv = d
          BY <3>2 DEF Remembers
        <4>2. remembered[i] \in ToSet(remembered')
          BY <2>4, <3>1, <4>1 DEF ToSet
        <4>3. QED
          BY <4>1, <4>2 DEF Remembers, ToSet
      <3>3. CASE Displaced(d)
        BY <3>3 DEF Displaced, Newer
      <3>4. QED
        BY <3>1, <3>2, <3>3 DEF StoreInv
    <2>8. QED
      BY <2>4, <2>5, <2>6, <2>7 DEF StoreInv
  <1>3. QED
    BY <1>1, <1>2

(* record.                                                                 *)
LEMMA StoreRecord ==
  ASSUME StoreInv, NEW c \in Conversations, NEW ids \in Seq(Chunks), ids # <<>>,
         remembered' = Recorded(c, ids),
         shown' = [shown EXCEPT ![c] = [ids |-> ids, age |-> 0]]
  PROVE  StoreInv'
  <1> DEFINE new == [conv |-> c, ids |-> ids, age |-> 0]
             to == Recorded(c, ids)
  <1>1. /\ Orderly(to) /\ Len(to) <= MaxConversations /\ new \in ToSet(to)
        /\ \A e \in ToSet(to) : e = new \/ (e \in ToSet(remembered) /\ e.conv # c)
        /\ \A e \in ToSet(remembered) : e.conv = c \/ e \in ToSet(to)
              \/ (Len(to) = MaxConversations /\ \A f \in ToSet(to) : e.age >= f.age /\ e.conv # f.conv)
    BY RecordedFacts DEF StoreInv
  <1>2. new.conv = c /\ new.ids = ids /\ new.age = 0 /\ 0 <= IdsTTL
    BY AgesAreNumbers
  <1> HIDE DEF to
  <1>3. /\ shown' \in [Conversations -> Showing] /\ shown'[c] = [ids |-> ids, age |-> 0]
        /\ \A d \in Conversations : d # c => shown'[d] = shown[d]
    BY AgesAreNumbers DEF StoreInv, Showing
  <1>4. \A e \in ToSet(remembered) : e \in Remembered
    BY DEF StoreInv, Orderly, ToSet
  <1>5. ASSUME NEW e \in ToSet(to) PROVE Mirrors(e)'
    <2>1. CASE e = new
      BY <1>2, <1>3, <2>1 DEF Mirrors
    <2>2. CASE e \in ToSet(remembered) /\ e.conv # c
      <3>1. e.conv \in Conversations /\ shown'[e.conv] = shown[e.conv]
        BY <1>3, <1>4, <2>2, AgesAreNumbers
      <3>2. QED
        BY <2>2, <3>1 DEF StoreInv, Mirrors
    <2>3. QED
      BY <1>1, <2>1, <2>2
  <1>6. ASSUME NEW d \in Conversations, d # c, shown[d].ids # <<>>
        PROVE  Remembers(to, d) \/ Displaced(d)'
    <2>1. CASE Displaced(d)
      <3>1. shown[d].age \in Nat
        BY AgesAreNumbers DEF StoreInv
      <3>2. ASSUME NEW x \in Newer(d) PROVE x \in Newer(d)'
        <4>1. x \in Conversations \ {d} /\ shown[x].ids # <<>> /\ shown[x].age <= shown[d].age
          BY <3>2 DEF Newer
        <4>2. shown'[d] = shown[d] /\ (x # c => shown'[x] = shown[x])
          BY <1>3, <1>6, <4>1
        <4>3. x = c => shown'[x].ids # <<>> /\ shown'[x].age <= shown'[d].age
          BY <1>3, <3>1, <4>2
        <4>4. QED
          BY <4>1, <4>2, <4>3 DEF Newer
      <3>3. QED
        BY <2>1, <3>2, NewerGrows DEF Displaced
    <2>2. CASE Remembers(remembered, d)
      <3>1. PICK e \in ToSet(remembered) : e.conv = d /\ e \in Remembered
        BY <1>4, <2>2 DEF Remembers, ToSet
      <3>2. CASE e \in ToSet(to)
        BY <3>1, <3>2 DEF Remembers, ToSet
      <3>3. CASE Len(to) = MaxConversations /\ \A f \in ToSet(to) : e.age >= f.age /\ e.conv # f.conv
        <4>1. e.age <= IdsTTL /\ shown[d] = [ids |-> e.ids, age |-> e.age]
          BY <1>6, <3>1, AgesAreNumbers DEF StoreInv, Mirrors
        <4>2. ASSUME NEW f \in ToSet(to) PROVE f.conv \in Newer(d)'
          <5>1. f \in Remembered /\ e.age >= f.age /\ f.conv # d
            BY <1>1, <3>1, <3>3 DEF Orderly, ToSet
          <5>2. f.conv \in Conversations /\ f.age \in Nat /\ e.age \in Nat
            BY <3>1, <5>1, AgesAreNumbers
          <5>3. f.age <= IdsTTL /\ f.age <= e.age
            BY <4>1, <5>1, <5>2, AgesAreNumbers
          <5>4. f.ids # <<>> /\ shown'[f.conv] = [ids |-> f.ids, age |-> f.age]
            BY <1>5, <5>3 DEF Mirrors
          <5>5. shown'[d].age = e.age
            BY <1>3, <1>6, <4>1
          <5>6. QED
            BY <5>1, <5>2, <5>3, <5>4, <5>5 DEF Newer
        <4>3. to \in Seq(Remembered) /\ DOMAIN to = 1..MaxConversations
          BY <1>1, <3>3 DEF Orderly
        <4> DEFINE f == [i \in 1..MaxConversations |-> to[i].conv]
                   newer == Newer(d)'
        <4>4. f \in [1..MaxConversations -> newer]
          BY <4>2, <4>3 DEF ToSet
        <4>5. IsFiniteSet(newer)
          <5>1. newer \in SUBSET Conversations
            BY DEF Newer
          <5>2. QED
            BY <5>1, AgesAreNumbers, FS_Subset
        <4>6. IsFiniteSet(1..MaxConversations) /\ Cardinality(1..MaxConversations) = MaxConversations
          <5> DEFINE m == MaxConversations
          <5>1. m \in Int /\ 1 \in Int /\ ~(1 > m) /\ (m - 1) + 1 = m
            BY AgesAreNumbers
          <5> HIDE DEF m
          <5>2. IsFiniteSet(1..m) /\ Cardinality(1..m) = (m - 1) + 1
            BY <5>1, FS_Interval
          <5>3. QED
            BY <5>1, <5>2 DEF m
        <4>7. \A i, j \in 1..MaxConversations : i # j => f[i] # f[j]
          BY <1>1, <4>3 DEF Orderly, OneEach
        <4> HIDE DEF f, newer
        <4>8. ~(Cardinality(newer) < Cardinality(1..MaxConversations))
          BY <4>4, <4>5, <4>6, <4>7, FS_PigeonHole
        <4>9. Cardinality(newer) \in Nat
          BY <4>5, FS_CardinalityType
        <4>10. Cardinality(newer) >= MaxConversations
          BY <4>6, <4>8, <4>9, AgesAreNumbers
        <4>11. QED
          BY <4>10 DEF Displaced, newer
      <3>4. QED
        BY <1>1, <1>6, <3>1, <3>2, <3>3
    <2>3. QED
      BY <1>6, <2>1, <2>2 DEF StoreInv
  <1>7. Remembers(to, c)
    BY <1>1, <1>2 DEF Remembers, ToSet
  <1>8. remembered' = to
    BY DEF to
  <1>9. QED
    BY <1>1, <1>3, <1>5, <1>6, <1>7, <1>8 DEF StoreInv

(* The ids get older.                                                      *)
LEMMA StoreAges ==
  ASSUME StoreInv, IdsAge
  PROVE  StoreInv'
  <1> DEFINE r == remembered
             q == [i \in DOMAIN remembered |-> Aged(remembered[i])]
             Shown(c) == IF Aged(shown[c]).age > IdsTTL THEN NoIds ELSE Aged(shown[c])
  <1>1. /\ remembered' = q /\ shown' = [c \in Conversations |-> Shown(c)]
        /\ r \in Seq(Remembered) /\ OneEach(r) /\ OldestFirst(r) /\ Len(r) <= MaxConversations
    BY DEF IdsAge, StoreInv, Orderly
  <1>2. ASSUME NEW e \in Remembered
        PROVE  /\ Aged(e) \in Remembered /\ Aged(e).conv = e.conv /\ Aged(e).ids = e.ids
               /\ Aged(e).age = IF e.age > IdsTTL THEN e.age ELSE e.age + 1
    BY AgesAreNumbers DEF Aged, Remembered
  <1>3. ASSUME NEW e \in Showing
        PROVE  /\ Aged(e) \in Showing /\ Aged(e).ids = e.ids
               /\ Aged(e).age = IF e.age > IdsTTL THEN e.age ELSE e.age + 1
               /\ Aged(e) = [ids |-> e.ids, age |-> Aged(e).age]
    BY AgesAreNumbers DEF Aged, Showing
  <1>4. /\ q \in Seq(Remembered) /\ DOMAIN q = DOMAIN r /\ Len(q) = Len(r)
        /\ \A i \in DOMAIN r : q[i] = Aged(r[i]) /\ r[i] \in Remembered
    <2>1. \A i \in DOMAIN r : r[i] \in Remembered
      BY <1>1
    <2>2. \A i \in DOMAIN r : Aged(r[i]) \in Remembered
      BY <1>2, <2>1
    <2>3. QED
      BY <1>1, <2>1, <2>2
  <1> HIDE DEF q
  <1>5. Orderly(q)
    <2>1. OneEach(q)
      BY <1>1, <1>2, <1>4 DEF OneEach
    <2>2. ASSUME NEW i \in DOMAIN q, NEW j \in DOMAIN q, i < j PROVE q[i].age >= q[j].age
      <3>1. r[i] \in Remembered /\ r[j] \in Remembered /\ r[i].age >= r[j].age
        BY <1>1, <1>4, <2>2 DEF OldestFirst
      <3>2. r[i].age \in Nat /\ r[j].age \in Nat
        BY <3>1, AgesAreNumbers
      <3>3. /\ q[i].age = IF r[i].age > IdsTTL THEN r[i].age ELSE r[i].age + 1
            /\ q[j].age = IF r[j].age > IdsTTL THEN r[j].age ELSE r[j].age + 1
        BY <1>2, <1>4, <2>2, <3>1
      <3>4. r[j].age <= IdsTTL + 1 /\ r[i].age <= IdsTTL + 1
        BY <3>1, AgesAreNumbers DEF Remembered
      <3>5. QED
        BY <3>1, <3>2, <3>3, <3>4, AgesAreNumbers
    <2>3. QED
      BY <1>4, <2>1, <2>2 DEF Orderly, OldestFirst
  <1>6. /\ shown' \in [Conversations -> Showing]
        /\ \A c \in Conversations : shown[c] \in Showing /\ shown'[c] = Shown(c)
    BY <1>1, <1>3, AgesAreNumbers DEF StoreInv
  <1>7. ASSUME NEW e \in ToSet(q) PROVE Mirrors(e)'
    <2>1. PICK i \in DOMAIN r : e = Aged(r[i]) /\ r[i] \in Remembered /\ r[i] \in ToSet(r)
      BY <1>4 DEF ToSet
    <2> DEFINE o == r[i]
               c == o.conv
    <2>2. /\ e.conv = c /\ e.ids = o.ids /\ e.age = (IF o.age > IdsTTL THEN o.age ELSE o.age + 1)
          /\ c \in Conversations /\ o.age \in Nat /\ Mirrors(o)
      BY <1>2, <2>1, AgesAreNumbers DEF StoreInv
    <2> HIDE DEF o
    <2>3. CASE e.age <= IdsTTL
      <3>1. o.age <= IdsTTL /\ e.age = o.age + 1
        BY <2>2, <2>3, AgesAreNumbers
      <3>2. o.ids # <<>> /\ shown[c].ids = o.ids /\ shown[c].age = o.age
        BY <2>2, <3>1 DEF Mirrors
      <3>3. Aged(shown[c]) = [ids |-> e.ids, age |-> e.age] /\ Aged(shown[c]).age = e.age
        BY <1>3, <1>6, <2>2, <3>1, <3>2
      <3>4. ~(e.age > IdsTTL)
        BY <2>2, <2>3, AgesAreNumbers
      <3>5. shown'[c] = [ids |-> e.ids, age |-> e.age]
        BY <1>6, <2>2, <3>3, <3>4
      <3>6. QED
        BY <2>2, <2>3, <3>2, <3>5 DEF Mirrors
    <2>4. CASE ~(e.age <= IdsTTL)
      <3>1. Aged(shown[c]).age > IdsTTL
        <4>1. CASE o.age <= IdsTTL
          <5>1. shown[c].age = o.age /\ e.age = o.age + 1
            BY <2>2, <4>1, AgesAreNumbers DEF Mirrors
          <5>2. Aged(shown[c]).age = e.age /\ e.age \in Nat
            BY SMTT(40), <1>3, <1>6, <2>2, <4>1, <5>1, AgesAreNumbers
          <5>3. QED
            BY <2>4, <5>2, AgesAreNumbers
        <4>2. CASE ~(o.age <= IdsTTL)
          <5>1. shown[c] = NoIds
            BY <2>2, <4>2 DEF Mirrors
          <5>2. Aged(NoIds).age = IdsTTL + 1
            BY <1>3, AgesAreNumbers
          <5>3. QED
            BY <5>1, <5>2, AgesAreNumbers
        <4>3. QED
          BY <4>1, <4>2
      <3>2. shown'[c] = NoIds
        BY <1>6, <2>2, <3>1
      <3>3. QED
        BY <2>2, <2>4, <3>2 DEF Mirrors
    <2>5. QED
      BY <2>3, <2>4
  <1>8. ASSUME NEW c \in Conversations, shown'[c].ids # <<>>
        PROVE  Remembers(q, c) \/ Displaced(c)'
    <2>1. /\ shown'[c] = Aged(shown[c]) /\ shown[c] \in Showing /\ shown[c].ids # <<>>
          /\ ~(Aged(shown[c]).age > IdsTTL)
      BY <1>3, <1>6, <1>8, AgesAreNumbers
    <2>2. CASE Remembers(r, c)
      BY <1>2, <1>4, <2>2 DEF Remembers
    <2>3. CASE Displaced(c)
      <3>1. shown[c].age \in Nat /\ shown'[c].age = shown[c].age + 1 /\ shown[c].age + 1 <= IdsTTL
        BY SMTT(40), <1>3, <2>1, AgesAreNumbers
      <3>2. ASSUME NEW d \in Newer(c) PROVE d \in Newer(c)'
        <4>1. d \in Conversations \ {c} /\ shown[d].ids # <<>> /\ shown[d].age <= shown[c].age
          BY <3>2 DEF Newer
        <4>2. shown[d] \in Showing /\ shown[d].age \in Nat
          BY <1>6, <4>1, AgesAreNumbers
        <4>3. Aged(shown[d]).age = shown[d].age + 1 /\ Aged(shown[d]).ids # <<>>
          <5>1. ~(shown[d].age > IdsTTL)
            BY <3>1, <4>1, <4>2, AgesAreNumbers
          <5>2. QED
            BY <1>3, <4>1, <4>2, <5>1
        <4>4. ~(Aged(shown[d]).age > IdsTTL)
          BY <3>1, <4>1, <4>2, <4>3, AgesAreNumbers
        <4>5. shown'[d] = Aged(shown[d])
          BY <1>6, <4>1, <4>4
        <4>6. shown'[d].age <= shown'[c].age
          BY <3>1, <4>1, <4>2, <4>3, <4>5
        <4>7. QED
          BY <4>1, <4>3, <4>5, <4>6 DEF Newer
      <3>3. QED
        BY <2>3, <3>2, NewerGrows DEF Displaced
    <2>4. QED
      BY <2>1, <2>2, <2>3 DEF StoreInv
  <1>9. QED
    BY <1>1, <1>4, <1>5, <1>6, <1>7, <1>8 DEF StoreInv

-----------------------------------------------------------------------------
(* What a merge returns, whatever was found, described and remembered.     *)
Accounted(chunks, b) ==
    /\ \A c \in ToSet(chunks) : Text[c] \in b.described \/ \E k \in ToSet(b.chunks) : Same(k, c)
    /\ \A i, j \in DOMAIN b.chunks : i < j =>
          /\ Score[b.chunks[i]] >= Score[b.chunks[j]]
          /\ <<Text[b.chunks[i]], File[b.chunks[i]]>> # <<Text[b.chunks[j]], File[b.chunks[j]]>>

HistoryOK(b) == NamedOnce(b.history) /\ (InCommon(b.window) => IsSuffix(b.window.event, b.history))

LEMMA MergeFacts ==
  ASSUME NEW chunks \in Seq(Chunks), NEW known, NEW w, Window(w)
  PROVE  Accounted(chunks, Merge(chunks, known, w)) /\ HistoryOK(Merge(chunks, known, w))
  <1> DEFINE b == Merge(chunks, known, w)
             u == Unique(chunks, known)
             r == Ranked(u)
  <1>1. b.chunks = r /\ b.described = known /\ b.history = History(w) /\ b.window = w
    BY DEF Merge
  <1> HIDE DEF b
  <1>2. /\ u \in Seq(Chunks) /\ Chain(u, Differ)
        /\ \A c \in ToSet(chunks) : Text[c] \in known \/ \E k \in ToSet(u) : Same(k, c)
    BY UniqueFacts
  <1> HIDE DEF u
  <1>3. r \in Seq(Chunks) /\ Chain(r, Ranks) /\ ToSet(r) = ToSet(u)
    BY <1>2, RankedFacts
  <1> HIDE DEF r
  <1>4. Accounted(chunks, b)
    <2>1. \A c \in ToSet(chunks) : Text[c] \in known \/ \E k \in ToSet(r) : Same(k, c)
      BY <1>2, <1>3
    <2>2. \A i, j \in DOMAIN r : i < j =>
             /\ Score[r[i]] >= Score[r[j]]
             /\ <<Text[r[i]], File[r[i]]>> # <<Text[r[j]], File[r[j]]>>
      BY <1>3 DEF Chain, Ranks, Differ
    <2>3. QED
      BY <1>1, <2>1, <2>2 DEF Accounted
  <1>5. HistoryOK(b)
    BY <1>1, HistoryFacts DEF HistoryOK
  <1>6. QED
    BY <1>4, <1>5 DEF b

-----------------------------------------------------------------------------
(* The inductive invariant. *)
Asking == {"reading", "rewriting", "searching", "pausing"}

TurnInv(t) ==
    /\ stage[t] \in Asking => conv[t] \in Conversations
    /\ found[t].chunks \in Seq(Chunks)
    /\ stage[t] = "collected" => Accounted(found[t].chunks, bundle[t]) /\ HistoryOK(bundle[t])

CollectorInv ==
    /\ DOMAIN stage = Turns /\ DOMAIN conv = Turns /\ DOMAIN offered = Turns
    /\ DOMAIN found = Turns /\ DOMAIN bundle = Turns
    /\ \A t \in Turns : TurnInv(t)
    /\ StoreInv

LEMMA CollectorStart ==
  ASSUME CollectorInit
  PROVE  CollectorInv
  <1>1. StoreInv
    BY StoreInit
  <1>2. NotFetched.chunks \in Seq(Chunks)
    BY DEF NotFetched
  <1>3. \A t \in Turns : TurnInv(t)
    BY <1>2 DEF CollectorInit, TurnInv, Asking
  <1>4. QED
    BY <1>1, <1>3 DEF CollectorInit, CollectorInv

(* The variables of the other turns stay, and so do the shapes.            *)
Alone(t) ==
    /\ DOMAIN stage' = Turns /\ DOMAIN conv' = Turns /\ DOMAIN offered' = Turns
    /\ DOMAIN found' = Turns /\ DOMAIN bundle' = Turns
    /\ \A u \in Turns \ {t} : /\ stage'[u] = stage[u] /\ conv'[u] = conv[u]
                              /\ found'[u] = found[u] /\ bundle'[u] = bundle[u]

LEMMA OneTurn ==
  ASSUME CollectorInv, NEW t \in Turns, Alone(t), TurnInv(t)', StoreInv'
  PROVE  CollectorInv'
  <1>1. ASSUME NEW u \in Turns, u # t PROVE TurnInv(u)'
    <2>1. TurnInv(u)
      BY DEF CollectorInv
    <2>2. stage'[u] = stage[u] /\ conv'[u] = conv[u] /\ found'[u] = found[u] /\ bundle'[u] = bundle[u]
      BY <1>1 DEF Alone
    <2>3. QED
      BY <2>1, <2>2 DEF TurnInv
  <1>2. QED
    BY <1>1 DEF CollectorInv, Alone

LEMMA StoreKept ==
  ASSUME StoreInv, remembered' = remembered, shown' = shown
  PROVE  StoreInv'
  BY DEF StoreInv, Mirrors, Displaced, Newer

LEMMA SearchEnds ==
  ASSUME CollectorInv, NEW t \in Turns, NEW result, result.chunks \in Seq(Chunks),
         SearchOver(t, result), bundle' = bundle
  PROVE  Alone(t) /\ TurnInv(t)'
  BY DEF SearchOver, CollectorInv, Alone, TurnInv, Asking

LEMMA CollectorStep ==
  ASSUME CollectorInv, [CollectorNext]_collectorVars
  PROVE  CollectorInv'
  <1>1. ASSUME NEW t \in Turns, CollectWithoutFiles(t) PROVE CollectorInv'
    <2>1. Alone(t) /\ TurnInv(t)'
      BY <1>1 DEF CollectWithoutFiles, CollectorInv, Alone, TurnInv, Asking
    <2>2. StoreInv'
      BY <1>1, StoreKept DEF CollectWithoutFiles, CollectorInv
    <2>3. QED
      BY <2>1, <2>2, OneTurn
  <1>2. ASSUME NEW t \in Turns, NEW c \in Conversations, Collect(t, c) PROVE CollectorInv'
    <2>1. Alone(t) /\ TurnInv(t)'
      BY <1>2 DEF Collect, CollectorInv, Alone, TurnInv, Asking
    <2>2. StoreInv'
      BY <1>2, StoreKept DEF Collect, CollectorInv
    <2>3. QED
      BY <2>1, <2>2, OneTurn
  <1>3. ASSUME NEW t \in Turns, NEW chunks \in Answers, WholeText(t, chunks) PROVE CollectorInv'
    <2>1. Reply("OK", chunks).chunks \in Seq(Chunks)
      BY CollectorConstantsOK DEF Reply, CollectorConstantsOK
    <2>2. Alone(t) /\ TurnInv(t)'
      BY <1>3, <2>1 DEF WholeText, CollectorInv, Alone, TurnInv, Asking
    <2>3. StoreInv'
      BY <1>3, StoreKept DEF WholeText, CollectorInv
    <2>4. QED
      BY <2>2, <2>3, OneTurn
  <1>4. ASSUME NEW t \in Turns, NoWholeText(t) PROVE CollectorInv'
    <2>1. Alone(t) /\ TurnInv(t)'
      BY <1>4 DEF NoWholeText, CollectorInv, Alone, TurnInv, Asking
    <2>2. StoreInv'
      BY <1>4, StoreKept DEF NoWholeText, CollectorInv
    <2>3. QED
      BY <2>1, <2>2, OneTurn
  <1>5. ASSUME NEW t \in Turns, QueryRewritten(t) PROVE CollectorInv'
    <2>1. Alone(t) /\ TurnInv(t)'
      BY <1>5 DEF QueryRewritten, CollectorInv, Alone, TurnInv, Asking
    <2>2. conv[t] \in Conversations
      BY <1>5 DEF QueryRewritten, CollectorInv, TurnInv, Asking
    <2>3. StoreInv'
      BY <1>5, <2>2, StoreRead DEF QueryRewritten, CollectorInv
    <2>4. QED
      BY <2>1, <2>3, OneTurn
  <1>6. ASSUME NEW t \in Turns, NEW reply, reply.chunks \in Seq(Chunks), SearchAnswered(t, reply)
        PROVE  CollectorInv'
    <2> DEFINE ids == Recordable(reply.chunks)
    <2>1. ids \in Seq(Chunks)
      BY <1>6, RecordableTyped
    <2> HIDE DEF ids
    <2>2. conv[t] \in Conversations
      BY <1>6 DEF SearchAnswered, CollectorInv, TurnInv, Asking
    <2>3. CASE Ends(t, reply)
      <3>1. /\ SearchOver(t, reply) /\ bundle' = bundle /\ remembered' = Recorded(conv[t], ids)
            /\ shown' = IF ids = <<>> THEN shown ELSE [shown EXCEPT ![conv[t]] = [ids |-> ids, age |-> 0]]
        BY <1>6, <2>3 DEF SearchAnswered, ids
      <3>2. Alone(t) /\ TurnInv(t)'
        BY <1>6, <3>1, SearchEnds
      <3>3. CASE ids = <<>>
        <4>1. StoreInv'
          BY <3>1, <3>3, StoreKept DEF Recorded, CollectorInv
        <4>2. QED
          BY <3>2, <4>1, OneTurn
      <3>4. CASE ids # <<>>
        <4>1. StoreInv'
          BY <2>1, <2>2, <3>1, <3>4, StoreRecord DEF CollectorInv
        <4>2. QED
          BY <3>2, <4>1, OneTurn
      <3>5. QED
        BY <3>3, <3>4
    <2>4. CASE ~Ends(t, reply)
      <3>1. /\ stage' = [stage EXCEPT ![t] = "pausing"]
            /\ UNCHANGED <<conv, offered, found, remembered, shown, bundle>>
        BY <1>6, <2>4 DEF SearchAnswered
      <3>2. Alone(t) /\ TurnInv(t)'
        BY <2>2, <3>1 DEF CollectorInv, Alone, TurnInv, Asking
      <3>3. StoreInv'
        BY <3>1, StoreKept DEF CollectorInv
      <3>4. QED
        BY <3>2, <3>3, OneTurn
    <2>5. QED
      BY <2>3, <2>4
  <1>7. ASSUME NEW t \in Turns, PauseOver(t) PROVE CollectorInv'
    <2>1. Alone(t) /\ TurnInv(t)'
      BY <1>7 DEF PauseOver, CollectorInv, Alone, TurnInv, Asking
    <2>2. StoreInv'
      BY <1>7, StoreKept DEF PauseOver, CollectorInv
    <2>3. QED
      BY <2>1, <2>2, OneTurn
  <1>8. ASSUME NEW t \in Turns, SearchRaises(t) PROVE CollectorInv'
    <2>1. Raised.chunks \in Seq(Chunks)
      BY DEF Raised, NotFetched
    <2>2. Alone(t) /\ TurnInv(t)'
      BY <1>8, <2>1, SearchEnds DEF SearchRaises
    <2>3. StoreInv'
      BY <1>8, StoreKept DEF SearchRaises, CollectorInv
    <2>4. QED
      BY <2>2, <2>3, OneTurn
  <1>9. ASSUME NEW t \in Turns, NEW memoryOK \in BOOLEAN, NEW graphOK \in BOOLEAN,
               NEW described \in Descriptions, NEW w \in Windows, Gather(t, memoryOK, graphOK, described, w)
        PROVE  CollectorInv'
    <2> DEFINE b == Merge(found[t].chunks, FromGraph(graphOK, described), FromMemory(memoryOK, w))
    <2>1. Accounted(found[t].chunks, b) /\ HistoryOK(b)
      <3>1. found[t].chunks \in Seq(Chunks)
        BY DEF CollectorInv, TurnInv
      <3>2. QED
        BY <3>1, WindowsAreWindows, MergeFacts
    <2>2. bundle' = [bundle EXCEPT ![t] = b]
      BY <1>9 DEF Gather
    <2> HIDE DEF b
    <2>3. Alone(t)
      BY <1>9, <2>2 DEF Gather, CollectorInv, Alone
    <2>4. TurnInv(t)'
      BY <1>9, <2>1, <2>2 DEF Gather, CollectorInv, TurnInv, Asking
    <2>5. StoreInv'
      BY <1>9, StoreKept DEF Gather, CollectorInv
    <2>6. QED
      BY <2>3, <2>4, <2>5, OneTurn
  <1>10. ASSUME NEW t \in Turns, HandOver(t) PROVE CollectorInv'
    <2>1. NotFetched.chunks \in Seq(Chunks)
      BY DEF NotFetched
    <2>2. Alone(t) /\ TurnInv(t)'
      BY <1>10, <2>1 DEF HandOver, CollectorInv, Alone, TurnInv, Asking
    <2>3. StoreInv'
      BY <1>10, StoreKept DEF HandOver, CollectorInv
    <2>4. QED
      BY <2>2, <2>3, OneTurn
  <1>11. ASSUME IdsAge PROVE CollectorInv'
    <2>1. StoreInv'
      BY <1>11, StoreAges DEF CollectorInv
    <2>2. QED
      BY <1>11, <2>1 DEF IdsAge, turn, CollectorInv, TurnInv
  <1>12. ASSUME UNCHANGED collectorVars PROVE CollectorInv'
    <2>1. StoreInv'
      BY <1>12, StoreKept DEF collectorVars, CollectorInv
    <2>2. QED
      BY <1>12, <2>1 DEF collectorVars, turn, CollectorInv, TurnInv
  <1>13. ASSUME NEW t \in Turns, TurnStep(t) PROVE CollectorInv'
    <2>1. \A chunks \in Answers : Reply("OK", chunks).chunks \in Seq(Chunks)
      BY CollectorConstantsOK DEF Reply, CollectorConstantsOK
    <2>2. \A status : Reply(status, <<>>).chunks \in Seq(Chunks)
      BY DEF Reply
    <2>3. QED
      BY <1>3, <1>4, <1>5, <1>6, <1>7, <1>8, <1>9, <1>10, <1>13, <2>1, <2>2 DEF TurnStep, Fetch
  <1>14. QED
    BY <1>1, <1>2, <1>11, <1>12, <1>13 DEF CollectorNext, Start

(* Always: the store of previous chunk ids, the turns that search and the  *)
(* bundles that were merged are as CollectorInv says (collector.py,        *)
(* previous_chunks.py).                                                    *)
THEOREM CollectorInvariance == CollectorSpec => []CollectorInv
  <1>1. CollectorInit => CollectorInv
    BY CollectorStart
  <1>2. CollectorInv /\ [CollectorNext]_collectorVars => CollectorInv'
    BY CollectorStep
  <1>3. QED
    BY <1>1, <1>2, PTL DEF CollectorSpec

(* In every behaviour, for any chunks, windows and limits: what was found  *)
(* is in the merged context unless the graph says it, nothing twice and    *)
(* the best first (ContextMerger._deduplicate_chunks, _rank_chunks).       *)
THEOREM NothingFoundIsLost == CollectorSpec => []PassagesAccounted
  <1>1. CollectorInv => PassagesAccounted
    BY DEF CollectorInv, TurnInv, Accounted, PassagesAccounted
  <1>2. QED
    BY <1>1, CollectorInvariance, PTL

(* In every behaviour: no turn twice in the history, which ends with the   *)
(* turns of the request once memory knows one of them                      *)
(* (RequestPipeline.merge_histories).                                      *)
THEOREM HistoriesAreMerged == CollectorSpec => []HistoryMerged
  <1>1. CollectorInv => HistoryMerged
    BY DEF CollectorInv, TurnInv, HistoryOK, HistoryMerged
  <1>2. QED
    BY <1>1, CollectorInvariance, PTL

(* The ids that get gives are those of the last search that found some.    *)
LEMMA IdsAreLatest ==
  ASSUME StoreInv, NEW c \in Conversations
  PROVE  Ids(c) = shown[c].ids \/ (Ids(c) = <<>> /\ Displaced(c))
  <1>1. CASE Of(c) = <<>>
    BY <1>1, OfFacts DEF StoreInv, Ids
  <1>2. CASE Of(c) # <<>>
    <2> DEFINE e == Of(c)[1]
    <2>1. e \in ToSet(remembered) /\ e \in Remembered /\ e.conv = c /\ Mirrors(e)
      BY <1>2, OfFacts DEF StoreInv
    <2>2. e.age \in Nat /\ IdsTTL \in Nat
      BY <2>1, AgesAreNumbers
    <2>3. Ids(c) = IF e.age > IdsTTL THEN <<>> ELSE e.ids
      BY <1>2 DEF Ids, Stale
    <2> HIDE DEF e
    <2>4. CASE e.age > IdsTTL
      <3>1. shown[c].ids = <<>>
        BY <2>1, <2>2, <2>4, AgesAreNumbers DEF Mirrors
      <3>2. QED
        BY <2>3, <2>4, <3>1
    <2>5. CASE ~(e.age > IdsTTL)
      <3>1. shown[c].ids = e.ids
        BY <2>1, <2>2, <2>5 DEF Mirrors
      <3>2. QED
        BY <2>3, <2>5, <3>1
    <2>6. QED
      BY <2>4, <2>5
  <1>3. QED
    BY <1>1, <1>2

(* Only the end of the rewrite starts a search.                            *)
LEMMA RewriteEnds ==
  ASSUME CollectorInv, [CollectorNext]_collectorVars, NEW t \in Turns,
         stage[t] = "rewriting", stage'[t] = "searching"
  PROVE  QueryRewritten(t)
  <1>1. stage' # stage
    OBVIOUS
  <1>2. DOMAIN stage = Turns
    BY DEF CollectorInv
  <1>3. PICK u \in Turns : TurnStep(u) \/ Start(u)
    BY <1>1 DEF CollectorNext, collectorVars, turn, IdsAge
  <1>4. CASE Start(u)
    BY <1>2, <1>4 DEF Start, CollectWithoutFiles, Collect
  <1>5. CASE TurnStep(u)
    <2>1. ~HandOver(u)
      BY <1>2 DEF HandOver
    <2>2. ~NoWholeText(u) /\ ~SearchRaises(u)
      BY <1>2 DEF NoWholeText, SearchRaises, SearchOver
    <2>3. ~PauseOver(u)
      BY <1>2 DEF PauseOver
    <2>4. \A chunks \in Answers : ~WholeText(u, chunks)
      BY <1>2 DEF WholeText
    <2>5. ASSUME NEW reply, SearchAnswered(u, reply) PROVE FALSE
      BY <1>2, <2>5 DEF SearchAnswered, SearchOver
    <2>6. ~(\E memoryOK, graphOK \in BOOLEAN, described \in Descriptions, w \in Windows :
               Gather(u, memoryOK, graphOK, described, w))
      BY <1>2 DEF Gather
    <2>7. QueryRewritten(u)
      BY <1>5, <2>1, <2>2, <2>3, <2>4, <2>5, <2>6 DEF TurnStep, Fetch
    <2>8. u = t
      BY <1>2, <2>7 DEF QueryRewritten
    <2>9. QED
      BY <2>7, <2>8
  <1>6. QED
    BY <1>3, <1>4, <1>5

(* In every behaviour: a search names the chunks of the last search of its *)
(* conversation, or none when that many others came later                  *)
(* (PreviousChunkStore.get and record).                                    *)
THEOREM OfferedIdsAreLatest == CollectorSpec => OfferedAreLatest
  <1> DEFINE A == \A t \in Turns : stage[t] = "rewriting" /\ stage'[t] = "searching" => LatestOffered(t)
  <1>1. ASSUME CollectorInv, [CollectorNext]_collectorVars, NEW t \in Turns,
               stage[t] = "rewriting", stage'[t] = "searching"
        PROVE  LatestOffered(t)
    <2>1. QueryRewritten(t)
      BY <1>1, RewriteEnds
    <2>2. conv[t] \in Conversations /\ DOMAIN offered = Turns /\ StoreInv
      BY <1>1 DEF CollectorInv, TurnInv, Asking
    <2>3. offered'[t] = Ids(conv[t])
      BY <2>1, <2>2 DEF QueryRewritten
    <2>4. QED
      BY <2>2, <2>3, IdsAreLatest DEF LatestOffered, Displaced
  <1>2. CollectorInv /\ [CollectorNext]_collectorVars => [A]_collectorVars
    BY <1>1
  <1>3. CollectorSpec => [][A]_collectorVars
    <2> HIDE DEF A
    <2>1. QED
      BY <1>2, CollectorInvariance, PTL DEF CollectorSpec
  <1>4. QED
    BY <1>3 DEF OfferedAreLatest

-----------------------------------------------------------------------------
(* How many answers a turn that has begun still waits for at most.         *)
AnswersLeft(at, asked) ==
    CASE at = "reading"   -> 6
      [] at = "rewriting" -> 5
      [] at = "searching" -> IF asked THEN 2 ELSE 4
      [] at = "pausing"   -> 3
      [] at = "retrieved" -> 1
      [] at = "collected" -> 0

Steps == {"idle", "reading", "rewriting", "searching", "pausing", "retrieved", "collected"}

(* A turn that pauses was told to search again, and one told to is about   *)
(* to do so.                                                               *)
AskedWell(at, asked) ==
    /\ at \in Steps /\ asked \in BOOLEAN
    /\ asked => at \in {"searching", "pausing"}
    /\ at = "pausing" => asked

AskingInv ==
    /\ stage \in [Turns -> Steps] /\ again \in [Turns -> BOOLEAN]
    /\ \A t \in Turns : AskedWell(stage[t], again[t])

Nearer(t) ==
    /\ stage'[t] # "idle"
    /\ AnswersLeft(stage'[t], again'[t]) \in Nat
    /\ AnswersLeft(stage'[t], again'[t]) < AnswersLeft(stage[t], again[t])

(* What becomes of the turn that moves.                                    *)
Moves(t, at, asked) ==
    /\ stage' = [stage EXCEPT ![t] = at]
    /\ again' = [again EXCEPT ![t] = asked]
    /\ AskedWell(at, asked)
    /\ stage[t] \in {"idle", "collected"}
          \/ (at # "idle" /\ AnswersLeft(at, asked) < AnswersLeft(stage[t], again[t]))

LEMMA SomeMove ==
    ASSUME AskingInv, NEW t \in Turns, Start(t) \/ TurnStep(t)
    PROVE  \E at, asked : Moves(t, at, asked)
  <1>1. AskedWell(stage[t], again[t]) /\ again = [again EXCEPT ![t] = again[t]]
    BY DEF AskingInv
  <1> USE DEF AskedWell, Steps
  <1>2. CASE CollectWithoutFiles(t)
    <2>1. Moves(t, "retrieved", again[t])
      BY <1>1, <1>2 DEF CollectWithoutFiles, Moves
    <2>2. QED
      BY <2>1
  <1>3. CASE \E c \in Conversations : Collect(t, c)
    <2>1. Moves(t, "reading", again[t])
      BY <1>1, <1>3 DEF Collect, Moves
    <2>2. QED
      BY <2>1
  <1>4. CASE \E chunks \in Answers : WholeText(t, chunks)
    <2>1. stage[t] = "reading" /\ stage' = [stage EXCEPT ![t] = "retrieved"] /\ again' = again
      BY <1>4 DEF WholeText
    <2>2. Moves(t, "retrieved", again[t])
      BY <1>1, <2>1 DEF Moves, AnswersLeft
    <2>3. QED
      BY <2>2
  <1>5. CASE NoWholeText(t)
    <2>1. Moves(t, "rewriting", again[t])
      BY <1>1, <1>5 DEF NoWholeText, Moves, AnswersLeft
    <2>2. QED
      BY <2>1
  <1>6. CASE QueryRewritten(t)
    <2>1. stage[t] = "rewriting" /\ stage' = [stage EXCEPT ![t] = "searching"] /\ again' = again
      BY <1>6 DEF QueryRewritten
    <2>2. Moves(t, "searching", again[t])
      BY <1>1, <2>1 DEF Moves, AnswersLeft
    <2>3. QED
      BY <2>2
  <1>7. ASSUME NEW result, stage[t] = "searching", SearchOver(t, result)
        PROVE  \E at, asked : Moves(t, at, asked)
    <2>1. stage' = [stage EXCEPT ![t] = "retrieved"] /\ again' = [again EXCEPT ![t] = FALSE]
      BY <1>7 DEF SearchOver
    <2>2. Moves(t, "retrieved", FALSE)
      BY <1>1, <1>7, <2>1 DEF Moves, AnswersLeft
    <2>3. QED
      BY <2>2
  <1>8. ASSUME NEW reply, SearchAnswered(t, reply) PROVE \E at, asked : Moves(t, at, asked)
    <2>1. CASE Ends(t, reply)
      BY <1>7, <1>8, <2>1 DEF SearchAnswered
    <2>2. CASE ~Ends(t, reply)
      <3>1. /\ stage[t] = "searching" /\ ~again[t]
            /\ stage' = [stage EXCEPT ![t] = "pausing"] /\ again' = [again EXCEPT ![t] = TRUE]
        BY <1>8, <2>2 DEF SearchAnswered, Ends
      <3>2. Moves(t, "pausing", TRUE)
        BY <1>1, <3>1 DEF Moves, AnswersLeft
      <3>3. QED
        BY <3>2
    <2>3. QED
      BY <2>1, <2>2
  <1>9. CASE PauseOver(t)
    <2>1. Moves(t, "searching", again[t])
      BY <1>1, <1>9 DEF PauseOver, Moves, AnswersLeft
    <2>2. QED
      BY <2>1
  <1>10. CASE SearchRaises(t)
    BY <1>7, <1>10 DEF SearchRaises
  <1>11. ASSUME NEW memoryOK, NEW graphOK, NEW described, NEW w, Gather(t, memoryOK, graphOK, described, w)
         PROVE  \E at, asked : Moves(t, at, asked)
    <2>1. stage[t] = "retrieved" /\ stage' = [stage EXCEPT ![t] = "collected"] /\ again' = again
      BY <1>11 DEF Gather
    <2>2. Moves(t, "collected", again[t])
      BY <1>1, <2>1 DEF Moves, AnswersLeft
    <2>3. QED
      BY <2>2
  <1>12. CASE HandOver(t)
    <2>1. Moves(t, "idle", again[t])
      BY <1>1, <1>12 DEF HandOver, Moves
    <2>2. QED
      BY <2>1
  <1>13. QED
    BY <1>2, <1>3, <1>4, <1>5, <1>6, <1>8, <1>9, <1>10, <1>11, <1>12 DEF Start, TurnStep, Fetch

LEMMA AskingStep ==
    ASSUME AskingInv, [CollectorNext]_collectorVars
    PROVE  /\ AskingInv'
           /\ \A t \in Turns : stage[t] \notin {"idle", "collected"} =>
                 (stage'[t] = stage[t] /\ again'[t] = again[t]) \/ Nearer(t)
  <1>1. ASSUME NEW u \in Turns, Start(u) \/ TurnStep(u)
        PROVE  /\ AskingInv'
               /\ \A t \in Turns : stage[t] \notin {"idle", "collected"} =>
                     (stage'[t] = stage[t] /\ again'[t] = again[t]) \/ Nearer(t)
    <2>1. PICK at, asked : Moves(u, at, asked)
      BY <1>1, SomeMove
    <2>2. QED
      BY <2>1 DEF Moves, AskingInv, AskedWell, Nearer, AnswersLeft, Steps
  <1>2. CASE UNCHANGED <<stage, again>>
    BY <1>2 DEF AskingInv
  <1>3. QED
    BY <1>1, <1>2 DEF CollectorNext, IdsAge, turn, collectorVars

(* ContextCollector._fetch_retrieval: a search is repeated at most once,   *)
(* so each answer or timeout brings a turn nearer to its context, whatever *)
(* the services answer and whatever the other turns do.                    *)
THEOREM CollectionsAreFinite ==
    CollectorSpec =>
      [][\A t \in Turns : stage[t] \notin {"idle", "collected"} =>
            (stage'[t] = stage[t] /\ again'[t] = again[t]) \/ Nearer(t)]_collectorVars
  <1>1. CollectorInit => AskingInv
    BY DEF CollectorInit, AskingInv, AskedWell, Steps
  <1>2. AskingInv /\ [CollectorNext]_collectorVars => AskingInv'
    BY AskingStep
  <1>3. AskingInv /\ [CollectorNext]_collectorVars =>
          [\A t \in Turns : stage[t] \notin {"idle", "collected"} =>
            (stage'[t] = stage[t] /\ again'[t] = again[t]) \/ Nearer(t)]_collectorVars
    BY AskingStep
  <1>4. QED
    BY <1>1, <1>2, <1>3, PTL DEF CollectorSpec

-----------------------------------------------------------------------------
(***************************************************************************)
(* WebSearch.                                                              *)
(***************************************************************************)

(* The sources have less time than the executor when the tool has more     *)
(* than a second.                                                          *)
LEMMA DeadlinesDiffer == ASSUME TimeoutMs > 1000 PROVE GatherMs < TimeoutMs
  BY SearchConstantsOK DEF SearchConstantsOK, GatherMs

(***************************************************************************)
(* The inductive invariant: only a search whose sources were asked has     *)
(* heard anything, and neither silence nor a failure carries a URL.        *)
(***************************************************************************)
AnyReply == [reply : {"none", "failed", "list"}, urls : Seq(DOMAIN Page)]

Blank(a) == a.reply \in {"none", "failed"} => a.urls = <<>>

Hearing(s) ==
  /\ \A p \in Sources : Blank(answer[s][p])
  /\ pc[s] \notin {"gathering", "concluding"} => answer[s] = Unasked

SearchTypes ==
  /\ pc \in [Searches -> {"idle", "rewriting", "asking", "gathering", "concluding"}]
  /\ answer \in [Searches -> [Sources -> AnyReply]]
  /\ outcome = [s \in Searches |-> outcome[s]]

IInv == SearchTypes /\ \A s \in Searches : Hearing(s)

LEMMA RepliesTyped ==
  /\ Silent \in AnyReply /\ Blank(Silent)
  /\ Failed \in AnyReply /\ Blank(Failed)
  /\ \A p \in Sources : \A urls \in Found[p] \union {<<>>} :
        List(urls) \in AnyReply /\ Blank(List(urls))
  <1>1. <<>> \in Seq(DOMAIN Page)
    OBVIOUS
  <1>2. \A p \in Sources : Found[p] \subseteq Seq(DOMAIN Page)
    BY SearchConstantsOK DEF SearchConstantsOK
  <1>3. QED
    BY <1>1, <1>2 DEF AnyReply, Blank, Silent, Failed, List

LEMMA UnaskedTyped ==
  /\ Unasked \in [Sources -> AnyReply]
  /\ \A p \in Sources : Blank(Unasked[p]) /\ Unasked[p].urls = <<>>
  BY RepliesTyped DEF Unasked, Silent

(* A search that stays where nothing was asked yet.                        *)
LEMMA StillUnasked ==
  ASSUME IInv, NEW s \in Searches, pc[s] \in {"idle", "rewriting", "asking"},
         NEW to \in {"idle", "rewriting", "asking", "gathering"},
         pc' = [pc EXCEPT ![s] = to], answer' = answer,
         outcome' = [u \in Searches |-> outcome'[u]]
  PROVE  IInv'
  <1>1. SearchTypes'
    BY DEF IInv, SearchTypes
  <1>2. ASSUME NEW u \in Searches PROVE Hearing(u)'
    BY DEF IInv, SearchTypes, Hearing
  <1>3. QED
    BY <1>1, <1>2 DEF IInv

LEMMA ReturnOK == ASSUME IInv, NEW s \in Searches, NEW result, Return(s, result) PROVE IInv'
  <1>1. SearchTypes'
    BY UnaskedTyped DEF IInv, SearchTypes, Return
  <1>2. ASSUME NEW u \in Searches PROVE Hearing(u)'
    BY UnaskedTyped DEF IInv, SearchTypes, Hearing, Return
  <1>3. QED
    BY <1>1, <1>2 DEF IInv

LEMMA HeardOK ==
  ASSUME IInv, NEW s \in Searches, NEW p \in Sources, NEW a \in AnyReply, Blank(a), Heard(s, p, a)
  PROVE  IInv'
  <1>1. SearchTypes'
    BY DEF IInv, SearchTypes, Heard
  <1>2. ASSUME NEW u \in Searches PROVE Hearing(u)'
    <2>1. ASSUME NEW q \in Sources PROVE Blank(answer'[u][q])
      BY DEF IInv, SearchTypes, Hearing, Heard
    <2>2. pc'[u] \notin {"gathering", "concluding"} => answer'[u] = Unasked
      BY DEF IInv, SearchTypes, Hearing, Heard
    <2>3. QED
      BY <2>1, <2>2 DEF Hearing
  <1>3. QED
    BY <1>1, <1>2 DEF IInv

LEMMA TimerOK == ASSUME IInv, NEW s \in Searches, TimerFires(s) PROVE IInv'
  <1>1. CASE GatherMs < TimeoutMs
    <2>1. /\ pc' = [pc EXCEPT ![s] = "concluding"] /\ outcome' = outcome
          /\ answer' = [answer EXCEPT ![s] =
                [p \in Sources |-> IF answer[s][p] = Silent THEN Failed ELSE answer[s][p]]]
      BY <1>1 DEF TimerFires
    <2>2. SearchTypes'
      BY <2>1, RepliesTyped DEF IInv, SearchTypes
    <2>3. ASSUME NEW u \in Searches PROVE Hearing(u)'
      BY <2>1, RepliesTyped DEF IInv, SearchTypes, Hearing
    <2>4. QED
      BY <2>2, <2>3 DEF IInv
  <1>2. CASE ~(GatherMs < TimeoutMs)
    BY <1>2, ReturnOK DEF TimerFires
  <1>3. QED
    BY <1>1, <1>2

LEMMA InitOK == Init => IInv
  BY UnaskedTyped DEF Init, IInv, SearchTypes, Hearing

LEMMA StepOK == IInv /\ [Next]_vars => IInv'
  <1> SUFFICES ASSUME IInv, [Next]_vars PROVE IInv'
    OBVIOUS
  <1>1. CASE Tick \/ UNCHANGED vars
    BY <1>1 DEF Tick, tool, vars, IInv, SearchTypes, Hearing
  <1>2. ASSUME NEW s \in Searches, SearchStep(s) PROVE IInv'
    <2>1. CASE NeedsRewrite(s)
      BY <2>1, StillUnasked DEF NeedsRewrite, IInv, SearchTypes
    <2>2. CASE \E k \in Queries : PassThrough(s, k)
      BY <2>2, StillUnasked DEF PassThrough, IInv, SearchTypes
    <2>3. CASE ModelFails(s)
      BY <2>3 DEF ModelFails, IInv, SearchTypes, Hearing
    <2>4. CASE \E k \in Queries : Rewritten(s, k)
      <3>1. PICK k \in Queries : Rewritten(s, k)
        BY <2>4
      <3>2. /\ pc[s] = "rewriting" /\ pc' = [pc EXCEPT ![s] = "asking"]
            /\ answer' = answer /\ outcome' = outcome
        BY <3>1 DEF Rewritten
      <3>3. outcome' = [u \in Searches |-> outcome'[u]]
        BY <3>2 DEF IInv, SearchTypes
      <3>4. QED
        BY <3>2, <3>3, StillUnasked
    <2>5. CASE Refused(s)
      BY <2>5, ReturnOK DEF Refused
    <2>6. CASE CacheHit(s)
      BY <2>6, ReturnOK DEF CacheHit
    <2>7. CASE CacheMiss(s)
      BY <2>7, StillUnasked DEF CacheMiss, IInv, SearchTypes
    <2>8. ASSUME NEW p \in Sources, SourceAnswers(s, p) \/ SourceDown(s, p) PROVE IInv'
      BY <2>8, RepliesTyped, HeardOK DEF SourceAnswers, SourceDown
    <2>9. CASE TimerFires(s)
      BY <2>9, TimerOK
    <2>10. CASE Conclude(s)
      BY <2>10, ReturnOK DEF Conclude
    <2>11. QED
      BY <1>2, <2>1, <2>2, <2>3, <2>4, <2>5, <2>6, <2>7, <2>8, <2>9, <2>10 DEF SearchStep
  <1>3. QED
    BY <1>1, <1>2 DEF Next

THEOREM Invariance == Spec => []IInv
  <1>1. QED
    BY InitOK, StepOK, PTL DEF Spec

(* A step ends the search of one task only.                                *)
LEMMA ReturnsItself ==
  ASSUME IInv, NEW s \in Searches, NEW u \in Searches, Returns(s), NEW to,
         pc' = [pc EXCEPT ![u] = to]
  PROVE  u = s /\ to = "idle"
  BY DEF IInv, SearchTypes, Returns

LEMMA ResultOf ==
  ASSUME IInv, NEW s \in Searches, NEW u \in Searches, Returns(s), NEW result, Return(u, result)
  PROVE  u = s /\ outcome'[s] = result
  <1>1. u = s
    BY ReturnsItself DEF Return
  <1>2. QED
    BY <1>1 DEF IInv, SearchTypes, Return

(* A search ends refused, by the cache, at a deadline or concluded.        *)
LEMMA ReturnedBy ==
  ASSUME IInv, [Next]_vars, NEW s \in Searches, Returns(s)
  PROVE  Refused(s) \/ CacheHit(s) \/ (TimerFires(s) /\ Return(s, NoOutcome)) \/ Conclude(s)
  <1>1. pc' # pc
    BY DEF Returns
  <1>2. PICK u \in Searches : SearchStep(u)
    BY <1>1 DEF Next, Tick, tool, vars
  <1>3. CASE Refused(u) \/ CacheHit(u) \/ Conclude(u)
    <2>1. \E result : Return(u, result)
      BY <1>3 DEF Refused, CacheHit, Conclude
    <2>2. u = s
      BY <2>1, ResultOf
    <2>3. QED
      BY <1>3, <2>2
  <1>4. CASE TimerFires(u)
    <2>1. \E to : pc' = [pc EXCEPT ![u] = to]
      BY <1>4 DEF TimerFires, Return
    <2>2. u = s /\ pc' = [pc EXCEPT ![s] = "idle"]
      BY <2>1, ReturnsItself
    <2>3. pc' # [pc EXCEPT ![s] = "concluding"]
      BY <2>2 DEF IInv, SearchTypes
    <2>4. QED
      BY <1>4, <2>2, <2>3 DEF TimerFires
  <1>5. CASE \E p \in Sources : SourceAnswers(u, p) \/ SourceDown(u, p)
    BY <1>5 DEF SourceAnswers, SourceDown, Heard, IInv, SearchTypes, Returns
  <1>6. CASE \/ NeedsRewrite(u) \/ ModelFails(u) \/ CacheMiss(u)
             \/ \E k \in Queries : PassThrough(u, k) \/ Rewritten(u, k)
    <2>1. \E to \in {"rewriting", "asking", "gathering"} : pc' = [pc EXCEPT ![u] = to]
      BY <1>1, <1>6 DEF NeedsRewrite, ModelFails, CacheMiss, PassThrough, Rewritten
    <2>2. QED
      BY <2>1 DEF IInv, SearchTypes, Returns
  <1>7. QED
    BY <1>2, <1>3, <1>4, <1>5, <1>6 DEF SearchStep

(* What Conclude returns.                                                  *)
LEMMA ConcludedResult ==
  ASSUME IInv, NEW s \in Searches, Conclude(s)
  PROVE  LET urls == Aggregated(answer[s])
             none == urls = <<>> /\ \A p \in Sources : answer[s][p] = Failed
         IN  /\ outcome'[s].ok = ~none
             /\ outcome'[s].cached = FALSE
             /\ outcome'[s].pages = Deduplicated(urls)
  <1> DEFINE urls == Aggregated(answer[s])
             none == urls = <<>> /\ \A p \in Sources : answer[s][p] = Failed
             result == [ok |-> ~none, cached |-> FALSE, pages |-> Deduplicated(urls)]
  <1>1. Return(s, result)
    BY DEF Conclude
  <1> HIDE DEF result
  <1>2. outcome'[s] = result
    BY <1>1 DEF IInv, SearchTypes, Return
  <1> HIDE DEF none, urls
  <1>3. result.ok = ~none
    BY Zenon DEF result
  <1>4. result.cached = FALSE
    BY Zenon DEF result
  <1>5. result.pages = Deduplicated(urls)
    BY Zenon DEF result
  <1>6. QED
    BY <1>2, <1>3, <1>4, <1>5, Zenon DEF none, urls

(* What AnsweredNotLost says of a step.                                    *)
LEMMA FailedSearchHeardNothing ==
  ASSUME TimeoutMs > 1000, IInv, [Next]_vars, NEW s \in Searches, Returns(s), ~outcome'[s].ok
  PROVE  \A p \in Sources : answer[s][p].urls = <<>>
  <1>1. CASE Refused(s)
    <2>1. answer[s] = Unasked
      BY <1>1 DEF IInv, Hearing, Refused
    <2>2. QED
      BY <2>1, UnaskedTyped
  <1>2. CASE CacheHit(s)
    BY <1>2, ResultOf DEF CacheHit
  <1>3. CASE TimerFires(s)
    BY <1>3, DeadlinesDiffer, ReturnsItself DEF TimerFires
  <1>4. CASE Conclude(s)
    <2> DEFINE urls == Aggregated(answer[s])
               none == urls = <<>> /\ \A p \in Sources : answer[s][p] = Failed
    <2>1. outcome'[s].ok = ~none
      BY <1>4, ConcludedResult
    <2>2. none
      <3> HIDE DEF none
      <3>1. QED
        BY <2>1, Zenon
    <2>3. QED
      BY <2>2 DEF Failed
  <1>5. QED
    BY <1>1, <1>2, <1>3, <1>4, ReturnedBy

(* No search fails that some source has answered, however the answers, the *)
(* failures and the silence of the sources fall: if the tool has more than *)
(* a second, its own deadline comes first and uses what was heard.         *)
THEOREM AnsweredSearchSucceeds ==
  ASSUME TimeoutMs > 1000
  PROVE  Spec => AnsweredNotLost
  <1>1. IInv /\ [Next]_vars
          => [\A s \in Searches : (Returns(s) /\ ~outcome'[s].ok) =>
                  \A p \in Sources : answer[s][p].urls = <<>>]_vars
    BY FailedSearchHeardNothing
  <1>2. QED
    BY Invariance, <1>1, PTL DEF Spec, AnsweredNotLost
-----------------------------------------------------------------------------
(* The cache.  What its operators do to the entries of a store that holds  *)
(* a key once.                                                             *)
Entries == [key : Queries, pages : Seq(DOMAIN Domain), age : 0..TTL + 1]

Distinct(es) == \A i, j \in DOMAIN es : i # j => es[i].key # es[j].key

LEMMA DistinctSelection ==
  ASSUME NEW es \in Seq(Entries), Distinct(es), NEW K
  PROVE  Distinct(Selected(es, K))
  <1>1. PICK pos \in [DOMAIN Selected(es, K) -> DOMAIN es] : Places(Selected(es, K), es, K, pos)
    BY SelectedPlaces
  <1>2. \A i, j \in DOMAIN Selected(es, K) : i < j => pos[i] # pos[j]
    <2>1. \A i \in DOMAIN es : i \in Nat
      OBVIOUS
    <2>2. QED
      BY <1>1, <2>1 DEF Places
  <1>3. Selected(es, K) \in Seq(Entries)
    BY SelectedPlaces
  <1>4. \A i, j \in DOMAIN Selected(es, K) : i # j => i < j \/ j < i
    BY <1>3
  <1>5. QED
    BY <1>1, <1>2, <1>4 DEF Places, Distinct

LEMMA DistinctAppend ==
  ASSUME NEW es \in Seq(Entries), Distinct(es), NEW e \in Entries, ~Holds(es, e.key)
  PROVE  Distinct(Append(es, e))
  <1>1. /\ DOMAIN Append(es, e) = (DOMAIN es) \union {Len(es) + 1}
        /\ Append(es, e)[Len(es) + 1] = e
        /\ \A i \in DOMAIN es : Append(es, e)[i] = es[i]
    OBVIOUS
  <1>2. QED
    BY <1>1 DEF Distinct, Holds

LEMMA EntryFacts ==
  ASSUME NEW es \in Seq(Entries), Distinct(es), NEW k, Holds(es, k)
  PROVE  /\ Entry(es, k) \in ToSet(es) /\ Entry(es, k) \in Entries /\ Entry(es, k).key = k
         /\ \A e \in ToSet(es) : e.key = k => e = Entry(es, k)
  <1>1. \E e \in ToSet(es) : e.key = k
    BY DEF Holds, ToSet
  <1>2. Entry(es, k) \in ToSet(es) /\ Entry(es, k).key = k
    BY <1>1 DEF Entry
  <1>3. \A e, f \in ToSet(es) : e.key = f.key => e = f
    BY DEF ToSet, Distinct
  <1>4. ToSet(es) \subseteq Entries
    BY DEF ToSet
  <1>5. QED
    BY <1>2, <1>3, <1>4

LEMMA WithoutFacts ==
  ASSUME NEW es \in Seq(Entries), Distinct(es), NEW k
  PROVE  /\ Without(es, k) \in Seq(Entries) /\ Distinct(Without(es, k))
         /\ ToSet(Without(es, k)) = {e \in ToSet(es) : e.key # k}
         /\ Len(Without(es, k)) <= Len(es)
         /\ Holds(es, k) => Len(Without(es, k)) < Len(es)
         /\ ~Holds(Without(es, k), k)
  <1> DEFINE K == {e \in ToSet(es) : e.key # k}
  <1>1. Without(es, k) = Selected(es, K)
    BY DEF Without
  <1>2. /\ Selected(es, K) \in Seq(Entries) /\ Distinct(Selected(es, K))
        /\ ToSet(Selected(es, K)) = ToSet(es) \cap K
        /\ Len(Selected(es, K)) <= Len(es)
        /\ Len(Selected(es, K)) = Len(es) => \A i \in DOMAIN es : es[i] \in K
    <2> HIDE DEF K
    <2>1. QED
      BY SelectedPlaces, SelectedSet, DistinctSelection
  <1>3. Holds(es, k) => \E i \in DOMAIN es : es[i] \notin K
    BY DEF Holds
  <1>4. ~Holds(Selected(es, K), k)
    BY <1>2 DEF Holds, ToSet
  <1>5. Len(Selected(es, K)) \in Nat /\ Len(es) \in Nat
    BY <1>2
  <1>6. QED
    BY <1>1, <1>2, <1>3, <1>4, <1>5

LEMMA TouchedFacts ==
  ASSUME NEW es \in Seq(Entries), Distinct(es), NEW k, Holds(es, k)
  PROVE  /\ Touched(es, k) \in Seq(Entries) /\ Distinct(Touched(es, k))
         /\ ToSet(Touched(es, k)) = ToSet(es)
         /\ Len(Touched(es, k)) <= Len(es)
  <1>1. /\ Without(es, k) \in Seq(Entries) /\ Distinct(Without(es, k))
        /\ Entry(es, k) \in Entries /\ ~Holds(Without(es, k), Entry(es, k).key)
    BY WithoutFacts, EntryFacts
  <1>2. ToSet(Touched(es, k)) = {e \in ToSet(es) : e.key # k} \union {Entry(es, k)}
    BY <1>1, ToSetAppend, WithoutFacts DEF Touched
  <1>3. ToSet(Touched(es, k)) = ToSet(es)
    BY <1>2, EntryFacts
  <1>4. Len(Touched(es, k)) = Len(Without(es, k)) + 1 /\ Touched(es, k) \in Seq(Entries)
    BY <1>1 DEF Touched
  <1>5. Distinct(Touched(es, k))
    BY <1>1, DistinctAppend DEF Touched
  <1>6. QED
    BY <1>1, <1>3, <1>4, <1>5, WithoutFacts

LEMMA LiveFacts ==
  ASSUME NEW es \in Seq(Entries), Distinct(es)
  PROVE  /\ Live(es) \in Seq(Entries) /\ Distinct(Live(es))
         /\ ToSet(Live(es)) = {e \in ToSet(es) : ~Expired(e)}
         /\ Len(Live(es)) <= Len(es)
         /\ Len(Live(es)) = Len(es) => \A i \in DOMAIN es : ~Expired(es[i])
  <1> DEFINE K == {e \in ToSet(es) : ~Expired(e)}
  <1>1. Live(es) = Selected(es, K)
    BY DEF Live
  <1>2. /\ Selected(es, K) \in Seq(Entries) /\ Distinct(Selected(es, K))
        /\ ToSet(Selected(es, K)) = ToSet(es) \cap K
        /\ Len(Selected(es, K)) <= Len(es)
        /\ Len(Selected(es, K)) = Len(es) => \A i \in DOMAIN es : es[i] \in K
    <2> HIDE DEF K
    <2>1. QED
      BY SelectedPlaces, SelectedSet, DistinctSelection
  <1>3. QED
    BY <1>1, <1>2

LEMMA TailFacts ==
  ASSUME NEW es \in Seq(Entries), Distinct(es), es # <<>>
  PROVE  /\ Tail(es) \in Seq(Entries) /\ Distinct(Tail(es)) /\ Len(Tail(es)) = Len(es) - 1
         /\ ToSet(Tail(es)) \subseteq ToSet(es)
  <1>1. /\ Tail(es) \in Seq(Entries) /\ Len(Tail(es)) = Len(es) - 1
        /\ \A i \in DOMAIN Tail(es) : i + 1 \in DOMAIN es /\ Tail(es)[i] = es[i + 1]
        /\ DOMAIN Tail(es) \subseteq Nat
    OBVIOUS
  <1>2. QED
    BY <1>1 DEF Distinct, ToSet

(* A store makes room at the cost of an entry that is still good only when *)
(* it has none that is not.                                                *)
LEMMA MadeRoomFacts ==
  ASSUME NEW es \in Seq(Entries), Distinct(es), Len(es) = CacheSize
  PROVE  /\ MadeRoom(es) \in Seq(Entries) /\ Distinct(MadeRoom(es))
         /\ ToSet(MadeRoom(es)) \subseteq ToSet(es)
         /\ Len(MadeRoom(es)) < CacheSize
         /\ \/ \A e \in ToSet(es) : ~Expired(e) => e \in ToSet(MadeRoom(es))
            \/ \A i \in DOMAIN es : ~Expired(es[i])
  <1>1. CacheSize \in Nat \ {0} /\ Len(Live(es)) \in Nat
    BY SearchConstantsOK, LiveFacts DEF SearchConstantsOK
  <1>2. CASE Len(Live(es)) < CacheSize
    BY <1>2, LiveFacts DEF MadeRoom
  <1>3. CASE ~(Len(Live(es)) < CacheSize)
    <2>1. Len(Live(es)) = Len(es)
      BY <1>1, <1>3, LiveFacts
    <2>2. Live(es) \in Seq(Entries) /\ Distinct(Live(es)) /\ Live(es) # <<>>
      BY <1>1, <1>3, LiveFacts
    <2>3. MadeRoom(es) = Tail(Live(es))
      BY <1>3 DEF MadeRoom
    <2>4. /\ Tail(Live(es)) \in Seq(Entries) /\ Distinct(Tail(Live(es)))
          /\ Len(Tail(Live(es))) = Len(Live(es)) - 1
          /\ ToSet(Tail(Live(es))) \subseteq ToSet(Live(es))
      BY <2>2, TailFacts
    <2>5. QED
      BY <1>1, <2>1, <2>3, <2>4, LiveFacts
  <1>4. QED
    BY <1>2, <1>3

LEMMA StoredFacts ==
  ASSUME NEW es \in Seq(Entries), Distinct(es), Len(es) <= CacheSize,
         NEW k \in Queries, NEW pages \in Seq(DOMAIN Domain)
  PROVE  LET new == [key |-> k, pages |-> pages, age |-> 0]
             to == Stored(es, k, pages)
         IN  /\ to \in Seq(Entries) /\ Distinct(to) /\ Len(to) <= CacheSize
             /\ new \in ToSet(to)
             /\ \A e \in ToSet(to) : e = new \/ (e \in ToSet(es) /\ e.key # k)
             /\ \/ \A e \in ToSet(es) : ~Expired(e) => e.key = k \/ e \in ToSet(to)
                \/ Len(es) = CacheSize /\ \A i \in DOMAIN es : ~Expired(es[i])
  <1> DEFINE new == [key |-> k, pages |-> pages, age |-> 0]
             full == Len(es) >= CacheSize /\ ~Holds(es, k)
             room == IF full THEN MadeRoom(es) ELSE es
             rest == Without(room, k)
             to == Append(rest, new)
  <1>1. Len(es) \in Nat /\ CacheSize \in Nat \ {0} /\ TTL \in Nat
    BY SearchConstantsOK DEF SearchConstantsOK
  <1>2. new \in Entries
    BY <1>1 DEF Entries
  <1>3. Stored(es, k, pages) = to
    BY DEF Stored
  <1>4. /\ room \in Seq(Entries) /\ Distinct(room) /\ ToSet(room) \subseteq ToSet(es)
        /\ Len(room) < CacheSize \/ (Len(room) = CacheSize /\ Holds(room, k))
        /\ \/ \A e \in ToSet(es) : ~Expired(e) => e \in ToSet(room)
           \/ Len(es) = CacheSize /\ \A i \in DOMAIN es : ~Expired(es[i])
    <2>1. CASE full
      <3>1. Len(es) = CacheSize
        BY <1>1, <2>1
      <3>2. QED
        BY <2>1, <3>1, MadeRoomFacts
    <2>2. CASE ~full
      BY <1>1, <2>2
    <2>3. QED
      BY <2>1, <2>2
  <1> HIDE DEF room
  <1>5. /\ rest \in Seq(Entries) /\ Distinct(rest) /\ Len(rest) < CacheSize
        /\ ToSet(rest) = {e \in ToSet(room) : e.key # k} /\ ~Holds(rest, k)
    <2>1. Len(room) \in Nat /\ Len(rest) \in Nat
      BY <1>4, WithoutFacts
    <2>2. QED
      BY <1>1, <1>4, <2>1, WithoutFacts
  <1> HIDE DEF rest
  <1>6. /\ to \in Seq(Entries) /\ ToSet(to) = ToSet(rest) \union {new}
        /\ Len(to) = Len(rest) + 1
    <2> HIDE DEF new
    <2>1. QED
      BY <1>2, <1>5, ToSetAppend
  <1>7. Distinct(to)
    <2>1. new.key = k
      OBVIOUS
    <2> HIDE DEF new
    <2>2. QED
      BY <1>2, <1>5, <2>1, DistinctAppend
  <1>8. Len(to) <= CacheSize
    BY <1>1, <1>5, <1>6
  <1> HIDE DEF to, new
  <1>9. /\ \A e \in ToSet(to) : e = new \/ (e \in ToSet(es) /\ e.key # k)
        /\ new \in ToSet(to)
    BY <1>4, <1>5, <1>6
  <1>10. \/ \A e \in ToSet(es) : ~Expired(e) => e.key = k \/ e \in ToSet(to)
         \/ Len(es) = CacheSize /\ \A i \in DOMAIN es : ~Expired(es[i])
    BY <1>4, <1>5, <1>6
  <1>11. QED
    BY <1>3, <1>6, <1>7, <1>8, <1>9, <1>10 DEF new
-----------------------------------------------------------------------------
(* The deduplication, one URL after the other. *)
Keeping(trace, urls) ==
  /\ trace[0] = <<>>
  /\ \A i \in 1..Len(urls) : trace[i] = Keep(trace[i - 1], urls[i])
  /\ Deduplicated(urls) = trace[Len(urls)]

LEMMA KeepTyped ==
  ASSUME NEW pages \in Seq(DOMAIN Domain), NEW u \in DOMAIN Page
  PROVE  Keep(pages, u) \in Seq(DOMAIN Domain)
  <1>1. Usable(u) => Page[u] \in DOMAIN Domain
    BY SearchConstantsOK DEF SearchConstantsOK, Usable
  <1>2. Keep(pages, u) = pages \/ (Usable(u) /\ Keep(pages, u) = Append(pages, Page[u]))
    BY DEF Keep
  <1>3. QED
    BY <1>1, <1>2

LEMMA KeptTrace ==
  ASSUME NEW urls \in Seq(DOMAIN Page)
  PROVE  \E trace \in [0..Len(urls) -> Seq(DOMAIN Domain)] : Keeping(trace, urls)
  <1> DEFINE T == Seq(DOMAIN Domain)
             n == Len(urls)
             step == [i \in 1..n |-> [pages \in T |-> Keep(pages, urls[i])]]
             Rec(it) == [d \in SUBSET (1..n) |->
                            IF d = {} THEN <<>> ELSE Keep(it[d \ {Max(d)}], urls[Max(d)])]
             iter == CHOOSE it : it = Rec(it)
  <1>1. n \in Nat /\ DOMAIN urls = 1..n /\ <<>> \in T
    OBVIOUS
  <1>2. step \in [1..n -> [T -> T]]
    <2>1. \A i \in 1..n : urls[i] \in DOMAIN Page
      OBVIOUS
    <2>2. \A i \in 1..n : \A pages \in T : Keep(pages, urls[i]) \in T
      BY <2>1, KeepTyped
    <2> HIDE DEF T
    <2>3. QED
      BY <2>2
  <1>3. \A d \in SUBSET (1..n) : d # {} => Max(d) \in 1..n /\ d \ {Max(d)} \in SUBSET (1..n)
    BY <1>1, MaxIsMember
  <1> HIDE DEF T
  <1>4. \E it : it = Rec(it)
    <2>1. PICK it \in [SUBSET (1..n) -> T] : IsFold(it, n, <<>>, step)
      <3> HIDE DEF step, n
      <3>1. QED
        BY <1>1, <1>2, FoldExists
    <2>2. \A d \in SUBSET (1..n) :
             it[d] = IF d = {} THEN <<>> ELSE Keep(it[d \ {Max(d)}], urls[Max(d)])
      BY <1>3, <2>1 DEF IsFold
    <2>3. it = Rec(it)
      BY <2>1, <2>2
    <2> HIDE DEF Rec
    <2>4. QED
      BY <2>3
  <1>5. iter = Rec(iter)
    <2> HIDE DEF Rec
    <2>1. QED
      BY <1>4
  <1>6. Deduplicated(urls) = iter[1..n]
    BY <1>1 DEF Deduplicated, FoldLeft, MapThenFoldSet
  <1> HIDE DEF iter
  <1>7. Recurs(iter, n, T, <<>>, step)
    <2>1. \A d \in SUBSET (1..n) :
             iter[d] = IF d = {} THEN <<>> ELSE Keep(iter[d \ {Max(d)}], urls[Max(d)])
      BY <1>5
    <2>2. \A i \in 1..n : \A acc \in T : step[i][acc] = Keep(acc, urls[i])
      OBVIOUS
    <2> HIDE DEF step, Rec
    <2>3. QED
      BY <1>3, <2>1, <2>2 DEF Recurs
  <1>8. PICK trace \in [0..n -> T] : IsTrace(trace, n, <<>>, step) /\ iter[1..n] = trace[n]
    <2>1. Traces(iter, n, T, <<>>, step)
      <3> HIDE DEF step, n, Rec
      <3>1. QED
        BY <1>1, <1>2, <1>7, FoldTrace
    <2>2. QED
      BY <2>1 DEF Traces
  <1>9. ASSUME NEW i \in 1..n PROVE trace[i] = Keep(trace[i - 1], urls[i])
    <2>1. i - 1 \in 0..n
      BY <1>1
    <2>2. trace[i - 1] \in T
      BY <2>1, <1>8
    <2>3. trace[i] = step[i][trace[i - 1]]
      <3> HIDE DEF step, n
      <3>1. QED
        BY <1>8 DEF IsTrace
    <2>4. QED
      BY <2>2, <2>3
  <1>10. QED
    BY <1>6, <1>8, <1>9 DEF IsTrace, Keeping, T

(* What the deduplication promises of the pages it has seen. *)
Sites == {Domain[p] : p \in DOMAIN Domain}

Kept(pages, d) == {i \in DOMAIN pages : Domain[pages[i]] = d}
Seen(seen, d) == {p \in seen : Domain[p] = d}

Shared(pages, seen, d) ==
  /\ IsFiniteSet(Seen(seen, d)) /\ IsFiniteSet(Kept(pages, d))
  /\ Cardinality(Kept(pages, d)) =
        IF Cardinality(Seen(seen, d)) < MaxPerDomain THEN Cardinality(Seen(seen, d)) ELSE MaxPerDomain
  /\ Cardinality(Kept(pages, d)) < MaxPerDomain => Seen(seen, d) \subseteq ToSet(pages)

Spread(pages, seen) ==
  /\ ToSet(pages) \subseteq seen
  /\ \A i, j \in DOMAIN pages : i # j => pages[i] # pages[j]
  /\ \A d \in Sites : Shared(pages, seen, d)

LEMMA KeptCount ==
  ASSUME NEW pages \in Seq(DOMAIN Domain), NEW d
  PROVE  Len(OfDomain(pages, d)) = Cardinality(Kept(pages, d)) /\ IsFiniteSet(Kept(pages, d))
  <1> DEFINE K == {p \in ToSet(pages) : Domain[p] = d}
  <1>1. {i \in DOMAIN pages : pages[i] \in K} = Kept(pages, d)
    BY DEF Kept, ToSet
  <1>2. OfDomain(pages, d) = Selected(pages, K)
    BY DEF OfDomain
  <1> HIDE DEF K
  <1>3. QED
    BY <1>1, <1>2, SelectedCount

LEMMA OneMore ==
  ASSUME NEW A, IsFiniteSet(A), NEW x
  PROVE  /\ Cardinality(A) \in Nat
         /\ IsFiniteSet(A \union {x})
         /\ \/ Cardinality(A \union {x}) = Cardinality(A) + 1
            \/ x \in A /\ Cardinality(A \union {x}) = Cardinality(A)
  BY FS_AddElement, FS_CardinalityType

LEMMA NewPageSpread ==
  ASSUME NEW pages \in Seq(DOMAIN Domain), NEW seen \in SUBSET (DOMAIN Domain),
         Spread(pages, seen), NEW p \in DOMAIN Domain, p \notin ToSet(pages),
         Cardinality(Kept(pages, Domain[p])) < MaxPerDomain
  PROVE  Spread(Append(pages, p), seen \union {p})
  <1> DEFINE more == Append(pages, p)
             all == seen \union {p}
  <1>1. /\ DOMAIN more = (DOMAIN pages) \union {Len(pages) + 1} /\ Len(pages) + 1 \notin DOMAIN pages
        /\ more[Len(pages) + 1] = p /\ \A i \in DOMAIN pages : more[i] = pages[i]
        /\ ToSet(more) = ToSet(pages) \union {p}
    <2>1. ToSet(more) = ToSet(pages) \union {p}
      BY ToSetAppend
    <2>2. QED
      BY <2>1
  <1> HIDE DEF more
  <1>2. \A i, j \in DOMAIN more : i # j => more[i] # more[j]
    BY <1>1 DEF Spread, ToSet
  <1>3. ASSUME NEW d \in Sites PROVE Shared(more, all, d)
    <2>1. Shared(pages, seen, d) /\ MaxPerDomain \in Nat \ {0}
      BY SearchConstantsOK DEF Spread, SearchConstantsOK
    <2>2. CASE Domain[p] = d
      <3>1. Kept(more, d) = Kept(pages, d) \union {Len(pages) + 1} /\ Len(pages) + 1 \notin Kept(pages, d)
        BY <1>1, <2>2 DEF Kept
      <3>2. Seen(all, d) = Seen(seen, d) \union {p} /\ p \notin Seen(seen, d)
        BY <2>1, <2>2 DEF Shared, Seen
      <3>3. /\ IsFiniteSet(Kept(more, d)) /\ Cardinality(Kept(more, d)) = Cardinality(Kept(pages, d)) + 1
            /\ IsFiniteSet(Seen(all, d)) /\ Cardinality(Seen(all, d)) = Cardinality(Seen(seen, d)) + 1
            /\ Cardinality(Kept(pages, d)) \in Nat /\ Cardinality(Seen(seen, d)) \in Nat
        <4>1. IsFiniteSet(Kept(pages, d)) /\ IsFiniteSet(Seen(seen, d))
          BY <2>1 DEF Shared
        <4>2. /\ IsFiniteSet(Kept(more, d)) /\ Cardinality(Kept(pages, d)) \in Nat
              /\ Cardinality(Kept(more, d)) = Cardinality(Kept(pages, d)) + 1
          BY <3>1, <4>1, OneMore
        <4>3. /\ IsFiniteSet(Seen(all, d)) /\ Cardinality(Seen(seen, d)) \in Nat
              /\ Cardinality(Seen(all, d)) = Cardinality(Seen(seen, d)) + 1
          BY <3>2, <4>1, OneMore
        <4>4. QED
          BY <4>2, <4>3
      <3>4. Seen(seen, d) \subseteq ToSet(pages)
        BY <2>1, <2>2 DEF Shared
      <3>5. Seen(all, d) \subseteq ToSet(more)
        BY <1>1, <3>2, <3>4
      <3>6. Cardinality(Kept(pages, d)) = Cardinality(Seen(seen, d)) /\ Cardinality(Kept(pages, d)) < MaxPerDomain
        BY <2>1, <2>2, <3>3 DEF Shared
      <3>7. Cardinality(Kept(more, d)) =
              IF Cardinality(Seen(all, d)) < MaxPerDomain THEN Cardinality(Seen(all, d)) ELSE MaxPerDomain
        <4> HIDE DEF all
        <4>1. QED
          BY <2>1, <3>3, <3>6
      <3> HIDE DEF all
      <3>8. QED
        BY <3>3, <3>5, <3>7 DEF Shared
    <2>3. CASE Domain[p] # d
      <3>1. Kept(more, d) = Kept(pages, d) /\ Seen(all, d) = Seen(seen, d)
        BY <1>1, <2>3 DEF Kept, Seen
      <3>2. QED
        BY <1>1, <2>1, <3>1 DEF Shared
    <2>4. QED
      BY <2>2, <2>3
  <1>4. ToSet(more) \subseteq all
    BY <1>1 DEF Spread
  <1>5. QED
    BY <1>2, <1>3, <1>4 DEF Spread, more

LEMMA FullSiteSpread ==
  ASSUME NEW pages \in Seq(DOMAIN Domain), NEW seen \in SUBSET (DOMAIN Domain),
         Spread(pages, seen), NEW p \in DOMAIN Domain,
         Cardinality(Kept(pages, Domain[p])) >= MaxPerDomain
  PROVE  Spread(pages, seen \union {p})
  <1> DEFINE all == seen \union {p}
  <1>1. ASSUME NEW d \in Sites PROVE Shared(pages, all, d)
    <2>1. Shared(pages, seen, d) /\ MaxPerDomain \in Nat \ {0}
      BY SearchConstantsOK DEF Spread, SearchConstantsOK
    <2>2. CASE Domain[p] = d
      <3>1. Seen(all, d) = Seen(seen, d) \union {p}
        BY <2>2 DEF Seen
      <3>2. /\ IsFiniteSet(Seen(all, d))
            /\ Cardinality(Seen(all, d)) \in {Cardinality(Seen(seen, d)), Cardinality(Seen(seen, d)) + 1}
            /\ Cardinality(Kept(pages, d)) \in Nat /\ Cardinality(Seen(seen, d)) \in Nat
        <4>1. IsFiniteSet(Kept(pages, d)) /\ IsFiniteSet(Seen(seen, d))
          BY <2>1 DEF Shared
        <4>2. QED
          BY <3>1, <4>1, OneMore
      <3>3. QED
        BY <2>1, <2>2, <3>2 DEF Shared
    <2>3. CASE Domain[p] # d
      <3>1. Seen(all, d) = Seen(seen, d)
        BY <2>3 DEF Seen
      <3>2. QED
        BY <2>1, <3>1 DEF Shared
    <2>4. QED
      BY <2>2, <2>3
  <1>2. QED
    BY <1>1 DEF Spread

LEMMA KeepSpread ==
  ASSUME NEW pages \in Seq(DOMAIN Domain), NEW seen \in SUBSET (DOMAIN Domain),
         Spread(pages, seen), NEW u \in DOMAIN Page
  PROVE  Spread(Keep(pages, u), seen \union ({Page[u]} \ {NoPage}))
  <1>1. CASE ~Usable(u)
    <2>1. seen \union ({Page[u]} \ {NoPage}) = seen /\ Keep(pages, u) = pages
      BY <1>1 DEF Usable, Keep
    <2>2. QED
      BY <2>1
  <1>2. CASE Usable(u)
    <2> DEFINE p == Page[u]
    <2>1. p \in DOMAIN Domain /\ seen \union ({Page[u]} \ {NoPage}) = seen \union {p}
      BY <1>2, SearchConstantsOK DEF Usable, SearchConstantsOK
    <2>2. Len(OfDomain(pages, Domain[p])) = Cardinality(Kept(pages, Domain[p]))
      BY KeptCount
    <2>3. Cardinality(Kept(pages, Domain[p])) \in Nat /\ MaxPerDomain \in Nat
      BY KeptCount, FS_CardinalityType, SearchConstantsOK DEF SearchConstantsOK
    <2>4. CASE p \in ToSet(pages)
      <3>1. Keep(pages, u) = pages /\ seen \union {p} = seen
        BY <2>4 DEF Keep, Spread
      <3>2. QED
        BY <2>1, <3>1
    <2>5. CASE Cardinality(Kept(pages, Domain[p])) >= MaxPerDomain
      <3>1. Keep(pages, u) = pages
        BY <2>2, <2>5 DEF Keep
      <3>2. QED
        BY <2>1, <2>5, <3>1, FullSiteSpread
    <2>6. CASE p \notin ToSet(pages) /\ Cardinality(Kept(pages, Domain[p])) < MaxPerDomain
      <3>1. Keep(pages, u) = Append(pages, p)
        BY <1>2, <2>2, <2>3, <2>6 DEF Keep
      <3>2. QED
        BY <2>1, <2>6, <3>1, NewPageSpread
    <2>7. QED
      BY <2>3, <2>4, <2>5, <2>6
  <1>3. QED
    BY <1>1, <1>2

(* The result of a deduplication, whatever the URLs. *)
PagesOf(urls) == {Page[u] : u \in urls} \ {NoPage}

LEMMA DeduplicatedFacts ==
  ASSUME NEW urls \in Seq(DOMAIN Page)
  PROVE  Deduplicated(urls) \in Seq(DOMAIN Domain) /\ Spread(Deduplicated(urls), PagesOf(ToSet(urls)))
  <1> DEFINE n == Len(urls)
             first(m) == {urls[i] : i \in 1..m}
  <1>1. PICK trace \in [0..n -> Seq(DOMAIN Domain)] : Keeping(trace, urls)
    BY KeptTrace
  <1> DEFINE good == {m \in 0..n : Spread(trace[m], PagesOf(first(m)))}
  <1>2. n \in Nat /\ DOMAIN urls = 1..n /\ \A i \in 1..n : urls[i] \in DOMAIN Page
    OBVIOUS
  <1>3. 0 \in good
    <2>1. trace[0] = <<>> /\ PagesOf(first(0)) = {}
      BY <1>1 DEF Keeping, PagesOf
    <2>2. ASSUME NEW d \in Sites PROVE Shared(<<>>, {}, d)
      <3>1. Kept(<<>>, d) = {} /\ Seen({}, d) = {}
        BY DEF Kept, Seen
      <3>2. MaxPerDomain > 0
        BY SearchConstantsOK DEF SearchConstantsOK
      <3>3. QED
        BY <3>1, <3>2, FS_EmptySet DEF Shared
    <2>3. Spread(<<>>, {})
      BY <2>2 DEF Spread, ToSet
    <2>4. QED
      BY <2>1, <2>3
  <1>4. ASSUME NEW m \in 0..n-1, m \in good PROVE m + 1 \in good
    <2>1. m + 1 \in 1..n /\ m + 1 \in 0..n /\ m \in 0..n /\ (m + 1) - 1 = m
      BY <1>2
    <2>2. trace[m + 1] = Keep(trace[m], urls[m + 1])
      BY <1>1, <2>1 DEF Keeping
    <2>3. PagesOf(first(m + 1)) = PagesOf(first(m)) \union ({Page[urls[m + 1]]} \ {NoPage})
      <3>1. first(m + 1) = first(m) \union {urls[m + 1]}
        <4>1. 1..m+1 = (1..m) \union {m + 1}
          BY <2>1
        <4>2. QED
          BY <4>1
      <3> HIDE DEF first
      <3>2. QED
        BY <3>1 DEF PagesOf
    <2>4. PagesOf(first(m)) \in SUBSET (DOMAIN Domain)
      <3>1. \A i \in 1..m : urls[i] \in DOMAIN Page
        BY <1>2
      <3>2. QED
        BY <3>1, SearchConstantsOK DEF PagesOf, SearchConstantsOK
    <2>5. Spread(trace[m], PagesOf(first(m))) /\ trace[m] \in Seq(DOMAIN Domain)
      BY <1>4, <2>1
    <2> HIDE DEF first
    <2>6. Spread(trace[m + 1], PagesOf(first(m + 1)))
      BY <1>2, <2>1, <2>2, <2>3, <2>4, <2>5, KeepSpread
    <2>7. QED
      BY <2>1, <2>6
  <1>5. n \in good
    <2> HIDE DEF good
    <2>1. \A m \in 0..n : m \in good
      BY <1>2, <1>3, <1>4, Induction
    <2>2. QED
      BY <1>2, <2>1
  <1>6. first(n) = ToSet(urls)
    BY <1>2 DEF ToSet
  <1>7. Deduplicated(urls) = trace[n]
    BY <1>1 DEF Keeping
  <1>8. trace[n] \in Seq(DOMAIN Domain)
    BY <1>2
  <1> HIDE DEF first
  <1>9. QED
    BY <1>5, <1>6, <1>7, <1>8

LEMMA AggregatedFacts ==
  ASSUME NEW replies \in [Sources -> AnyReply]
  PROVE  /\ Aggregated(replies) \in Seq(DOMAIN Page)
         /\ ToSet(Aggregated(replies)) = UNION {ToSet(replies[p].urls) : p \in Sources}
  <1> DEFINE lists == [p \in Sources |-> replies[p].urls]
             T == Seq(DOMAIN Page)
  <1>1. LastSource \in Nat /\ Sources = 1..LastSource
    BY SearchConstantsOK DEF SearchConstantsOK, Sources
  <1>2. \A p \in Sources : replies[p].urls \in T
    BY DEF AnyReply
  <1>3. lists \in Seq(T) /\ DOMAIN lists = Sources
    <2> HIDE DEF T
    <2>1. QED
      BY <1>1, <1>2
  <1>4. Aggregated(replies) = FlattenSeq(lists)
    BY DEF Aggregated
  <1>5. {ToSet(lists[p]) : p \in DOMAIN lists} = {ToSet(replies[p].urls) : p \in Sources}
    BY <1>3
  <1> HIDE DEF lists
  <1>6. QED
    BY <1>3, <1>4, <1>5, FlattenedSet

(* Conclude, which alone returns a gathered result, hands out the pages of *)
(* the answers it heard.                                                   *)
LEMMA ConcludedPages ==
  ASSUME IInv, NEW s \in Searches
  PROVE  LET pages == Deduplicated(Aggregated(answer[s]))
         IN  /\ pages \in Seq(DOMAIN Domain)
             /\ Spread(pages, (UNION {{Page[u] : u \in ToSet(answer[s][p].urls)} : p \in Sources}) \ {NoPage})
  <1>1. answer[s] \in [Sources -> AnyReply]
    BY DEF IInv, SearchTypes
  <1>2. /\ Aggregated(answer[s]) \in Seq(DOMAIN Page)
        /\ ToSet(Aggregated(answer[s])) = UNION {ToSet(answer[s][p].urls) : p \in Sources}
    BY <1>1, AggregatedFacts
  <1>3. PagesOf(ToSet(Aggregated(answer[s])))
          = (UNION {{Page[u] : u \in ToSet(answer[s][p].urls)} : p \in Sources}) \ {NoPage}
    BY <1>2 DEF PagesOf
  <1>4. QED
    BY <1>2, <1>3, DeduplicatedFacts

-----------------------------------------------------------------------------
(* The inductive invariant of the cache: it holds a key once, never an     *)
(* empty result, and an entry that has not expired is what the history     *)
(* says was gathered last for its key, as old as that is.                  *)
Truthful(e) ==
  /\ e.pages # <<>>
  /\ ~Expired(e) => e.age = latest[e.key].age /\ e.pages = latest[e.key].pages

StoreOK ==
  /\ store \in Seq(Entries) /\ Len(store) <= CacheSize /\ Distinct(store)
  /\ \A e \in ToSet(store) : Truthful(e)

Gathered == [pages : Seq(DOMAIN Domain), age : 0..TTL + 1]

QueriesOK ==
  /\ query \in [Searches -> Queries \union {NoQuery}]
  /\ \A s \in Searches : pc[s] \in {"asking", "gathering", "concluding"} => query[s] \in Queries
  /\ latest \in [Queries -> Gathered]

CacheInv == IInv /\ QueriesOK /\ StoreOK

LEMMA AgesOK == TTL \in Nat /\ CacheSize \in Nat \ {0} /\ Nothing \in Gathered
  BY SearchConstantsOK DEF SearchConstantsOK, Nothing, Gathered

LEMMA CacheInit == Init => CacheInv
  <1> SUFFICES ASSUME Init PROVE CacheInv
    OBVIOUS
  <1>1. IInv
    BY InitOK
  <1>2. QueriesOK
    BY AgesOK DEF Init, QueriesOK
  <1>3. StoreOK
    BY AgesOK DEF Init, StoreOK, Distinct, ToSet
  <1>4. QED
    BY <1>1, <1>2, <1>3 DEF CacheInv

(* Entries that leave, or move to the end, change nothing of the others.   *)
LEMMA FewerEntries ==
  ASSUME CacheInv, latest' = latest, store' \in Seq(Entries), Len(store') <= Len(store),
         Distinct(store'), ToSet(store') \subseteq ToSet(store)
  PROVE  StoreOK'
  <1>1. Len(store') <= CacheSize
    <2>1. Len(store') \in Nat /\ Len(store) \in Nat /\ Len(store) <= CacheSize
      BY DEF CacheInv, StoreOK
    <2>2. QED
      BY <2>1, AgesOK
  <1>2. \A e \in ToSet(store') : Truthful(e)'
    BY DEF CacheInv, StoreOK, Truthful, Expired
  <1>3. (Distinct(store))'
    BY DEF Distinct
  <1>4. QED
    BY <1>1, <1>2, <1>3 DEF StoreOK, Entries

LEMMA SameStore == ASSUME CacheInv, UNCHANGED <<store, latest>> PROVE StoreOK'
  <1>1. store' = store /\ Len(store) \in Nat
    BY DEF CacheInv, StoreOK
  <1>2. QED
    BY <1>1, FewerEntries DEF CacheInv, StoreOK

(* What a step of a search does to its query.                              *)
LEMMA QueryReset ==
  ASSUME CacheInv, NEW s \in Searches, NEW result, Return(s, result), latest' \in [Queries -> Gathered]
  PROVE  QueriesOK'
  <1>1. pc' = [pc EXCEPT ![s] = "idle"] /\ query' = [query EXCEPT ![s] = NoQuery]
    BY DEF Return
  <1>2. query' \in [Searches -> Queries \union {NoQuery}]
    BY <1>1 DEF CacheInv, QueriesOK
  <1>3. ASSUME NEW u \in Searches, pc'[u] \in {"asking", "gathering", "concluding"}
        PROVE  query'[u] \in Queries
    BY <1>1, <1>3 DEF CacheInv, IInv, SearchTypes, QueriesOK
  <1>4. QED
    BY <1>2, <1>3 DEF QueriesOK, Gathered

LEMMA QueryStays ==
  ASSUME CacheInv, UNCHANGED <<query, latest>>, NEW s \in Searches, NEW to,
         pc' = [pc EXCEPT ![s] = to], to = "rewriting" \/ query[s] \in Queries
  PROVE  QueriesOK'
  <1>1. ASSUME NEW u \in Searches, pc'[u] \in {"asking", "gathering", "concluding"}
        PROVE  query[u] \in Queries
    BY <1>1 DEF CacheInv, IInv, SearchTypes, QueriesOK
  <1>2. QED
    BY <1>1 DEF CacheInv, QueriesOK, Gathered

LEMMA QuerySet ==
  ASSUME CacheInv, NEW s \in Searches, NEW k \in Queries, latest' = latest,
         pc' = [pc EXCEPT ![s] = "asking"], query' = [query EXCEPT ![s] = k]
  PROVE  QueriesOK'
  <1>1. ASSUME NEW u \in Searches, pc'[u] \in {"asking", "gathering", "concluding"}
        PROVE  query'[u] \in Queries
    BY <1>1 DEF CacheInv, IInv, SearchTypes, QueriesOK
  <1>2. query' \in [Searches -> Queries \union {NoQuery}]
    BY DEF CacheInv, QueriesOK
  <1>3. QED
    BY <1>1, <1>2 DEF CacheInv, QueriesOK, Gathered

LEMMA OlderFacts ==
  /\ \A e \in Entries : /\ Older(e) \in Entries /\ Older(e).key = e.key /\ Older(e).pages = e.pages
                        /\ Older(e).age = IF e.age > TTL THEN e.age ELSE e.age + 1
  /\ \A g \in Gathered : /\ Older(g) \in Gathered /\ Older(g).pages = g.pages
                         /\ Older(g).age = IF g.age > TTL THEN g.age ELSE g.age + 1
  BY SMTT(40), AgesOK DEF Older, Entries, Gathered

LEMMA TickCache == ASSUME CacheInv, Tick PROVE QueriesOK' /\ StoreOK'
  <1>1. /\ store \in Seq(Entries) /\ Len(store) <= CacheSize /\ Distinct(store)
        /\ \A e \in ToSet(store) : Truthful(e)
        /\ query' = query /\ pc' = pc
        /\ latest \in [Queries -> Gathered]
        /\ store' = [i \in DOMAIN store |-> Older(store[i])]
        /\ latest' = [k \in Queries |->
                        IF Older(latest[k]).age > TTL THEN Nothing ELSE Older(latest[k])]
    BY DEF CacheInv, QueriesOK, StoreOK, Tick, tool
  <1>2. \A e \in Entries : /\ Older(e) \in Entries /\ Older(e).key = e.key /\ Older(e).pages = e.pages
                           /\ Older(e).age = IF e.age > TTL THEN e.age ELSE e.age + 1
    BY OlderFacts
  <1>3. \A g \in Gathered : /\ Older(g) \in Gathered /\ Older(g).pages = g.pages
                            /\ Older(g).age = IF g.age > TTL THEN g.age ELSE g.age + 1
    BY OlderFacts
  <1>4. latest' \in [Queries -> Gathered]
    BY <1>1, <1>3, AgesOK
  <1>5. /\ store' \in Seq(Entries) /\ DOMAIN store' = DOMAIN store /\ Len(store') = Len(store)
        /\ \A i \in DOMAIN store : store'[i] = Older(store[i]) /\ store[i] \in Entries
    <2>1. DOMAIN store = 1..Len(store) /\ \A i \in 1..Len(store) : Older(store[i]) \in Entries
      BY <1>1, <1>2
    <2>2. QED
      BY <1>1, <2>1
  <1>6. Distinct(store)'
    BY <1>1, <1>2, <1>5 DEF Distinct
  <1>7. ASSUME NEW e \in ToSet(store') PROVE Truthful(e)'
    <2>1. PICK i \in DOMAIN store : e = Older(store[i]) /\ store[i] \in Entries
      BY <1>5 DEF ToSet
    <2> DEFINE old == store[i]
    <2>2. Truthful(old) /\ e.pages = old.pages /\ e.key = old.key /\ old.key \in Queries
      BY <1>1, <1>2, <2>1 DEF ToSet, Entries
    <2>3. e.age = (IF old.age > TTL THEN old.age ELSE old.age + 1) /\ old.age \in 0..TTL+1
      BY <1>2, <2>1 DEF Entries
    <2>4. ASSUME ~Expired(e) PROVE e.age = latest'[e.key].age /\ e.pages = latest'[e.key].pages
      <3>1. old.age + 1 <= TTL /\ old.age \in Nat
        BY <2>3, <2>4, AgesOK DEF Expired
      <3>2. old.age = latest[old.key].age /\ old.pages = latest[old.key].pages
        BY <2>2, <3>1, AgesOK DEF Truthful, Expired
      <3>3. latest[old.key] \in Gathered
        BY <1>1, <2>2
      <3>4. latest'[old.key] = Older(latest[old.key]) /\ Older(latest[old.key]).age = old.age + 1
        BY <1>1, <1>3, <2>2, <3>1, <3>2, <3>3, AgesOK
      <3>5. QED
        BY <1>3, <2>2, <2>3, <3>1, <3>2, <3>3, <3>4, AgesOK
    <2>5. QED
      BY <2>2, <2>4 DEF Truthful, Expired
  <1>8. QueriesOK'
    BY <1>1, <1>4 DEF CacheInv, QueriesOK, Gathered
  <1>9. StoreOK'
    BY <1>1, <1>5, <1>6, <1>7 DEF StoreOK, Entries
  <1>10. QED
    BY <1>8, <1>9

LEMMA HitCache ==
  ASSUME CacheInv, NEW s \in Searches, CacheHit(s)
  PROVE  QueriesOK' /\ StoreOK'
  <1> DEFINE k == query[s]
  <1>1. Holds(store, k) /\ store' = Touched(store, k) /\ latest' = latest
    BY DEF CacheHit
  <1>2. store' \in Seq(Entries) /\ Distinct(store)' /\ ToSet(store') = ToSet(store) /\ Len(store') <= Len(store)
    BY <1>1, TouchedFacts DEF CacheInv, StoreOK, Distinct
  <1>3. StoreOK'
    BY <1>1, <1>2, FewerEntries DEF Distinct
  <1>4. latest' \in [Queries -> Gathered]
    BY <1>1 DEF CacheInv, QueriesOK
  <1>5. QED
    BY <1>3, <1>4, QueryReset DEF CacheHit

LEMMA MissCache ==
  ASSUME CacheInv, NEW s \in Searches, CacheMiss(s)
  PROVE  QueriesOK' /\ StoreOK'
  <1> DEFINE k == query[s]
  <1>1. store' = Without(store, k) /\ UNCHANGED <<query, latest>> /\ pc[s] = "asking"
        /\ pc' = [pc EXCEPT ![s] = "gathering"]
    BY DEF CacheMiss
  <1>2. store' \in Seq(Entries) /\ Distinct(store)' /\ ToSet(store') \subseteq ToSet(store) /\ Len(store') <= Len(store)
    BY <1>1, WithoutFacts DEF CacheInv, StoreOK, Distinct
  <1>3. StoreOK'
    BY <1>1, <1>2, FewerEntries DEF Distinct
  <1>4. query[s] \in Queries
    BY <1>1 DEF CacheInv, QueriesOK
  <1>5. QED
    BY <1>1, <1>3, <1>4, QueryStays

LEMMA ConcludeCache ==
  ASSUME CacheInv, NEW s \in Searches, Conclude(s)
  PROVE  QueriesOK' /\ StoreOK'
  <1> DEFINE k == query[s]
             pages == Deduplicated(Aggregated(answer[s]))
             new == [key |-> k, pages |-> pages, age |-> 0]
  <1>1. \E result : Return(s, result)
    BY DEF Conclude
  <1>2. k \in Queries /\ pages \in Seq(DOMAIN Domain)
    <2>1. k \in Queries
      BY DEF CacheInv, QueriesOK, Conclude
    <2>2. QED
      BY <2>1, ConcludedPages DEF CacheInv
  <1>3. CASE pages = <<>>
    <2>1. UNCHANGED <<store, latest>>
      BY <1>3 DEF Conclude
    <2>2. StoreOK' /\ latest' \in [Queries -> Gathered]
      BY <2>1, SameStore DEF CacheInv, QueriesOK
    <2>3. QED
      BY <1>1, <2>2, QueryReset
  <1>4. CASE pages # <<>>
    <2>1. /\ store' = Stored(store, k, pages)
          /\ latest' = [latest EXCEPT ![k] = [pages |-> pages, age |-> 0]]
      BY <1>4 DEF Conclude
    <2>2. latest \in [Queries -> Gathered] /\ store \in Seq(Entries) /\ Distinct(store) /\ Len(store) <= CacheSize
      BY DEF CacheInv, QueriesOK, StoreOK
    <2> HIDE DEF pages
    <2>3. latest' \in [Queries -> Gathered]
      BY <1>2, <2>1, <2>2, AgesOK DEF Gathered
    <2>4. /\ store' \in Seq(Entries) /\ Distinct(store') /\ Len(store') <= CacheSize
          /\ \A e \in ToSet(store') : e = new \/ (e \in ToSet(store) /\ e.key # k)
      BY <1>2, <2>1, <2>2, StoredFacts
    <2>5. ASSUME NEW e \in ToSet(store') PROVE Truthful(e)'
      <3>1. CASE e = new
        <4>1. latest'[k] = [pages |-> pages, age |-> 0]
          BY <1>2, <2>1, <2>2
        <4>2. QED
          BY <1>4, <3>1, <4>1 DEF Truthful, Expired
      <3>2. CASE e \in ToSet(store) /\ e.key # k
        <4>1. Truthful(e) /\ e \in Entries
          BY <3>2, <2>2 DEF CacheInv, StoreOK, ToSet
        <4>2. latest'[e.key] = latest[e.key]
          BY <2>1, <2>2, <3>2, <4>1 DEF Entries
        <4>3. QED
          BY <4>1, <4>2 DEF Truthful, Expired
      <3>3. QED
        BY <2>4, <3>1, <3>2
    <2>6. Distinct(store)'
      BY <2>4 DEF Distinct
    <2>7. StoreOK'
      BY <2>4, <2>5, <2>6 DEF StoreOK, Entries
    <2>8. QED
      BY <1>1, <2>3, <2>7, QueryReset
  <1>5. QED
    BY <1>3, <1>4

LEMMA CacheStep == CacheInv /\ [Next]_vars => CacheInv'
  <1> SUFFICES ASSUME CacheInv, [Next]_vars PROVE QueriesOK' /\ StoreOK'
    BY StepOK DEF CacheInv
  <1>1. CASE UNCHANGED vars
    <2>1. StoreOK'
      BY <1>1, SameStore DEF vars
    <2>2. QED
      BY <1>1, <2>1 DEF vars, tool, CacheInv, QueriesOK, Gathered
  <1>2. CASE Tick
    BY <1>2, TickCache
  <1>3. ASSUME NEW s \in Searches, SearchStep(s) PROVE QueriesOK' /\ StoreOK'
    <2>1. CASE CacheHit(s) \/ CacheMiss(s) \/ Conclude(s)
      BY <2>1, HitCache, MissCache, ConcludeCache
    <2>2. ASSUME UNCHANGED <<store, latest>> PROVE StoreOK' /\ latest' \in [Queries -> Gathered]
      BY <2>2, SameStore DEF CacheInv, QueriesOK
    <2>3. CASE NeedsRewrite(s)
      BY <2>2, <2>3, QueryStays DEF NeedsRewrite
    <2>4. CASE ModelFails(s)
      <3>1. UNCHANGED <<pc, query, store, latest>>
        BY <2>4 DEF ModelFails
      <3>2. QED
        BY <2>2, <3>1 DEF CacheInv, QueriesOK, Gathered
    <2>5. CASE \E k \in Queries : PassThrough(s, k) \/ Rewritten(s, k)
      BY <2>2, <2>5, QuerySet DEF PassThrough, Rewritten
    <2>6. CASE Refused(s)
      BY <2>2, <2>6, QueryReset DEF Refused
    <2>7. CASE TimerFires(s)
      <3>1. UNCHANGED <<store, latest>>
        BY <2>7 DEF TimerFires
      <3>2. \/ Return(s, NoOutcome)
            \/ /\ pc[s] = "gathering" /\ pc' = [pc EXCEPT ![s] = "concluding"]
               /\ query' = query
        BY <2>7 DEF TimerFires
      <3>3. query[s] \in Queries
        BY <2>7 DEF TimerFires, CacheInv, QueriesOK
      <3>4. QED
        BY <2>2, <3>1, <3>2, <3>3, QueryReset, QueryStays
    <2>8. ASSUME NEW p \in Sources, SourceAnswers(s, p) \/ SourceDown(s, p)
          PROVE  QueriesOK' /\ StoreOK'
      <3>1. /\ pc[s] = "gathering" /\ UNCHANGED <<query, store, latest>>
            /\ \E to : pc' = [pc EXCEPT ![s] = to]
        <4>1. PICK a : Heard(s, p, a)
          BY <2>8 DEF SourceAnswers, SourceDown
        <4>2. QED
          BY <4>1 DEF Heard
      <3>2. query[s] \in Queries
        BY <3>1 DEF CacheInv, QueriesOK
      <3>3. QED
        BY <2>2, <3>1, <3>2, QueryStays
    <2>9. QED
      BY <1>3, <2>1, <2>3, <2>4, <2>5, <2>6, <2>7, <2>8 DEF SearchStep
  <1>4. QED
    BY <1>1, <1>2, <1>3 DEF Next

THEOREM CacheInvariance == Spec => []CacheInv
  <1>1. QED
    BY CacheInit, CacheStep, PTL DEF Spec

(* The rest of the types: how far the rewriter is, what the sources said   *)
(* and what the tool returned.                                             *)
Results == [ok : BOOLEAN, cached : BOOLEAN, pages : Seq(DOMAIN Domain)]

CallsOK ==
  /\ rung \in [Searches -> 0..Rungs]
  /\ answer \in [Searches -> [Sources -> Replies]]
  /\ outcome \in [Searches -> Results]
  /\ down \in [Searches -> SUBSET Sources]

LEMMA ReplyValues ==
  /\ Silent \in Replies /\ Failed \in Replies /\ List(<<>>) \in Replies /\ Unasked \in [Sources -> Replies]
  /\ \A p \in Sources : \A urls \in Found[p] : List(urls) \in Replies
  /\ NoOutcome \in Results
  <1>1. /\ Silent \in Replies /\ Failed \in Replies /\ List(<<>>) \in Replies
        /\ \A p \in Sources : \A urls \in Found[p] : List(urls) \in Replies
    BY DEF Replies
  <1>2. NoOutcome \in Results
    BY DEF NoOutcome, Results
  <1>3. QED
    BY <1>1, <1>2 DEF Unasked

LEMMA ReturnCalls ==
  ASSUME CallsOK, NEW s \in Searches, NEW result \in Results, Return(s, result)
  PROVE  CallsOK'
  BY ReplyValues DEF CallsOK, Return

LEMMA CallsStep ==
  CacheInv /\ CallsOK /\ [Next]_vars => CallsOK'
  <1> SUFFICES ASSUME CacheInv, CallsOK, [Next]_vars PROVE CallsOK'
    OBVIOUS
  <1>1. CASE Tick \/ UNCHANGED vars
    BY <1>1 DEF Tick, tool, vars, CallsOK
  <1>2. ASSUME NEW s \in Searches, SearchStep(s) PROVE CallsOK'
    <2>1. CASE NeedsRewrite(s) \/ \E k \in Queries : PassThrough(s, k)
      <3>1. UNCHANGED <<rung, answer, down>> /\ outcome' = [outcome EXCEPT ![s] = NoOutcome]
        BY <2>1 DEF NeedsRewrite, PassThrough
      <3>2. QED
        BY <3>1, ReplyValues DEF CallsOK
    <2>2. CASE ModelFails(s)
      <3>1. rung[s] + 1 \in 0..Rungs
        BY <2>2, SearchConstantsOK DEF ModelFails, CallsOK
      <3>2. QED
        BY <2>2, <3>1 DEF ModelFails, CallsOK
    <2>3. CASE \E k \in Queries : Rewritten(s, k)
      <3>1. rung' = [rung EXCEPT ![s] = 0] /\ UNCHANGED <<answer, outcome, down>>
        BY <2>3 DEF Rewritten
      <3>2. 0 \in 0..Rungs
        BY SearchConstantsOK
      <3>3. QED
        BY <3>1, <3>2 DEF CallsOK
    <2>4. CASE Refused(s)
      BY <2>4, ReturnCalls, ReplyValues DEF Refused
    <2>5. CASE CacheHit(s)
      <3> DEFINE pages == Entry(store, query[s]).pages
      <3>1. store \in Seq(Entries) /\ Distinct(store) /\ Holds(store, query[s])
        BY <2>5 DEF CacheInv, StoreOK, CacheHit
      <3>2. pages \in Seq(DOMAIN Domain)
        BY <3>1, EntryFacts DEF Entries
      <3> HIDE DEF pages
      <3>3. [ok |-> TRUE, cached |-> TRUE, pages |-> pages] \in Results
        BY <3>2 DEF Results
      <3>4. Return(s, [ok |-> TRUE, cached |-> TRUE, pages |-> pages])
        BY <2>5 DEF CacheHit, pages
      <3>5. QED
        BY <3>3, <3>4, ReturnCalls
    <2>6. CASE CacheMiss(s)
      BY <2>6 DEF CacheMiss, CallsOK
    <2>7. ASSUME NEW p \in Sources, SourceAnswers(s, p) \/ SourceDown(s, p) PROVE CallsOK'
      <3>1. \E a \in Replies : answer' = [answer EXCEPT ![s][p] = a]
        BY <2>7, ReplyValues DEF SourceAnswers, SourceDown, Heard
      <3>2. UNCHANGED <<rung, outcome>> /\ (down' = down \/ down' = [down EXCEPT ![s] = @ \union {p}])
        BY <2>7 DEF SourceAnswers, SourceDown, Heard
      <3>3. answer' \in [Searches -> [Sources -> Replies]]
        BY <3>1 DEF CallsOK
      <3>4. down' \in [Searches -> SUBSET Sources]
        BY <3>2 DEF CallsOK
      <3>5. QED
        BY <3>2, <3>3, <3>4 DEF CallsOK
    <2>8. CASE TimerFires(s)
      <3>1. CASE Return(s, NoOutcome)
        BY <3>1, ReturnCalls, ReplyValues
      <3>2. CASE ~Return(s, NoOutcome)
        <4>1. /\ UNCHANGED <<rung, outcome, down>>
              /\ answer' = [answer EXCEPT ![s] =
                    [p \in Sources |-> IF answer[s][p] = Silent THEN Failed ELSE answer[s][p]]]
          BY <2>8, <3>2 DEF TimerFires
        <4>2. QED
          BY <4>1, ReplyValues DEF CallsOK
      <3>3. QED
        BY <3>1, <3>2
    <2>9. CASE Conclude(s)
      <3>1. Deduplicated(Aggregated(answer[s])) \in Seq(DOMAIN Domain)
        BY <2>9, ConcludedPages DEF CacheInv
      <3>2. PICK ok \in BOOLEAN :
               Return(s, [ok |-> ok, cached |-> FALSE, pages |-> Deduplicated(Aggregated(answer[s]))])
        BY <2>9 DEF Conclude
      <3>3. QED
        BY <3>1, <3>2, ReturnCalls DEF Results
    <2>10. QED
      BY <1>2, <2>1, <2>2, <2>3, <2>4, <2>5, <2>6, <2>7, <2>8, <2>9 DEF SearchStep
  <1>3. QED
    BY <1>1, <1>2 DEF Next

(* Every state of the searches and the cache has the types the code        *)
(* declares: no more than max_size entries, a key in one of them, no model *)
(* asked beyond the last, and a result for every search.                   *)
THEOREM SearchTypeCorrect == Spec => []TypeOK
  <1>1. Init => CallsOK
    <2>1. 0 \in 0..Rungs
      BY SearchConstantsOK
    <2>2. QED
      BY <2>1, ReplyValues DEF Init, CallsOK
  <1>2. CacheInv /\ CallsOK => TypeOK
    <2> SUFFICES ASSUME CacheInv, CallsOK PROVE TypeOK
      OBVIOUS
    <2>1. store \in Seq(Entries) /\ \A e \in ToSet(store) : e \in Entries
      BY DEF CacheInv, StoreOK, ToSet
    <2>2. QED
      BY <2>1 DEF CacheInv, IInv, SearchTypes, QueriesOK, StoreOK, CallsOK, Results, Entries, Gathered, Distinct, TypeOK
  <1>3. QED
    BY <1>1, <1>2, CacheInvariance, CallsStep, PTL DEF Spec

(* What the cache hands out is the last result gathered for the query, at  *)
(* most a TTL old, and never an empty one, for any number of searches, any *)
(* cache size and TTL, and any interleaving of hits, stores, evictions and *)
(* expiry.                                                                 *)
THEOREM CacheServesLatest == Spec => ServedIsLatest
  <1>1. ASSUME CacheInv, [Next]_vars, NEW s \in Searches, Returns(s), outcome'[s].cached
        PROVE  outcome'[s].pages = latest[query[s]].pages /\ outcome'[s].pages # <<>>
    <2>1. IInv
      BY <1>1 DEF CacheInv
    <2>2. CASE CacheHit(s)
      <3> DEFINE e == Entry(store, query[s])
      <3>1. Holds(store, query[s]) /\ ~Expired(e) /\ outcome'[s].pages = e.pages
        BY <1>1, <2>1, <2>2, ResultOf DEF CacheHit
      <3>2. e \in ToSet(store) /\ e.key = query[s]
        BY <1>1, <3>1, EntryFacts DEF CacheInv, StoreOK
      <3>3. Truthful(e)
        BY <1>1, <3>2 DEF CacheInv, StoreOK
      <3> HIDE DEF e
      <3>4. QED
        BY <3>1, <3>2, <3>3 DEF Truthful
    <2>3. CASE Conclude(s)
      <3>1. outcome'[s].cached = FALSE
        BY <2>1, <2>3, ConcludedResult
      <3>2. QED
        BY <1>1, <3>1
    <2>4. CASE Refused(s) \/ Return(s, NoOutcome)
      <3>1. outcome'[s] = NoOutcome
        BY <2>1, <2>4, <1>1, ResultOf DEF Refused
      <3>2. QED
        BY <1>1, <3>1 DEF NoOutcome
    <2>5. QED
      BY <1>1, <2>1, <2>2, <2>3, <2>4, ReturnedBy
  <1>2. CacheInv /\ [Next]_vars
          => [\A s \in Searches : (Returns(s) /\ outcome'[s].cached) =>
                /\ outcome'[s].pages = latest[query[s]].pages
                /\ outcome'[s].pages # <<>>]_vars
    BY <1>1
  <1>3. QED
    BY CacheInvariance, <1>2, PTL DEF Spec, ServedIsLatest

(* An answer that is still good leaves the cache only when the cache is    *)
(* full of answers that are still good.                                    *)
THEOREM CacheKeepsGoodAnswers == Spec => GoodAnswersKept
  <1> DEFINE Full == Len(store) = CacheSize /\ \A i \in DOMAIN store : store[i].age <= TTL
  <1>1. ASSUME CacheInv, [Next]_vars, NEW e \in ToSet(store), e.age <= TTL, ~Holds(store', e.key)
        PROVE  Full
    <2>1. /\ store \in Seq(Entries) /\ Distinct(store) /\ Len(store) <= CacheSize
          /\ e \in Entries /\ TTL \in Nat /\ ~Expired(e)
      <3>1. store \in Seq(Entries) /\ Distinct(store) /\ Len(store) <= CacheSize
        BY <1>1 DEF CacheInv, StoreOK
      <3>2. e \in Entries
        BY <3>1 DEF ToSet
      <3>3. e.age \in Int /\ TTL \in Nat
        BY <3>2, AgesOK DEF Entries
      <3>4. QED
        BY <1>1, <3>1, <3>2, <3>3 DEF Expired
    <2>2. e \notin ToSet(store')
      BY <1>1 DEF Holds, ToSet
    <2>3. store' # store
      BY <2>2
    <2>4. CASE Tick
      <3>1. PICK i \in DOMAIN store : store[i] = e
        BY DEF ToSet
      <3>2. i \in DOMAIN store' /\ store'[i].key = e.key
        BY <2>1, <2>4, <3>1, OlderFacts DEF Tick
      <3>3. QED
        BY <1>1, <3>2 DEF Holds
    <2>5. ASSUME NEW s \in Searches, CacheHit(s) PROVE Full
      <3>1. ToSet(store') = ToSet(store)
        BY <2>1, <2>5, TouchedFacts DEF CacheHit
      <3>2. QED
        BY <2>2, <3>1
    <2>6. ASSUME NEW s \in Searches, CacheMiss(s) PROVE Full
      <3>1. ToSet(store') = {f \in ToSet(store) : f.key # query[s]}
        BY <2>1, <2>6, WithoutFacts DEF CacheMiss
      <3>2. e.key = query[s] /\ Holds(store, query[s])
        BY <2>2, <3>1 DEF Holds, ToSet
      <3>3. e = Entry(store, query[s])
        BY <2>1, <3>2, EntryFacts
      <3>4. QED
        BY <2>1, <2>6, <3>2, <3>3 DEF CacheMiss
    <2>7. ASSUME NEW s \in Searches, Conclude(s) PROVE Full
      <3> DEFINE k == query[s]
                 pages == Deduplicated(Aggregated(answer[s]))
                 new == [key |-> k, pages |-> pages, age |-> 0]
      <3>1. k \in Queries /\ pages \in Seq(DOMAIN Domain)
        BY <1>1, <2>7, ConcludedPages DEF Conclude, CacheInv, QueriesOK
      <3>2. store' = Stored(store, k, pages)
        BY <2>3, <2>7 DEF Conclude
      <3> HIDE DEF pages
      <3>3. /\ new \in ToSet(store')
            /\ \/ \A f \in ToSet(store) : ~Expired(f) => f.key = k \/ f \in ToSet(store')
               \/ Len(store) = CacheSize /\ \A i \in DOMAIN store : ~Expired(store[i])
        BY <2>1, <3>1, <3>2, StoredFacts
      <3>4. e.key # k
        BY <1>1, <3>3 DEF Holds, ToSet
      <3>5. Len(store) = CacheSize /\ \A i \in DOMAIN store : ~Expired(store[i])
        BY <2>1, <2>2, <3>3, <3>4
      <3>6. \A i \in DOMAIN store : store[i].age \in Int
        <4>1. \A i \in DOMAIN store : store[i] \in Entries
          BY <2>1
        <4>2. QED
          BY <4>1, AgesOK DEF Entries
      <3>7. QED
        BY <2>1, <3>5, <3>6 DEF Expired
    <2>8. ASSUME NEW s \in Searches, SearchStep(s) PROVE CacheHit(s) \/ CacheMiss(s) \/ Conclude(s)
      BY <2>3, <2>8 DEF SearchStep, NeedsRewrite, ModelFails, PassThrough, Rewritten, Refused,
                        SourceAnswers, SourceDown, Heard, TimerFires
    <2>9. QED
      BY <1>1, <2>3, <2>4, <2>5, <2>6, <2>7, <2>8 DEF Next, vars
  <1>2. CacheInv /\ [Next]_vars
          => [\A e \in ToSet(store) : (e.age <= TTL /\ ~Holds(store', e.key)) => Full]_vars
    BY <1>1
  <1>3. QED
    BY CacheInvariance, <1>2, PTL DEF Spec, GoodAnswersKept

(* A gathered result holds each usable page that was found at most once,   *)
(* no domain above its share and each up to it, whatever the sources list. *)
THEOREM ResultsAreSpread == Spec => ResultsSpread
  <1> DEFINE listed(s) == (UNION {{Page[u] : u \in ToSet(answer[s][p].urls)} : p \in Sources}) \ {NoPage}
             Fair(s) ==
               LET pages == outcome'[s].pages
                   kept(d) == {i \in DOMAIN pages : Domain[pages[i]] = d}
                   of(d) == {p \in listed(s) : Domain[p] = d}
               IN  /\ ToSet(pages) \subseteq listed(s)
                   /\ \A i, j \in DOMAIN pages : i # j => pages[i] # pages[j]
                   /\ \A p \in listed(s) :
                         LET all == Cardinality(of(Domain[p])) IN
                         Cardinality(kept(Domain[p])) = IF all < MaxPerDomain THEN all ELSE MaxPerDomain
  <1>1. ASSUME IInv, [Next]_vars, NEW s \in Searches, Returns(s), outcome'[s].ok, ~outcome'[s].cached
        PROVE  Fair(s)
    <2>1. CASE Conclude(s)
      <3> DEFINE pages == Deduplicated(Aggregated(answer[s]))
      <3>1. outcome'[s].pages = pages
        BY <1>1, <2>1, ConcludedResult
      <3>2. Spread(pages, listed(s))
        BY <1>1, ConcludedPages
      <3>3. \A p \in listed(s) : Domain[p] \in Sites
        <4>1. \A p \in Sources : \A u \in ToSet(answer[s][p].urls) : u \in DOMAIN Page
          BY <1>1 DEF IInv, SearchTypes, AnyReply, ToSet
        <4>2. QED
          BY <4>1, SearchConstantsOK DEF SearchConstantsOK, Sites
      <3> HIDE DEF listed, pages
      <3>4. QED
        BY <3>1, <3>2, <3>3 DEF Spread, Shared, Kept, Seen
    <2>2. CASE CacheHit(s)
      BY <1>1, <2>2, ResultOf DEF CacheHit
    <2>3. CASE Refused(s) \/ Return(s, NoOutcome)
      <3>1. outcome'[s] = NoOutcome
        BY <2>3, <1>1, ResultOf DEF Refused
      <3>2. QED
        BY <1>1, <3>1 DEF NoOutcome
    <2>4. QED
      BY <1>1, <2>1, <2>2, <2>3, ReturnedBy
  <1>2. IInv /\ [Next]_vars
          => [\A s \in Searches : (Returns(s) /\ outcome'[s].ok /\ ~outcome'[s].cached) => Fair(s)]_vars
    BY <1>1
  <1>3. QED
    BY Invariance, <1>2, PTL DEF Spec, ResultsSpread
=============================================================================
