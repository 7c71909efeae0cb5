---------------------------- MODULE SequenceLemmas ----------------------------
(***************************************************************************)
(* Induction over data: what a fold over a sequence computes, for every    *)
(* sequence.  The induction rules of the library take a predicate; here    *)
(* the predicate is the set of the numbers that satisfy it, and the        *)
(* function a fold recurs through is shown to exist before the CHOOSE that *)
(* defines it is used.                                                     *)
(***************************************************************************)
EXTENDS Integers, Selection, FiniteSetTheorems, WellFoundedInduction, TLAPS

(* The least-number principle. *)
LEMMA LeastNumber ==
  ASSUME NEW T \in SUBSET Nat, T # {}
  PROVE  \E n \in T : \A m \in T : n <= m
  <1> DEFINE R == OpToRel(<, Nat)
  <1>1. \E x \in T : \A y \in T : ~(<<y, x>> \in R)
    <2>1. IsWellFoundedOn(R, Nat)
      BY NatLessThanWellFounded
    <2> HIDE DEF R
    <2>2. QED
      BY <2>1, WFMin
  <1>2. \A x \in Nat, y \in Nat : y < x => <<y, x>> \in R
    BY DEF OpToRel
  <1>3. PICK x \in T : \A y \in T : ~(<<y, x>> \in R)
    BY <1>1
  <1>4. ASSUME NEW y \in T PROVE x <= y
    <2>1. x \in Nat /\ y \in Nat
      OBVIOUS
    <2>2. ~(y < x)
      <3> HIDE DEF R
      <3>1. QED
        BY <1>2, <1>3, <2>1, Zenon
    <2>3. QED
      BY <2>1, <2>2
  <1>5. QED
    BY <1>4

(* Induction over the numbers up to n. *)
LEMMA Induction ==
  ASSUME NEW n \in Nat, NEW T, 0 \in T, \A i \in 0..n-1 : i \in T => i + 1 \in T
  PROVE  \A i \in 0..n : i \in T
  <1> SUFFICES ASSUME (0..n) \ T # {} PROVE FALSE
    OBVIOUS
  <1>1. (0..n) \ T \in SUBSET Nat
    OBVIOUS
  <1>2. PICK i \in (0..n) \ T : \A j \in (0..n) \ T : i <= j
    BY <1>1, LeastNumber
  <1>3. i - 1 \in 0..n-1 /\ i - 1 \in T
    BY <1>2
  <1>4. QED
    BY <1>2, <1>3

LEMMA MaxIsMember ==
  ASSUME NEW n \in Nat, NEW d \in SUBSET (1..n), d # {}
  PROVE  Max(d) \in d /\ \A i \in d : i <= Max(d)
  <1> DEFINE gaps == {n - i : i \in d}
  <1>1. gaps \in SUBSET Nat /\ gaps # {}
    <2>1. PICK i \in d : TRUE
      OBVIOUS
    <2>2. n - i \in gaps
      OBVIOUS
    <2>3. QED
      BY <2>2
  <1>2. PICK g \in gaps : \A h \in gaps : g <= h
    <2> HIDE DEF gaps
    <2>1. QED
      BY <1>1, LeastNumber
  <1>3. PICK i \in d : g = n - i
    OBVIOUS
  <1>4. ASSUME NEW j \in d PROVE i >= j
    <2>1. n - j \in gaps
      OBVIOUS
    <2>2. n - i <= n - j
      BY <1>2, <1>3, <2>1
    <2>3. QED
      BY <2>2
  <1>5. QED
    BY <1>4 DEF Max

LEMMA MaxOfPrefix ==
  ASSUME NEW i \in Nat \ {0}
  PROVE  Max(1..i) = i /\ (1..i) \ {i} = 1..i-1
  BY DEF Max

-----------------------------------------------------------------------------
(* A fold over n elements recurs through the sets of positions it has yet  *)
(* to take, the last one first.                                            *)
IsFold(it, n, base, step) ==
  \A d \in SUBSET (1..n) : it[d] = IF d = {} THEN base ELSE step[Max(d)][it[d \ {Max(d)}]]

LEMMA FoldExists ==
  ASSUME NEW n \in Nat, NEW T, NEW base \in T, NEW step \in [1..n -> [T -> T]]
  PROVE  \E it \in [SUBSET (1..n) -> T] : IsFold(it, n, base, step)
  <1> DEFINE Upto(k) == \E it \in [SUBSET (1..k) -> T] : IsFold(it, k, base, step)
             done == {k \in 0..n : Upto(k)}
  <1>1. Upto(0)
    <2> DEFINE it == [d \in SUBSET (1..0) |-> base]
    <2>1. IsFold(it, 0, base, step)
      BY DEF IsFold
    <2>2. QED
      BY <2>1
  <1>2. ASSUME NEW k \in 0..n-1, Upto(k) PROVE Upto(k + 1)
    <2>1. PICK it \in [SUBSET (1..k) -> T] : IsFold(it, k, base, step)
      BY <1>2
    <2> DEFINE more == [d \in SUBSET (1..k+1) |->
                           IF k + 1 \in d THEN step[k + 1][it[d \ {k + 1}]] ELSE it[d]]
    <2>2. \A d \in SUBSET (1..k+1) : /\ k + 1 \in d => d \ {k + 1} \in SUBSET (1..k)
                                     /\ k + 1 \notin d => d \in SUBSET (1..k)
      OBVIOUS
    <2>3. more \in [SUBSET (1..k+1) -> T]
      BY <2>2
    <2>4. ASSUME NEW d \in SUBSET (1..k+1)
          PROVE  more[d] = IF d = {} THEN base ELSE step[Max(d)][more[d \ {Max(d)}]]
      <3>1. CASE k + 1 \in d
        <4>1. Max(d) = k + 1
          <5>1. k + 1 \in Nat /\ d # {}
            BY <3>1
          <5>2. Max(d) \in d /\ \A i \in d : i <= Max(d)
            BY <5>1, MaxIsMember
          <5>3. Max(d) \in 1..k+1
            BY <5>2
          <5>4. QED
            BY <5>2, <5>3, <3>1
        <4>2. more[d \ {k + 1}] = it[d \ {k + 1}]
          OBVIOUS
        <4>3. QED
          BY <3>1, <4>1, <4>2
      <3>2. CASE k + 1 \notin d
        <4>1. d \in SUBSET (1..k) /\ more[d] = it[d]
          BY <3>2
        <4>2. it[d] = IF d = {} THEN base ELSE step[Max(d)][it[d \ {Max(d)}]]
          BY <4>1, <2>1 DEF IsFold
        <4>3. k + 1 \notin d \ {Max(d)} /\ more[d \ {Max(d)}] = it[d \ {Max(d)}]
          BY <3>2
        <4>4. QED
          BY <4>1, <4>2, <4>3
      <3>3. QED
        BY <3>1, <3>2
    <2>5. IsFold(more, k + 1, base, step)
      BY <2>4 DEF IsFold
    <2> HIDE DEF more
    <2>6. QED
      BY <2>3, <2>5
  <1>3. \A k \in 0..n : k \in done
    <2> HIDE DEF Upto
    <2>1. 0 \in done /\ \A k \in 0..n-1 : k \in done => k + 1 \in done
      BY <1>1, <1>2
    <2> HIDE DEF done
    <2>2. QED
      BY <2>1, Induction
  <1>4. n \in done
    <2> HIDE DEF done
    <2>1. QED
      BY <1>3
  <1>5. QED
    BY <1>4

(* What is known of a recursion as soon as it yields values of T. *)
Recurs(it, n, T, base, step) ==
  /\ it[{}] = base
  /\ \A d \in SUBSET (1..n) :
        d # {} /\ it[d \ {Max(d)}] \in T => it[d] = step[Max(d)][it[d \ {Max(d)}]]

(* The values a fold takes on the prefixes of its sequence. *)
IsTrace(trace, n, base, step) ==
  trace[0] = base /\ \A i \in 1..n : trace[i] = step[i][trace[i - 1]]

Traces(it, n, T, base, step) ==
  \E trace \in [0..n -> T] : IsTrace(trace, n, base, step) /\ it[1..n] = trace[n]

LEMMA FoldTrace ==
  ASSUME NEW n \in Nat, NEW T, NEW base \in T, NEW step \in [1..n -> [T -> T]], NEW it,
         Recurs(it, n, T, base, step)
  PROVE  Traces(it, n, T, base, step)
  <1> DEFINE trace == [i \in 0..n |-> it[1..i]]
             typed == {i \in 0..n : trace[i] \in T}
  <1>1. trace[0] = base
    <2>1. 1..0 = {}
      OBVIOUS
    <2>2. QED
      BY <2>1 DEF Recurs
  <1>2. ASSUME NEW i \in 1..n, trace[i - 1] \in T PROVE trace[i] = step[i][trace[i - 1]]
    <2>1. i \in Nat \ {0} /\ 1..i \in SUBSET (1..n) /\ 1..i # {} /\ i - 1 \in 0..n /\ i \in 0..n
      <3>1. i \in 1..i /\ i \in Nat \ {0} /\ i - 1 \in 0..n /\ i \in 0..n
        OBVIOUS
      <3>2. \A j \in 1..i : j \in 1..n
        OBVIOUS
      <3>3. QED
        BY <3>1, <3>2
    <2>2. Max(1..i) = i /\ (1..i) \ {i} = 1..i-1
      BY <2>1, MaxOfPrefix
    <2>3. it[(1..i) \ {Max(1..i)}] \in T
      BY <1>2, <2>1, <2>2
    <2>4. it[1..i] = step[Max(1..i)][it[(1..i) \ {Max(1..i)}]]
      BY <2>1, <2>3 DEF Recurs
    <2>5. QED
      BY <2>1, <2>2, <2>4
  <1>3. \A i \in 0..n : i \in typed
    <2> HIDE DEF trace
    <2>1. 0 \in typed
      BY <1>1
    <2>2. ASSUME NEW i \in 0..n-1, i \in typed PROVE i + 1 \in typed
      <3>1. i + 1 \in 1..n /\ (i + 1) - 1 = i /\ trace[i] \in T
        BY <2>2
      <3>2. trace[i + 1] = step[i + 1][trace[i]]
        BY <1>2, <3>1
      <3>3. QED
        BY <3>1, <3>2
    <2> HIDE DEF typed
    <2>3. QED
      BY <2>1, <2>2, Induction
  <1>4. IsTrace(trace, n, base, step)
    <2> HIDE DEF trace
    <2>1. \A i \in 1..n : i - 1 \in 0..n
      OBVIOUS
    <2>2. QED
      BY <1>1, <1>2, <1>3, <2>1 DEF IsTrace
  <1>5. trace \in [0..n -> T]
    BY <1>3
  <1>6. it[1..n] = trace[n]
    OBVIOUS
  <1> HIDE DEF trace
  <1>7. QED
    BY <1>4, <1>5, <1>6 DEF Traces

LEMMA TraceExists ==
  ASSUME NEW n \in Nat, NEW T, NEW base \in T, NEW step \in [1..n -> [T -> T]]
  PROVE  \E trace \in [0..n -> T] : IsTrace(trace, n, base, step)
  <1>1. PICK it \in [SUBSET (1..n) -> T] : IsFold(it, n, base, step)
    BY FoldExists
  <1>2. Recurs(it, n, T, base, step)
    BY <1>1 DEF IsFold, Recurs
  <1>3. QED
    BY <1>2, FoldTrace DEF Traces

-----------------------------------------------------------------------------
(* Selected: one element after the other. *)
Selecting(trace, s, K) ==
  /\ trace[0] = <<>>
  /\ \A i \in 1..Len(s) :
        trace[i] = IF s[i] \in K THEN Append(trace[i - 1], s[i]) ELSE trace[i - 1]
  /\ Selected(s, K) = trace[Len(s)]

LEMMA SelectedTrace ==
  ASSUME NEW S, NEW s \in Seq(S), NEW K
  PROVE  \E trace \in [0..Len(s) -> Seq(S)] : Selecting(trace, s, K)
  <1> DEFINE n == Len(s)
             Taken(kept, i) == IF s[i] \in K THEN Append(kept, s[i]) ELSE kept
             step == [i \in 1..n |-> [kept \in Seq(S) |-> Taken(kept, i)]]
             Rec(it) == [d \in SUBSET (1..n) |->
                            IF d = {} THEN <<>> ELSE Taken(it[d \ {Max(d)}], Max(d))]
             iter == CHOOSE it : it = Rec(it)
  <1>1. n \in Nat /\ DOMAIN s = 1..n /\ <<>> \in Seq(S)
    OBVIOUS
  <1>2. \A i \in 1..n : \A kept \in Seq(S) : Taken(kept, i) \in Seq(S)
    OBVIOUS
  <1>3. step \in [1..n -> [Seq(S) -> Seq(S)]]
    BY <1>2
  <1>4. \A d \in SUBSET (1..n) : d # {} => Max(d) \in 1..n /\ d \ {Max(d)} \in SUBSET (1..n)
    BY <1>1, MaxIsMember
  <1>5. \E it : it = Rec(it)
    <2>1. PICK it \in [SUBSET (1..n) -> Seq(S)] : IsFold(it, n, <<>>, step)
      <3> HIDE DEF step, n
      <3>1. QED
        BY <1>1, <1>3, FoldExists
    <2>2. \A d \in SUBSET (1..n) : it[d] = IF d = {} THEN <<>> ELSE Taken(it[d \ {Max(d)}], Max(d))
      BY <1>4, <2>1 DEF IsFold
    <2>3. it = Rec(it)
      <3> HIDE DEF Taken
      <3>1. QED
        BY <2>1, <2>2
    <2> HIDE DEF Rec
    <2>4. QED
      BY <2>3
  <1>6. iter = Rec(iter)
    <2> HIDE DEF Rec
    <2>1. QED
      BY <1>5
  <1>7. Selected(s, K) = iter[1..n]
    BY <1>1 DEF Selected, FoldLeft, MapThenFoldSet
  <1> HIDE DEF iter
  <1>8. Recurs(iter, n, Seq(S), <<>>, step)
    BY <1>4, <1>6 DEF Recurs
  <1>9. PICK trace \in [0..n -> Seq(S)] : IsTrace(trace, n, <<>>, step) /\ iter[1..n] = trace[n]
    <2> DEFINE T == Seq(S)
    <2>1. n \in Nat /\ <<>> \in T /\ step \in [1..n -> [T -> T]] /\ Recurs(iter, n, T, <<>>, step)
      BY <1>1, <1>3, <1>8
    <2>2. \E trace \in [0..n -> T] : IsTrace(trace, n, <<>>, step) /\ iter[1..n] = trace[n]
      <3> HIDE DEF step, n, T, Taken, Rec
      <3>1. QED
        BY <2>1, FoldTrace DEF Traces
    <2>3. QED
      BY <2>2
  <1>10. ASSUME NEW i \in 1..n PROVE trace[i] = Taken(trace[i - 1], i)
    <2>1. i - 1 \in 0..n
      BY <1>1
    <2>2. trace[i - 1] \in Seq(S)
      BY <2>1, <1>9
    <2>3. trace[i] = step[i][trace[i - 1]]
      <3> HIDE DEF step, n
      <3>1. QED
        BY <1>9 DEF IsTrace
    <2>4. QED
      BY <2>2, <2>3
  <1>11. QED
    BY <1>7, <1>9, <1>10 DEF IsTrace, Selecting

(* Where the selected elements stood: in the same order, and none of the   *)
(* set is missing.                                                         *)
Places(r, s, K, pos) ==
  /\ \A i, j \in DOMAIN r : i < j => pos[i] < pos[j]
  /\ \A i \in DOMAIN r : r[i] = s[pos[i]] /\ r[i] \in K
  /\ \A k \in DOMAIN s : s[k] \in K => \E i \in DOMAIN r : pos[i] = k

LEMMA SelectedPlaces ==
  ASSUME NEW S, NEW s \in Seq(S), NEW K
  PROVE  /\ Selected(s, K) \in Seq(S)
         /\ Len(Selected(s, K)) <= Len(s)
         /\ Len(Selected(s, K)) = Len(s) => \A k \in DOMAIN s : s[k] \in K
         /\ \E pos \in [DOMAIN Selected(s, K) -> DOMAIN s] : Places(Selected(s, K), s, K, pos)
  <1>1. PICK trace \in [0..Len(s) -> Seq(S)] : Selecting(trace, s, K)
    BY SelectedTrace
  <1> USE DEF Selecting
  <1> DEFINE n == Len(s)
  <1> DEFINE Good(m) ==
               /\ Len(trace[m]) <= m
               /\ Len(trace[m]) = m => \A k \in 1..m : s[k] \in K
               /\ \E pos \in [DOMAIN trace[m] -> 1..m] : Places(trace[m], SubSeq(s, 1, m), K, pos)
             good == {m \in 0..n : Good(m)}
  <1>2. n \in Nat /\ DOMAIN s = 1..n
    OBVIOUS
  <1>3. Good(0)
    <2>1. SubSeq(s, 1, 0) = <<>> /\ trace[0] = <<>>
      BY <1>1
    <2> DEFINE pos == [i \in {} |-> 0]
    <2>2. pos \in [DOMAIN trace[0] -> 1..0] /\ Places(trace[0], SubSeq(s, 1, 0), K, pos)
      BY <2>1 DEF Places
    <2>3. Len(trace[0]) = 0
      BY <2>1
    <2> HIDE DEF pos
    <2>4. QED
      BY <2>2, <2>3
  <1>4. ASSUME NEW m \in 0..n-1, Good(m) PROVE Good(m + 1)
    <2> DEFINE r == trace[m]
               more == trace[m + 1]
               e == s[m + 1]
    <2>1. /\ m + 1 \in 1..n /\ m \in 0..n /\ (m + 1) - 1 = m /\ r \in Seq(S) /\ e \in S
          /\ more = IF e \in K THEN Append(r, e) ELSE r
      BY <1>1
    <2>2. PICK pos \in [DOMAIN r -> 1..m] : Places(r, SubSeq(s, 1, m), K, pos)
      BY <1>4
    <2>3. /\ DOMAIN SubSeq(s, 1, m) = 1..m /\ DOMAIN SubSeq(s, 1, m + 1) = 1..m+1
          /\ \A k \in 1..m : SubSeq(s, 1, m)[k] = s[k]
          /\ \A k \in 1..m+1 : SubSeq(s, 1, m + 1)[k] = s[k]
      BY <1>2
    <2>4. /\ \A i, j \in DOMAIN r : i < j => pos[i] < pos[j]
          /\ \A i \in DOMAIN r : r[i] = s[pos[i]] /\ r[i] \in K
          /\ \A k \in 1..m : s[k] \in K => \E i \in DOMAIN r : pos[i] = k
      BY <2>2, <2>3 DEF Places
    <2>5. CASE e \in K
      <3> DEFINE place == [i \in 1..Len(r)+1 |-> IF i = Len(r) + 1 THEN m + 1 ELSE pos[i]]
      <3>1. /\ more = Append(r, e) /\ Len(more) = Len(r) + 1 /\ Len(r) \in Nat
            /\ DOMAIN more = 1..Len(r)+1 /\ DOMAIN r = 1..Len(r)
            /\ more[Len(r) + 1] = e /\ \A i \in 1..Len(r) : more[i] = r[i]
        BY <2>1, <2>5
      <3>2. place \in [DOMAIN more -> 1..m+1]
        BY <3>1
      <3>3. \A i, j \in DOMAIN more : i < j => place[i] < place[j]
        BY <3>1, <2>4
      <3>4. \A i \in DOMAIN more : more[i] = s[place[i]] /\ more[i] \in K
        BY <3>1, <2>4, <2>5
      <3>5. ASSUME NEW k \in 1..m+1, s[k] \in K PROVE \E i \in DOMAIN more : place[i] = k
        <4>1. CASE k = m + 1
          <5>1. Len(r) + 1 \in DOMAIN more
            BY <3>1
          <5>2. QED
            BY <4>1, <3>1, <5>1
        <4>2. CASE k \in 1..m
          <5>1. PICK i \in DOMAIN r : pos[i] = k
            BY <4>2, <3>5, <2>4
          <5>2. i \in DOMAIN more /\ place[i] = k
            BY <3>1, <5>1
          <5>3. QED
            BY <5>2
        <4>3. k = m + 1 \/ k \in 1..m
          BY <1>2
        <4> HIDE DEF more, place
        <4>4. QED
          BY <4>1, <4>2, <4>3
      <3>6. Places(more, SubSeq(s, 1, m + 1), K, place)
        <4> HIDE DEF place, more
        <4>1. \A i \in DOMAIN more : SubSeq(s, 1, m + 1)[place[i]] = s[place[i]]
          BY <2>3, <3>2
        <4>2. QED
          BY <2>3, <3>3, <3>4, <3>5, <4>1 DEF Places
      <3>7. Len(more) <= m + 1 /\ (Len(more) = m + 1 => \A k \in 1..m+1 : s[k] \in K)
        BY <1>4, <2>5, <3>1
      <3> HIDE DEF place
      <3>8. QED
        BY <3>2, <3>6, <3>7
    <2>6. CASE e \notin K
      <3>1. more = r
        BY <2>1, <2>6
      <3>2. pos \in [DOMAIN more -> 1..m+1]
        BY <3>1
      <3>3. Places(more, SubSeq(s, 1, m + 1), K, pos)
        <4>1. \A k \in 1..m+1 : s[k] \in K => k \in 1..m
          BY <2>6
        <4>2. \A i \in DOMAIN r : SubSeq(s, 1, m + 1)[pos[i]] = s[pos[i]]
          BY <2>3
        <4>3. QED
          BY <2>3, <2>4, <3>1, <4>1, <4>2 DEF Places
      <3>4. Len(more) <= m + 1 /\ Len(more) # m + 1
        BY <1>4, <3>1, <2>1
      <3>5. QED
        BY <3>2, <3>3, <3>4
    <2>7. QED
      BY <2>5, <2>6
  <1>5. \A m \in 0..n : m \in good
    <2> HIDE DEF Good
    <2>1. 0 \in good /\ \A m \in 0..n-1 : m \in good => m + 1 \in good
      BY <1>2, <1>3, <1>4
    <2> HIDE DEF good
    <2>2. QED
      BY <1>2, <2>1, Induction
  <1>6. Good(n)
    <2> HIDE DEF Good
    <2>1. QED
      BY <1>2, <1>5
  <1>7. SubSeq(s, 1, n) = s /\ trace[n] \in Seq(S)
    BY <1>1, <1>2
  <1>8. QED
    BY <1>1, <1>2, <1>6, <1>7

LEMMA SelectedSet ==
  ASSUME NEW S, NEW s \in Seq(S), NEW K
  PROVE  ToSet(Selected(s, K)) = ToSet(s) \cap K
  <1> DEFINE r == Selected(s, K)
  <1>1. PICK pos \in [DOMAIN r -> DOMAIN s] : Places(r, s, K, pos)
    BY SelectedPlaces
  <1>2. ASSUME NEW i \in DOMAIN r PROVE r[i] \in ToSet(s) \cap K
    BY <1>1 DEF Places, ToSet
  <1>3. ASSUME NEW k \in DOMAIN s, s[k] \in K PROVE s[k] \in ToSet(r)
    BY <1>1, <1>3 DEF Places, ToSet
  <1>4. QED
    BY <1>2, <1>3 DEF ToSet
-----------------------------------------------------------------------------
(* How many are selected. *)
LEMMA SelectedCount ==
  ASSUME NEW S, NEW s \in Seq(S), NEW K
  PROVE  /\ IsFiniteSet({i \in DOMAIN s : s[i] \in K})
         /\ Len(Selected(s, K)) = Cardinality({i \in DOMAIN s : s[i] \in K})
  <1> DEFINE r == Selected(s, K)
             hits == {i \in DOMAIN s : s[i] \in K}
             n == Len(r)
  <1>1. PICK pos \in [DOMAIN r -> DOMAIN s] : Places(r, s, K, pos)
    BY SelectedPlaces
  <1>2. r \in Seq(S)
    BY SelectedPlaces
  <1> HIDE DEF r
  <1>3. n \in Nat /\ DOMAIN r = 1..n
    BY <1>2
  <1>4. \A i, j \in 1..n : i # j => pos[i] # pos[j]
    <2>1. \A i \in 1..n : pos[i] \in Nat
      BY <1>1, <1>3
    <2>2. \A i, j \in 1..n : i < j => pos[i] # pos[j]
      BY <1>1, <1>3, <2>1 DEF Places
    <2> HIDE DEF n
    <2>3. \A i, j \in 1..n : i # j => i < j \/ j < i
      BY <1>3
    <2>4. QED
      BY <2>2, <2>3
  <1>5. pos \in [1..n -> hits] /\ \A k \in hits : \E i \in 1..n : pos[i] = k
    BY <1>1, <1>3 DEF Places
  <1>6. ExistsBijection(1..n, hits)
    <2> HIDE DEF n, hits
    <2>1. pos \in Bijection(1..n, hits)
      BY <1>4, <1>5 DEF Bijection, Injection, Surjection, IsInjective
    <2>2. QED
      BY <2>1 DEF ExistsBijection
  <1>7. Cardinality(hits) = n /\ IsFiniteSet(hits)
    <2> HIDE DEF n, hits
    <2>1. QED
      BY <1>3, <1>6, FS_CountingElements, FS_NatBijection
  <1>8. QED
    BY <1>7 DEF r

(* The elements of sequences put together. *)
LEMMA ToSetConcat ==
  ASSUME NEW S, NEW a \in Seq(S), NEW b \in Seq(S)
  PROVE  a \o b \in Seq(S) /\ ToSet(a \o b) = ToSet(a) \union ToSet(b)
  <1>1. /\ a \o b \in Seq(S) /\ Len(a \o b) = Len(a) + Len(b)
        /\ \A i \in 1..Len(a) : (a \o b)[i] = a[i]
        /\ \A i \in 1..Len(b) : (a \o b)[Len(a) + i] = b[i]
    OBVIOUS
  <1>2. ASSUME NEW i \in 1..Len(a \o b) PROVE (a \o b)[i] \in ToSet(a) \union ToSet(b)
    <2>1. CASE i <= Len(a)
      BY <1>1, <2>1 DEF ToSet
    <2>2. CASE i > Len(a)
      <3>1. i - Len(a) \in 1..Len(b) /\ Len(a) + (i - Len(a)) = i
        BY <1>1, <2>2
      <3>2. (a \o b)[i] = b[i - Len(a)]
        BY <1>1, <3>1
      <3>3. QED
        BY <3>1, <3>2 DEF ToSet
    <2>3. QED
      BY <2>1, <2>2
  <1>3. ASSUME NEW i \in 1..Len(a) PROVE a[i] \in ToSet(a \o b)
    BY <1>1 DEF ToSet
  <1>4. ASSUME NEW i \in 1..Len(b) PROVE b[i] \in ToSet(a \o b)
    <2>1. Len(a) + i \in 1..Len(a \o b)
      BY <1>1
    <2>2. QED
      BY <1>1, <2>1 DEF ToSet
  <1>5. /\ DOMAIN (a \o b) = 1..Len(a \o b)
        /\ DOMAIN a = 1..Len(a) /\ DOMAIN b = 1..Len(b)
    BY <1>1
  <1>6. ToSet(a \o b) \subseteq ToSet(a) \union ToSet(b)
    BY <1>2, <1>5 DEF ToSet
  <1>7. ToSet(a) \union ToSet(b) \subseteq ToSet(a \o b)
    <2>1. \A e \in ToSet(a) : \E i \in 1..Len(a) : e = a[i]
      BY <1>5 DEF ToSet
    <2>2. \A e \in ToSet(b) : \E i \in 1..Len(b) : e = b[i]
      BY <1>5 DEF ToSet
    <2>3. QED
      BY <1>3, <1>4, <2>1, <2>2
  <1>8. QED
    BY <1>1, <1>6, <1>7

LEMMA ToSetAppend ==
  ASSUME NEW S, NEW a \in Seq(S), NEW e \in S
  PROVE  Append(a, e) \in Seq(S) /\ ToSet(Append(a, e)) = ToSet(a) \union {e}
  <1>1. /\ Append(a, e) \in Seq(S) /\ DOMAIN Append(a, e) = (1..Len(a)) \union {Len(a) + 1}
        /\ \A i \in 1..Len(a) : Append(a, e)[i] = a[i]
        /\ Append(a, e)[Len(a) + 1] = e /\ DOMAIN a = 1..Len(a)
    OBVIOUS
  <1>2. QED
    BY <1>1 DEF ToSet

-----------------------------------------------------------------------------
(* FlattenSeq: one sequence after the other. *)
Flattening(trace, seqs) ==
  /\ trace[0] = <<>>
  /\ \A i \in 1..Len(seqs) : trace[i] = trace[i - 1] \o seqs[i]
  /\ FlattenSeq(seqs) = trace[Len(seqs)]

LEMMA FlattenTrace ==
  ASSUME NEW S, NEW seqs \in Seq(Seq(S))
  PROVE  \E trace \in [0..Len(seqs) -> Seq(S)] : Flattening(trace, seqs)
  <1> DEFINE n == Len(seqs)
             step == [i \in 1..n |-> [a \in Seq(S) |-> a \o seqs[i]]]
             Rec(f) == [i \in 1..n |-> IF i = 1 THEN seqs[i] ELSE f[i - 1] \o seqs[i]]
             flatten == CHOOSE f : f = Rec(f)
             trace == [i \in 0..n |-> IF i = 0 THEN <<>> ELSE flatten[i]]
             typed == {i \in 0..n : trace[i] \in Seq(S)}
  <1>1. n \in Nat /\ <<>> \in Seq(S) /\ \A i \in 1..n : seqs[i] \in Seq(S)
    OBVIOUS
  <1>2. step \in [1..n -> [Seq(S) -> Seq(S)]]
    BY <1>1
  <1>3. \E f : f = Rec(f)
    <2>1. PICK t \in [0..n -> Seq(S)] : IsTrace(t, n, <<>>, step)
      <3> DEFINE T == Seq(S)
      <3>1. <<>> \in T /\ step \in [1..n -> [T -> T]]
        BY <1>1, <1>2
      <3>2. \E t \in [0..n -> T] : IsTrace(t, n, <<>>, step)
        <4> HIDE DEF n, step, T, Rec, flatten, trace, typed
        <4>1. QED
          BY <1>1, <3>1, TraceExists
      <3>3. QED
        BY <3>2
    <2> DEFINE f == [i \in 1..n |-> t[i]]
    <2>2. ASSUME NEW i \in 1..n PROVE t[i] = t[i - 1] \o seqs[i]
      <3>1. i - 1 \in 0..n
        BY <1>1
      <3>2. t[i - 1] \in Seq(S)
        BY <2>1, <3>1
      <3>3. t[i] = step[i][t[i - 1]]
        <4> HIDE DEF n, step
        <4>1. QED
          BY <2>1 DEF IsTrace
      <3>4. QED
        BY <3>2, <3>3
    <2>3. t[0] = <<>>
      BY <2>1 DEF IsTrace
    <2>4. ASSUME NEW i \in 1..n PROVE f[i] = IF i = 1 THEN seqs[i] ELSE f[i - 1] \o seqs[i]
      <3>1. CASE i = 1
        <4>1. t[i] = t[0] \o seqs[i]
          <5>1. i - 1 = 0
            BY <3>1
          <5> HIDE DEF n
          <5>2. QED
            BY <2>2, <5>1
        <4>2. QED
          BY <1>1, <2>3, <3>1, <4>1
      <3>2. CASE i # 1
        <4>1. i - 1 \in 1..n
          BY <1>1, <3>2
        <4>2. QED
          BY <2>2, <3>2, <4>1
      <3>3. QED
        BY <3>1, <3>2
    <2>5. f = Rec(f)
      BY <2>4
    <2> HIDE DEF Rec
    <2>6. QED
      BY <2>5
  <1>4. flatten = Rec(flatten)
    <2> HIDE DEF Rec
    <2>1. QED
      BY <1>3
  <1>5. FlattenSeq(seqs) = trace[n]
    BY <1>1 DEF FlattenSeq
  <1> HIDE DEF flatten
  <1>6. trace[0] = <<>>
    BY <1>1
  <1>7. ASSUME NEW i \in 1..n PROVE trace[i] = trace[i - 1] \o seqs[i]
    <2>1. CASE i = 1
      <3>1. trace[i] = seqs[i] /\ trace[i - 1] = <<>> /\ seqs[i] \in Seq(S)
        BY <1>1, <1>4, <2>1
      <3>2. <<>> \o seqs[i] = seqs[i]
        BY <3>1
      <3> HIDE DEF trace
      <3>3. QED
        BY <3>1, <3>2
    <2>2. CASE i # 1
      <3>1. i - 1 \in 0..n /\ i \in 0..n /\ i # 0 /\ i - 1 # 0
        BY <1>1, <2>2
      <3>2. trace[i] = flatten[i] /\ trace[i - 1] = flatten[i - 1]
        BY <3>1
      <3>3. flatten[i] = flatten[i - 1] \o seqs[i]
        BY <1>4, <2>2
      <3> HIDE DEF trace
      <3>4. QED
        BY <3>2, <3>3
    <2>3. QED
      BY <2>1, <2>2
  <1>8. \A i \in 0..n : i \in typed
    <2> HIDE DEF trace
    <2>1. 0 \in typed
      <3>1. trace[0] \in Seq(S)
        BY <1>6
      <3>2. QED
        BY <1>1, <3>1
    <2>2. ASSUME NEW i \in 0..n-1, i \in typed PROVE i + 1 \in typed
      <3>1. i + 1 \in 1..n /\ (i + 1) - 1 = i /\ trace[i] \in Seq(S) /\ i + 1 \in 0..n
        BY <1>1, <2>2
      <3>2. trace[i + 1] = trace[i] \o seqs[i + 1] /\ seqs[i + 1] \in Seq(S)
        BY <1>1, <1>7, <3>1
      <3>3. trace[i + 1] \in Seq(S)
        BY <3>1, <3>2
      <3>4. QED
        BY <3>1, <3>3
    <2> HIDE DEF typed
    <2>3. QED
      BY <1>1, <2>1, <2>2, Induction
  <1>9. trace \in [0..n -> Seq(S)]
    BY <1>8
  <1> HIDE DEF trace
  <1>10. QED
    BY <1>5, <1>6, <1>7, <1>9 DEF Flattening

LEMMA FlattenedSet ==
  ASSUME NEW S, NEW seqs \in Seq(Seq(S))
  PROVE  /\ FlattenSeq(seqs) \in Seq(S)
         /\ ToSet(FlattenSeq(seqs)) = UNION {ToSet(seqs[i]) : i \in DOMAIN seqs}
  <1>1. PICK trace \in [0..Len(seqs) -> Seq(S)] : Flattening(trace, seqs)
    BY FlattenTrace
  <1> DEFINE n == Len(seqs)
             Upto(m) == UNION {ToSet(seqs[i]) : i \in 1..m}
             good == {m \in 0..n : ToSet(trace[m]) = Upto(m)}
  <1>2. n \in Nat /\ DOMAIN seqs = 1..n
    OBVIOUS
  <1>3. ToSet(trace[0]) = Upto(0)
    BY <1>1 DEF Flattening, ToSet
  <1>4. ASSUME NEW m \in 0..n-1, ToSet(trace[m]) = Upto(m) PROVE ToSet(trace[m + 1]) = Upto(m + 1)
    <2>1. m + 1 \in 1..n /\ m \in 0..n /\ (m + 1) - 1 = m
      BY <1>2
    <2>2. trace[m + 1] = trace[m] \o seqs[m + 1]
      <3>1. trace[m + 1] = trace[(m + 1) - 1] \o seqs[m + 1]
        BY <1>1, <2>1 DEF Flattening
      <3>2. QED
        BY <2>1, <3>1
    <2>3. trace[m] \in Seq(S) /\ seqs[m + 1] \in Seq(S)
      <3> HIDE DEF n
      <3>1. trace \in [0..n -> Seq(S)] /\ seqs \in [1..n -> Seq(S)]
        BY <1>2 DEF n
      <3>2. QED
        BY <2>1, <3>1
    <2>4. ToSet(trace[m + 1]) = ToSet(trace[m]) \union ToSet(seqs[m + 1])
      BY <2>2, <2>3, ToSetConcat
    <2>5. 1..m+1 = (1..m) \union {m + 1}
      BY <2>1
    <2>6. Upto(m + 1) = Upto(m) \union ToSet(seqs[m + 1])
      BY <2>5
    <2>7. QED
      BY <1>4, <2>4, <2>6
  <1>5. \A m \in 0..n : m \in good
    <2> HIDE DEF Upto
    <2>1. 0 \in good /\ \A m \in 0..n-1 : m \in good => m + 1 \in good
      BY <1>2, <1>3, <1>4
    <2> HIDE DEF good
    <2>2. QED
      BY <1>2, <2>1, Induction
  <1>6. ToSet(trace[n]) = Upto(n) /\ trace[n] \in Seq(S)
    BY <1>2, <1>5
  <1>7. QED
    BY <1>1, <1>2, <1>6 DEF Flattening

-----------------------------------------------------------------------------
(* What holds of every element and every later one. *)
Chain(s, R) == \A i, j \in DOMAIN s : i < j => <<s[i], s[j]>> \in R

LEMMA ChainSelected ==
  ASSUME NEW S, NEW s \in Seq(S), NEW K, NEW R, Chain(s, R)
  PROVE  Chain(Selected(s, K), R)
  <1>1. PICK pos \in [DOMAIN Selected(s, K) -> DOMAIN s] : Places(Selected(s, K), s, K, pos)
    BY SelectedPlaces
  <1>2. QED
    BY <1>1 DEF Chain, Places

LEMMA ChainConcat ==
  ASSUME NEW S, NEW a \in Seq(S), NEW b \in Seq(S), NEW R, Chain(a, R), Chain(b, R),
         \A x \in ToSet(a), y \in ToSet(b) : <<x, y>> \in R
  PROVE  Chain(a \o b, R)
  <1> DEFINE m == Len(a)
             n == Len(b)
             c == a \o b
  <1>1. /\ m \in Nat /\ n \in Nat /\ DOMAIN a = 1..m /\ DOMAIN b = 1..n /\ DOMAIN c = 1..m+n
        /\ \A i \in 1..m : c[i] = a[i]
        /\ \A i \in 1..m+n : i > m => i - m \in 1..n /\ c[i] = b[i - m]
    OBVIOUS
  <1> HIDE DEF m, n, c
  <1>2. ASSUME NEW i \in 1..m+n, NEW j \in 1..m+n, i < j PROVE <<c[i], c[j]>> \in R
    <2>1. CASE j <= m
      <3>1. i \in 1..m /\ j \in 1..m
        BY <1>1, <1>2, <2>1
      <3>2. QED
        BY <1>1, <1>2, <3>1 DEF Chain
    <2>2. CASE i > m
      <3>1. i - m \in 1..n /\ j - m \in 1..n /\ i - m < j - m /\ c[i] = b[i - m] /\ c[j] = b[j - m]
        BY <1>1, <1>2, <2>2
      <3>2. QED
        BY <1>1, <3>1 DEF Chain
    <2>3. CASE i <= m /\ j > m
      <3>1. i \in 1..m /\ j - m \in 1..n /\ c[i] = a[i] /\ c[j] = b[j - m]
        BY <1>1, <2>3
      <3>2. a[i] \in ToSet(a) /\ b[j - m] \in ToSet(b)
        BY <1>1, <3>1 DEF ToSet
      <3>3. QED
        BY <3>1, <3>2
    <2>4. QED
      BY <1>1, <2>1, <2>2, <2>3
  <1>3. QED
    BY <1>1, <1>2 DEF Chain, c

LEMMA ChainAppend ==
  ASSUME NEW S, NEW s \in Seq(S), NEW e \in S, NEW R, Chain(s, R), \A x \in ToSet(s) : <<x, e>> \in R
  PROVE  Chain(Append(s, e), R)
  <1>1. Append(s, e) = s \o <<e>> /\ <<e>> \in Seq(S) /\ ToSet(<<e>>) = {e} /\ Chain(<<e>>, R)
    BY DEF ToSet, Chain
  <1>2. QED
    BY <1>1, ChainConcat

LEMMA ChainFlatten ==
  ASSUME NEW S, NEW seqs \in Seq(Seq(S)), NEW R,
         \A i \in DOMAIN seqs : Chain(seqs[i], R),
         \A i, j \in DOMAIN seqs : i < j => \A x \in ToSet(seqs[i]), y \in ToSet(seqs[j]) : <<x, y>> \in R
  PROVE  Chain(FlattenSeq(seqs), R)
  <1>1. PICK trace \in [0..Len(seqs) -> Seq(S)] : Flattening(trace, seqs)
    BY FlattenTrace
  <1> DEFINE n == Len(seqs)
             Before(m) == \A x \in ToSet(trace[m]) : \E i \in 1..m : x \in ToSet(seqs[i])
             good == {m \in 0..n : Chain(trace[m], R) /\ Before(m)}
  <1>2. n \in Nat /\ DOMAIN seqs = 1..n
    OBVIOUS
  <1>3. 0 \in good
    BY <1>1, <1>2 DEF Flattening, ToSet, Chain
  <1>4. ASSUME NEW m \in 0..n-1, m \in good PROVE m + 1 \in good
    <2>1. m + 1 \in 1..n /\ m \in 0..n /\ (m + 1) - 1 = m /\ m + 1 \in 0..n
      BY <1>2
    <2>2. trace[m + 1] = trace[m] \o seqs[m + 1]
      <3>1. trace[m + 1] = trace[(m + 1) - 1] \o seqs[m + 1]
        BY <1>1, <2>1 DEF Flattening
      <3>2. QED
        BY <2>1, <3>1
    <2>3. trace[m] \in Seq(S) /\ seqs[m + 1] \in Seq(S)
      <3> HIDE DEF n
      <3>1. trace \in [0..n -> Seq(S)] /\ seqs \in [1..n -> Seq(S)]
        BY <1>2 DEF n
      <3>2. QED
        BY <2>1, <3>1
    <2>4. ToSet(trace[m + 1]) = ToSet(trace[m]) \union ToSet(seqs[m + 1])
      BY <2>2, <2>3, ToSetConcat
    <2>5. \A i \in 1..m : i \in 1..m+1 /\ i \in 1..n /\ i < m + 1
      BY <2>1
    <2>6. Before(m) /\ Chain(trace[m], R)
      BY <1>4
    <2>7. \A x \in ToSet(trace[m]), y \in ToSet(seqs[m + 1]) : <<x, y>> \in R
      BY <1>2, <2>1, <2>5, <2>6
    <2>8. Chain(trace[m + 1], R)
      <3>1. Chain(seqs[m + 1], R)
        BY <1>2, <2>1
      <3>2. Chain(trace[m] \o seqs[m + 1], R)
        BY <2>3, <2>6, <2>7, <3>1, ChainConcat
      <3>3. QED
        BY <2>2, <3>2
    <2>9. Before(m + 1)
      <3>1. m + 1 \in 1..m+1
        BY <2>1
      <3>2. QED
        BY <2>4, <2>5, <2>6, <3>1
    <2> HIDE DEF Before
    <2>10. QED
      BY <2>1, <2>8, <2>9
  <1>5. n \in good
    <2> HIDE DEF good
    <2>1. \A m \in 0..n : m \in good
      BY <1>2, <1>3, <1>4, Induction
    <2>2. QED
      BY <1>2, <2>1
  <1>6. QED
    BY <1>1, <1>5 DEF Flattening

-----------------------------------------------------------------------------
(* A sequence that was put behind others is a suffix of the result. *)
LEMMA SuffixOfConcat ==
  ASSUME NEW S, NEW a \in Seq(S), NEW b \in Seq(S), NEW c \in Seq(S)
  PROVE  IsSuffix(c, a \o (b \o c)) /\ IsSuffix(c, b \o c)
  <1>1. ASSUME NEW x \in Seq(S) PROVE IsSuffix(c, x \o c)
    <2> DEFINE m == Len(x)
               n == Len(c)
               s == x \o c
    <2>1. /\ m \in Nat /\ n \in Nat /\ s \in Seq(S) /\ Len(s) = m + n
          /\ \A i \in 1..n : s[(m + n - i) + 1] = c[(n - i) + 1]
      <3>1. \A j \in 1..m+n : j > m => s[j] = c[j - m]
        OBVIOUS
      <3>2. m \in Nat /\ n \in Nat
        OBVIOUS
      <3> HIDE DEF m, n, s
      <3>3. ASSUME NEW i \in 1..n PROVE s[(m + n - i) + 1] = c[(n - i) + 1]
        <4> DEFINE j == (m + n - i) + 1
        <4>1. j \in 1..m+n /\ j > m /\ j - m = (n - i) + 1
          BY <3>3, <3>2
        <4> HIDE DEF j
        <4>2. s[j] = c[j - m]
          BY <3>1, <4>1
        <4>3. QED
          BY <4>1, <4>2 DEF j
      <3>4. QED
        BY <3>3 DEF m, n, s
    <2> HIDE DEF m, s, n
    <2>2. Reverse(c) = [i \in 1..n |-> c[(n - i) + 1]] /\ Reverse(s) = [i \in 1..m+n |-> s[(m + n - i) + 1]]
      BY <2>1 DEF Reverse, n
    <2>3. /\ Reverse(c) \in Seq(S) /\ Len(Reverse(c)) = n
          /\ Reverse(s) \in Seq(S) /\ Len(Reverse(s)) = m + n
      <3>1. \A i \in 1..n : c[(n - i) + 1] \in S
        <4>1. \A i \in 1..n : (n - i) + 1 \in 1..n
          BY <2>1
        <4>2. \A i \in 1..n : c[i] \in S
          BY DEF n
        <4>3. QED
          BY <4>1, <4>2
      <3>2. \A i \in 1..m+n : s[(m + n - i) + 1] \in S
        <4>1. \A i \in 1..m+n : (m + n - i) + 1 \in 1..m+n
          BY <2>1
        <4>2. \A i \in 1..m+n : s[i] \in S
          BY <2>1
        <4>3. QED
          BY <4>1, <4>2
      <3>3. QED
        BY <2>1, <2>2, <3>1, <3>2
    <2>4. \A i \in 1..n : Reverse(c)[i] = Reverse(s)[i]
      <3>1. \A i \in 1..n : i \in 1..m+n
        BY <2>1
      <3>2. QED
        BY <2>1, <2>2, <3>1
    <2> DEFINE rc == Reverse(c)
               rs == Reverse(s)
    <2> HIDE DEF rc, rs
    <2>5. SubSeq(rc, 1, n) = SubSeq(rs, 1, n)
      <3>1. rc \in Seq(S) /\ rs \in Seq(S) /\ Len(rc) = n /\ Len(rs) = m + n /\ \A i \in 1..n : rc[i] = rs[i]
        BY <2>3, <2>4 DEF rc, rs
      <3>2. QED
        BY <2>1, <3>1
    <2>6. QED
      BY <2>1, <2>3, <2>5 DEF IsSuffix, IsPrefix, rc, rs, s, n
  <1>2. a \o (b \o c) = (a \o b) \o c /\ a \o b \in Seq(S)
    OBVIOUS
  <1>3. QED
    BY <1>1, <1>2

LEMMA EndIsSuffix ==
  ASSUME NEW S, NEW s \in Seq(S), NEW k \in 1..Len(s)+1
  PROVE  IsSuffix(SubSeq(s, k, Len(s)), s)
  <1> DEFINE n == Len(s)
             a == SubSeq(s, 1, k - 1)
             b == SubSeq(s, k, n)
  <1>1. /\ n \in Nat /\ a \in Seq(S) /\ b \in Seq(S) /\ Len(a) = k - 1 /\ Len(b) = (n - k) + 1
        /\ \A i \in 1..k-1 : a[i] = s[i]
        /\ \A i \in 1..(n-k)+1 : b[i] = s[(k - 1) + i]
    OBVIOUS
  <1> HIDE DEF a, b
  <1> DEFINE c == a \o b
  <1>2. /\ c \in Seq(S) /\ Len(c) = n
        /\ \A i \in 1..k-1 : c[i] = a[i]
        /\ \A i \in 1..(n-k)+1 : c[(k - 1) + i] = b[i]
    <2>1. Len(c) = n /\ Len(a) = k - 1 /\ Len(b) = (n - k) + 1
      BY <1>1
    <2>2. /\ c \in Seq(S)
          /\ \A i \in 1..Len(a) : c[i] = a[i]
          /\ \A i \in 1..Len(b) : c[Len(a) + i] = b[i]
      BY <1>1, ToSetConcat
    <2>3. QED
      BY <2>1, <2>2
  <1> HIDE DEF c
  <1>3. \A i \in 1..n : c[i] = s[i]
    <2>1. TAKE i \in 1..n
    <2>2. CASE i <= k - 1
      BY <1>1, <1>2, <2>2
    <2>3. CASE ~(i <= k - 1)
      <3>1. i - (k - 1) \in 1..(n-k)+1 /\ (k - 1) + (i - (k - 1)) = i
        BY <1>1, <2>3
      <3> DEFINE l == i - (k - 1)
      <3>2. l \in 1..(n-k)+1 /\ (k - 1) + l = i
        BY <3>1
      <3> HIDE DEF l
      <3>3. c[(k - 1) + l] = b[l] /\ b[l] = s[(k - 1) + l]
        BY <1>1, <1>2, <3>2
      <3>4. QED
        BY <3>2, <3>3
    <2>4. QED
      BY <2>2, <2>3
  <1>4. c = s
    BY <1>2, <1>3
  <1>5. IsSuffix(b, a \o b)
    <2>1. <<>> \in Seq(S) /\ <<>> \o b = b
      BY <1>1
    <2>2. QED
      BY <1>1, <2>1, SuffixOfConcat
  <1>6. QED
    BY <1>4, <1>5 DEF b, c

(* Selecting all but the first elements. *)
LEMMA SelectedEnd ==
  ASSUME NEW S, NEW s \in Seq(S), NEW K, NEW j \in 0..Len(s),
         \A i \in 1..j : s[i] \notin K, \A i \in j+1..Len(s) : s[i] \in K
  PROVE  Selected(s, K) = SubSeq(s, j + 1, Len(s))
  <1>1. PICK trace \in [0..Len(s) -> Seq(S)] : Selecting(trace, s, K)
    BY SelectedTrace
  <1> DEFINE n == Len(s)
             good == {i \in 0..n : trace[i] = SubSeq(s, j + 1, i)}
  <1>2. n \in Nat /\ s \in [1..n -> S] /\ j \in 0..n
    OBVIOUS
  <1>3. 0 \in good
    <2>1. SubSeq(s, j + 1, 0) = <<>>
      OBVIOUS
    <2>2. QED
      BY <1>1, <1>2, <2>1 DEF Selecting
  <1>4. ASSUME NEW i \in 0..n-1, i \in good PROVE i + 1 \in good
    <2>1. i + 1 \in 1..n /\ (i + 1) - 1 = i /\ i + 1 \in 0..n
      BY <1>2
    <2>2. trace[i + 1] = IF s[i + 1] \in K THEN Append(trace[i], s[i + 1]) ELSE trace[i]
      <3>1. trace[i + 1] = IF s[i + 1] \in K THEN Append(trace[(i + 1) - 1], s[i + 1]) ELSE trace[(i + 1) - 1]
        BY <1>1, <2>1 DEF Selecting
      <3>2. QED
        BY <2>1, <3>1
    <2>3. trace[i] = SubSeq(s, j + 1, i)
      BY <1>4
    <2>4. CASE i + 1 <= j
      <3>1. s[i + 1] \notin K
        BY <2>1, <2>4
      <3>2. SubSeq(s, j + 1, i) = <<>> /\ SubSeq(s, j + 1, i + 1) = <<>>
        BY <1>2, <2>4
      <3>3. QED
        BY <2>1, <2>2, <2>3, <3>1, <3>2
    <2>5. CASE ~(i + 1 <= j)
      <3>1. s[i + 1] \in K
        BY <1>2, <2>1, <2>5
      <3>2. Append(SubSeq(s, j + 1, i), s[i + 1]) = SubSeq(s, j + 1, i + 1)
        <4> DEFINE a == SubSeq(s, j + 1, i)
                   b == SubSeq(s, j + 1, i + 1)
                   m == i - j
                   e == s[i + 1]
        <4>1. /\ a \in Seq(S) /\ b \in Seq(S) /\ Len(a) = m /\ Len(b) = m + 1 /\ m \in Nat
              /\ \A l \in 1..m : a[l] = s[j + l]
              /\ \A l \in 1..m+1 : b[l] = s[j + l]
              /\ j + (m + 1) = i + 1
          BY <1>2, <2>1, <2>5
        <4> HIDE DEF a, b, m
        <4>2. e \in S /\ e = s[j + (m + 1)]
          BY <1>2, <2>1, <4>1
        <4> HIDE DEF e
        <4> DEFINE c == Append(a, e)
        <4>3. /\ c \in Seq(S) /\ Len(c) = m + 1
              /\ \A l \in 1..m : c[l] = a[l]
              /\ c[m + 1] = e
          <5>1. c \in Seq(S) /\ Len(c) = m + 1
            BY <4>1, <4>2
          <5>2. (\A l \in 1..Len(a) : c[l] = a[l]) /\ c[Len(a) + 1] = e
            BY <4>1, <4>2, ToSetAppend
          <5>3. QED
            BY <4>1, <5>1, <5>2
        <4> HIDE DEF c
        <4>4. \A l \in 1..m+1 : c[l] = b[l]
          BY <4>1, <4>2, <4>3
        <4>5. c = b
          BY <4>1, <4>3, <4>4
        <4>6. QED
          BY <4>5 DEF a, b, c, e
      <3>3. QED
        BY <2>1, <2>2, <2>3, <3>1, <3>2
    <2>6. QED
      BY <2>4, <2>5
  <1>5. n \in good
    <2> HIDE DEF good
    <2>1. \A i \in 0..n : i \in good
      BY <1>2, <1>3, <1>4, Induction
    <2>2. QED
      BY <1>2, <2>1
  <1>6. QED
    BY <1>1, <1>5 DEF Selecting
=============================================================================
