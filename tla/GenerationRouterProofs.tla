------------------------ MODULE GenerationRouterProofs ------------------------
(***************************************************************************)
(* The two-slot router implements the provider chain, for any number of    *)
(* concurrent requests, with or without a fallback, and so the theorems    *)
(* about the chain are theorems about the router.                          *)
(***************************************************************************)
EXTENDS GenerationRouter, TLAPS

Length == IF FallbackEnabled THEN 2 ELSE 1
Fits == [r \in Requests |-> IF pc[r] = "idle" THEN {} ELSE Slots]

LEMMA SlotsAre ==
    /\ Slots = 1..Length /\ Chain!Providers = Slots
    /\ Primary \in Slots /\ (FallbackEnabled <=> Secondary \in Slots)
    /\ Slots \in (SUBSET Slots) \ {{}}
  <1>1. CASE FallbackEnabled
    <2>1. Length = 2 /\ Slots = {1, 2} /\ 1..2 = {1, 2}
      BY <1>1 DEF Length, Slots, Primary, Secondary
    <2>2. QED
      BY <1>1, <2>1 DEF Length, Chain!Providers, Primary, Secondary
  <1>2. CASE ~FallbackEnabled
    <2>1. Length = 1 /\ Slots = {1} /\ 1..1 = {1}
      BY <1>2 DEF Length, Slots, Primary, Secondary
    <2>2. QED
      BY <1>2, <2>1 DEF Length, Chain!Providers, Primary, Secondary
  <1>3. QED
    BY <1>1, <1>2

(* The breakers of the chain are the breakers of the router. *)
LEMMA SameBreaker ==
    /\ Fresh = Chain!Fresh
    /\ \A b : /\ IsOpen(b) <=> Chain!IsOpen(b)
              /\ OnSuccess(b) = Chain!OnSuccess(b)
              /\ OnFailure(b) = Chain!OnFailure(b)
              /\ Cool(b) = Chain!Cool(b)
  <1>1. Fresh = Chain!Fresh
    BY DEF Fresh, Chain!Fresh
  <1>2. ASSUME NEW b PROVE IsOpen(b) <=> Chain!IsOpen(b)
    BY DEF IsOpen, Chain!IsOpen
  <1>3. ASSUME NEW b PROVE OnSuccess(b) = Chain!OnSuccess(b)
    BY DEF OnSuccess, Chain!OnSuccess
  <1>4. ASSUME NEW b PROVE OnFailure(b) = Chain!OnFailure(b)
    BY DEF OnFailure, Chain!OnFailure, AddFailure, Chain!AddFailure
  <1>5. ASSUME NEW b PROVE Cool(b) = Chain!Cool(b)
    BY DEF Cool, Chain!Cool
  <1>6. QED
    BY <1>1, <1>2, <1>3, <1>4, <1>5

-----------------------------------------------------------------------------
(* The inductive invariant: the slots of a request are what they claim to  *)
(* be, and whoever reads a stream has given up on the slots before it.     *)
PCs == {"idle", "trying", "streaming", "answered", "failed"}

Shape ==
    /\ pc \in [Requests -> PCs]
    /\ slot \in [Requests -> Slots]
    /\ skipped \in [Requests -> SUBSET Slots]

Behind ==
    \A r \in Requests :
        pc[r] \in {"trying", "streaming"} => skipped[r] = IF slot[r] = Primary THEN {} ELSE {Primary}

IInv == Shape /\ Behind

LEMMA InitIInv == Init => IInv
  BY SlotsAre DEF Init, IInv, Shape, Behind, PCs

(* Every way a request moves keeps both parts. *)
LEMMA MoveIInv ==
    ASSUME IInv, NEW r \in Requests, NEW p \in PCs, NEW s \in Slots, NEW b \in SUBSET Slots,
           p \in {"trying", "streaming"} => b = IF s = Primary THEN {} ELSE {Primary},
           pc' = [pc EXCEPT ![r] = p],
           slot' = [slot EXCEPT ![r] = s],
           skipped' = [skipped EXCEPT ![r] = b]
    PROVE  IInv'
  <1>1. Shape'
    BY DEF IInv, Shape
  <1>2. Behind'
    <2> SUFFICES ASSUME NEW q \in Requests, pc'[q] \in {"trying", "streaming"}
                 PROVE  skipped'[q] = IF slot'[q] = Primary THEN {} ELSE {Primary}
      BY DEF Behind
    <2>1. CASE q = r
      BY <2>1 DEF IInv, Shape
    <2>2. CASE q # r
      BY <2>2 DEF IInv, Shape, Behind
    <2>3. QED
      BY <2>1, <2>2
  <1>3. QED
    BY <1>1, <1>2 DEF IInv

LEMMA StayIInv == ASSUME IInv, UNCHANGED <<pc, slot, skipped>> PROVE IInv'
  BY DEF IInv, Shape, Behind

LEMMA FallBackIInv ==
    ASSUME IInv, NEW r \in Requests, NEW b, FallBack(r, b) PROVE IInv'
  <1>1. CASE FallbackEnabled /\ Opens(r, Secondary, {Primary})
    <2>1. Secondary \in Slots /\ {Primary} \in SUBSET Slots /\ Primary # Secondary
      BY <1>1, SlotsAre DEF Primary, Secondary
    <2>2. QED
      BY <1>1, <2>1, MoveIInv DEF Opens, PCs
  <1>2. CASE Leaves(r, "failed") /\ skipped' = [skipped EXCEPT ![r] = Slots] /\ UNCHANGED slot
    <2>1. slot[r] \in Slots /\ slot' = [slot EXCEPT ![r] = slot[r]]
      BY <1>2 DEF IInv, Shape
    <2>2. QED
      BY <1>2, <2>1, MoveIInv DEF Leaves, PCs
  <1>3. QED
    BY <1>1, <1>2 DEF FallBack

(* A request that leaves its slot as it is and has given up on no other. *)
LEMMA LeaveIInv ==
    ASSUME IInv, NEW r \in Requests, NEW p \in PCs, Leaves(r, p), UNCHANGED <<slot, skipped>>,
           p \in {"trying", "streaming"} => pc[r] \in {"trying", "streaming"}
    PROVE  IInv'
  <1>1. slot[r] \in Slots /\ slot' = [slot EXCEPT ![r] = slot[r]]
    BY DEF IInv, Shape
  <1>2. skipped[r] \in SUBSET Slots /\ skipped' = [skipped EXCEPT ![r] = skipped[r]]
    BY DEF IInv, Shape
  <1>3. p \in {"trying", "streaming"} => skipped[r] = IF slot[r] = Primary THEN {} ELSE {Primary}
    BY DEF IInv, Behind
  <1>4. QED
    BY <1>1, <1>2, <1>3, MoveIInv DEF Leaves

LEMMA NextIInv == IInv /\ [Next]_vars => IInv'
  <1> SUFFICES ASSUME IInv, [Next]_vars PROVE IInv'
    OBVIOUS
  <1>1. ASSUME NEW r \in Requests, Begin(r) PROVE IInv'
    <2>1. CASE Opens(r, Primary, {})
      BY <2>1, SlotsAre, MoveIInv DEF Opens, PCs
    <2>2. CASE FallBack(r, breaker)
      BY <2>2, FallBackIInv
    <2>3. QED
      BY <1>1, <2>1, <2>2 DEF Begin
  <1>2. ASSUME NEW r \in Requests, FirstToken(r) PROVE IInv'
    BY <1>2, LeaveIInv DEF FirstToken, PCs
  <1>3. ASSUME NEW r \in Requests, StreamEnds(r) PROVE IInv'
    BY <1>3, LeaveIInv DEF StreamEnds, PCs
  <1>4. ASSUME NEW r \in Requests, PrimaryFails(r) PROVE IInv'
    <2>1. CASE FallBack(r, breaker')
      BY <2>1, FallBackIInv
    <2>2. CASE Leaves(r, "failed") /\ UNCHANGED <<slot, skipped>>
      BY <2>2, LeaveIInv DEF PCs
    <2>3. QED
      BY <1>4, <2>1, <2>2 DEF PrimaryFails
  <1>5. ASSUME NEW r \in Requests, FallbackFails(r) PROVE IInv'
    <2> DEFINE behind == IF pc[r] = "trying" THEN Slots ELSE skipped[r]
    <2>1. slot[r] \in Slots /\ slot' = [slot EXCEPT ![r] = slot[r]] /\ behind \in SUBSET Slots
      BY <1>5 DEF FallbackFails, IInv, Shape
    <2>2. skipped' = [skipped EXCEPT ![r] = behind] /\ Leaves(r, "failed")
      BY <1>5 DEF FallbackFails
    <2>3. QED
      BY <2>1, <2>2, MoveIInv DEF Leaves, PCs
  <1>6. ASSUME NEW r \in Requests, ConsumerGone(r) PROVE IInv'
    BY <1>6, LeaveIInv DEF ConsumerGone, PCs
  <1>7. ASSUME NEW s \in Slots, TimePasses(s) \/ HealthChanges(s) PROVE IInv'
    BY <1>7, StayIInv DEF TimePasses, HealthChanges
  <1>8. CASE UNCHANGED vars
    BY <1>8, StayIInv DEF vars
  <1>9. QED
    BY <1>1, <1>2, <1>3, <1>4, <1>5, <1>6, <1>7, <1>8 DEF Next

-----------------------------------------------------------------------------
(* The refinement. *)
LEMMA InitRefines == Init => Chain!Init
  <1> SUFFICES ASSUME Init PROVE Chain!Init
    OBVIOUS
  <1>1. Fits = [r \in Requests |-> {}]
    BY DEF Fits, Init
  <1>2. QED
    BY <1>1, SlotsAre, SameBreaker DEF Init, Chain!Init, Fits, Primary

LEMMA FitsStay ==
    ASSUME IInv, NEW r \in Requests, NEW p \in PCs, p # "idle", pc[r] # "idle",
           pc' = [pc EXCEPT ![r] = p]
    PROVE  Fits' = Fits
  BY DEF IInv, Shape, Fits

LEMMA FitsBegin ==
    ASSUME IInv, NEW r \in Requests, NEW p \in PCs, p # "idle", pc' = [pc EXCEPT ![r] = p]
    PROVE  Fits' = [Fits EXCEPT ![r] = Slots]
  BY DEF IInv, Shape, Fits

(* _stream_fallback is what is left of the chain behind the primary. *)
LEMMA FallBackAdvances ==
    ASSUME IInv, NEW r \in Requests, NEW b, FallBack(r, b), NEW behind,
           NEW from \in {1, 2}, from = 2 => behind = {Primary},
           from = 1 => behind = {} /\ IsOpen(b[Primary])
    PROVE  Chain!Advance(r, behind, from, Slots, b)
  <1> DEFINE usable == {p \in from..Length : ~Chain!IsOpen(b[p]) /\ p \in Slots}
  <1>1. CASE FallbackEnabled /\ ~IsOpen(b[Secondary]) /\ Opens(r, Secondary, {Primary})
    <2>1. Length = 2 /\ Slots = {1, 2}
      BY <1>1 DEF Length, Slots, Primary, Secondary
    <2>2. usable = {2}
      BY <1>1, <2>1, SameBreaker DEF Primary, Secondary
    <2>3. behind \union from..2 - 1 = {Primary}
      BY DEF Primary
    <2>4. /\ pc' = [pc EXCEPT ![r] = "trying"]
          /\ slot' = [slot EXCEPT ![r] = 2]
          /\ skipped' = [skipped EXCEPT ![r] = behind \union from..2 - 1]
      BY <1>1, <2>3 DEF Opens, Secondary
    <2>5. 2 \in usable /\ \A q \in usable : 2 <= q
      BY <2>2
    <2>6. \E p \in usable :
            /\ \A q \in usable : p <= q
            /\ pc' = [pc EXCEPT ![r] = "trying"]
            /\ slot' = [slot EXCEPT ![r] = p]
            /\ skipped' = [skipped EXCEPT ![r] = behind \union from..p - 1]
      <3> HIDE DEF usable
      <3>1. QED
        BY <2>4, <2>5
    <2>7. QED
      BY <2>6, Zenon DEF Chain!Advance, Length
  <1>2. CASE /\ FallbackEnabled => IsOpen(b[Secondary])
             /\ Leaves(r, "failed") /\ skipped' = [skipped EXCEPT ![r] = Slots] /\ UNCHANGED slot
    <2>1. usable = {}
      BY <1>2, SameBreaker DEF Length, Primary, Secondary
    <2>2. behind \union from..Length = Slots
      BY SlotsAre DEF Length, Primary
    <2>3. QED
      BY <1>2, <2>1, <2>2 DEF Chain!Advance, Leaves, Length
  <1>3. QED
    BY <1>1, <1>2 DEF FallBack

LEMMA BeginRefines == ASSUME IInv, NEW r \in Requests, Begin(r) PROVE Chain!Start(r)
  <1>1. PICK next \in PCs : next # "idle" /\ pc' = [pc EXCEPT ![r] = next]
    BY DEF Begin, FallBack, Opens, Leaves, PCs
  <1>2. Fits' = [Fits EXCEPT ![r] = Slots]
    BY <1>1, FitsBegin
  <1>3. Chain!Advance(r, {}, 1, Slots, breaker)
    <2>1. CASE ~IsOpen(breaker[Primary]) /\ Opens(r, Primary, {})
      <3> DEFINE usable == {p \in 1..Length : ~Chain!IsOpen(breaker[p]) /\ p \in Slots}
      <3>1. Primary = 1 /\ 1 \in 1..Length
        BY SlotsAre DEF Primary
      <3>2. 1 \in usable /\ \A q \in usable : 1 <= q
        BY <2>1, <3>1, SlotsAre, SameBreaker DEF Length
      <3>3. /\ pc' = [pc EXCEPT ![r] = "trying"]
            /\ slot' = [slot EXCEPT ![r] = 1]
            /\ skipped' = [skipped EXCEPT ![r] = {} \union 1..1 - 1]
        BY <2>1, <3>1 DEF Opens
      <3>4. \E p \in usable :
              /\ \A q \in usable : p <= q
              /\ pc' = [pc EXCEPT ![r] = "trying"]
              /\ slot' = [slot EXCEPT ![r] = p]
              /\ skipped' = [skipped EXCEPT ![r] = {} \union 1..p - 1]
        <4> HIDE DEF usable
        <4>1. QED
          BY <3>2, <3>3
      <3>5. QED
        BY <3>4, Zenon DEF Chain!Advance, Length
    <2>2. CASE IsOpen(breaker[Primary]) /\ FallBack(r, breaker)
      BY <2>2, FallBackAdvances
    <2>3. QED
      BY <2>1, <2>2 DEF Begin
  <1>4. Slots \in (SUBSET Chain!Providers) \ {{}}
    BY SlotsAre
  <1>5. QED
    BY <1>2, <1>3, <1>4 DEF Begin, Chain!Start, Fits

(* Reading a stream keeps what the chain takes for the fitting providers.  *)
LEMMA ReadRefines ==
    ASSUME IInv, NEW r \in Requests
    PROVE  /\ FirstToken(r) => Chain!FirstToken(r)
           /\ StreamEnds(r) => Chain!StreamEnds(r)
           /\ ConsumerGone(r) => Chain!ConsumerGone(r)
  <1>1. ASSUME NEW p \in PCs, p # "idle", pc[r] \in {"trying", "streaming"}, Leaves(r, p)
        PROVE  Fits' = Fits
    BY <1>1, FitsStay DEF Leaves
  <1>2. ASSUME FirstToken(r) PROVE Chain!FirstToken(r)
    <2>1. Fits' = Fits
      BY <1>1, <1>2 DEF FirstToken, PCs
    <2>2. QED
      BY <1>2, <2>1, SameBreaker DEF FirstToken, Chain!FirstToken, Leaves, Fits
  <1>3. ASSUME StreamEnds(r) PROVE Chain!StreamEnds(r)
    <2>1. Fits' = Fits
      BY <1>1, <1>3 DEF StreamEnds, PCs
    <2>2. QED
      BY <1>3, <2>1 DEF StreamEnds, Chain!StreamEnds, Leaves, Fits
  <1>4. ASSUME ConsumerGone(r) PROVE Chain!ConsumerGone(r)
    <2>1. Fits' = Fits
      BY <1>1, <1>4 DEF ConsumerGone, PCs
    <2>2. QED
      BY <1>4, <2>1 DEF ConsumerGone, Chain!ConsumerGone, Leaves, Fits
  <1>5. QED
    BY <1>2, <1>3, <1>4

LEMMA PrimaryRefines ==
    ASSUME IInv, NEW r \in Requests, PrimaryFails(r) PROVE Chain!ProviderFails(r)
  <1>1. /\ pc[r] \in {"trying", "streaming"} /\ slot[r] = 1 /\ slot[r] \in sick
        /\ breaker' = [breaker EXCEPT ![slot[r]] = Chain!OnFailure(@)]
        /\ streak' = [streak EXCEPT ![slot[r]] = 0]
        /\ UNCHANGED <<sick, spoke>>
    BY SameBreaker DEF PrimaryFails, Counted, Primary
  <1>2. PICK next \in PCs : next # "idle" /\ pc' = [pc EXCEPT ![r] = next]
    BY DEF PrimaryFails, FallBack, Opens, Leaves, PCs
  <1>3. Fits' = Fits /\ Fits[r] = Slots
    BY <1>1, <1>2, FitsStay DEF Fits
  <1>4. CASE pc[r] = "trying" /\ FallBack(r, breaker')
    <2>1. skipped[r] \union {slot[r]} = {Primary}
      BY <1>1, <1>4 DEF IInv, Behind, Primary
    <2>2. Chain!Advance(r, skipped[r] \union {slot[r]}, 2, Slots, breaker')
      BY <1>4, <2>1, FallBackAdvances
    <2>3. Chain!Advance(r, skipped[r] \union {slot[r]}, slot[r] + 1, Fits[r], breaker')
      BY <1>1, <1>3, <2>2
    <2>4. QED
      BY <1>1, <1>3, <1>4, <2>3 DEF Chain!ProviderFails, Fits
  <1>5. CASE pc[r] = "streaming" /\ Leaves(r, "failed") /\ UNCHANGED <<slot, skipped>>
    BY <1>1, <1>3, <1>5 DEF Chain!ProviderFails, Fits, Leaves
  <1>6. QED
    BY <1>4, <1>5 DEF PrimaryFails

LEMMA FallbackRefines ==
    ASSUME IInv, NEW r \in Requests, FallbackFails(r) PROVE Chain!ProviderFails(r)
  <1>1. /\ pc[r] \in {"trying", "streaming"} /\ slot[r] = 2 /\ slot[r] \in sick
        /\ breaker' = [breaker EXCEPT ![slot[r]] = Chain!OnFailure(@)]
        /\ streak' = [streak EXCEPT ![slot[r]] = 0]
        /\ pc' = [pc EXCEPT ![r] = "failed"]
        /\ UNCHANGED <<sick, slot, spoke>>
    BY SameBreaker DEF FallbackFails, Counted, Secondary, Leaves
  <1>2. Length = 2 /\ Slots = {1, 2}
    BY <1>1 DEF IInv, Shape, Length, Slots, Primary, Secondary
  <1>3. Fits' = Fits /\ Fits[r] = Slots
    BY <1>1, FitsStay DEF Fits, PCs
  <1>4. CASE pc[r] = "trying"
    <2>1. skipped[r] \union {slot[r]} \union 3..2 = Slots
      BY <1>1, <1>2, <1>4 DEF IInv, Behind, Primary
    <2>2. {p \in 3..2 : ~Chain!IsOpen(breaker'[p]) /\ p \in Slots} = {}
      OBVIOUS
    <2>3. skipped' = [skipped EXCEPT ![r] = skipped[r] \union {slot[r]} \union 3..2]
      BY <1>4, <2>1 DEF FallbackFails
    <2>4. Chain!Advance(r, skipped[r] \union {slot[r]}, 3, Slots, breaker')
      BY <1>1, <1>2, <2>2, <2>3 DEF Chain!Advance, Length
    <2>5. Chain!Advance(r, skipped[r] \union {slot[r]}, slot[r] + 1, Fits[r], breaker')
      BY <1>1, <1>3, <2>4
    <2>6. QED
      BY <1>1, <1>3, <1>4, <2>5 DEF Chain!ProviderFails, Fits
  <1>5. CASE pc[r] = "streaming"
    <2>1. skipped' = skipped
      BY <1>5 DEF FallbackFails, IInv, Shape
    <2>2. QED
      BY <1>1, <1>3, <1>5, <2>1 DEF Chain!ProviderFails, Fits
  <1>6. QED
    BY <1>1, <1>4, <1>5

LEMMA EnvironmentRefines ==
    ASSUME NEW s \in Slots
    PROVE  /\ TimePasses(s) => Chain!TimePasses(s)
           /\ HealthChanges(s) => Chain!HealthChanges(s)
  BY SameBreaker DEF TimePasses, HealthChanges, Chain!TimePasses, Chain!HealthChanges

LEMMA StepRefines == IInv /\ [Next]_vars => [Chain!Next]_Chain!vars
  <1> SUFFICES ASSUME IInv, [Next]_vars PROVE [Chain!Next]_Chain!vars
    OBVIOUS
  <1>1. ASSUME NEW r \in Requests,
               \/ Begin(r) \/ FirstToken(r) \/ StreamEnds(r)
               \/ PrimaryFails(r) \/ FallbackFails(r) \/ ConsumerGone(r)
        PROVE  Chain!Next
    BY <1>1, BeginRefines, ReadRefines, PrimaryRefines, FallbackRefines
       DEF Chain!Next, Chain!RequestStep
  <1>2. ASSUME NEW s \in Slots, TimePasses(s) \/ HealthChanges(s) PROVE Chain!Next
    BY <1>2, SlotsAre, EnvironmentRefines DEF Chain!Next
  <1>3. CASE UNCHANGED vars
    BY <1>3 DEF vars, Chain!vars
  <1>4. QED
    BY <1>1, <1>2, <1>3 DEF Next

(* GenerationRouter.generate_stream is ProviderChain.generate_stream with  *)
(* one or two providers: what is proved of the chain holds of the router.  *)
THEOREM RouterImplementsChain == Spec => RouterIsChain
  <1>1. Spec => []IInv
    BY InitIInv, NextIInv, PTL DEF Spec
  <1>2. QED
    BY <1>1, InitRefines, StepRefines, PTL DEF Spec, RouterIsChain, Chain!Spec

-----------------------------------------------------------------------------
(* The chain of the refinement mapping, with what is proved of it.         *)
Proven == INSTANCE ProviderChainProofs WITH
    Last <- IF FallbackEnabled THEN 2 ELSE 1,
    at <- slot,
    fits <- [r \in Requests |-> IF pc[r] = "idle" THEN {} ELSE Slots]

LEMMA ProvenInit == Chain!Init => Proven!Init
  BY DEF Chain!Init, Proven!Init, Chain!Providers, Proven!Providers, Chain!Fresh, Proven!Fresh

LEMMA ProvenStep == [Chain!Next]_Chain!vars => [Proven!Next]_Proven!vars
  BY DEF Chain!vars, Chain!Next, Chain!RequestStep, Chain!Start, Chain!FirstToken, Chain!StreamEnds,
         Chain!ProviderFails, Chain!ConsumerGone, Chain!TimePasses, Chain!HealthChanges,
         Chain!Advance, Chain!Providers, Chain!IsOpen, Chain!OnSuccess, Chain!OnFailure,
         Chain!AddFailure, Chain!Cool,
         Proven!vars, Proven!Next, Proven!RequestStep, Proven!Start, Proven!FirstToken, Proven!StreamEnds,
         Proven!ProviderFails, Proven!ConsumerGone, Proven!TimePasses, Proven!HealthChanges,
         Proven!Advance, Proven!Providers, Proven!IsOpen, Proven!OnSuccess, Proven!OnFailure,
         Proven!AddFailure, Proven!Cool

LEMMA RouterIsProven == Spec => Proven!Spec
  BY RouterImplementsChain, ProvenInit, ProvenStep, PTL DEF RouterIsChain, Chain!Spec, Proven!Spec

(* One provider or two: what ProviderChain assumes. *)
LEMMA SomeProvider == Proven!ChainOK
  BY DEF Proven!ChainOK

(* GenerationRouter's state: the chain's, whose `at' is the slot.          *)
THEOREM RouterTypeCorrect == Spec => []TypeOK
  <1>1. Proven!Spec => []Proven!TypeOK
    BY SomeProvider, ThresholdsOK, Proven!ChainTypeCorrect
  <1>2. Proven!TypeOK => TypeOK
    <2> SUFFICES ASSUME Proven!TypeOK PROVE TypeOK
      OBVIOUS
    <2>1. Proven!Providers = Slots /\ Proven!Breakers = Breakers
      BY SlotsAre DEF Proven!Providers, Chain!Providers, Proven!Breakers, Breakers, Proven!States, States
    <2>2. QED
      BY <2>1 DEF TypeOK, Proven!TypeOK, Proven!PCs
  <1>3. QED
    BY <1>1, <1>2, RouterIsProven, PTL

(* router.py: "once any token has been emitted we never switch provider".  *)
THEOREM RouterNeverSplices == Spec => []Chain!OneVoice
  <1>1. Proven!Spec => []Proven!OneVoice
    BY SomeProvider, ThresholdsOK, Proven!NeverSplices
  <1>2. Proven!OneVoice => Chain!OneVoice
    BY DEF Proven!OneVoice, Chain!OneVoice
  <1>3. QED
    BY <1>1, <1>2, RouterIsProven, PTL

(* _stream_fallback: a request that fails without text has been refused by *)
(* the primary and, when it is enabled, by the fallback, in that order.    *)
THEOREM RouterTriesBoth == Spec => []Chain!TriedInOrder
  <1>1. Proven!Spec => []Proven!TriedInOrder
    BY SomeProvider, ThresholdsOK, Proven!WholeChainTried
  <1>2. Proven!TriedInOrder => Chain!TriedInOrder
    BY DEF Proven!TriedInOrder, Chain!TriedInOrder, Proven!Providers, Chain!Providers
  <1>3. QED
    BY <1>1, <1>2, RouterIsProven, PTL

(* circuit_breaker.py: the router's breakers too, that all requests share, *)
(* are below the failure threshold while they are closed.                  *)
THEOREM RouterClosedMeansBelow == Spec => []Chain!ClosedBelowThreshold
  <1>1. Proven!Spec => []Proven!ClosedBelowThreshold
    BY SomeProvider, ThresholdsOK, Proven!ClosedMeansBelow
  <1>2. Proven!ClosedBelowThreshold => Chain!ClosedBelowThreshold
    BY DEF Proven!ClosedBelowThreshold, Chain!ClosedBelowThreshold, Proven!Providers, Chain!Providers
  <1>3. QED
    BY <1>1, <1>2, RouterIsProven, PTL
=============================================================================
