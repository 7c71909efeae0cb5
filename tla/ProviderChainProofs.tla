------------------------- MODULE ProviderChainProofs -------------------------
(***************************************************************************)
(* Safety of ProviderChain for any number of concurrent requests and of    *)
(* providers and any breaker thresholds.                                   *)
(***************************************************************************)
EXTENDS ProviderChain, TLAPS

(* What recording a success or a failure makes of a breaker: it stays a    *)
(* breaker, and one that is closed stays below the failure threshold.      *)
Sound(b) == b \in Breakers /\ (b.state = "closed" => b.failures < FailureThreshold)

LEMMA FreshSound == Sound(Fresh)
  BY ThresholdsOK DEF ThresholdsOK, Sound, Fresh, Breakers, States

LEMMA SuccessSound == ASSUME NEW b, Sound(b) PROVE Sound(OnSuccess(b))
  <1> USE ThresholdsOK DEF ThresholdsOK, Sound, Breakers, States, OnSuccess
  <1>1. CASE b.state = "half" /\ b.successes + 1 >= SuccessThreshold
    <2>1. OnSuccess(b) = [b EXCEPT !.state = "closed", !.failures = 0, !.successes = 0]
      BY <1>1
    <2>2. 0 \in 0..FailureThreshold /\ 0 \in 0..SuccessThreshold - 1 /\ 0 < FailureThreshold
      OBVIOUS
    <2> HIDE DEF OnSuccess
    <2>3. OnSuccess(b).state = "closed" /\ OnSuccess(b).failures = 0 /\ OnSuccess(b) \in Breakers
      BY <2>1, <2>2
    <2>4. QED
      BY <2>2, <2>3
  <1>2. CASE b.state = "half" /\ b.successes + 1 < SuccessThreshold
    BY <1>2
  <1>3. CASE b.state = "closed" /\ b.failures > 0
    BY <1>3
  <1>4. CASE b.state = "open" \/ (b.state = "closed" /\ ~(b.failures > 0))
    BY <1>4
  <1>5. QED
    BY <1>1, <1>2, <1>3, <1>4

LEMMA FailureSound == ASSUME NEW b, Sound(b) PROVE Sound(OnFailure(b))
  <1> DEFINE opens == b.state = "half" \/ AddFailure(b) >= FailureThreshold
  <1>1. AddFailure(b) \in 0..FailureThreshold /\ b \in Breakers
    BY ThresholdsOK DEF ThresholdsOK, Sound, Breakers, AddFailure
  <1>2. CASE opens
    <2>1. OnFailure(b) = [b EXCEPT !.failures = AddFailure(b), !.cooling = TRUE, !.state = "open"]
      BY <1>1, <1>2 DEF OnFailure, Breakers
    <2>2. QED
      BY <1>1, <2>1 DEF Sound, Breakers, States
  <1>3. CASE ~opens
    <2>1. OnFailure(b) = [b EXCEPT !.failures = AddFailure(b), !.cooling = TRUE]
      BY <1>1, <1>3 DEF OnFailure, Breakers
    <2>2. AddFailure(b) < FailureThreshold
      BY <1>1, <1>3, ThresholdsOK DEF ThresholdsOK
    <2>3. QED
      BY <1>1, <2>1, <2>2 DEF Sound, Breakers
  <1>4. QED
    BY <1>2, <1>3

LEMMA CoolSound == ASSUME NEW b, Sound(b) PROVE Sound(Cool(b))
  BY DEF Sound, Breakers, Cool

(* The inductive invariant: besides the properties, a request that has not *)
(* streamed anything has not spoken.                                       *)
Silent == \A r \in Requests : pc[r] \in {"idle", "trying"} => spoke[r] = {}

IInv == TypeOK /\ OneVoice /\ TriedInOrder /\ ClosedBelowThreshold /\ Silent

LEMMA BreakersSound == IInv => \A p \in Providers : Sound(breaker[p])
  BY DEF IInv, TypeOK, ClosedBelowThreshold, Sound

(* What Advance does to the request that runs it, given that everything    *)
(* before `from' is behind it and that it has said nothing.                *)
LEMMA AdvanceEffect ==
    ASSUME IInv, NEW r \in Requests, NEW from \in 1..Last + 1, NEW behind, NEW fitting, NEW b,
           behind = 1..from - 1, Advance(r, behind, from, fitting, b)
    PROVE  /\ pc' \in [Requests -> PCs] /\ at' \in [Requests -> Providers]
           /\ skipped' \in [Requests -> SUBSET Providers]
           /\ \A q \in Requests : q # r => /\ pc'[q] = pc[q] /\ at'[q] = at[q]
                                           /\ skipped'[q] = skipped[q]
           /\ \/ pc'[r] = "failed" /\ skipped'[r] = Providers
              \/ pc'[r] = "trying" /\ skipped'[r] = 1..at'[r] - 1
  <1> DEFINE usable == {p \in from..Last : ~IsOpen(b[p]) /\ p \in fitting}
  <1>0. pc \in [Requests -> PCs] /\ at \in [Requests -> Providers]
        /\ skipped \in [Requests -> SUBSET Providers] /\ Last \in Nat /\ Last > 0
    BY ChainOK DEF IInv, TypeOK, ChainOK
  <1>1. CASE /\ pc' = [pc EXCEPT ![r] = "failed"]
             /\ skipped' = [skipped EXCEPT ![r] = behind \union from..Last]
             /\ UNCHANGED at
    <2>1. behind \union from..Last = Providers
      BY <1>0 DEF Providers
    <2>2. QED
      BY <1>0, <1>1, <2>1 DEF PCs
  <1>2. ASSUME NEW p \in usable, pc' = [pc EXCEPT ![r] = "trying"], at' = [at EXCEPT ![r] = p],
               skipped' = [skipped EXCEPT ![r] = behind \union from..p - 1]
        PROVE  /\ pc' \in [Requests -> PCs] /\ at' \in [Requests -> Providers]
               /\ skipped' \in [Requests -> SUBSET Providers]
               /\ \A q \in Requests : q # r => /\ pc'[q] = pc[q] /\ at'[q] = at[q]
                                               /\ skipped'[q] = skipped[q]
               /\ pc'[r] = "trying" /\ skipped'[r] = 1..at'[r] - 1
    <2>1. p \in Providers /\ behind \union from..p - 1 = 1..p - 1
      BY <1>0 DEF Providers
    <2>2. 1..p - 1 \subseteq Providers
      BY <1>0, <2>1 DEF Providers
    <2>3. QED
      BY <1>0, <1>2, <2>1, <2>2 DEF PCs
  <1>3. QED
    BY <1>1, <1>2 DEF Advance

LEMMA StartStep == ASSUME IInv, NEW r \in Requests, Start(r) PROVE IInv'
  <1>1. PICK fitting \in (SUBSET Providers) \ {{}} :
            fits' = [fits EXCEPT ![r] = fitting] /\ Advance(r, {}, 1, fitting, breaker)
    BY DEF Start
  <1>2. /\ pc' \in [Requests -> PCs] /\ at' \in [Requests -> Providers]
        /\ skipped' \in [Requests -> SUBSET Providers]
        /\ \A q \in Requests : q # r => /\ pc'[q] = pc[q] /\ at'[q] = at[q]
                                        /\ skipped'[q] = skipped[q]
        /\ \/ pc'[r] = "failed" /\ skipped'[r] = Providers
           \/ pc'[r] = "trying" /\ skipped'[r] = 1..at'[r] - 1
    <2>1. 1 \in 1..Last + 1 /\ {} = 1..1 - 1
      BY ChainOK DEF ChainOK
    <2>2. QED
      BY <1>1, <2>1, AdvanceEffect
  <1>3. /\ spoke' = [spoke EXCEPT ![r] = {}] /\ spoke'[r] = {}
        /\ UNCHANGED <<breaker, sick, streak>>
    BY DEF Start, IInv, TypeOK
  <1>4. TypeOK'
    BY <1>1, <1>2, <1>3 DEF IInv, TypeOK
  <1>5. OneVoice' /\ Silent'
    BY <1>2, <1>3 DEF IInv, TypeOK, OneVoice, Silent
  <1>6. TriedInOrder'
    BY <1>2, <1>3 DEF IInv, TypeOK, TriedInOrder
  <1>7. ClosedBelowThreshold'
    BY <1>3 DEF IInv, ClosedBelowThreshold
  <1>8. QED
    BY <1>4, <1>5, <1>6, <1>7 DEF IInv

LEMMA FailStep == ASSUME IInv, NEW r \in Requests, ProviderFails(r) PROVE IInv'
  <1>0. /\ at[r] \in Providers /\ Last \in Nat
        /\ \A p \in Providers : Sound(breaker[p])
    BY BreakersSound, ChainOK DEF IInv, TypeOK, ChainOK
  <1>1. /\ breaker' = [breaker EXCEPT ![at[r]] = OnFailure(@)]
        /\ streak' = [streak EXCEPT ![at[r]] = 0]
        /\ UNCHANGED <<sick, fits, spoke>>
    BY DEF ProviderFails
  <1>2. breaker' \in [Providers -> Breakers] /\ ClosedBelowThreshold'
    <2>1. \A p \in Providers : Sound(breaker'[p])
      BY <1>0, <1>1, FailureSound DEF IInv, TypeOK
    <2>2. QED
      BY <1>1, <2>1 DEF IInv, TypeOK, Sound, ClosedBelowThreshold
  <1>3. streak' \in [Providers -> 0..SuccessThreshold]
    BY <1>1, ThresholdsOK DEF IInv, TypeOK, ThresholdsOK
  <1>4. CASE pc[r] = "trying" /\ Advance(r, skipped[r] \union {at[r]}, at[r] + 1, fits[r], breaker')
    <2>1. at[r] + 1 \in 1..Last + 1 /\ skipped[r] \union {at[r]} = 1..(at[r] + 1) - 1
      BY <1>0, <1>4 DEF IInv, TriedInOrder, Providers
    <2>2. /\ pc' \in [Requests -> PCs] /\ at' \in [Requests -> Providers]
          /\ skipped' \in [Requests -> SUBSET Providers]
          /\ \A q \in Requests : q # r => /\ pc'[q] = pc[q] /\ at'[q] = at[q]
                                          /\ skipped'[q] = skipped[q]
          /\ \/ pc'[r] = "failed" /\ skipped'[r] = Providers
             \/ pc'[r] = "trying" /\ skipped'[r] = 1..at'[r] - 1
      BY <1>4, <2>1, AdvanceEffect
    <2>3. spoke[r] = {}
      BY <1>4 DEF IInv, Silent
    <2>4. TypeOK'
      BY <1>1, <1>2, <1>3, <2>2 DEF IInv, TypeOK
    <2>5. OneVoice' /\ Silent' /\ TriedInOrder'
      BY <1>1, <2>2, <2>3 DEF IInv, OneVoice, Silent, TriedInOrder
    <2>6. QED
      BY <1>2, <2>4, <2>5 DEF IInv
  <1>5. CASE pc[r] = "streaming" /\ pc' = [pc EXCEPT ![r] = "failed"] /\ UNCHANGED <<at, skipped>>
    <2>1. TypeOK'
      BY <1>1, <1>2, <1>3, <1>5 DEF IInv, TypeOK, PCs
    <2>2. OneVoice' /\ Silent' /\ TriedInOrder'
      BY <1>1, <1>5 DEF IInv, TypeOK, OneVoice, Silent, TriedInOrder
    <2>3. QED
      BY <1>2, <2>1, <2>2 DEF IInv
  <1>6. QED
    BY <1>4, <1>5 DEF ProviderFails

LEMMA TokenStep == ASSUME IInv, NEW r \in Requests, FirstToken(r) PROVE IInv'
  <1>0. at[r] \in Providers /\ \A p \in Providers : Sound(breaker[p])
    BY BreakersSound DEF IInv, TypeOK
  <1>1. /\ pc[r] = "trying" /\ breaker' = [breaker EXCEPT ![at[r]] = OnSuccess(@)]
        /\ pc' = [pc EXCEPT ![r] = "streaming"]
        /\ spoke' = [spoke EXCEPT ![r] = @ \union {at[r]}]
        /\ UNCHANGED <<sick, at, fits, skipped>>
    BY DEF FirstToken
  <1>2. breaker' \in [Providers -> Breakers] /\ ClosedBelowThreshold'
    <2>1. \A p \in Providers : Sound(breaker'[p])
      BY <1>0, <1>1, SuccessSound DEF IInv, TypeOK
    <2>2. QED
      BY <1>1, <2>1 DEF IInv, TypeOK, Sound, ClosedBelowThreshold
  <1>3. streak' \in [Providers -> 0..SuccessThreshold]
    <2>1. \A p \in Providers : streak[p] \in 0..SuccessThreshold /\ SuccessThreshold \in Nat
      BY ThresholdsOK DEF IInv, TypeOK, ThresholdsOK
    <2>2. QED
      BY <2>1, <1>0 DEF FirstToken, IInv, TypeOK
  <1>4. TypeOK'
    BY <1>0, <1>1, <1>2, <1>3 DEF IInv, TypeOK, PCs
  <1>5. OneVoice' /\ Silent' /\ TriedInOrder'
    BY <1>1 DEF IInv, TypeOK, OneVoice, Silent, TriedInOrder
  <1>6. QED
    BY <1>2, <1>4, <1>5 DEF IInv

LEMMA IInvStep == IInv /\ [Next]_vars => IInv'
  <1> SUFFICES ASSUME IInv, [Next]_vars PROVE IInv'
    OBVIOUS
  <1>1. ASSUME NEW r \in Requests, Start(r) PROVE IInv'
    BY <1>1, StartStep
  <1>2. ASSUME NEW r \in Requests, FirstToken(r) PROVE IInv'
    BY <1>2, TokenStep
  <1>3. ASSUME NEW r \in Requests, ProviderFails(r) PROVE IInv'
    BY <1>3, FailStep
  <1>4. ASSUME NEW r \in Requests, StreamEnds(r) \/ ConsumerGone(r) PROVE IInv'
    <2>1. TypeOK' /\ ClosedBelowThreshold'
      BY <1>4 DEF StreamEnds, ConsumerGone, IInv, TypeOK, PCs, ClosedBelowThreshold
    <2>2. OneVoice' /\ Silent' /\ TriedInOrder'
      BY <1>4 DEF StreamEnds, ConsumerGone, IInv, TypeOK, OneVoice, Silent, TriedInOrder
    <2>3. QED
      BY <2>1, <2>2 DEF IInv
  <1>5. ASSUME NEW p \in Providers, TimePasses(p) PROVE IInv'
    <2>1. breaker' = [breaker EXCEPT ![p] = Cool(@)]
          /\ UNCHANGED <<sick, pc, at, fits, spoke, skipped, streak>>
      BY <1>5 DEF TimePasses
    <2>2. \A q \in Providers : Sound(breaker'[q])
      BY <2>1, BreakersSound, CoolSound DEF IInv, TypeOK
    <2>3. QED
      BY <2>1, <2>2 DEF IInv, TypeOK, Sound, OneVoice, Silent, TriedInOrder, ClosedBelowThreshold
  <1>6. ASSUME NEW p \in Providers, HealthChanges(p) PROVE IInv'
    BY <1>6 DEF HealthChanges, IInv, TypeOK, OneVoice, Silent, TriedInOrder, ClosedBelowThreshold
  <1>7. CASE UNCHANGED vars
    BY <1>7 DEF vars, IInv, TypeOK, OneVoice, Silent, TriedInOrder, ClosedBelowThreshold
  <1>8. QED
    BY <1>1, <1>2, <1>3, <1>4, <1>5, <1>6, <1>7 DEF Next, RequestStep

LEMMA IInvCorrect == Spec => []IInv
  <1>1. Init => IInv
    <2> SUFFICES ASSUME Init PROVE IInv
      OBVIOUS
    <2>1. \A p \in Providers : Sound(breaker[p])
      BY FreshSound DEF Init
    <2>2. 1 \in Providers /\ 0 \in 0..SuccessThreshold
      BY ChainOK, ThresholdsOK DEF ChainOK, ThresholdsOK, Providers
    <2>3. TypeOK
      BY <2>1, <2>2 DEF Init, TypeOK, Sound, PCs
    <2>4. QED
      BY <2>1, <2>3 DEF Init, IInv, Sound, OneVoice, Silent, TriedInOrder, ClosedBelowThreshold
  <1>2. QED
    BY <1>1, IInvStep, PTL DEF Spec

(* Type correctness for every chain and every set of requests.             *)
THEOREM ChainTypeCorrect == Spec => []TypeOK
  BY IInvCorrect, PTL DEF IInv

(* A turn never splices the answers of two providers, whatever fails when. *)
THEOREM NeverSplices == Spec => []OneVoice
  BY IInvCorrect, PTL DEF IInv

(* A request that fails without text has been through the whole chain.     *)
THEOREM WholeChainTried == Spec => []TriedInOrder
  BY IInvCorrect, PTL DEF IInv

(* A closed breaker is below its threshold under every interleaving of     *)
(* successes and failures.                                                 *)
THEOREM ClosedMeansBelow == Spec => []ClosedBelowThreshold
  BY IInvCorrect, PTL DEF IInv

=============================================================================
