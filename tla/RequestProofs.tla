---------------------------- MODULE RequestProofs -----------------------------
(***************************************************************************)
(* Theorems about a request on its way to a provider.  RequestAnalyzer,    *)
(* for any number of concurrent analyses, any fallbacks, any number of     *)
(* attempts and any breaker thresholds: whose plan a turn gets, and when   *)
(* the breaker closes.  RequestPipeline, for any planner, any caps and any *)
(* number of results and sub-tasks: documents are read or refused with the *)
(* reason told, the user's mode runs, a picked search grounds the answer,  *)
(* and the loops keep their budget.  PromptFit, for any section sizes, any *)
(* history and any chain of models: what is sent fits, what it may cost    *)
(* and what it keeps, and who is passed over.  Each of the three ends: its *)
(* steps lower a number.                                                   *)
(***************************************************************************)
EXTENDS RequestAnalyzer, RequestPipeline, PromptFit, SequenceLemmas, TLAPS

(***************************************************************************)
(* RequestAnalyzer.                                                        *)
(***************************************************************************)

(***************************************************************************)
(* The breaker: every method keeps it a breaker, and says what it does to  *)
(* the successes of a half-open one.                                       *)
(***************************************************************************)
LEMMA FreshBreaker == Fresh \in Breakers /\ Fresh.state = "closed"
  BY ThresholdsOK DEF ThresholdsOK, Fresh, Breakers, States

LEMMA EnteredBreaker ==
  ASSUME NEW b \in Breakers
  PROVE  /\ Entered(b) \in Breakers
         /\ Entered(b).state = "half" => Entered(b) = b \/ Entered(b).successes = 0
         /\ Entered(b).state = "closed" => b.state = "closed"
  <1>1. CASE b.state = "open" /\ ~b.cooling
    <2>1. Entered(b) = [b EXCEPT !.state = "half", !.successes = 0]
      BY <1>1 DEF Entered
    <2>2. 0 \in 0..SuccessThreshold - 1
      BY ThresholdsOK DEF ThresholdsOK
    <2>3. QED
      BY <2>1, <2>2 DEF Breakers, States
  <1>2. CASE ~(b.state = "open" /\ ~b.cooling)
    BY <1>2 DEF Entered
  <1>3. QED
    BY <1>1, <1>2

LEMMA SuccessBreaker ==
  ASSUME NEW b \in Breakers
  PROVE  /\ OnSuccess(b) \in Breakers
         /\ OnSuccess(b).state = "half" =>
              b.state = "half" /\ OnSuccess(b).successes = b.successes + 1
         /\ b.state = "half" /\ OnSuccess(b).state = "closed" =>
              b.successes + 1 >= SuccessThreshold
  <1> USE ThresholdsOK DEF ThresholdsOK, Breakers, States
  <1>1. CASE b.state = "half" /\ b.successes + 1 >= SuccessThreshold
    <2>1. OnSuccess(b) = [b EXCEPT !.state = "closed", !.failures = 0, !.successes = 0]
      BY <1>1 DEF OnSuccess
    <2>2. 0 \in 0..FailureThreshold /\ 0 \in 0..SuccessThreshold - 1
      OBVIOUS
    <2>3. QED
      BY <1>1, <2>1, <2>2
  <1>2. CASE b.state = "half" /\ b.successes + 1 < SuccessThreshold
    <2>1. OnSuccess(b) = [b EXCEPT !.successes = @ + 1]
      BY <1>2 DEF OnSuccess
    <2>2. QED
      BY <1>2, <2>1
  <1>3. CASE b.state = "closed" /\ b.failures > 0
    <2>1. OnSuccess(b) = [b EXCEPT !.failures = @ - 1]
      BY <1>3 DEF OnSuccess
    <2>2. QED
      BY <1>3, <2>1
  <1>4. CASE b.state = "open" \/ (b.state = "closed" /\ ~(b.failures > 0))
    BY <1>4 DEF OnSuccess
  <1>5. QED
    BY <1>1, <1>2, <1>3, <1>4

LEMMA FailureBreaker ==
  ASSUME NEW b \in Breakers
  PROVE  /\ OnFailure(b) \in Breakers
         /\ OnFailure(b).state # "half"
         /\ OnFailure(b).state = "closed" => b.state = "closed"
  <1>1. AddFailure(b) \in 0..FailureThreshold
    BY ThresholdsOK DEF ThresholdsOK, Breakers, AddFailure
  <1>2. CASE b.state = "half" \/ AddFailure(b) >= FailureThreshold
    <2>1. OnFailure(b) = [b EXCEPT !.failures = AddFailure(b), !.cooling = TRUE, !.state = "open"]
      BY <1>2 DEF OnFailure, Breakers
    <2>2. QED
      BY <1>1, <2>1 DEF Breakers, States
  <1>3. CASE ~(b.state = "half" \/ AddFailure(b) >= FailureThreshold)
    <2>1. OnFailure(b) = [b EXCEPT !.failures = AddFailure(b), !.cooling = TRUE]
      BY <1>3 DEF OnFailure, Breakers
    <2>2. QED
      BY <1>1, <1>3, <2>1 DEF Breakers, States
  <1>4. QED
    BY <1>2, <1>3

LEMMA CoolBreaker ==
  ASSUME NEW b \in Breakers
  PROVE  Cool(b) \in Breakers /\ Cool(b).state = b.state /\ Cool(b).successes = b.successes
  BY DEF Breakers, Cool

(***************************************************************************)
(* The rungs: Up(r) holds who failed a turn that stands at rung r.         *)
(***************************************************************************)
Up(r) == {"groq"} \union {Fallbacks[i] : i \in {i \in Rungs : i < r}}

LEMMA RungsAreNumbers == Rungs = 1..Len(Fallbacks) /\ Len(Fallbacks) \in Nat
  BY AnalyzerConstantsOK DEF AnalyzerConstantsOK, Rungs

LEMMA UpFirst == Up(1) = {"groq"}
  BY RungsAreNumbers DEF Up

LEMMA UpNext == ASSUME NEW r \in Rungs PROVE Up(r) \union {Fallbacks[r]} = Up(r + 1)
  <1>1. {i \in Rungs : i < r + 1} = {i \in Rungs : i < r} \union {r}
    BY RungsAreNumbers
  <1>2. QED
    BY <1>1 DEF Up

LEMMA UpTyped == ASSUME NEW r PROVE Up(r) \in SUBSET ({"groq"} \union Names)
  BY DEF Up, Names

LEMMA NotGroq == ASSUME NEW r \in Rungs PROVE Fallbacks[r] \in Names /\ Fallbacks[r] # "groq"
  BY AnalyzerConstantsOK DEF AnalyzerConstantsOK, Rungs, Names

(* Nobody is named twice, so the rungs above a fallback are those before   *)
(* its own.                                                                *)
LEMMA AboveFallback == ASSUME NEW r \in Rungs PROVE Above(Fallbacks[r]) = Up(r)
  <1>1. ASSUME NEW i \in Rungs
        PROVE  (\A j \in 1..i : Fallbacks[j] # Fallbacks[r]) <=> i < r
    <2>1. CASE i < r
      <3>1. ASSUME NEW j \in 1..i PROVE Fallbacks[j] # Fallbacks[r]
        <4>1. j \in Rungs /\ j # r
          BY <2>1, RungsAreNumbers
        <4>2. QED
          BY <4>1, AnalyzerConstantsOK DEF AnalyzerConstantsOK, Rungs
      <3>2. QED
        BY <2>1, <3>1
    <2>2. CASE ~(i < r)
      <3>1. r \in 1..i
        BY <2>2, RungsAreNumbers
      <3>2. QED
        BY <2>2, <3>1
    <2>3. QED
      BY <2>1, <2>2
  <1>2. {i \in Rungs : \A j \in 1..i : Fallbacks[j] # Fallbacks[r]} = {i \in Rungs : i < r}
    BY <1>1
  <1>3. QED
    BY <1>2, NotGroq DEF Above, Up

LEMMA AboveDefault ==
  ASSUME NEW r \in Nat \ {0}, r \notin Rungs
  PROVE  Above("default") = Up(r)
  <1>1. ASSUME NEW i \in Rungs PROVE i < r /\ \A j \in 1..i : Fallbacks[j] # "default"
    <2>1. i < r /\ \A j \in 1..i : j \in Rungs
      BY RungsAreNumbers
    <2>2. QED
      BY <2>1, AnalyzerConstantsOK DEF AnalyzerConstantsOK, Rungs
  <1>2. {i \in Rungs : \A j \in 1..i : Fallbacks[j] # "default"} = {i \in Rungs : i < r}
    BY <1>1
  <1>3. QED
    BY <1>2 DEF Above, Up

(***************************************************************************)
(* The inductive invariant.  FirstThatCould speaks of a turn that has its  *)
(* plan: on the way there, a turn has heard nobody fail before it leaves   *)
(* Groq, and stands at the first rung it has not heard from.  A half-open  *)
(* breaker has not counted more successes than there were since its last   *)
(* failure.                                                                *)
(***************************************************************************)
Standing(t) ==
  /\ at[t] \in {"idle", "groq", "waiting"} => heard[t] = {} /\ planner[t] = "none"
  /\ at[t] = "fallback" => rung[t] \in Rungs /\ heard[t] = Up(rung[t])
  /\ at[t] = "planned" => heard[t] = Above(planner[t])

LadderOK == \A t \in Tasks : Standing(t)

Recovering == breaker.state = "half" => breaker.successes <= fresh

AnalyzerInv == AnalyzerTypeOK /\ LadderOK /\ Recovering

(* Whoever climbs to rung r, having heard all before it, stands well.      *)
LEMMA ClimbOK ==
  ASSUME AnalyzerTypeOK, NEW t \in Tasks, NEW r \in Nat \ {0}, Climb(t, r),
         heard' = [heard EXCEPT ![t] = Up(r)]
  PROVE  /\ at' \in [Tasks -> {"idle", "groq", "waiting", "fallback", "planned"}]
         /\ rung' \in [Tasks -> Nat]
         /\ planner' \in [Tasks -> {"none", "groq", "default"} \union Names]
         /\ heard' \in [Tasks -> SUBSET ({"groq"} \union Names)]
         /\ Standing(t)'
  <1>1. at' \in [Tasks -> {"idle", "groq", "waiting", "fallback", "planned"}]
    BY DEF AnalyzerTypeOK, Climb
  <1>2. rung' \in [Tasks -> Nat]
    BY DEF AnalyzerTypeOK, Climb
  <1>3. planner' \in [Tasks -> {"none", "groq", "default"} \union Names]
    BY DEF AnalyzerTypeOK, Climb
  <1>4. heard' \in [Tasks -> SUBSET ({"groq"} \union Names)]
    BY UpTyped DEF AnalyzerTypeOK
  <1>5. CASE r \in Rungs
    <2>1. at'[t] = "fallback" /\ rung'[t] = r /\ heard'[t] = Up(r)
      BY <1>5 DEF AnalyzerTypeOK, Climb
    <2>2. QED
      BY <1>1, <1>2, <1>3, <1>4, <1>5, <2>1 DEF Standing
  <1>6. CASE r \notin Rungs
    <2>1. at'[t] = "planned" /\ planner'[t] = "default" /\ heard'[t] = Up(r)
      BY <1>6 DEF AnalyzerTypeOK, Climb
    <2>2. QED
      BY <1>1, <1>2, <1>3, <1>4, <1>6, <2>1, AboveDefault DEF Standing
  <1>7. QED
    BY <1>5, <1>6

(* A turn that stands well goes on standing well while another one moves.  *)
LEMMA OthersStand ==
  ASSUME NEW u \in Tasks, Standing(u), at'[u] = at[u], rung'[u] = rung[u],
         planner'[u] = planner[u], heard'[u] = heard[u]
  PROVE  Standing(u)'
  BY DEF Standing

LEMMA ClimbOthers ==
  ASSUME AnalyzerTypeOK, NEW t \in Tasks, NEW u \in Tasks, u # t, Standing(u),
         NEW r, Climb(t, r), NEW who, heard' = [heard EXCEPT ![t] = who]
  PROVE  Standing(u)'
  <1>1. at'[u] = at[u] /\ rung'[u] = rung[u] /\ planner'[u] = planner[u] /\ heard'[u] = heard[u]
    BY DEF AnalyzerTypeOK, Climb
  <1>2. QED
    BY <1>1, OthersStand

(* The first climb, of a turn Groq has failed.                             *)
LEMMA FirstClimb ==
  ASSUME AnalyzerTypeOK, LadderOK, NEW t \in Tasks, Climb(t, 1), heard' = [heard EXCEPT ![t] = {"groq"}]
  PROVE  /\ at' \in [Tasks -> {"idle", "groq", "waiting", "fallback", "planned"}]
         /\ rung' \in [Tasks -> Nat]
         /\ planner' \in [Tasks -> {"none", "groq", "default"} \union Names]
         /\ heard' \in [Tasks -> SUBSET ({"groq"} \union Names)]
         /\ LadderOK'
  <1>1. 1 \in Nat \ {0} /\ heard' = [heard EXCEPT ![t] = Up(1)]
    <2>1. 1 \in Nat \ {0}
      OBVIOUS
    <2>2. heard' = [heard EXCEPT ![t] = Up(1)]
      BY UpFirst, Zenon
    <2>3. QED
      BY <2>1, <2>2
  <1>2. ASSUME NEW u \in Tasks PROVE Standing(u)'
    <2>1. CASE u = t
      BY <1>1, <2>1, ClimbOK
    <2>2. CASE u # t
      BY <2>2, ClimbOthers DEF LadderOK
    <2>3. QED
      BY <2>1, <2>2
  <1>3. QED
    BY <1>1, <1>2, ClimbOK DEF LadderOK

LEMMA InitOK == AnalyzerInit => AnalyzerInv
  <1> SUFFICES ASSUME AnalyzerInit PROVE AnalyzerInv
    OBVIOUS
  <1>1. AnalyzerTypeOK
    BY FreshBreaker, ThresholdsOK, AnalyzerConstantsOK
    DEF ThresholdsOK, AnalyzerConstantsOK, AnalyzerInit, AnalyzerTypeOK
  <1>2. LadderOK
    BY DEF AnalyzerInit, LadderOK, Standing
  <1>3. Recovering
    BY FreshBreaker DEF AnalyzerInit, Recovering
  <1>4. QED
    BY <1>1, <1>2, <1>3 DEF AnalyzerInv

LEMMA AdmitOK == ASSUME AnalyzerInv, NEW t \in Tasks, Admit(t) PROVE AnalyzerInv'
  <1>1. at[t] = "idle" /\ fresh' = fresh /\ heard[t] = {} /\ planner[t] = "none" /\ AnalyzerTypeOK
    BY DEF AnalyzerInv, LadderOK, Standing, Admit
  <1>2. CASE IsOpen(breaker)
    <2>1. Climb(t, 1) /\ heard' = [heard EXCEPT ![t] = {"groq"}] /\ UNCHANGED <<tries, breaker, fresh>>
      BY <1>2 DEF Admit
    <2>2. AnalyzerTypeOK'
      BY <1>1, <2>1, FirstClimb DEF AnalyzerInv, AnalyzerTypeOK
    <2>3. LadderOK'
      BY <1>1, <2>1, FirstClimb DEF AnalyzerInv
    <2>4. Recovering'
      BY <2>1 DEF AnalyzerInv, Recovering
    <2>5. QED
      BY <2>2, <2>3, <2>4 DEF AnalyzerInv, LadderOK
  <1>3. CASE ~IsOpen(breaker)
    <2>1. /\ at' = [at EXCEPT ![t] = "groq"] /\ tries' = [tries EXCEPT ![t] = 1]
          /\ breaker' = Entered(breaker) /\ UNCHANGED <<rung, planner, heard, fresh>>
      BY <1>3 DEF Admit
    <2>2. AnalyzerTypeOK'
      <3>1. breaker' \in Breakers
        BY <1>1, <2>1, EnteredBreaker DEF AnalyzerTypeOK
      <3>2. tries' \in [Tasks -> 0..MaxAttempts]
        BY <1>1, <2>1, AnalyzerConstantsOK DEF AnalyzerTypeOK, AnalyzerConstantsOK
      <3>3. QED
        BY <1>1, <2>1, <3>1, <3>2 DEF AnalyzerTypeOK
    <2>3. ASSUME NEW u \in Tasks PROVE Standing(u)'
      BY <1>1, <2>1 DEF AnalyzerInv, LadderOK, Standing, AnalyzerTypeOK
    <2>4. Recovering'
      BY <1>1, <2>1, EnteredBreaker DEF AnalyzerInv, Recovering, AnalyzerTypeOK
    <2>5. QED
      BY <2>2, <2>3, <2>4 DEF AnalyzerInv, LadderOK
  <1>4. QED
    BY <1>2, <1>3

LEMMA GroqAnswersOK ==
  ASSUME AnalyzerInv, NEW t \in Tasks, NEW readable \in BOOLEAN, GroqAnswers(t, readable)
  PROVE  AnalyzerInv'
  <1>1. /\ AnalyzerTypeOK /\ at[t] = "groq" /\ heard[t] = {} /\ planner[t] = "none"
        /\ breaker' = OnSuccess(breaker) /\ UNCHANGED tries
        /\ fresh' = IF fresh < SuccessThreshold THEN fresh + 1 ELSE fresh
    BY DEF AnalyzerInv, LadderOK, Standing, GroqAnswers
  <1>2. breaker' \in Breakers /\ fresh' \in 0..SuccessThreshold
    BY <1>1, SuccessBreaker, ThresholdsOK DEF AnalyzerTypeOK, ThresholdsOK
  <1>3. Recovering'
    <2>1. ASSUME OnSuccess(breaker).state = "half"
          PROVE  OnSuccess(breaker).successes <= fresh'
      <3>1. /\ breaker.successes <= fresh /\ OnSuccess(breaker).successes = breaker.successes + 1
            /\ OnSuccess(breaker) \in Breakers
        BY <1>1, <2>1, SuccessBreaker DEF AnalyzerTypeOK, AnalyzerInv, Recovering
      <3>2. OnSuccess(breaker).successes \in 0..SuccessThreshold - 1 /\ breaker.successes \in Nat
        BY <1>1, <3>1, ThresholdsOK DEF AnalyzerTypeOK, Breakers, ThresholdsOK
      <3>3. QED
        BY <1>1, <3>1, <3>2, ThresholdsOK DEF AnalyzerTypeOK, ThresholdsOK
    <2>2. QED
      BY <1>1, <2>1 DEF Recovering
  <1>4. CASE readable
    <2>1. Planned(t, "groq") /\ UNCHANGED heard
      BY <1>4 DEF GroqAnswers
    <2>2. AnalyzerTypeOK'
      BY <1>1, <1>2, <2>1 DEF AnalyzerTypeOK, Planned
    <2>3. Above("groq") = {}
      BY DEF Above
    <2>4. ASSUME NEW u \in Tasks PROVE Standing(u)'
      BY <1>1, <2>1, <2>3 DEF AnalyzerInv, LadderOK, Standing, AnalyzerTypeOK, Planned
    <2>5. QED
      BY <1>3, <2>2, <2>4 DEF AnalyzerInv, LadderOK
  <1>5. CASE ~readable
    <2>1. Climb(t, 1) /\ heard' = [heard EXCEPT ![t] = {"groq"}]
      BY <1>5 DEF GroqAnswers
    <2>2. AnalyzerTypeOK'
      BY <1>1, <1>2, <2>1, FirstClimb DEF AnalyzerInv, AnalyzerTypeOK
    <2>3. LadderOK'
      BY <1>1, <2>1, FirstClimb DEF AnalyzerInv
    <2>4. QED
      BY <1>3, <2>2, <2>3 DEF AnalyzerInv, LadderOK
  <1>6. QED
    BY <1>4, <1>5

LEMMA GroqFailsOK ==
  ASSUME AnalyzerInv, NEW t \in Tasks, NEW failure \in Failures, GroqFails(t, failure)
  PROVE  AnalyzerInv'
  <1>1. AnalyzerTypeOK /\ at[t] = "groq" /\ heard[t] = {} /\ planner[t] = "none" /\ UNCHANGED tries
    BY DEF AnalyzerInv, LadderOK, Standing, GroqFails
  <1>2. CASE LastTry(t, failure)
    <2>1. /\ Climb(t, 1) /\ heard' = [heard EXCEPT ![t] = {"groq"}]
          /\ breaker' = IF Counted(failure) THEN OnFailure(breaker) ELSE breaker
          /\ fresh' = IF Counted(failure) THEN 0 ELSE fresh
      BY <1>2 DEF GroqFails
    <2>2. breaker' \in Breakers /\ fresh' \in 0..SuccessThreshold
      BY <1>1, <2>1, FailureBreaker, ThresholdsOK DEF AnalyzerTypeOK, ThresholdsOK
    <2>3. AnalyzerTypeOK'
      BY <1>1, <2>1, <2>2, FirstClimb DEF AnalyzerInv, AnalyzerTypeOK
    <2>4. LadderOK'
      BY <1>1, <2>1, FirstClimb DEF AnalyzerInv
    <2>5. Recovering'
      BY <1>1, <2>1, FailureBreaker DEF AnalyzerTypeOK, AnalyzerInv, Recovering
    <2>6. QED
      BY <2>3, <2>4, <2>5 DEF AnalyzerInv, LadderOK
  <1>3. CASE ~LastTry(t, failure)
    <2>1. at' = [at EXCEPT ![t] = "waiting"] /\ UNCHANGED <<rung, planner, heard, breaker, fresh>>
      BY <1>3 DEF GroqFails
    <2>2. AnalyzerTypeOK'
      BY <1>1, <2>1 DEF AnalyzerTypeOK
    <2>3. ASSUME NEW u \in Tasks PROVE Standing(u)'
      BY <1>1, <2>1 DEF AnalyzerInv, LadderOK, Standing, AnalyzerTypeOK
    <2>4. Recovering'
      BY <2>1 DEF AnalyzerInv, Recovering
    <2>5. QED
      BY <2>2, <2>3, <2>4 DEF AnalyzerInv, LadderOK
  <1>4. QED
    BY <1>2, <1>3

LEMMA DelayOverOK == ASSUME AnalyzerInv, NEW t \in Tasks, DelayOver(t) PROVE AnalyzerInv'
  <1>1. AnalyzerTypeOK'
    BY AnalyzerConstantsOK DEF AnalyzerConstantsOK, AnalyzerInv, AnalyzerTypeOK, DelayOver
  <1>2. ASSUME NEW u \in Tasks PROVE Standing(u)'
    BY DEF AnalyzerInv, LadderOK, Standing, AnalyzerTypeOK, DelayOver
  <1>3. Recovering'
    BY DEF AnalyzerInv, Recovering, DelayOver
  <1>4. QED
    BY <1>1, <1>2, <1>3 DEF AnalyzerInv, LadderOK

LEMMA FallbackPlansOK == ASSUME AnalyzerInv, NEW t \in Tasks, FallbackPlans(t) PROVE AnalyzerInv'
  <1>1. /\ AnalyzerTypeOK /\ rung[t] \in Rungs /\ heard[t] = Above(Fallbacks[rung[t]])
        /\ Planned(t, Fallbacks[rung[t]]) /\ UNCHANGED <<tries, breaker, heard, fresh>>
    BY AboveFallback DEF AnalyzerInv, LadderOK, Standing, FallbackPlans
  <1>2. AnalyzerTypeOK'
    BY <1>1, NotGroq DEF AnalyzerTypeOK, Planned
  <1>3. ASSUME NEW u \in Tasks PROVE Standing(u)'
    <2>1. CASE u = t
      <3>1. at'[t] = "planned" /\ planner'[t] = Fallbacks[rung[t]] /\ heard'[t] = heard[t]
        BY <1>1 DEF AnalyzerTypeOK, Planned
      <3>2. QED
        BY <1>1, <2>1, <3>1 DEF Standing, Above
    <2>2. CASE u # t
      BY <1>1, <2>2, OthersStand DEF AnalyzerInv, LadderOK, AnalyzerTypeOK, Planned
    <2>3. QED
      BY <2>1, <2>2
  <1>4. Recovering'
    BY <1>1 DEF AnalyzerInv, Recovering
  <1>5. QED
    BY <1>2, <1>3, <1>4 DEF AnalyzerInv, LadderOK

LEMMA FallbackFailsOK == ASSUME AnalyzerInv, NEW t \in Tasks, FallbackFails(t) PROVE AnalyzerInv'
  <1>1. /\ AnalyzerTypeOK /\ rung[t] \in Rungs /\ heard[t] = Up(rung[t])
        /\ Climb(t, rung[t] + 1) /\ UNCHANGED <<tries, breaker, fresh>>
    BY DEF AnalyzerInv, LadderOK, Standing, FallbackFails
  <1>2. rung[t] + 1 \in Nat \ {0}
    BY <1>1, RungsAreNumbers
  <1>3. heard' = [heard EXCEPT ![t] = Up(rung[t] + 1)]
    <2>1. heard' = [heard EXCEPT ![t] = heard[t] \union {Fallbacks[rung[t]]}]
      BY DEF FallbackFails
    <2>2. QED
      BY <1>1, <2>1, UpNext
  <1>4. AnalyzerTypeOK'
    BY <1>1, <1>2, <1>3, ClimbOK DEF AnalyzerTypeOK
  <1>5. ASSUME NEW u \in Tasks PROVE Standing(u)'
    <2>1. CASE u = t
      BY <1>1, <1>2, <1>3, <2>1, ClimbOK
    <2>2. CASE u # t
      BY <1>1, <1>3, <2>2, ClimbOthers DEF AnalyzerInv, LadderOK
    <2>3. QED
      BY <2>1, <2>2
  <1>6. Recovering'
    BY <1>1 DEF AnalyzerInv, Recovering
  <1>7. QED
    BY <1>4, <1>5, <1>6 DEF AnalyzerInv, LadderOK

LEMMA ReturnOK == ASSUME AnalyzerInv, NEW t \in Tasks, Return(t) PROVE AnalyzerInv'
  <1>1. AnalyzerTypeOK'
    BY AnalyzerConstantsOK DEF AnalyzerConstantsOK, AnalyzerInv, AnalyzerTypeOK, Return
  <1>2. ASSUME NEW u \in Tasks PROVE Standing(u)'
    <2>1. CASE u = t
      BY <2>1 DEF AnalyzerInv, AnalyzerTypeOK, Standing, Return
    <2>2. CASE u # t
      BY <2>2, OthersStand DEF AnalyzerInv, LadderOK, AnalyzerTypeOK, Return
    <2>3. QED
      BY <2>1, <2>2
  <1>3. Recovering'
    BY DEF AnalyzerInv, Recovering, Return
  <1>4. QED
    BY <1>1, <1>2, <1>3 DEF AnalyzerInv, LadderOK

LEMMA CoolDownOK == ASSUME AnalyzerInv, CoolDown PROVE AnalyzerInv'
  <1>1. breaker \in Breakers /\ breaker' = Cool(breaker)
    BY DEF AnalyzerInv, AnalyzerTypeOK, CoolDown
  <1>2. AnalyzerTypeOK'
    BY <1>1, CoolBreaker DEF AnalyzerInv, AnalyzerTypeOK, CoolDown
  <1>3. LadderOK'
    BY DEF AnalyzerInv, LadderOK, Standing, CoolDown
  <1>4. Recovering'
    BY <1>1, CoolBreaker DEF AnalyzerInv, Recovering, CoolDown
  <1>5. QED
    BY <1>2, <1>3, <1>4 DEF AnalyzerInv

LEMMA StepOK == AnalyzerInv /\ [AnalyzerNext]_analyzerVars => AnalyzerInv'
  <1> SUFFICES ASSUME AnalyzerInv, [AnalyzerNext]_analyzerVars PROVE AnalyzerInv'
    OBVIOUS
  <1>1. CASE CoolDown
    BY <1>1, CoolDownOK
  <1>2. ASSUME NEW t \in Tasks, Admit(t) PROVE AnalyzerInv'
    BY <1>2, AdmitOK
  <1>3. ASSUME NEW t \in Tasks, Proceed(t) PROVE AnalyzerInv'
    BY <1>3, GroqAnswersOK, GroqFailsOK, DelayOverOK, FallbackPlansOK, FallbackFailsOK, ReturnOK
    DEF Proceed
  <1>4. CASE UNCHANGED analyzerVars
    BY <1>4 DEF AnalyzerInv, AnalyzerTypeOK, LadderOK, Standing, Recovering, analyzerVars
  <1>5. QED
    BY <1>1, <1>2, <1>3, <1>4 DEF AnalyzerNext

THEOREM AnalyzerInvariance == AnalyzerSpec => []AnalyzerInv
  <1>1. QED
    BY InitOK, StepOK, PTL DEF AnalyzerSpec

(* Type correctness of the analyses and of the breaker they share.         *)
THEOREM AnalyzerTypeCorrect == AnalyzerSpec => []AnalyzerTypeOK
  <1>1. AnalyzerInv => AnalyzerTypeOK
    BY DEF AnalyzerInv
  <1>2. QED
    BY AnalyzerInvariance, <1>1, PTL

(* A plan always comes from the first provider that could make one, for    *)
(* any ladder of fallbacks and however the breaker of Groq stands.         *)
THEOREM PlanFromFirst == AnalyzerSpec => []FirstThatCould
  <1>1. AnalyzerInv => FirstThatCould
    BY DEF AnalyzerInv, LadderOK, Standing, FirstThatCould
  <1>2. QED
    BY AnalyzerInvariance, <1>1, PTL

(* The breaker of Groq closes only on success_threshold successes since    *)
(* the last failure it counted, however many calls are under way.          *)
LEMMA ClosingStep ==
  ASSUME AnalyzerInv, [AnalyzerNext]_analyzerVars, breaker.state = "half", breaker'.state = "closed"
  PROVE  fresh' >= SuccessThreshold
  <1>1. breaker \in Breakers /\ breaker.successes <= fresh
    BY DEF AnalyzerInv, AnalyzerTypeOK, Recovering
  <1>2. breaker' # breaker
    OBVIOUS
  <1>3. ASSUME NEW t \in Tasks, Admit(t) PROVE FALSE
    BY <1>1, <1>2, <1>3, EnteredBreaker DEF Admit
  <1>4. ASSUME NEW t \in Tasks, NEW readable \in BOOLEAN, GroqAnswers(t, readable)
        PROVE  fresh' >= SuccessThreshold
    <2>1. breaker' = OnSuccess(breaker) /\ fresh' = IF fresh < SuccessThreshold THEN fresh + 1 ELSE fresh
      BY <1>4 DEF GroqAnswers
    <2>2. breaker.successes + 1 >= SuccessThreshold /\ breaker.successes \in 0..SuccessThreshold - 1
      BY <1>1, <2>1, SuccessBreaker DEF Breakers
    <2>3. QED
      BY <1>1, <2>1, <2>2, ThresholdsOK DEF ThresholdsOK, AnalyzerInv, AnalyzerTypeOK
  <1>5. ASSUME NEW t \in Tasks, NEW failure \in Failures, GroqFails(t, failure) PROVE FALSE
    BY <1>1, <1>2, <1>5, FailureBreaker DEF GroqFails
  <1>6. ASSUME NEW t \in Tasks, DelayOver(t) \/ FallbackPlans(t) \/ FallbackFails(t) \/ Return(t)
        PROVE  FALSE
    BY <1>2, <1>6 DEF DelayOver, FallbackPlans, FallbackFails, Return
  <1>7. CASE CoolDown
    BY <1>1, <1>7, CoolBreaker DEF CoolDown
  <1>8. QED
    BY <1>2, <1>3, <1>4, <1>5, <1>6, <1>7 DEF AnalyzerNext, Proceed, analyzerVars

THEOREM RecoveryIsEarned == AnalyzerSpec => ClosesOnFreshSuccesses
  <1>1. AnalyzerInv /\ [AnalyzerNext]_analyzerVars
          => [breaker.state = "half" /\ breaker'.state = "closed" => fresh' >= SuccessThreshold]_analyzerVars
    BY ClosingStep
  <1>2. QED
    BY AnalyzerInvariance, <1>1, PTL DEF AnalyzerSpec, ClosesOnFreshSuccesses

-----------------------------------------------------------------------------
(* How many calls and delays an analysis that has begun has left at most.  *)
CallsLeft(stands, try, standsOn) ==
    CASE stands = "groq"     -> Len(Fallbacks) + 2 + 2 * (MaxAttempts - try)
      [] stands = "waiting"  -> Len(Fallbacks) + 1 + 2 * (MaxAttempts - try)
      [] stands = "fallback" -> Len(Fallbacks) + 1 - standsOn
      [] stands = "planned"  -> 0

(* A retry is only waited for below the limit. *)
RetriesOK == \A t \in Tasks : at[t] = "waiting" => tries[t] < MaxAttempts

Closer(t) ==
    /\ at'[t] # "idle"
    /\ CallsLeft(at'[t], tries'[t], rung'[t]) \in Nat
    /\ CallsLeft(at'[t], tries'[t], rung'[t]) < CallsLeft(at[t], tries[t], rung[t])

LEMMA CallsLeftAre ==
    ASSUME NEW try \in 0..MaxAttempts, NEW r \in Nat
    PROVE  /\ CallsLeft("groq", try, r) = Len(Fallbacks) + 2 + 2 * (MaxAttempts - try)
           /\ CallsLeft("waiting", try, r) = Len(Fallbacks) + 1 + 2 * (MaxAttempts - try)
           /\ CallsLeft("fallback", try, r) = Len(Fallbacks) + 1 - r
           /\ CallsLeft("planned", try, r) = 0
           /\ Len(Fallbacks) \in Nat /\ MaxAttempts - try \in Nat
  <1>1. MaxAttempts \in Nat
    BY AnalyzerConstantsOK DEF AnalyzerConstantsOK
  <1>2. QED
    BY <1>1, RungsAreNumbers DEF CallsLeft

(* What is left falls from where a call or a delay may end.                *)
LEMMA CallsLeftFall ==
    ASSUME NEW try \in 0..MaxAttempts, NEW r \in Nat, NEW s \in Nat
    PROVE  /\ r <= Len(Fallbacks) => 0 < CallsLeft("fallback", try, r)
           /\ 0 < CallsLeft("groq", try, r)
           /\ s <= Len(Fallbacks) => /\ CallsLeft("fallback", try, s) \in Nat
                                     /\ CallsLeft("fallback", try, s) < CallsLeft("groq", try, r)
                                     /\ r < s => CallsLeft("fallback", try, s) < CallsLeft("fallback", try, r)
           /\ CallsLeft("waiting", try, r) \in Nat
           /\ CallsLeft("waiting", try, r) < CallsLeft("groq", try, r)
           /\ try < MaxAttempts => /\ CallsLeft("groq", try + 1, r) \in Nat
                                   /\ CallsLeft("groq", try + 1, r) < CallsLeft("waiting", try, r)
  <1>1. PICK n \in Nat, k \in Nat : n = Len(Fallbacks) /\ k = MaxAttempts - try
    BY CallsLeftAre
  <1>2. /\ CallsLeft("groq", try, r) = n + 2 + 2 * k
        /\ CallsLeft("waiting", try, r) = n + 1 + 2 * k
        /\ CallsLeft("fallback", try, r) = n + 1 - r
    BY <1>1, CallsLeftAre
  <1>3. CallsLeft("fallback", try, s) = n + 1 - s
    BY <1>1, CallsLeftAre
  <1>4. ASSUME try < MaxAttempts PROVE CallsLeft("groq", try + 1, r) = n + 2 * k /\ k >= 1
    <2>1. try + 1 \in 0..MaxAttempts /\ MaxAttempts - (try + 1) = k - 1 /\ k >= 1
      BY <1>1, <1>4, AnalyzerConstantsOK DEF AnalyzerConstantsOK
    <2>2. CallsLeft("groq", try + 1, r) = n + 2 + 2 * (k - 1)
      BY <1>1, <2>1, CallsLeftAre
    <2>3. QED
      BY <2>1, <2>2
  <1>5. (r <= Len(Fallbacks) => 0 < CallsLeft("fallback", try, r)) /\ 0 < CallsLeft("groq", try, r)
    BY <1>1, <1>2
  <1>6. CallsLeft("waiting", try, r) \in Nat /\ CallsLeft("waiting", try, r) < CallsLeft("groq", try, r)
    BY <1>2
  <1>7. s <= Len(Fallbacks) => CallsLeft("fallback", try, s) \in Nat
    BY <1>1, <1>3
  <1>8. CallsLeft("fallback", try, s) < CallsLeft("groq", try, r)
    BY <1>2, <1>3
  <1>9. r < s => CallsLeft("fallback", try, s) < CallsLeft("fallback", try, r)
    BY <1>2, <1>3
  <1>10. try < MaxAttempts => /\ CallsLeft("groq", try + 1, r) \in Nat
                             /\ CallsLeft("groq", try + 1, r) < CallsLeft("waiting", try, r)
    BY <1>2, <1>4
  <1>11. QED
    BY <1>5, <1>6, <1>7, <1>8, <1>9, <1>10

(* Climbing from above comes closer. *)
LEMMA ClimbCloser ==
    ASSUME AnalyzerTypeOK, NEW t \in Tasks, NEW r \in Nat \ {0}, Climb(t, r), tries' = tries,
           \/ at[t] = "groq" /\ r = 1
           \/ at[t] = "fallback" /\ rung[t] \in Rungs /\ r = rung[t] + 1
    PROVE  Closer(t) /\ at'[t] # "waiting"
  <1>1. tries[t] \in 0..MaxAttempts /\ rung[t] \in Nat /\ tries'[t] = tries[t] /\ rung'[t] = r
    BY DEF AnalyzerTypeOK, Climb
  <1>2. at'[t] = IF r \in Rungs THEN "fallback" ELSE "planned"
    BY DEF AnalyzerTypeOK, Climb
  <1>3. r \in Rungs => r <= Len(Fallbacks)
    BY RungsAreNumbers
  <1>4. rung[t] \in Rungs => rung[t] <= Len(Fallbacks)
    BY RungsAreNumbers
  <1>5. CASE at[t] = "groq" /\ r = 1
    <2>1. CASE r \in Rungs
      <3>1. CallsLeft("fallback", tries[t], r) \in Nat
            /\ CallsLeft("fallback", tries[t], r) < CallsLeft("groq", tries[t], rung[t])
        BY <1>1, <1>3, <2>1, CallsLeftFall
      <3>2. QED
        BY <1>1, <1>2, <1>5, <2>1, <3>1 DEF Closer
    <2>2. CASE r \notin Rungs
      <3>1. CallsLeft("planned", tries[t], r) = 0 /\ 0 < CallsLeft("groq", tries[t], rung[t])
        BY <1>1, CallsLeftAre, CallsLeftFall
      <3>2. QED
        BY <1>1, <1>2, <1>5, <2>2, <3>1 DEF Closer
    <2>3. QED
      BY <2>1, <2>2
  <1>6. CASE at[t] = "fallback" /\ rung[t] \in Rungs /\ r = rung[t] + 1
    <2>1. CASE r \in Rungs
      <3>1. CallsLeft("fallback", tries[t], r) \in Nat
            /\ CallsLeft("fallback", tries[t], r) < CallsLeft("fallback", tries[t], rung[t])
        <4>1. r \in Nat /\ rung[t] < r /\ r <= Len(Fallbacks)
          BY <1>1, <1>3, <1>6, <2>1
        <4>2. QED
          BY <1>1, <4>1, CallsLeftFall
      <3>2. QED
        BY <1>1, <1>2, <1>6, <2>1, <3>1 DEF Closer
    <2>2. CASE r \notin Rungs
      <3>1. CallsLeft("planned", tries[t], r) = 0 /\ 0 < CallsLeft("fallback", tries[t], rung[t])
        BY <1>1, <1>4, <1>6, CallsLeftAre, CallsLeftFall
      <3>2. QED
        BY <1>1, <1>2, <1>6, <2>2, <3>1 DEF Closer
    <2>3. QED
      BY <2>1, <2>2
  <1>7. QED
    BY <1>2, <1>5, <1>6

LEMMA PlannedCloser ==
    ASSUME AnalyzerTypeOK, NEW t \in Tasks, NEW who, Planned(t, who), tries' = tries,
           at[t] = "groq" \/ (at[t] = "fallback" /\ rung[t] \in Rungs)
    PROVE  Closer(t) /\ at'[t] # "waiting"
  <1>1. tries[t] \in 0..MaxAttempts /\ rung[t] \in Nat /\ tries'[t] = tries[t] /\ rung'[t] = rung[t]
    BY DEF AnalyzerTypeOK, Planned
  <1>2. at'[t] = "planned"
    BY DEF AnalyzerTypeOK, Planned
  <1>3. rung[t] \in Rungs => rung[t] <= Len(Fallbacks)
    BY RungsAreNumbers
  <1>4. CallsLeft("planned", tries[t], rung[t]) = 0 /\ 0 < CallsLeft("groq", tries[t], rung[t])
        /\ (rung[t] \in Rungs => 0 < CallsLeft("fallback", tries[t], rung[t]))
    BY <1>1, <1>3, CallsLeftAre, CallsLeftFall
  <1>5. QED
    BY <1>1, <1>2, <1>4 DEF Closer

(* One task moves, the others stay where they are. *)
Aside(t) == \A u \in Tasks \ {t} : at'[u] = at[u] /\ tries'[u] = tries[u] /\ rung'[u] = rung[u]

LEMMA MoverCloser ==
    ASSUME AnalyzerInv, RetriesOK, NEW t \in Tasks, Admit(t) \/ Proceed(t)
    PROVE  /\ Aside(t)
           /\ at[t] \in {"idle", "planned"} \/ Closer(t)
           /\ at'[t] = "waiting" => tries'[t] < MaxAttempts
  <1> USE DEF AnalyzerInv
  <1>1. /\ at \in [Tasks -> {"idle", "groq", "waiting", "fallback", "planned"}]
        /\ rung \in [Tasks -> Nat] /\ tries \in [Tasks -> 0..MaxAttempts]
    BY DEF AnalyzerTypeOK
  <1>2. at[t] = "fallback" => rung[t] \in Rungs
    BY DEF LadderOK, Standing
  <1>3. CASE Admit(t)
    BY <1>1, <1>3 DEF Admit, Climb, Aside
  <1>4. ASSUME NEW readable \in BOOLEAN, GroqAnswers(t, readable)
        PROVE  Aside(t) /\ Closer(t) /\ at'[t] # "waiting"
    <2>1. Aside(t)
      BY <1>1, <1>4 DEF GroqAnswers, Planned, Climb, Aside
    <2>2. at[t] = "groq" /\ tries' = tries /\ (Planned(t, "groq") \/ Climb(t, 1))
      BY <1>4 DEF GroqAnswers
    <2>3. CASE Planned(t, "groq")
      BY <2>1, <2>2, <2>3, PlannedCloser
    <2>4. CASE Climb(t, 1)
      BY <2>1, <2>2, <2>4, ClimbCloser
    <2>5. QED
      BY <2>2, <2>3, <2>4
  <1>5. ASSUME NEW failure \in Failures, GroqFails(t, failure)
        PROVE  Aside(t) /\ Closer(t) /\ (at'[t] = "waiting" => tries'[t] < MaxAttempts)
    <2>1. Aside(t)
      BY <1>1, <1>5 DEF GroqFails, Climb, Aside
    <2>2. CASE LastTry(t, failure)
      <3>1. at[t] = "groq" /\ tries' = tries /\ Climb(t, 1)
        BY <1>5, <2>2 DEF GroqFails
      <3>2. QED
        BY <2>1, <3>1, ClimbCloser
    <2>3. CASE ~LastTry(t, failure)
      <3>1. /\ at[t] = "groq" /\ at'[t] = "waiting" /\ tries'[t] = tries[t] /\ rung'[t] = rung[t]
        BY <1>1, <1>5, <2>3 DEF GroqFails
      <3>2. tries[t] \in 0..MaxAttempts /\ rung[t] \in Nat /\ tries[t] < MaxAttempts
        BY <1>1, <2>3, AnalyzerConstantsOK DEF LastTry, AnalyzerConstantsOK
      <3>3. QED
        BY <2>1, <3>1, <3>2, CallsLeftFall DEF Closer
    <2>4. QED
      BY <2>2, <2>3
  <1>6. CASE DelayOver(t)
    <2>1. at[t] = "waiting" /\ tries[t] < MaxAttempts
      BY <1>6 DEF DelayOver, RetriesOK
    <2>2. at'[t] = "groq" /\ tries'[t] = tries[t] + 1 /\ rung'[t] = rung[t] /\ Aside(t)
      BY <1>1, <1>6, <2>1 DEF DelayOver, Aside
    <2>3. tries[t] \in 0..MaxAttempts /\ tries[t] + 1 \in 0..MaxAttempts /\ rung[t] \in Nat
      BY <1>1, <2>1, AnalyzerConstantsOK DEF AnalyzerConstantsOK
    <2>5. CallsLeft("groq", tries[t] + 1, rung[t]) \in Nat
          /\ CallsLeft("groq", tries[t] + 1, rung[t]) < CallsLeft("waiting", tries[t], rung[t])
      BY <2>1, <2>3, CallsLeftFall
    <2>6. QED
      BY <2>1, <2>2, <2>5 DEF Closer
  <1>7. CASE FallbackPlans(t)
    <2>1. Aside(t)
      BY <1>1, <1>7 DEF FallbackPlans, Planned, Aside
    <2>2. QED
      BY <1>2, <1>7, <2>1, PlannedCloser DEF FallbackPlans
  <1>8. CASE FallbackFails(t)
    <2>1. Aside(t)
      BY <1>1, <1>8 DEF FallbackFails, Climb, Aside
    <2>2. at[t] = "fallback" /\ Climb(t, rung[t] + 1) /\ tries' = tries /\ rung[t] + 1 \in Nat \ {0}
      BY <1>1, <1>8 DEF FallbackFails
    <2>3. QED
      BY <1>2, <2>1, <2>2, ClimbCloser
  <1>9. CASE Return(t)
    BY <1>1, <1>9 DEF Return, Aside
  <1>10. QED
    BY <1>3, <1>4, <1>5, <1>6, <1>7, <1>8, <1>9 DEF Proceed

LEMMA AnalysisStep ==
    ASSUME AnalyzerInv, RetriesOK, [AnalyzerNext]_analyzerVars
    PROVE  /\ RetriesOK'
           /\ \A t \in Tasks : at[t] \notin {"idle", "planned"} =>
                 (at'[t] = at[t] /\ tries'[t] = tries[t] /\ rung'[t] = rung[t]) \/ Closer(t)
  <1>1. ASSUME NEW u \in Tasks, Admit(u) \/ Proceed(u)
        PROVE  /\ RetriesOK'
               /\ \A t \in Tasks : at[t] \notin {"idle", "planned"} =>
                     (at'[t] = at[t] /\ tries'[t] = tries[t] /\ rung'[t] = rung[t]) \/ Closer(t)
    <2>1. /\ Aside(u)
          /\ at[u] \in {"idle", "planned"} \/ Closer(u)
          /\ at'[u] = "waiting" => tries'[u] < MaxAttempts
      BY <1>1, MoverCloser
    <2>2. RetriesOK'
      BY <2>1 DEF RetriesOK, Aside
    <2>3. QED
      BY <2>1, <2>2 DEF Aside
  <1>2. CASE UNCHANGED <<at, tries, rung>>
    BY <1>2 DEF RetriesOK
  <1>3. QED
    BY <1>1, <1>2 DEF AnalyzerNext, CoolDown, analyzerVars

(* execute_with_retry and the loop over the fallbacks: every call and      *)
(* every delay brings an analysis nearer to its plan, however many         *)
(* analyses share the breaker.                                             *)
THEOREM AnalysesAreFinite ==
    AnalyzerSpec =>
      [][\A t \in Tasks : at[t] \notin {"idle", "planned"} =>
            (at'[t] = at[t] /\ tries'[t] = tries[t] /\ rung'[t] = rung[t]) \/ Closer(t)]_analyzerVars
  <1>1. AnalyzerInit => RetriesOK
    BY DEF AnalyzerInit, RetriesOK
  <1>2. AnalyzerInv /\ RetriesOK /\ [AnalyzerNext]_analyzerVars => RetriesOK'
    BY AnalysisStep
  <1>3. AnalyzerInv /\ RetriesOK /\ [AnalyzerNext]_analyzerVars =>
          [\A t \in Tasks : at[t] \notin {"idle", "planned"} =>
            (at'[t] = at[t] /\ tries'[t] = tries[t] /\ rung'[t] = rung[t]) \/ Closer(t)]_analyzerVars
    BY AnalysisStep
  <1>4. QED
    BY <1>1, <1>2, <1>3, AnalyzerInvariance, PTL DEF AnalyzerSpec

-----------------------------------------------------------------------------
(***************************************************************************)
(* RequestPipeline.                                                        *)
(***************************************************************************)

(* What a plan must be to be followed. *)
Cap(mode) ==
    CASE mode = "smart"         -> SmartCap
      [] mode = "deep_research" -> DeepCap
      [] mode \notin Graphs     -> 1

Shaped(p) == p = [mode |-> p.mode, tools |-> p.tools, iterations |-> p.iterations, fallback |-> p.fallback]

Bounded(p) == p.mode \in Modes /\ p.iterations \in 1..Cap(p.mode)

-----------------------------------------------------------------------------
(* The operators of ResponseModes. *)

(* _apply_safety_overrides caps the loop budget of whatever mode is left.  *)
LEMMA PlansAreBounded ==
    ASSUME req \in Requests, cfg \in Configs, NEW p \in Plans
    PROVE  Shaped(p) /\ Bounded(p)
  <1>1. CASE p = SafeDefault
    BY <1>1 DEF SafeDefault, Shaped, Bounded, Modes, Handlers, Graphs, Cap
  <1>2. ASSUME NEW q \in [mode : Modes, tools : PlannerTools, iterations : PlannerRounds, fallback : BOOLEAN],
               p = Overridden(q, req, cfg)
        PROVE  Shaped(p) /\ Bounded(p)
    <2> DEFINE mode == OverriddenMode(q, req, cfg)
    <2>1. mode \in Modes
      BY DEF OverriddenMode, Modes, Handlers
    <2>2. q.iterations \in Nat \ {0}
      BY PipelineConstantsOK DEF PipelineConstantsOK
    <2>3. Iterations(mode, q.iterations) \in 1..Cap(mode)
      BY <2>1, <2>2, CapsOK DEF CapsOK, Iterations, SmallerOf, Cap, Modes, Handlers, Graphs
    <2>4. p = [mode |-> mode, tools |-> IF cfg.web THEN q.tools ELSE Others(q.tools),
               iterations |-> Iterations(mode, q.iterations), fallback |-> q.fallback]
      BY <1>2 DEF Overridden
    <2>5. QED
      BY <2>1, <2>3, <2>4 DEF Shaped, Bounded
  <1>3. QED
    BY <1>1, <1>2 DEF Plans

LEMMA RequestedIsMode ==
    ASSUME req \in Requests, Requested(req, cfg) # "invalid"
    PROVE  Requested(req, cfg) \in Modes \union {"auto"}
  BY DEF Requests, Requested, AskedMode, CustomBase, ResolveHint, Selectable, Modes, Handlers, Graphs

LEMMA WantedIsRequested ==
    ASSUME req \in Requests, Wanted # "any", Enabled(Wanted, cfg)
    PROVE  Requested(req, cfg) = Wanted /\ Wanted # "auto"
  BY DEF Requests, Wanted, Enabled, Requested, AskedMode, CustomBase, ResolveHint, Selectable

(* apply_requested_mode gives the user's mode the budget of that mode.     *)
LEMMA SettledPlan ==
    ASSUME req \in Requests, Requested(req, cfg) # "invalid", NEW p, Shaped(p), Bounded(p), Settle(p)
    PROVE  /\ Bounded(plan')
           /\ Requested(req, cfg) # "auto" => plan'.mode = Requested(req, cfg)
           /\ picked' = (picked /\ plan'.mode # "web_search")
  <1> DEFINE asked == Requested(req, cfg)
             applied == Applied(p, asked)
             kept == picked /\ applied.mode # "web_search"
  <1>1. asked \in Modes \union {"auto"}
    BY RequestedIsMode
  <1>2. Shaped(applied) /\ Bounded(applied) /\ (asked # "auto" => applied.mode = asked)
    <2>1. CASE asked = "auto"
      BY <2>1 DEF Applied
    <2>2. CASE asked # "auto"
      <3>1. applied = [mode |-> asked, tools |-> p.tools,
                       iterations |-> CASE asked = "smart"         -> SmartCap
                                        [] asked = "deep_research" -> DeepCap
                                        [] asked \in Handlers      -> 1,
                       fallback |-> p.fallback]
        BY <2>2 DEF Applied, Shaped
      <3>2. QED
        BY <1>1, <2>2, <3>1, CapsOK DEF CapsOK, Shaped, Bounded, Cap, Modes, Handlers, Graphs
    <2>3. QED
      BY <2>1, <2>2
  <1>3. /\ picked' = kept
        /\ plan' = IF kept THEN [applied EXCEPT !.tools = Others(@)] ELSE applied
    BY DEF Settle
  <1>4. plan'.mode = applied.mode /\ plan'.iterations = applied.iterations
    BY <1>2, <1>3 DEF Shaped
  <1>5. QED
    BY <1>2, <1>3, <1>4 DEF Bounded

(* classify: an error whose message is written for the user comes first.   *)
LEMMA DocumentRefusalIsTold ==
    ASSUME NEW mode
    PROVE  LET event == ErrorEvent(DocumentContextUnavailable, mode)
           IN  event.code = "DOCUMENT" /\ event.message = "own"
  <1> DEFINE error == DocumentContextUnavailable
             first(i) == /\ Rules[i].class \in error.classes
                         /\ \A j \in 1..i - 1 : Rules[j].class \notin error.classes
  <1>1. Rules[1].class \in error.classes /\ DOMAIN Rules = 1..13
    BY DEF Rules, Rule, DocumentContextUnavailable, UserFacing
  <1>2. first(1)
    BY <1>1
  <1>3. \A i \in DOMAIN Rules : first(i) => i = 1
    BY <1>1
  <1>4. (CHOOSE i \in DOMAIN Rules : first(i)) = 1
    BY <1>1, <1>2, <1>3
  <1>5. RuleOf(error) = Rules[1]
    BY <1>4 DEF RuleOf
  <1>6. RuleOf(error).code = "own" /\ RuleOf(error).message = "own"
    BY <1>5 DEF Rules, Rule
  <1>7. QED
    BY <1>6 DEF ErrorEvent, Classify, DocumentContextUnavailable, UserFacing
-----------------------------------------------------------------------------
(* The inductive invariant, by what the stages so far have settled.        *)
Early == {"validate", "context", "analyze"}
Workflow == {"handler", "smart", "subtask", "draft", "deep_research", "findings", "compare",
             "report", "selected"}
Late == {"fit", "stream"}
Working == Workflow \union Late
Ended == {"error", "done"}

Stages ==
    /\ cfg \in Configs /\ req \in Requests
    /\ stage \in Early \union Working \union Ended
    /\ outcome \in {"open", "answered", "failed", "retracted", "silent"}
    /\ outcome # "open" => stage \in Ended

(* Past the collection a turn has read its documents; one that could not   *)
(* is on its way to say so.                                                *)
Documents ==
    /\ stage \in {"validate", "context"} => retrieval = "none"
    /\ stage # "done" => told = NoEvent
    /\ stage = "analyze" \/ stage \in Working \/ Shown => DocumentsRead(retrieval)
    /\ retrieval = "unusable" =>
          /\ req.files
          /\ stage \in Ended
          /\ stage = "error" => raised = DocumentContextUnavailable
          /\ told # NoEvent => told.code = "DOCUMENT" /\ told.message = "own"

(* Past validation the choices can run, past the analysis they have their  *)
(* mode.                                                                   *)
Chosen ==
    /\ stage \in {"context", "analyze"} =>
          Requested(req, cfg) # "invalid" /\ picked = (PickedTool(req) = "web_search")
    /\ stage \in Working \/ Shown =>
          (Wanted # "any" /\ Enabled(Wanted, cfg) => plan.mode = Wanted)

(* A picked search waits for its turn, and then it has grounded the answer.*)
PickCounts == PickedTool(req) = "web_search" /\ plan.mode # "web_search"

Picks ==
    /\ stage \in Workflow /\ PickCounts => picked
    /\ (stage \in Late \/ Shown) /\ PickCounts => grounded

(* A loop is entered only below the plan's budget, the plan's is within    *)
(* that of its mode.                                                       *)
Loops ==
    /\ round \in Nat
    /\ stage \in Early => plan = NoPlan /\ round = 0
    /\ stage \in Working => Bounded(plan)
    /\ stage = "smart" => plan.mode = "smart" /\ round = 0
    /\ stage = "subtask" => plan.mode = "smart" /\ round < plan.iterations
    /\ stage = "deep_research" => plan.mode = "deep_research" /\ round < plan.iterations
    /\ stage = "findings" => plan.mode = "deep_research"
    /\ LoopBudget

IInv == Stages /\ Documents /\ Chosen /\ Picks /\ Loops

(* An answer is out only once its stages are over.                          *)
LEMMA SafeDefaultIsPlan == SafeDefault \in Plans
  BY DEF Plans

LEMMA StagesStep == ASSUME IInv, Next PROVE Stages'
  <1> USE DEF IInv, Stages, GoTo, Raise, given, ending, Early, Workflow, Late, Working, Ended
  <1>1. ASSUME Validate PROVE Stages'
    BY <1>1 DEF Validate
  <1>2. ASSUME NEW how \in {"none", "usable", "no_match", "unusable"}, CollectContext(how) PROVE Stages'
    BY <1>2 DEF CollectContext
  <1>3. ASSUME NEW planned \in Plans, Analyze(planned) PROVE Stages'
    BY <1>3 DEF Analyze, Graphs
  <1>4. ASSUME NEW good \in SUBSET (1..MaxPlannedTools + 1), RunHandler(good) PROVE Stages'
    BY <1>4 DEF RunHandler, Dispatch
  <1>5. ASSUME NEW n \in 0..MaxSubtasks, PlanSubtasks(n) PROVE Stages'
    BY <1>5 DEF PlanSubtasks
  <1>6. ASSUME NEW good \in SUBSET {1}, RunSubtask(good) PROVE Stages'
    BY <1>6 DEF RunSubtask, Dispatch
  <1>7. ASSUME NEW good \in SUBSET {1}, RunSelected(good) PROVE Stages'
    BY <1>7 DEF RunSelected, Dispatch
  <1>8. ASSUME NEW n \in 0..MaxHits, NEW results \in [1..n -> Sources], Search(results) PROVE Stages'
    BY <1>8 DEF Search
  <1>9. ASSUME AnalyzeFindings PROVE Stages'
    BY <1>9 DEF AnalyzeFindings
  <1>10. ASSUME CompareSources PROVE Stages'
    BY <1>10 DEF CompareSources
  <1>11. ASSUME Report PROVE Stages'
    BY <1>11 DEF Report
  <1>12. ASSUME DraftAnswer PROVE Stages'
    BY <1>12 DEF DraftAnswer
  <1>13. ASSUME Fit PROVE Stages'
    BY <1>13 DEF Fit
  <1>14. ASSUME Stream PROVE Stages'
    BY <1>14 DEF Stream
  <1>15. ASSUME PublishError PROVE Stages'
    BY <1>15 DEF PublishError
  <1>16. QED
    BY <1>1, <1>2, <1>3, <1>4, <1>5, <1>6, <1>7, <1>8, <1>9, <1>10, <1>11, <1>12, <1>13, <1>14, <1>15 DEF Next

(* The refusal is the last thing a turn without its documents does.        *)
LEMMA DocumentsStep == ASSUME IInv, Next PROVE Documents'
  <1> USE DEF IInv, Stages, Documents, Shown, DocumentsRead, GoTo, Raise, given, ending,
              Early, Workflow, Late, Working, Ended
  <1>1. ASSUME Validate PROVE Documents'
    BY <1>1 DEF Validate
  <1>2. ASSUME NEW how \in {"none", "usable", "no_match", "unusable"}, CollectContext(how) PROVE Documents'
    BY <1>2 DEF CollectContext, RetrievalResults, DocumentsRead
  <1>3. ASSUME NEW planned \in Plans, Analyze(planned) PROVE Documents'
    BY <1>3 DEF Analyze, Graphs
  <1>4. ASSUME NEW good \in SUBSET (1..MaxPlannedTools + 1), RunHandler(good) PROVE Documents'
    BY <1>4 DEF RunHandler, Dispatch
  <1>5. ASSUME NEW n \in 0..MaxSubtasks, PlanSubtasks(n) PROVE Documents'
    BY <1>5 DEF PlanSubtasks
  <1>6. ASSUME NEW good \in SUBSET {1}, RunSubtask(good) PROVE Documents'
    BY <1>6 DEF RunSubtask, Dispatch
  <1>7. ASSUME NEW good \in SUBSET {1}, RunSelected(good) PROVE Documents'
    BY <1>7 DEF RunSelected, Dispatch
  <1>8. ASSUME NEW n \in 0..MaxHits, NEW results \in [1..n -> Sources], Search(results) PROVE Documents'
    BY <1>8 DEF Search
  <1>9. ASSUME AnalyzeFindings PROVE Documents'
    BY <1>9 DEF AnalyzeFindings
  <1>10. ASSUME CompareSources PROVE Documents'
    BY <1>10 DEF CompareSources
  <1>11. ASSUME Report PROVE Documents'
    BY <1>11 DEF Report
  <1>12. ASSUME DraftAnswer PROVE Documents'
    BY <1>12 DEF DraftAnswer
  <1>13. ASSUME Fit PROVE Documents'
    BY <1>13 DEF Fit
  <1>14. ASSUME Stream PROVE Documents'
    BY <1>14 DEF Stream
  <1>15. ASSUME PublishError PROVE Documents'
    BY <1>15, DocumentRefusalIsTold DEF PublishError
  <1>16. QED
    BY <1>1, <1>2, <1>3, <1>4, <1>5, <1>6, <1>7, <1>8, <1>9, <1>10, <1>11, <1>12, <1>13, <1>14, <1>15 DEF Next

(* The analysis is the only stage that sets the mode.                      *)
LEMMA ChosenStep == ASSUME IInv, Next PROVE Chosen'
  <1> USE DEF IInv, Stages, Chosen, Shown, Wanted, GoTo, Raise, given, ending, Early,
              Workflow, Late, Working, Ended
  <1>1. ASSUME Validate PROVE Chosen'
    BY <1>1 DEF Validate, BadSelection
  <1>2. ASSUME NEW how \in {"none", "usable", "no_match", "unusable"}, CollectContext(how) PROVE Chosen'
    BY <1>2 DEF CollectContext
  <1>3. ASSUME NEW planned \in Plans, Analyze(planned) PROVE Chosen'
    <2>1. PICK p : Shaped(p) /\ Bounded(p) /\ Settle(p)
      BY <1>3, PlansAreBounded, SafeDefaultIsPlan DEF Analyze, IInv, Stages
    <2>2. stage' \notin {"context", "analyze"}
      BY <1>3 DEF Analyze, GoTo, Graphs
    <2>3. Wanted # "any" /\ Enabled(Wanted, cfg) => plan'.mode = Wanted
      BY <1>3, <2>1, SettledPlan, WantedIsRequested DEF Analyze, IInv, Stages, Chosen
    <2>4. QED
      BY <1>3, <2>2, <2>3 DEF Chosen, Wanted, Analyze, given
  <1>4. ASSUME NEW good \in SUBSET (1..MaxPlannedTools + 1), RunHandler(good) PROVE Chosen'
    BY <1>4 DEF RunHandler, Dispatch
  <1>5. ASSUME NEW n \in 0..MaxSubtasks, PlanSubtasks(n) PROVE Chosen'
    BY <1>5 DEF PlanSubtasks
  <1>6. ASSUME NEW good \in SUBSET {1}, RunSubtask(good) PROVE Chosen'
    BY <1>6 DEF RunSubtask, Dispatch
  <1>7. ASSUME NEW good \in SUBSET {1}, RunSelected(good) PROVE Chosen'
    BY <1>7 DEF RunSelected, Dispatch
  <1>8. ASSUME NEW n \in 0..MaxHits, NEW results \in [1..n -> Sources], Search(results) PROVE Chosen'
    BY <1>8 DEF Search
  <1>9. ASSUME AnalyzeFindings PROVE Chosen'
    BY <1>9 DEF AnalyzeFindings
  <1>10. ASSUME CompareSources PROVE Chosen'
    BY <1>10 DEF CompareSources
  <1>11. ASSUME Report PROVE Chosen'
    BY <1>11 DEF Report
  <1>12. ASSUME DraftAnswer PROVE Chosen'
    BY <1>12 DEF DraftAnswer
  <1>13. ASSUME Fit PROVE Chosen'
    BY <1>13 DEF Fit
  <1>14. ASSUME Stream PROVE Chosen'
    BY <1>14 DEF Stream
  <1>15. ASSUME PublishError PROVE Chosen'
    BY <1>15 DEF PublishError
  <1>16. QED
    BY <1>1, <1>2, <1>3, <1>4, <1>5, <1>6, <1>7, <1>8, <1>9, <1>10, <1>11, <1>12, <1>13, <1>14, <1>15 DEF Next

(* The picked search is dispatched before the prompt is fitted.            *)
LEMMA PicksStep == ASSUME IInv, Next PROVE Picks'
  <1> USE DEF IInv, Stages, Picks, PickCounts, Shown, GoTo, Raise, given, ending, Early,
              Workflow, Late, Working, Ended
  <1>1. ASSUME Validate PROVE Picks'
    BY <1>1 DEF Validate
  <1>2. ASSUME NEW how \in {"none", "usable", "no_match", "unusable"}, CollectContext(how) PROVE Picks'
    BY <1>2 DEF CollectContext
  <1>3. ASSUME NEW planned \in Plans, Analyze(planned) PROVE Picks'
    <2>1. PICK p : Shaped(p) /\ Bounded(p) /\ Settle(p)
      BY <1>3, PlansAreBounded, SafeDefaultIsPlan DEF Analyze, IInv, Stages
    <2>2. picked' = (picked /\ plan'.mode # "web_search") /\ picked = (PickedTool(req) = "web_search")
      BY <1>3, <2>1, SettledPlan DEF Analyze, IInv, Stages, Chosen
    <2>3. stage' \notin Late /\ outcome' = "open"
      BY <1>3 DEF Analyze, GoTo, Graphs, ending, IInv, Stages, Early, Working, Workflow, Late, Ended
    <2>4. QED
      BY <1>3, <2>2, <2>3 DEF Picks, PickCounts, Shown, Analyze, given
  <1>4. ASSUME NEW good \in SUBSET (1..MaxPlannedTools + 1), RunHandler(good) PROVE Picks'
    BY <1>4 DEF RunHandler, Dispatch
  <1>5. ASSUME NEW n \in 0..MaxSubtasks, PlanSubtasks(n) PROVE Picks'
    BY <1>5 DEF PlanSubtasks
  <1>6. ASSUME NEW good \in SUBSET {1}, RunSubtask(good) PROVE Picks'
    BY <1>6 DEF RunSubtask, Dispatch
  <1>7. ASSUME NEW good \in SUBSET {1}, RunSelected(good) PROVE Picks'
    <2>1. stage = "selected" /\ outcome' = "open" /\ PickCounts' = PickCounts /\ stage' \in {"fit", "error"}
      BY <1>7 DEF RunSelected, Dispatch
    <2>2. CASE picked
      <3>1. Raises(<<Call(TRUE)>>, good) \/ good # {}
        BY DEF Raises, Call
      <3>2. stage' = "error" \/ grounded'
        BY <1>7, <2>2, <3>1 DEF RunSelected, Dispatch
      <3>3. QED
        BY <2>1, <3>2
    <2>3. CASE ~picked
      BY <2>1, <2>3
    <2>4. QED
      BY <2>2, <2>3
  <1>8. ASSUME NEW n \in 0..MaxHits, NEW results \in [1..n -> Sources], Search(results) PROVE Picks'
    BY <1>8 DEF Search
  <1>9. ASSUME AnalyzeFindings PROVE Picks'
    BY <1>9 DEF AnalyzeFindings
  <1>10. ASSUME CompareSources PROVE Picks'
    BY <1>10 DEF CompareSources
  <1>11. ASSUME Report PROVE Picks'
    BY <1>11 DEF Report
  <1>12. ASSUME DraftAnswer PROVE Picks'
    BY <1>12 DEF DraftAnswer
  <1>13. ASSUME Fit PROVE Picks'
    BY <1>13 DEF Fit
  <1>14. ASSUME Stream PROVE Picks'
    BY <1>14 DEF Stream
  <1>15. ASSUME PublishError PROVE Picks'
    BY <1>15 DEF PublishError
  <1>16. QED
    BY <1>1, <1>2, <1>3, <1>4, <1>5, <1>6, <1>7, <1>8, <1>9, <1>10, <1>11, <1>12, <1>13, <1>14, <1>15 DEF Next

(* A round starts only below the budget and adds one to the count.         *)
LEMMA LoopsStep == ASSUME IInv, Next PROVE Loops'
  <1> USE DEF IInv, Stages, Loops, LoopBudget, Bounded, graph, research, GoTo, Raise, given,
              Early, Workflow, Late, Working, Ended
  <1>1. ASSUME Validate PROVE Loops'
    BY <1>1 DEF Validate
  <1>2. ASSUME NEW how \in {"none", "usable", "no_match", "unusable"}, CollectContext(how) PROVE Loops'
    BY <1>2 DEF CollectContext
  <1>3. ASSUME NEW planned \in Plans, Analyze(planned) PROVE Loops'
    <2>1. PICK p : Shaped(p) /\ Bounded(p) /\ Settle(p)
      BY <1>3, PlansAreBounded, SafeDefaultIsPlan DEF Analyze, IInv, Stages
    <2>2. Bounded(plan')
      BY <1>3, <2>1, SettledPlan DEF Analyze, IInv, Stages, Chosen
    <2>3. round = 0 /\ round' = 0
      BY <1>3 DEF Analyze, graph, IInv, Loops, Early
    <2>4. stage' = IF plan'.mode \in Graphs THEN plan'.mode ELSE "handler"
      BY <1>3 DEF Analyze, GoTo
    <2>5. QED
      BY <2>2, <2>3, <2>4, CapsOK
         DEF CapsOK, Loops, LoopBudget, Bounded, Graphs, Modes, Handlers, Early, Working, Workflow, Late
  <1>4. ASSUME NEW good \in SUBSET (1..MaxPlannedTools + 1), RunHandler(good) PROVE Loops'
    BY <1>4 DEF RunHandler, Dispatch
  <1>5. ASSUME NEW n \in 0..MaxSubtasks, PlanSubtasks(n) PROVE Loops'
    BY <1>5 DEF PlanSubtasks
  <1>6. ASSUME NEW good \in SUBSET {1}, RunSubtask(good) PROVE Loops'
    BY <1>6, CapsOK DEF RunSubtask, Dispatch, LoopsOn, Cap, Modes, Handlers, Graphs, CapsOK
  <1>7. ASSUME NEW good \in SUBSET {1}, RunSelected(good) PROVE Loops'
    BY <1>7 DEF RunSelected, Dispatch
  <1>8. ASSUME NEW n \in 0..MaxHits, NEW results \in [1..n -> Sources], Search(results) PROVE Loops'
    BY <1>8, CapsOK DEF Search, LoopsOn, Cap, Modes, Handlers, Graphs, CapsOK
  <1>9. ASSUME AnalyzeFindings PROVE Loops'
    BY <1>9, CapsOK DEF AnalyzeFindings, LoopsOn, Cap, Modes, Handlers, Graphs, CapsOK
  <1>10. ASSUME CompareSources PROVE Loops'
    BY <1>10 DEF CompareSources
  <1>11. ASSUME Report PROVE Loops'
    BY <1>11 DEF Report
  <1>12. ASSUME DraftAnswer PROVE Loops'
    BY <1>12 DEF DraftAnswer
  <1>13. ASSUME Fit PROVE Loops'
    BY <1>13 DEF Fit
  <1>14. ASSUME Stream PROVE Loops'
    BY <1>14 DEF Stream
  <1>15. ASSUME PublishError PROVE Loops'
    BY <1>15 DEF PublishError
  <1>16. QED
    BY <1>1, <1>2, <1>3, <1>4, <1>5, <1>6, <1>7, <1>8, <1>9, <1>10, <1>11, <1>12, <1>13, <1>14, <1>15 DEF Next

LEMMA IInvStep == ASSUME IInv, [Next]_vars PROVE IInv'
  <1>1. CASE Next
    BY <1>1, StagesStep, DocumentsStep, ChosenStep, PicksStep, LoopsStep DEF IInv
  <1>2. CASE UNCHANGED vars
    <2> USE <1>2 DEF vars
    <2>1. Stages'
      BY DEF IInv, Stages
    <2>2. Documents'
      BY DEF IInv, Documents, DocumentsRead, Shown
    <2>3. Chosen'
      BY DEF IInv, Chosen, Wanted, Shown
    <2>4. Picks'
      BY DEF IInv, Picks, PickCounts, Shown
    <2>5. Loops'
      BY DEF IInv, Loops, LoopBudget
    <2>6. QED
      BY <2>1, <2>2, <2>3, <2>4, <2>5 DEF IInv
  <1>3. QED
    BY <1>1, <1>2

LEMMA InitIInv == Init => IInv
  BY CapsOK DEF CapsOK, Init, Start, IInv, Stages, Documents, DocumentsRead, Chosen, Picks, Loops,
                LoopBudget, Shown, NoPlan, Graphs, Early, Working, Workflow, Late, Ended

LEMMA Invariance == Spec => []IInv
  BY InitIInv, IInvStep, PTL DEF Spec

-----------------------------------------------------------------------------
(* _enforce_document_context: no answer to a question with files unless    *)
(* they were searched, and a refusal for them is told in its own words.    *)
THEOREM DocumentsAreRead == Spec => []AnswersReadDocuments
  <1>1. IInv => AnswersReadDocuments
    BY DEF IInv, Documents, DocumentsRead, AnswersReadDocuments
  <1>2. QED
    BY <1>1, Invariance, PTL

(* apply_requested_mode: neither the planner, nor the overrides, nor the   *)
(* fast path changes a mode the user chose.                                *)
THEOREM ChosenModeRuns == Spec => []SelectedModeRuns
  <1>1. IInv => SelectedModeRuns
    BY DEF IInv, Chosen, SelectedModeRuns
  <1>2. QED
    BY <1>1, Invariance, PTL

(* _run_selected_tools: an answer with a picked search has one that        *)
(* succeeded, whatever the plan listed.                                    *)
THEOREM PickedSearchGrounds == Spec => []PickedSearchNotDropped
  <1>1. IInv => PickedSearchNotDropped
    BY DEF IInv, Stages, Picks, PickCounts, PickedSearchNotDropped, PickedTool, Requests
  <1>2. QED
    BY <1>1, Invariance, PTL

(* LoopGuard.evaluate, with the caps of _apply_safety_overrides and        *)
(* apply_requested_mode: no planner makes a loop exceed its mode's limit.  *)
THEOREM LoopsKeepBudget == Spec => []LoopBudget
  <1>1. IInv => LoopBudget
    BY DEF IInv, Loops
  <1>2. QED
    BY <1>1, Invariance, PTL

-----------------------------------------------------------------------------
(* The calls that are no searches are calls. *)
LEMMA OthersAreCalls == ASSUME NEW calls \in Calls PROVE Others(calls) \in Calls
  BY SelectedPlaces DEF Others, Calls

LEMMA PlansAreTyped ==
    ASSUME NEW p \in Plans
    PROVE  Shaped(p) /\ p.tools \in Calls
  <1>1. CASE p = SafeDefault
    BY <1>1 DEF SafeDefault, Shaped, Calls
  <1>2. ASSUME NEW q \in [mode : Modes, tools : PlannerTools, iterations : PlannerRounds, fallback : BOOLEAN],
               p = Overridden(q, req, cfg)
        PROVE  Shaped(p) /\ p.tools \in Calls
    <2>1. p = [mode |-> OverriddenMode(q, req, cfg), tools |-> IF cfg.web THEN q.tools ELSE Others(q.tools),
               iterations |-> Iterations(OverriddenMode(q, req, cfg), q.iterations), fallback |-> q.fallback]
      BY <1>2 DEF Overridden
    <2>2. q.tools \in Calls
      BY PipelineConstantsOK DEF PipelineConstantsOK
    <2>3. Others(q.tools) \in Calls
      BY <2>2, OthersAreCalls
    <2>4. QED
      BY <2>1, <2>2, <2>3 DEF Shaped
  <1>3. QED
    BY <1>1, <1>2 DEF Plans

LEMMA SettledTools ==
    ASSUME NEW p, Shaped(p), p.tools \in Calls, Settle(p)
    PROVE  plan'.tools \in Calls /\ picked' \in BOOLEAN
  <1> DEFINE asked == Requested(req, cfg)
             applied == Applied(p, asked)
             kept == picked /\ applied.mode # "web_search"
  <1>1. Shaped(applied) /\ applied.tools = p.tools
    <2>1. CASE asked = "auto"
      BY <2>1 DEF Applied
    <2>2. CASE asked # "auto"
      <3>1. applied = [mode |-> asked, tools |-> p.tools,
                       iterations |-> CASE asked = "smart"         -> SmartCap
                                        [] asked = "deep_research" -> DeepCap
                                        [] asked \in Handlers      -> 1,
                       fallback |-> p.fallback]
        BY <2>2 DEF Applied, Shaped
      <3> HIDE DEF applied
      <3>2. applied.tools = p.tools /\ applied.mode = asked /\ applied.fallback = p.fallback
        BY <3>1
      <3>3. QED
        BY <3>1, <3>2 DEF Shaped
    <2>3. QED
      BY <2>1, <2>2
  <1>2. /\ picked' = kept
        /\ plan' = IF kept THEN [applied EXCEPT !.tools = Others(@)] ELSE applied
    BY DEF Settle
  <1> HIDE DEF applied
  <1>3. plan'.tools = IF kept THEN Others(p.tools) ELSE p.tools
    BY <1>1, <1>2 DEF Shaped
  <1>4. kept \in BOOLEAN
    OBVIOUS
  <1>5. QED
    BY <1>2, <1>3, <1>4, OthersAreCalls

-----------------------------------------------------------------------------
(* What classify asks for, and what it says of the message. *)
Asked == {Rules[i].class : i \in 1..13}
Anything(error) == error.classes \subseteq Asked /\ "Exception" \in error.classes

LEMMA RuleNames ==
    /\ DOMAIN Rules = 1..13
    /\ ToSet(Rules) = {Rules[i] : i \in 1..13}
    /\ {r.class : r \in ToSet(Rules)} = Asked
    /\ \A i \in 1..13 : Rules[i].message \in {"own", "generic"}
    /\ Rules[13].class = "Exception"
  <1>1. DOMAIN Rules = 1..13
    BY DEF Rules, Rule
  <1>2. ToSet(Rules) = {Rules[i] : i \in 1..13}
    BY <1>1 DEF ToSet
  <1>3. {r.class : r \in ToSet(Rules)} = Asked
    BY <1>2 DEF Asked
  <1>4. \A i \in 1..13 : Rules[i].message \in {"own", "generic"}
    <2>1. /\ Rules[1].message = "own" /\ Rules[2].message = "generic" /\ Rules[3].message = "generic"
          /\ Rules[4].message = "generic" /\ Rules[5].message = "generic" /\ Rules[6].message = "generic"
          /\ Rules[7].message = "generic" /\ Rules[8].message = "own" /\ Rules[9].message = "generic"
          /\ Rules[10].message = "generic" /\ Rules[11].message = "generic"
          /\ Rules[12].message = "generic" /\ Rules[13].message = "generic"
      BY DEF Rules, Rule
    <2>2. 1..13 = {1, 2, 3, 4, 5, 6, 7, 8, 9, 10, 11, 12, 13}
      OBVIOUS
    <2>3. QED
      BY <2>1, <2>2
  <1>5. Rules[13].class = "Exception"
    BY DEF Rules, Rule
  <1>6. QED
    BY <1>1, <1>2, <1>3, <1>4, <1>5

LEMMA AskedNames ==
    {"UserFacingError", "ToolError", "rate limit", "ProviderError", "RetriableError",
     "ContextOverflowError", "PermanentError", "Exception"} \subseteq Asked
  <1>1. /\ Rules[1].class = "UserFacingError" /\ Rules[2].class = "ToolError"
        /\ Rules[4].class = "rate limit" /\ Rules[5].class = "ProviderError"
        /\ Rules[6].class = "RetriableError" /\ Rules[8].class = "ContextOverflowError"
        /\ Rules[9].class = "PermanentError" /\ Rules[13].class = "Exception"
    BY DEF Rules, Rule
  <1>2. \A i \in 1..13 : Rules[i].class \in Asked
    BY DEF Asked
  <1> HIDE DEF Asked
  <1>3. {1, 2, 4, 5, 6, 8, 9, 13} \subseteq 1..13
    OBVIOUS
  <1>4. QED
    BY <1>1, <1>2, <1>3

(* Every exception is answered by some question, the last one at worst. *)
LEMMA SomeRuleApplies ==
    ASSUME NEW error, Anything(error)
    PROVE  RuleOf(error).message \in {"own", "generic"}
  <1> DEFINE first(i) == /\ Rules[i].class \in error.classes
                         /\ \A j \in 1..i - 1 : Rules[j].class \notin error.classes
             apply == {i \in 1..13 : Rules[i].class \in error.classes}
  <1>1. apply \in SUBSET Nat /\ 13 \in apply
    BY RuleNames DEF Anything
  <1>2. PICK i \in apply : \A j \in apply : i <= j
    BY <1>1, LeastNumber
  <1>3. i \in DOMAIN Rules /\ first(i)
    BY <1>2, RuleNames
  <1>4. (CHOOSE k \in DOMAIN Rules : first(k)) \in DOMAIN Rules
    BY <1>3
  <1>5. QED
    BY <1>4, RuleNames DEF RuleOf

LEMMA ToldMessage ==
    ASSUME NEW error, Anything(error), NEW mode
    PROVE  ErrorEvent(error, mode).message \in {"own", "generic"}
  BY SomeRuleApplies DEF ErrorEvent, Classify

(* Everything a stage raises is among them. *)
LEMMA RaisedAsked ==
    /\ Anything(NoError) /\ Anything(InvalidToolSelection) /\ Anything(InvalidMode)
    /\ Anything(DocumentContextUnavailable) /\ Anything(RequiredToolFailed)
    /\ Anything(ContextOverflow) /\ Anything(ContextBudget)
    /\ \A error \in StreamErrors : Anything(error)
  <1> USE AskedNames DEF Anything, Exception, UserFacing
  <1>1. Anything(NoError) /\ Anything(ContextBudget) /\ Anything(SendFailed)
    BY DEF NoError, ContextBudget, SendFailed
  <1>2. Anything(InvalidToolSelection) /\ Anything(InvalidMode) /\ Anything(DocumentContextUnavailable)
    BY DEF InvalidToolSelection, InvalidMode, DocumentContextUnavailable
  <1>3. Anything(RequiredToolFailed) /\ Anything(ContextOverflow)
    BY DEF RequiredToolFailed, ContextOverflow
  <1>4. Anything(ProviderFailure) /\ Anything(ProviderTimeout) /\ Anything(AllProvidersFailed)
    BY DEF ProviderFailure, ProviderTimeout, AllProvidersFailed
  <1>5. Anything(RateLimited(ProviderFailure)) /\ Anything(RateLimited(AllProvidersFailed))
    BY DEF RateLimited, ProviderFailure, AllProvidersFailed
  <1>6. QED
    BY <1>1, <1>2, <1>3, <1>4, <1>5 DEF StreamErrors

-----------------------------------------------------------------------------
(* The Smart planner's sub-tasks. *)
MostTasks == IF MaxPlannedTools < MaxSubtasks THEN MaxSubtasks ELSE MaxPlannedTools

LEMMA Subtasks ==
    ASSUME NEW tools \in Calls, NEW n \in 0..MaxSubtasks
    PROVE  LET first == SubSeq(tools, 1, SmallerOf(Len(tools), MaxPlannedTools))
               searches == [i \in 1..n |-> Call(FALSE)]
           IN  /\ first \in Calls /\ Len(first) <= MostTasks
               /\ searches \in Calls /\ Len(searches) <= MostTasks
  <1> DEFINE m == SmallerOf(Len(tools), MaxPlannedTools)
             S == [tool : {"web_search", "unknown"}, required : BOOLEAN]
             e == Call(FALSE)
  <1>1. tools \in Seq(S) /\ Calls = Seq(S)
    BY DEF Calls
  <1>2. e \in S
    <2>1. e = [tool |-> "web_search", required |-> FALSE]
      BY DEF Call
    <2> HIDE DEF e
    <2>2. QED
      BY <2>1
  <1>3. n \in Nat /\ n <= MostTasks
    BY PipelineConstantsOK DEF PipelineConstantsOK, MostTasks, MaxPlannedTools
  <1>4. m \in 0..Len(tools) /\ m <= MaxPlannedTools
    BY <1>1 DEF SmallerOf, MaxPlannedTools
  <1>5. m <= MostTasks
    BY <1>4, PipelineConstantsOK DEF PipelineConstantsOK, MostTasks, MaxPlannedTools
  <1> HIDE DEF m, S, e
  <1>6. SubSeq(tools, 1, m) \in Seq(S) /\ Len(SubSeq(tools, 1, m)) = m
    BY <1>1, <1>4
  <1>7. [i \in 1..n |-> e] \in Seq(S) /\ Len([i \in 1..n |-> e]) = n
    BY <1>2, <1>3
  <1>8. QED
    BY <1>1, <1>3, <1>5, <1>6, <1>7 DEF m, e

(* The values of the rest of the state. *)
Typed ==
    /\ retrieval \in {"none", "usable", "no_match", "unusable"}
    /\ picked \in BOOLEAN /\ grounded \in BOOLEAN
    /\ plan.mode \in Modes \union {"none"}
    /\ plan.tools \in Calls /\ tasks \in Calls
    /\ hits \in Seq(Sources) /\ findings \in Seq(Sources) /\ verified \subseteq DOMAIN findings
    /\ draft \in {"none", "grounded", "ungrounded"}
    /\ Anything(raised)
    /\ told.message \in {"none", "own", "generic"}

LEMMA TypedStep == ASSUME IInv, Typed, Next PROVE Typed'
  <1> USE DEF Typed, graph, research, given, ending, GoTo, Raise
  <1>1. ASSUME Validate PROVE Typed'
    BY <1>1, RaisedAsked DEF Validate
  <1>2. ASSUME NEW how \in {"none", "usable", "no_match", "unusable"}, CollectContext(how) PROVE Typed'
    BY <1>2, RaisedAsked DEF CollectContext, RetrievalResults
  <1>3. ASSUME NEW planned \in Plans, Analyze(planned) PROVE Typed'
    <2>1. PICK p : Shaped(p) /\ p.tools \in Calls /\ Settle(p)
      BY <1>3, PlansAreTyped, SafeDefaultIsPlan DEF Analyze
    <2>2. plan'.tools \in Calls /\ picked' \in BOOLEAN
      BY <2>1, SettledTools
    <2>3. PICK q : Shaped(q) /\ Bounded(q) /\ Settle(q)
      BY <1>3, PlansAreBounded, SafeDefaultIsPlan DEF Analyze, IInv, Stages
    <2>4. plan'.mode \in Modes
      BY <1>3, <2>3, SettledPlan DEF Analyze, IInv, Stages, Chosen, Bounded
    <2>5. QED
      BY <1>3, <2>2, <2>4 DEF Analyze
  <1>4. ASSUME NEW good \in SUBSET (1..MaxPlannedTools + 1), RunHandler(good) PROVE Typed'
    BY <1>4, RaisedAsked DEF RunHandler, Dispatch
  <1>5. ASSUME NEW n \in 0..MaxSubtasks, PlanSubtasks(n) PROVE Typed'
    <2>1. tasks' \in Calls
      BY <1>5, Subtasks DEF PlanSubtasks
    <2>2. QED
      BY <1>5, <2>1 DEF PlanSubtasks
  <1>6. ASSUME NEW good \in SUBSET {1}, RunSubtask(good) PROVE Typed'
    <2>1. tasks # <<>> => Tail(tasks) \in Calls
      BY DEF Calls
    <2>2. tasks' \in Calls
      BY <1>6, <2>1 DEF RunSubtask
    <2>3. Anything(raised') /\ grounded' \in BOOLEAN
      BY <1>6, RaisedAsked DEF RunSubtask, Dispatch
    <2>4. QED
      BY <1>6, <2>2, <2>3 DEF RunSubtask
  <1>7. ASSUME NEW good \in SUBSET {1}, RunSelected(good) PROVE Typed'
    BY <1>7, RaisedAsked DEF RunSelected, Dispatch
  <1>8. ASSUME NEW n \in 0..MaxHits, NEW results \in [1..n -> Sources], Search(results) PROVE Typed'
    <2>1. results \in Seq(Sources)
      OBVIOUS
    <2>2. hits \o results \in Seq(Sources)
      BY <2>1
    <2>3. QED
      BY <1>8, <2>2 DEF Search
  <1>9. ASSUME AnalyzeFindings PROVE Typed'
    <2>1. findings \o hits \in Seq(Sources) /\ DOMAIN findings \subseteq DOMAIN (findings \o hits)
      OBVIOUS
    <2>2. QED
      BY <1>9, <2>1 DEF AnalyzeFindings
  <1>10. ASSUME CompareSources PROVE Typed'
    BY <1>10 DEF CompareSources
  <1>11. ASSUME Report PROVE Typed'
    BY <1>11 DEF Report
  <1>12. ASSUME DraftAnswer PROVE Typed'
    BY <1>12 DEF DraftAnswer
  <1>13. ASSUME Fit PROVE Typed'
    BY <1>13, RaisedAsked DEF Fit
  <1>14. ASSUME Stream PROVE Typed'
    BY <1>14, RaisedAsked DEF Stream
  <1>15. ASSUME PublishError PROVE Typed'
    BY <1>15, ToldMessage DEF PublishError
  <1>16. QED
    BY <1>1, <1>2, <1>3, <1>4, <1>5, <1>6, <1>7, <1>8, <1>9, <1>10, <1>11, <1>12, <1>13, <1>14, <1>15 DEF Next

LEMMA TypedStart == Init => Typed
  <1> SUFFICES ASSUME Init PROVE Typed
    OBVIOUS
  <1>1. <<>> \in Calls /\ <<>> \in Seq(Sources)
    BY DEF Calls
  <1>2. plan.mode = "none" /\ plan.tools = <<>> /\ told.message = "none"
    BY DEF Init, Start, NoPlan, NoEvent
  <1>3. QED
    BY <1>1, <1>2, RaisedAsked DEF Init, Start, Typed

LEMMA TypedAlways == Spec => [](IInv /\ Typed)
  <1>1. IInv /\ Typed /\ [Next]_vars => (IInv /\ Typed)'
    <2> SUFFICES ASSUME IInv, Typed, [Next]_vars PROVE IInv' /\ Typed'
      OBVIOUS
    <2>1. IInv'
      BY IInvStep
    <2>2. CASE Next
      BY <2>1, <2>2, TypedStep
    <2>3. CASE UNCHANGED vars
      BY <2>1, <2>3 DEF vars, Typed, Anything
    <2>4. QED
      BY <2>2, <2>3
  <1>2. QED
    BY <1>1, InitIInv, TypedStart, PTL DEF Spec

(* RequestPipeline's state: whatever a stage raises is something classify  *)
(* has an answer for, and a finding marked as corroborated is a finding.   *)
THEOREM PipelineTypeCorrect == Spec => []TypeOK
  <1>1. IInv /\ Typed => TypeOK
    <2> SUFFICES ASSUME IInv, Typed PROVE TypeOK
      OBVIOUS
    <2>1. raised.classes \subseteq {r.class : r \in ToSet(Rules)}
      BY RuleNames DEF Typed, Anything
    <2>2. stage \in {"validate", "context", "analyze", "handler", "subtask", "findings",
                  "draft", "compare", "report", "selected", "fit", "stream", "error", "done"} \union Graphs
      BY DEF IInv, Stages, Early, Working, Workflow, Late, Ended, Graphs
    <2>3. QED
      BY <2>1, <2>2 DEF TypeOK, IInv, Stages, Loops, Typed
  <1>2. QED
    BY <1>1, TypedAlways, PTL

-----------------------------------------------------------------------------
(* How many stages a run has left at most. *)
Longest == 20 + MostTasks + 2 * DeepCap

StepsLeft ==
    CASE stage = "validate"      -> Longest + 2
      [] stage = "context"       -> Longest + 1
      [] stage = "analyze"       -> Longest
      [] stage = "smart"         -> 8 + MostTasks
      [] stage = "subtask"       -> 7 + Len(tasks)
      [] stage = "deep_research" -> 7 + 2 * (plan.iterations - round)
      [] stage = "findings"      -> 8 + 2 * (plan.iterations - round)
      [] stage = "compare"       -> 7
      [] stage \in {"handler", "draft", "report"} -> 6
      [] stage = "selected"      -> 5
      [] stage = "fit"           -> 4
      [] stage = "stream"        -> 3
      [] stage = "error"         -> 2
      [] stage = "done"          -> 1

(* The findings are read after a round, so never beyond the budget. *)
Paced ==
    /\ IInv /\ Typed
    /\ stage = "findings" => round <= plan.iterations

LEMMA PacedAlways == Spec => []Paced
  <1> DEFINE Pace == stage = "findings" => round <= plan.iterations
  <1>1. ASSUME IInv, Next PROVE Pace'
    <2> USE DEF IInv, Stages, Loops, Bounded, Early, Workflow, Late, Working, Ended, GoTo, Raise
    <2>1. ASSUME Validate PROVE Pace'
      BY <1>1, <2>1 DEF Validate
    <2>2. ASSUME NEW how \in {"none", "usable", "no_match", "unusable"}, CollectContext(how) PROVE Pace'
      BY <1>1, <2>2 DEF CollectContext
    <2>3. ASSUME NEW planned \in Plans, Analyze(planned) PROVE Pace'
      BY <1>1, <2>3 DEF Analyze, Graphs
    <2>4. ASSUME NEW good \in SUBSET (1..MaxPlannedTools + 1), RunHandler(good) PROVE Pace'
      BY <1>1, <2>4 DEF RunHandler, Dispatch
    <2>5. ASSUME NEW n \in 0..MaxSubtasks, PlanSubtasks(n) PROVE Pace'
      BY <1>1, <2>5 DEF PlanSubtasks
    <2>6. ASSUME NEW good \in SUBSET {1}, RunSubtask(good) PROVE Pace'
      BY <1>1, <2>6 DEF RunSubtask, Dispatch
    <2>7. ASSUME NEW good \in SUBSET {1}, RunSelected(good) PROVE Pace'
      BY <1>1, <2>7 DEF RunSelected, Dispatch
    <2>8. ASSUME NEW n \in 0..MaxHits, NEW results \in [1..n -> Sources], Search(results) PROVE Pace'
      <3>1. plan.iterations \in Nat /\ round \in Nat /\ round < plan.iterations
        BY <1>1, <2>8, CapsOK DEF Search, Cap, Modes, Handlers, Graphs, CapsOK
      <3>2. QED
        BY <1>1, <2>8, <3>1 DEF Search
    <2>9. ASSUME AnalyzeFindings PROVE Pace'
      BY <1>1, <2>9 DEF AnalyzeFindings
    <2>10. ASSUME CompareSources PROVE Pace'
      BY <1>1, <2>10 DEF CompareSources
    <2>11. ASSUME Report PROVE Pace'
      BY <1>1, <2>11 DEF Report
    <2>12. ASSUME DraftAnswer PROVE Pace'
      BY <1>1, <2>12 DEF DraftAnswer
    <2>13. ASSUME Fit PROVE Pace'
      BY <1>1, <2>13 DEF Fit
    <2>14. ASSUME Stream PROVE Pace'
      BY <1>1, <2>14 DEF Stream
    <2>15. ASSUME PublishError PROVE Pace'
      BY <1>1, <2>15 DEF PublishError
    <2>16. QED
      BY <1>1, <2>1, <2>2, <2>3, <2>4, <2>5, <2>6, <2>7, <2>8, <2>9, <2>10, <2>11, <2>12, <2>13, <2>14, <2>15 DEF Next
  <1>2. Init => Pace
    BY DEF Init, Start
  <1>3. ASSUME IInv, Pace, [Next]_vars PROVE Pace'
    <2>1. CASE Next
      BY <1>1, <1>3, <2>1
    <2>2. CASE UNCHANGED vars
      BY <1>3, <2>2 DEF vars
    <2>3. QED
      BY <1>3, <2>1, <2>2
  <1> HIDE DEF Pace
  <1>4. Spec => []Pace
    BY <1>2, <1>3, Invariance, PTL DEF Spec
  <1>5. IInv /\ Typed /\ Pace => Paced
    BY DEF Paced, Pace
  <1>6. QED
    BY <1>4, <1>5, TypedAlways, PTL

LEMMA StepIsProgress ==
    ASSUME Paced, Next
    PROVE  StepsLeft' < StepsLeft /\ StepsLeft' >= 1
  <1>a. MostTasks \in Nat /\ MostTasks > 0 /\ DeepCap \in 1..10 /\ SmartCap \in 1..10
    BY CapsOK, PipelineConstantsOK DEF CapsOK, PipelineConstantsOK, MostTasks, MaxPlannedTools
  <1>b. Len(tasks) \in Nat
    BY DEF Paced, Typed, Calls
  <1>c. PICK before :
          /\ before = StepsLeft
          /\ stage = "validate" => before = Longest + 2
          /\ stage = "context" => before = Longest + 1
          /\ stage = "analyze" => before = Longest
          /\ stage = "smart" => before = 8 + MostTasks
          /\ stage = "subtask" => before = 7 + Len(tasks)
          /\ stage = "deep_research" => before = 7 + 2 * (plan.iterations - round)
          /\ stage = "findings" => before = 8 + 2 * (plan.iterations - round)
          /\ stage = "compare" => before = 7
          /\ stage \in {"handler", "draft", "report"} => before = 6
          /\ stage = "selected" => before = 5
          /\ stage = "fit" => before = 4
          /\ stage = "stream" => before = 3
          /\ stage = "error" => before = 2
          /\ stage = "done" => before = 1
    BY DEF StepsLeft
  <1>d. PICK after :
          /\ after = StepsLeft'
          /\ stage' = "validate" => after = Longest + 2
          /\ stage' = "context" => after = Longest + 1
          /\ stage' = "analyze" => after = Longest
          /\ stage' = "smart" => after = 8 + MostTasks
          /\ stage' = "subtask" => after = 7 + Len(tasks')
          /\ stage' = "deep_research" => after = 7 + 2 * (plan'.iterations - round')
          /\ stage' = "findings" => after = 8 + 2 * (plan'.iterations - round')
          /\ stage' = "compare" => after = 7
          /\ stage' \in {"handler", "draft", "report"} => after = 6
          /\ stage' = "selected" => after = 5
          /\ stage' = "fit" => after = 4
          /\ stage' = "stream" => after = 3
          /\ stage' = "error" => after = 2
          /\ stage' = "done" => after = 1
    BY DEF StepsLeft
  <1>e. Longest \in Nat /\ Longest = 20 + MostTasks + 2 * DeepCap
    BY <1>a DEF Longest
  <1> DEFINE Less == after < before /\ after >= 1
  <1> USE DEF GoTo, Raise
  <1>1. ASSUME Validate PROVE Less
    BY <1>1, <1>a, <1>c, <1>d, <1>e DEF Validate
  <1>2. ASSUME NEW how \in {"none", "usable", "no_match", "unusable"}, CollectContext(how) PROVE Less
    BY <1>2, <1>a, <1>c, <1>d, <1>e DEF CollectContext
  <1>3. ASSUME NEW planned \in Plans, Analyze(planned) PROVE Less
    <2>1. PICK p : Shaped(p) /\ Bounded(p) /\ Settle(p)
      BY <1>3, PlansAreBounded, SafeDefaultIsPlan DEF Analyze, Paced, IInv, Stages
    <2>2. Bounded(plan')
      BY <1>3, <2>1, SettledPlan DEF Analyze, Paced, IInv, Stages, Chosen
    <2>3. round = 0 /\ round' = 0
      BY <1>3 DEF Analyze, graph, Paced, IInv, Loops, Early
    <2>4. stage = "analyze" /\ stage' = IF plan'.mode \in Graphs THEN plan'.mode ELSE "handler"
      BY <1>3 DEF Analyze
    <2>5. before = Longest /\ Longest = 20 + MostTasks + 2 * DeepCap
      BY <2>4, <1>c, <1>e
    <2>6. CASE stage' = "handler"
      BY <2>5, <2>6, <1>a, <1>d
    <2>7. CASE stage' = "smart"
      <3>1. after = 8 + MostTasks
        BY <2>7, <1>d
      <3>2. QED
        BY <2>5, <3>1, <1>a
    <2>8. CASE stage' = "deep_research"
      <3>0. plan'.iterations \in Nat
        BY <2>2, <2>4, <2>8, <1>a DEF Bounded, Cap, Graphs
      <3>1. after = 7 + 2 * plan'.iterations
        BY <2>3, <2>8, <3>0, <1>d
      <3>2. plan'.mode = "deep_research"
        BY <2>4, <2>8
      <3>3. plan'.iterations \in 1..DeepCap
        BY <2>2, <3>2 DEF Bounded, Cap, Graphs
      <3>4. QED
        BY <2>5, <3>1, <3>3, <1>a
    <2>9. QED
      BY <2>4, <2>6, <2>7, <2>8 DEF Graphs
  <1>4. ASSUME NEW good \in SUBSET (1..MaxPlannedTools + 1), RunHandler(good) PROVE Less
    BY <1>4, <1>a, <1>c, <1>d, <1>e DEF RunHandler, Dispatch
  <1>5. ASSUME NEW n \in 0..MaxSubtasks, PlanSubtasks(n) PROVE Less
    <2>1. tasks' \in Calls /\ Len(tasks') <= MostTasks
      BY <1>5, Subtasks DEF PlanSubtasks, Paced, Typed
    <2>2. Len(tasks') \in Nat
      BY <2>1 DEF Calls
    <2>3. stage = "smart" /\ stage' = "subtask"
      BY <1>5 DEF PlanSubtasks
    <2>4. before = 8 + MostTasks /\ after = 7 + Len(tasks')
      BY <2>3, <1>c, <1>d
    <2>5. QED
      BY <2>1, <2>2, <2>4, <1>a
  <1>6. ASSUME NEW good \in SUBSET {1}, RunSubtask(good) PROVE Less
    <2>1. tasks # <<>> => Len(Tail(tasks)) = Len(tasks) - 1
      BY DEF Paced, Typed, Calls
    <2>2. stage = "subtask" /\ before = 7 + Len(tasks)
      BY <1>6, <1>c DEF RunSubtask
    <2>3. stage' \in {"subtask", "draft", "error"}
      BY <1>6 DEF RunSubtask, Dispatch
    <2>4. CASE stage' = "subtask"
      <3>1. tasks # <<>> /\ tasks' = Tail(tasks)
        BY <1>6, <2>4 DEF RunSubtask, Dispatch
      <3>2. after = 7 + Len(tasks')
        BY <2>4, <1>d
      <3>3. tasks' \in Calls
        BY <3>1 DEF Paced, Typed, Calls
      <3>4. Len(tasks') \in Nat
        BY <3>3 DEF Calls
      <3>5. QED
        BY <2>1, <2>2, <3>1, <3>2, <3>4, <1>b
    <2>5. CASE stage' \in {"draft", "error"}
      BY <2>2, <2>5, <1>b, <1>d
    <2>6. QED
      BY <2>3, <2>4, <2>5
  <1>7. ASSUME NEW good \in SUBSET {1}, RunSelected(good) PROVE Less
    BY <1>7, <1>a, <1>c, <1>d, <1>e DEF RunSelected, Dispatch
  <1>8. ASSUME NEW n \in 0..MaxHits, NEW results \in [1..n -> Sources], Search(results) PROVE Less
    <2>1. plan.iterations \in Nat /\ round \in Nat
      BY <1>8, <1>a DEF Search, Paced, IInv, Loops, Bounded, Working, Workflow, Cap, Graphs
    <2>2. QED
      BY <1>8, <2>1, <1>c, <1>d DEF Search, LoopsOn, Paced, IInv, Loops
  <1>9. ASSUME AnalyzeFindings PROVE Less
    <2>1. plan.iterations \in Nat /\ round \in Nat
      BY <1>9, <1>a DEF AnalyzeFindings, Paced, IInv, Loops, Bounded, Working, Workflow, Cap, Graphs
    <2>2. QED
      BY <1>9, <2>1, <1>c, <1>d DEF AnalyzeFindings, LoopsOn, Paced, IInv, Loops
  <1>10. ASSUME CompareSources PROVE Less
    BY <1>10, <1>a, <1>c, <1>d, <1>e DEF CompareSources
  <1>11. ASSUME Report PROVE Less
    BY <1>11, <1>a, <1>c, <1>d, <1>e DEF Report
  <1>12. ASSUME DraftAnswer PROVE Less
    BY <1>12, <1>a, <1>c, <1>d, <1>e DEF DraftAnswer
  <1>13. ASSUME Fit PROVE Less
    BY <1>13, <1>a, <1>c, <1>d, <1>e DEF Fit
  <1>14. ASSUME Stream PROVE Less
    BY <1>14, <1>a, <1>c, <1>d, <1>e DEF Stream
  <1>15. ASSUME PublishError PROVE Less
    BY <1>15, <1>a, <1>c, <1>d, <1>e DEF PublishError
  <1>16. QED
    BY <1>1, <1>2, <1>3, <1>4, <1>5, <1>6, <1>7, <1>8, <1>9, <1>10, <1>11, <1>12, <1>13, <1>14, <1>15, <1>c, <1>d DEF Next

(* run(): every stage brings the run nearer to its end, whatever loops the *)
(* plan asks for, so a run takes at most Longest + 1 steps.                *)
THEOREM RunsAreFinite == Spec => [][StepsLeft' < StepsLeft /\ StepsLeft' >= 1]_vars
  <1>1. Paced /\ [Next]_vars => [StepsLeft' < StepsLeft /\ StepsLeft' >= 1]_vars
    BY StepIsProgress
  <1>2. QED
    BY <1>1, PacedAlways, PTL DEF Spec

(***************************************************************************)
(* PromptFit.                                                              *)
(***************************************************************************)

(* Added: one number after the other. *)
Adding(trace, numbers) ==
  /\ trace[0] = 0
  /\ \A i \in 1..Len(numbers) : trace[i] = trace[i - 1] + numbers[i]
  /\ Added(numbers) = trace[Len(numbers)]

LEMMA AddedTrace ==
  ASSUME NEW numbers \in Seq(Nat)
  PROVE  \E trace \in [0..Len(numbers) -> Nat] : Adding(trace, numbers)
  <1> DEFINE T == Nat
             n == Len(numbers)
             step == [i \in 1..n |-> [acc \in T |-> acc + numbers[i]]]
             Rec(it) == [d \in SUBSET (1..n) |->
                            IF d = {} THEN 0 ELSE it[d \ {Max(d)}] + numbers[Max(d)]]
             iter == CHOOSE it : it = Rec(it)
  <1>1. n \in Nat /\ DOMAIN numbers = 1..n /\ 0 \in T
    OBVIOUS
  <1>2. step \in [1..n -> [T -> T]]
    <2>1. \A i \in 1..n : numbers[i] \in Nat
      OBVIOUS
    <2>2. \A i \in 1..n : \A acc \in T : acc + numbers[i] \in T
      BY <2>1
    <2> HIDE DEF T
    <2>3. QED
      BY <2>2
  <1>3. \A d \in SUBSET (1..n) : d # {} => Max(d) \in 1..n /\ d \ {Max(d)} \in SUBSET (1..n)
    BY <1>1, MaxIsMember
  <1> HIDE DEF T
  <1>4. \E it : it = Rec(it)
    <2>1. PICK it \in [SUBSET (1..n) -> T] : IsFold(it, n, 0, step)
      <3> HIDE DEF step, n
      <3>1. QED
        BY <1>1, <1>2, FoldExists
    <2>2. \A d \in SUBSET (1..n) :
             it[d] = IF d = {} THEN 0 ELSE it[d \ {Max(d)}] + numbers[Max(d)]
      BY <1>3, <2>1 DEF IsFold
    <2>3. it = Rec(it)
      BY <2>1, <2>2
    <2> HIDE DEF Rec
    <2>4. QED
      BY <2>3
  <1>5. iter = Rec(iter)
    <2> HIDE DEF Rec
    <2>1. QED
      BY <1>4
  <1>6. Added(numbers) = iter[1..n]
    BY <1>1 DEF Added, FoldLeft, MapThenFoldSet
  <1> HIDE DEF iter
  <1>7. Recurs(iter, n, T, 0, step)
    BY <1>3, <1>5 DEF Recurs
  <1>8. PICK trace \in [0..n -> T] : IsTrace(trace, n, 0, step) /\ iter[1..n] = trace[n]
    <2> HIDE DEF step, n, Rec
    <2>1. Traces(iter, n, T, 0, step)
      BY <1>1, <1>2, <1>7, FoldTrace
    <2>2. QED
      BY <2>1 DEF Traces
  <1>9. ASSUME NEW i \in 1..n PROVE trace[i] = trace[i - 1] + numbers[i]
    <2>1. i - 1 \in 0..n
      BY <1>1
    <2>2. trace[i - 1] \in T
      BY <2>1, <1>8
    <2>3. trace[i] = step[i][trace[i - 1]]
      <3> HIDE DEF step, n
      <3>1. QED
        BY <1>8 DEF IsTrace
    <2>4. QED
      BY <2>2, <2>3
  <1>10. QED
    BY <1>6, <1>8, <1>9 DEF IsTrace, Adding, T

LEMMA AddedType ==
  ASSUME NEW numbers \in Seq(Nat)
  PROVE  Added(numbers) \in Nat
  <1>1. PICK trace \in [0..Len(numbers) -> Nat] : Adding(trace, numbers)
    BY AddedTrace
  <1>2. QED
    BY <1>1 DEF Adding

(* The end of a sequence adds up to no more than the whole. *)
LEMMA AddedSuffix ==
  ASSUME NEW numbers \in Seq(Nat), NEW k \in 1..Len(numbers)+1
  PROVE  Added(SubSeq(numbers, k, Len(numbers))) <= Added(numbers)
  <1> DEFINE n == Len(numbers)
             rest == SubSeq(numbers, k, n)
             m == (n - k) + 1
  <1>1. /\ n \in Nat /\ DOMAIN numbers = 1..n /\ numbers \in [1..n -> Nat]
        /\ m \in 0..n /\ k \in 1..n+1 /\ (k - 1) + m = n
        /\ rest \in Seq(Nat) /\ Len(rest) = m
        /\ \A i \in 1..m : rest[i] = numbers[(k - 1) + i]
    OBVIOUS
  <1> HIDE DEF n, rest
  <1>2. PICK all \in [0..n -> Nat] : Adding(all, numbers)
    BY AddedTrace DEF n
  <1>3. PICK end \in [0..m -> Nat] : Adding(end, rest)
    BY <1>1, AddedTrace
  <1>4. /\ end[0] = 0 /\ \A i \in 1..m : end[i] = end[i - 1] + rest[i]
        /\ \A i \in 1..n : all[i] = all[i - 1] + numbers[i]
        /\ Added(rest) = end[m] /\ Added(numbers) = all[n]
    BY <1>1, <1>2, <1>3 DEF Adding, n
  <1> DEFINE good == {i \in 0..m : end[i] <= all[(k - 1) + i]}
  <1>5. 0 \in good
    BY <1>1, <1>4
  <1>6. ASSUME NEW i \in 0..m-1, i \in good PROVE i + 1 \in good
    <2>1. /\ i + 1 \in 1..m /\ (i + 1) - 1 = i /\ (k - 1) + (i + 1) \in 1..n
          /\ ((k - 1) + (i + 1)) - 1 = (k - 1) + i /\ (k - 1) + i \in 0..n /\ i \in 0..m
      BY <1>1
    <2>2. end[i + 1] = end[i] + numbers[(k - 1) + (i + 1)]
      BY <1>1, <1>4, <2>1
    <2>3. all[(k - 1) + (i + 1)] = all[(k - 1) + i] + numbers[(k - 1) + (i + 1)]
      BY <1>4, <2>1
    <2>4. /\ end[i] \in Nat /\ all[(k - 1) + i] \in Nat /\ numbers[(k - 1) + (i + 1)] \in Nat
          /\ end[i] <= all[(k - 1) + i]
      BY <1>1, <1>6, <2>1
    <2>5. QED
      BY <2>1, <2>2, <2>3, <2>4
  <1>7. m \in good
    <2> HIDE DEF good
    <2>1. m \in Nat
      BY <1>1
    <2> HIDE DEF m
    <2>2. \A i \in 0..m-1 : i \in good => i + 1 \in good
      BY <1>6
    <2>3. \A i \in 0..m : i \in good
      BY <1>5, <2>1, <2>2, Induction
    <2>4. QED
      BY <2>1, <2>3
  <1>8. QED
    BY <1>1, <1>4, <1>7 DEF rest, n

-----------------------------------------------------------------------------
(* The sections: names are not used twice. *)
LEMMA LayoutIsSequence ==
  /\ Layout \in Seq(ToSet(Layout)) /\ Len(Layout) = 14 /\ DOMAIN Layout = 1..14
  /\ ToSet(Layout) = {Layout[i] : i \in 1..14}
  <1>1. Len(Layout) = 14 /\ DOMAIN Layout = 1..14 /\ Layout = [i \in 1..14 |-> Layout[i]]
    BY DEF Layout
  <1>2. ToSet(Layout) = {Layout[i] : i \in 1..14}
    BY <1>1 DEF ToSet
  <1> DEFINE L == Layout
  <1> HIDE DEF L
  <1>3. L \in Seq({L[i] : i \in 1..14})
    BY <1>1 DEF L
  <1>4. QED
    BY <1>1, <1>2, <1>3 DEF L

LEMMA NamesAreDistinct ==
  \A s, t \in ToSet(Layout) : s.name = t.name => s = t
  <1>1. \A i, j \in 1..14 : Layout[i].name = Layout[j].name => i = j
    BY SMTT(60) DEF Layout, Section
  <1>2. QED
    BY <1>1, LayoutIsSequence

LEMMA NamedSections ==
  /\ {"system", "conversation_history", "document_notice", "retrieval", "user_query"} \subseteq SectionNames
  /\ "conversation_history" \notin Locked
  /\ \A s \in ToSet(Layout) :
        /\ s.name \in SectionNames
        /\ s.floor \in Nat
        /\ s.name = "retrieval" => ~s.locked /\ s.priority = 5
        /\ ~s.locked => s.name \notin Locked
        /\ ~s.locked => s.priority \in 5..9
  <1>1. /\ Layout[1].name = "system" /\ Layout[8].name = "retrieval" /\ Layout[9].name = "document_notice"
        /\ Layout[12].name = "conversation_history" /\ Layout[14].name = "user_query"
        /\ Layout[12].locked = FALSE /\ Layout[8].locked = FALSE /\ Layout[8].priority = 5
    BY DEF Layout, Section
  <1>2. /\ Layout[1] \in ToSet(Layout) /\ Layout[8] \in ToSet(Layout) /\ Layout[9] \in ToSet(Layout)
        /\ Layout[12] \in ToSet(Layout) /\ Layout[14] \in ToSet(Layout)
    BY LayoutIsSequence
  <1>3. \A i \in 1..14 : ~Layout[i].locked => Layout[i].priority \in 5..9
    BY DEF Layout, Section
  <1>4. \A s \in ToSet(Layout) : ~s.locked => s.name \notin Locked /\ s.priority \in 5..9
    <2>1. \A s \in ToSet(Layout) : ~s.locked => s.name \notin Locked
      BY NamesAreDistinct DEF Locked
    <2>2. QED
      BY <1>3, <2>1, LayoutIsSequence
  <1>5. \A s \in ToSet(Layout) : s.name = "retrieval" => s = Layout[8]
    BY <1>1, <1>2, NamesAreDistinct
  <1>6. \A s \in ToSet(Layout) : s.floor \in Nat
    <2>1. \A i \in 1..14 : Layout[i].floor \in Nat
      BY DEF Layout, Section
    <2>2. QED
      BY <2>1, LayoutIsSequence
  <1>7. QED
    BY <1>1, <1>2, <1>4, <1>5, <1>6 DEF SectionNames

(* What is measured is a number. *)
LEMMA TotalType ==
  ASSUME NEW f \in Sizes
  PROVE  Total(f) \in Nat
  <1> DEFINE numbers == [i \in DOMAIN Layout |-> f[Layout[i].name]]
  <1>1. DOMAIN Layout = 1..14 /\ \A i \in 1..14 : Layout[i].name \in SectionNames
    BY LayoutIsSequence DEF SectionNames
  <1>2. numbers \in Seq(Nat)
    BY <1>1 DEF Sizes
  <1>3. Added(numbers) \in Nat
    <2> HIDE DEF numbers
    <2>1. QED
      BY <1>2, AddedType
  <1>4. QED
    BY <1>3 DEF Total

LEMMA CalibratedType ==
  ASSUME NEW tokens \in Int, NEW percent \in Nat
  PROVE  /\ Calibrated(tokens, percent) \in Nat
         /\ tokens # 0 => Calibrated(tokens, percent) \in Nat \ {0}
  <1>1. (tokens * percent) \div 100 \in Int
    OBVIOUS
  <1>2. QED
    BY <1>1 DEF Calibrated, Greater

LEMMA PercentType ==
  ASSUME NEW p \in Providers
  PROVE  p.percent \in 1..100 /\ p.percent \in Nat \ {0}
  <1>1. p.percent \in 1..100
    BY DEF Providers
  <1>2. QED
    BY <1>1

LEMMA MeasuredType ==
  ASSUME NEW prompt \in Prompt, NEW p \in Providers
  PROVE  Measured(prompt, p) \in Int
  <1> DEFINE part(n) == IF n = "system" \/ prompt.raw[n] = 0 THEN 0 ELSE prompt.raw[n] + Separator
             parts == [n \in SectionNames |-> part(n)]
             joined == Total(parts) - Separator
  <1>1. Separator \in Nat /\ prompt.raw \in Sizes /\ p.percent \in Nat
    BY PromptConstantsOK, PercentType DEF Prompt
  <1>2. \A n \in SectionNames : prompt.raw[n] \in Nat
    BY <1>1 DEF Sizes
  <1>3. parts \in Sizes
    BY <1>1, <1>2 DEF Sizes
  <1>4. joined \in Int
    <2> HIDE DEF parts
    <2>1. QED
      BY <1>1, <1>3, TotalType
  <1>5. prompt.raw["system"] \in Int
    BY <1>2, NamedSections
  <1>6. Measured(prompt, p) = Calibrated(prompt.raw["system"], p.percent) + Calibrated(joined, p.percent) + 10
    BY DEF Measured
  <1> HIDE DEF joined, parts
  <1>7. QED
    <2>1. Calibrated(prompt.raw["system"], p.percent) \in Nat
      BY <1>1, <1>5, CalibratedType
    <2>2. Calibrated(joined, p.percent) \in Nat
      BY <1>1, <1>4, CalibratedType
    <2>3. QED
      BY <1>6, <2>1, <2>2 DEF joined, parts

LEMMA InputBudgetType ==
  ASSUME NEW p \in Providers
  PROVE  InputBudget(p) \in Int
  <1> DEFINE total == IF p.app = 0 THEN p.window ELSE Lesser(p.app, p.window)
             window == (total * 95) \div 100 - p.output
             rate == IF p.tpm = 0 THEN window ELSE Lesser(window, p.tpm - p.output - 200)
  <1>1. p.app \in Nat /\ p.window \in Nat /\ p.output \in Nat /\ p.tpm \in Nat /\ LegacyCap \in Nat
    BY PromptConstantsOK DEF Providers
  <1>2. total \in Nat
    BY <1>1 DEF Lesser
  <1> HIDE DEF total
  <1>3. window \in Int
    BY <1>1, <1>2
  <1> HIDE DEF window
  <1>4. rate \in Int
    BY <1>1, <1>3 DEF Lesser
  <1>5. InputBudget(p) = IF LegacyCap = 0 THEN rate ELSE Lesser(rate, LegacyCap)
    BY DEF InputBudget, rate, window, total
  <1> HIDE DEF rate
  <1>6. QED
    BY <1>1, <1>4, <1>5 DEF Lesser

LEMMA WindowBudgetType ==
  ASSUME NEW p \in Providers
  PROVE  WindowBudget(p) \in Nat
  <1>1. p.window \in Nat /\ p.output \in Nat
    BY DEF Providers
  <1>2. (p.window * 95) \div 100 - p.output \in Int
    BY <1>1
  <1>3. QED
    BY <1>2 DEF WindowBudget, Greater

LEMMA HistoryTokensType ==
  ASSUME NEW h \in Messages
  PROVE  /\ HistoryTokens(h) \in Nat
         /\ \A k \in 1..Len(h)+1 :
               /\ SubSeq(h, k, Len(h)) \in Messages
               /\ HistoryTokens(SubSeq(h, k, Len(h))) <= HistoryTokens(h)
  <1> DEFINE n == Len(h)
             costs(s) == [i \in DOMAIN s |-> s[i].size + RolePrefix]
  <1>1. HistoryHeader \in Nat /\ RolePrefix \in Nat /\ n \in Nat
    BY PromptConstantsOK DEF Messages
  <1>2. \A s \in Messages : costs(s) \in Seq(Nat) /\ Len(costs(s)) = Len(s)
    <2>1. TAKE s \in Messages
    <2> DEFINE M == [id : Nat, size : Nat]
    <2>9. s \in Seq(M) /\ \A m \in M : m.size \in Nat
      BY DEF Messages
    <2> HIDE DEF M
    <2>2. DOMAIN s = 1..Len(s) /\ Len(s) \in Nat /\ \A i \in 1..Len(s) : s[i].size \in Nat
      BY <2>9
    <2>3. QED
      BY <1>1, <2>2
  <1>3. \A s \in Messages : HistoryTokens(s) = IF s = <<>> THEN 0 ELSE HistoryHeader + Added(costs(s))
    BY DEF HistoryTokens
  <1>4. \A s \in Messages : HistoryTokens(s) \in Nat
    <2>1. TAKE s \in Messages
    <2> DEFINE c == costs(s)
    <2>2. c \in Seq(Nat)
      BY <1>2
    <2>3. HistoryTokens(s) = IF s = <<>> THEN 0 ELSE HistoryHeader + Added(c)
      BY <1>3
    <2> HIDE DEF c
    <2>4. Added(c) \in Nat
      BY <2>2, AddedType
    <2>5. QED
      BY <1>1, <2>3, <2>4
  <1>5. ASSUME NEW k \in 1..n+1
        PROVE  /\ SubSeq(h, k, n) \in Messages
               /\ HistoryTokens(SubSeq(h, k, n)) <= HistoryTokens(h)
    <2> DEFINE from == SubSeq(h, k, n)
               c == costs(h)
    <2>1. from \in Messages /\ Len(from) = (n - k) + 1 /\ \A i \in 1..(n-k)+1 : from[i] = h[(k - 1) + i]
      <3> DEFINE M == [id : Nat, size : Nat]
      <3>1. h \in Seq(M) /\ Messages = Seq(M)
        BY DEF Messages
      <3> HIDE DEF M
      <3>2. QED
        BY <3>1
    <2>2. CASE from = <<>>
      <3>1. HistoryTokens(h) \in Nat /\ HistoryTokens(from) = 0
        BY <1>4, <2>2 DEF HistoryTokens
      <3>2. QED
        BY <2>1, <3>1
    <2>3. CASE from # <<>>
      <3>1. h # <<>>
        BY <2>3
      <3>2. c \in Seq(Nat) /\ Len(c) = n
        BY <1>2
      <3>3. costs(from) = SubSeq(c, k, n)
        <4>1. DOMAIN from = 1..(n-k)+1 /\ DOMAIN h = 1..n /\ \A i \in 1..(n-k)+1 : (k - 1) + i \in 1..n
          BY <1>1, <2>1
        <4>2. /\ SubSeq(c, k, n) \in Seq(Nat) /\ Len(SubSeq(c, k, n)) = (n - k) + 1
              /\ \A i \in 1..(n-k)+1 : SubSeq(c, k, n)[i] = c[(k - 1) + i]
          BY SMTT(40), <3>2
        <4>3. \A i \in 1..(n-k)+1 : costs(from)[i] = SubSeq(c, k, n)[i]
          BY <2>1, <4>1, <4>2
        <4>4. costs(from) \in Seq(Nat) /\ Len(costs(from)) = (n - k) + 1
          BY <1>2, <2>1
        <4>5. QED
          BY <4>2, <4>3, <4>4
      <3>4. /\ HistoryTokens(h) = HistoryHeader + Added(c)
            /\ HistoryTokens(from) = HistoryHeader + Added(SubSeq(c, k, n))
        BY <1>3, <2>1, <2>3, <3>1, <3>3
      <3> HIDE DEF c
      <3>5. /\ SubSeq(c, k, Len(c)) \in Seq(Nat)
            /\ Added(SubSeq(c, k, Len(c))) <= Added(c) /\ Added(c) \in Nat
            /\ Added(SubSeq(c, k, Len(c))) \in Nat
        <4>1. Len(c) \in Nat /\ k \in 1..Len(c)+1
          BY <1>1, <3>2
        <4>2. SubSeq(c, k, Len(c)) \in Seq(Nat)
          BY <3>2, <4>1
        <4>3. QED
          BY <3>2, <4>1, <4>2, AddedSuffix, AddedType
      <3>6. QED
        BY <1>1, <2>1, <3>2, <3>4, <3>5
    <2>4. QED
      BY <2>2, <2>3
  <1>6. QED
    BY <1>4, <1>5

-----------------------------------------------------------------------------
(* Whole lines are no more than there were, and keeping lines for the same *)
(* budget again keeps them all.  They measure no more than the budget      *)
(* where a line with its newline measures no more than it is reckoned.     *)
Scale(percent) == percent \in Nat \ {0}

Reckoned(percent) == Scale(percent) /\ (Line + 1) * percent <= 100 * (Calibrated(Line, percent) + 1)

LEMMA Division ==
  ASSUME NEW a \in Nat, NEW b \in Nat \ {0}
  PROVE  a \div b \in Nat /\ (a \div b) * b <= a
  OBVIOUS

LEMMA Scaled ==
  ASSUME NEW a \in Nat, NEW b \in Nat, NEW k \in Nat, a <= b
  PROVE  k * a <= k * b
  OBVIOUS

LEMMA Products ==
  ASSUME NEW a \in Nat, NEW b \in Nat, NEW k \in Nat
  PROVE  /\ a * b \in Nat /\ a * b = b * a /\ (k * a) * b = k * (a * b) /\ k * (100 * a) = 100 * (k * a)
  OBVIOUS

LEMMA CalibratedBound ==
  ASSUME NEW tokens \in Nat, NEW percent \in Nat, NEW budget \in Nat \ {0},
         tokens * percent <= 100 * budget
  PROVE  Calibrated(tokens, percent) <= budget
  <1>1. tokens * percent \in Nat
    BY Products
  <1>2. (tokens * percent) \div 100 <= budget
    BY <1>1
  <1>3. (tokens * percent) \div 100 \in Nat
    BY <1>1
  <1>4. QED
    BY <1>2, <1>3 DEF Calibrated, Greater

LEMMA WholeLinesKept ==
  ASSUME NEW tokens \in Nat, NEW budget \in Nat, NEW percent, Scale(percent)
  PROVE  /\ WholeLines(tokens, budget, percent) \in Nat
         /\ WholeLines(tokens, budget, percent) <= tokens
         /\ \A t \in Nat : t <= WholeLines(tokens, budget, percent) =>
                              WholeLines(t, budget, percent) = t
  <1> DEFINE each == Calibrated(Line, percent) + 1
             lines == budget \div each
             room == IF lines > 0 THEN lines * (Line + 1) ELSE (budget * 100) \div percent
  <1>1. Line \in Nat /\ percent \in Nat \ {0} /\ each \in Nat \ {0}
    <2>1. Line \in Nat /\ percent \in Nat \ {0}
      BY PromptConstantsOK DEF Scale
    <2>2. Line \in Int /\ percent \in Nat
      BY <2>1
    <2>3. Calibrated(Line, percent) \in Nat
      BY <2>2, CalibratedType
    <2>4. QED
      BY <2>1, <2>3
  <1>2. lines \in Nat
    <2> HIDE DEF each
    <2>1. QED
      BY <1>1, Division
  <1> HIDE DEF each, lines
  <1>3. lines * (Line + 1) \in Nat
    BY <1>1, <1>2, Products
  <1>4. (budget * 100) \div percent \in Nat
    <2>1. budget * 100 \in Nat
      OBVIOUS
    <2>2. QED
      BY <1>1, <2>1, Division
  <1>5. room \in Nat
    BY <1>3, <1>4
  <1>6. \A t : WholeLines(t, budget, percent) = Lesser(t, room)
    BY DEF WholeLines, room, lines, each
  <1> HIDE DEF room
  <1>7. QED
    BY <1>5, <1>6 DEF Lesser

LEMMA WholeLinesBound ==
  ASSUME NEW tokens \in Nat, NEW budget \in Nat \ {0}, NEW percent, Reckoned(percent)
  PROVE  /\ WholeLines(tokens, budget, percent) \in Nat
         /\ WholeLines(tokens, budget, percent) <= tokens
         /\ Calibrated(WholeLines(tokens, budget, percent), percent) <= budget
  <1> DEFINE each == Calibrated(Line, percent) + 1
             lines == budget \div each
             room == IF lines > 0 THEN lines * (Line + 1) ELSE (budget * 100) \div percent
             kept == Lesser(tokens, room)
  <1>1. /\ Line \in Nat /\ Line + 1 \in Nat /\ percent \in Nat \ {0} /\ each \in Nat \ {0}
        /\ (Line + 1) * percent <= 100 * each
    <2>1. Line \in Nat /\ percent \in Nat \ {0} /\ (Line + 1) * percent <= 100 * each
      BY PromptConstantsOK DEF Scale, Reckoned
    <2>2. Calibrated(Line, percent) \in Nat
      BY <2>1, CalibratedType
    <2>3. QED
      BY <2>1, <2>2
  <1>2. lines \in Nat /\ lines * each <= budget
    <2> HIDE DEF each
    <2>1. QED
      BY <1>1, Division
  <1>3. budget * 100 \in Nat /\ (budget * 100) \div percent \in Nat
        /\ ((budget * 100) \div percent) * percent <= budget * 100
    <2>1. budget * 100 \in Nat
      OBVIOUS
    <2>2. QED
      BY <1>1, <2>1, Division
  <1> HIDE DEF each, lines
  <1>4. lines * (Line + 1) \in Nat /\ (lines * (Line + 1)) * percent <= 100 * budget
    <2>1. /\ (Line + 1) * percent \in Nat /\ lines * (Line + 1) \in Nat
          /\ (lines * (Line + 1)) * percent = lines * ((Line + 1) * percent)
          /\ lines * each \in Nat /\ 100 * each \in Nat /\ lines * (100 * each) = 100 * (lines * each)
      BY <1>1, <1>2, Products
    <2>2. lines * ((Line + 1) * percent) <= lines * (100 * each)
      BY <1>1, <1>2, <2>1, Scaled
    <2>3. 100 * (lines * each) <= 100 * budget
      BY <1>2, <2>1
    <2> DEFINE x == (lines * (Line + 1)) * percent
               y == lines * (100 * each)
               z == 100 * budget
    <2>4. x <= y /\ y <= z /\ x \in Nat /\ y \in Nat /\ z \in Nat
      <3>1. x \in Nat
        BY <1>1, <2>1, Products
      <3>2. y \in Nat
        BY <1>1, <1>2, <2>1, Products
      <3>3. QED
        BY <2>1, <2>2, <2>3, <3>1, <3>2
    <2> HIDE DEF x, y, z
    <2>5. x <= z
      BY <2>4
    <2>6. QED
      BY <2>1, <2>5 DEF x, z
  <1>5. room \in Nat /\ room * percent <= 100 * budget
    <2>1. CASE lines > 0
      BY <1>4, <2>1
    <2>2. CASE ~(lines > 0)
      BY <1>3, <2>2
    <2>3. QED
      BY <2>1, <2>2
  <1>6. WholeLines(tokens, budget, percent) = kept
    BY DEF WholeLines, kept, room, lines, each
  <1> HIDE DEF room
  <1>7. kept \in Nat /\ kept <= tokens /\ kept <= room
    BY <1>5 DEF Lesser
  <1> HIDE DEF kept
  <1>8. kept * percent <= 100 * budget
    <2>1. percent * kept <= percent * room /\ percent * kept = kept * percent /\ percent * room = room * percent
      BY <1>1, <1>5, <1>7, Scaled, Products
    <2>2. kept * percent \in Nat /\ room * percent \in Nat
      BY <1>1, <1>5, <1>7, Products
    <2> DEFINE x == kept * percent
               y == room * percent
    <2>3. x <= y /\ x \in Nat /\ y \in Nat /\ y <= 100 * budget
      BY <1>5, <2>1, <2>2
    <2> HIDE DEF x, y
    <2>4. x <= 100 * budget
      BY <2>3
    <2>5. QED
      BY <2>4 DEF x
  <1>9. Calibrated(kept, percent) <= budget
    BY <1>1, <1>7, <1>8, CalibratedBound
  <1>10. QED
    BY <1>6, <1>7, <1>9

(* The newest messages that fit do fit, and none among them is missing. *)
LEMMA NewestFit ==
  ASSUME NEW h \in Messages, NEW budget \in Nat, NEW percent \in Nat
  PROVE  \E k \in 1..Len(h)+1 :
            /\ NewestThatFit(h, budget, percent) = SubSeq(h, k, Len(h))
            /\ Calibrated(HistoryTokens(SubSeq(h, k, Len(h))), percent) <= budget
  <1> DEFINE n == Len(h)
             fits == {k \in 1..n+1 : Calibrated(HistoryTokens(SubSeq(h, k, n)), percent) <= budget}
  <1>1. n \in Nat
    BY DEF Messages
  <1>2. n + 1 \in fits
    <2> DEFINE none == SubSeq(h, n + 1, n)
    <2>1. none = <<>>
      BY <1>1 DEF Messages
    <2> HIDE DEF none
    <2>2. Calibrated(HistoryTokens(<<>>), percent) = 0
      BY DEF Calibrated, HistoryTokens
    <2>3. Calibrated(HistoryTokens(none), percent) <= budget
      BY <2>1, <2>2
    <2>4. QED
      BY <1>1, <2>3 DEF none
  <1> DEFINE k == CHOOSE k \in fits : \A j \in fits : k <= j
  <1>3. k \in fits
    <2>1. fits \in SUBSET Nat /\ fits # {}
      BY <1>1, <1>2
    <2> HIDE DEF fits
    <2>2. \E i \in fits : \A j \in fits : i <= j
      BY <2>1, LeastNumber
    <2>3. QED
      BY <2>2
  <1>4. NewestThatFit(h, budget, percent) = SubSeq(h, k, n)
    BY DEF NewestThatFit
  <1> HIDE DEF k
  <1>5. QED
    BY <1>3, <1>4

-----------------------------------------------------------------------------
(* What trimming does to a prompt. *)
Faithful(prompt) ==
  prompt \in Prompt /\ prompt.raw["conversation_history"] = HistoryTokens(prompt.history)

EndOf(a, b) == \E k \in 1..Len(b)+1 : a = SubSeq(b, k, Len(b))

Trimmed(a, b) ==
  /\ Faithful(a)
  /\ \A n \in SectionNames : a.raw[n] <= b.raw[n]
  /\ \A n \in Locked : a.raw[n] = b.raw[n]
  /\ EndOf(a.history, b.history)

LEMMA EndOfItself ==
  ASSUME NEW h \in Messages
  PROVE  EndOf(h, h) /\ EndOf(<<>>, h)
  <1> DEFINE M == [id : Nat, size : Nat]
  <1>1. h \in Seq(M)
    BY DEF Messages
  <1> HIDE DEF M
  <1>2. Len(h) \in Nat /\ SubSeq(h, 1, Len(h)) = h /\ SubSeq(h, Len(h) + 1, Len(h)) = <<>>
    BY <1>1
  <1>3. 1 \in 1..Len(h)+1 /\ Len(h) + 1 \in 1..Len(h)+1
    BY <1>2
  <1>4. QED
    BY <1>2, <1>3 DEF EndOf

LEMMA EndOfEnd ==
  ASSUME NEW a, NEW b, NEW c \in Messages, EndOf(a, b), EndOf(b, c)
  PROVE  EndOf(a, c) /\ a \in Messages /\ b \in Messages
  <1> DEFINE M == [id : Nat, size : Nat]
             n == Len(c)
  <1>1. c \in Seq(M) /\ n \in Nat
    BY DEF Messages
  <1> HIDE DEF M
  <1>2. PICK k \in 1..n+1 : b = SubSeq(c, k, n)
    BY DEF EndOf
  <1>3. b \in Seq(M) /\ Len(b) = (n - k) + 1 /\ \A i \in 1..(n-k)+1 : b[i] = c[(k - 1) + i]
    BY <1>1, <1>2
  <1>4. PICK j \in 1..(n-k)+2 : a = SubSeq(b, j, (n - k) + 1)
    BY SMTT(40), <1>3 DEF EndOf
  <1> DEFINE m == (k - 1) + j
             e == SubSeq(c, m, n)
  <1>5. /\ a \in Seq(M) /\ Len(a) = ((n - k) + 1 - j) + 1
        /\ \A i \in 1..Len(a) : a[i] = b[(j - 1) + i]
    BY SMTT(40), <1>1, <1>3, <1>4
  <1>6. m \in 1..n+1 /\ (n - m) + 1 = Len(a)
    BY <1>1, <1>5
  <1>7. e \in Seq(M) /\ Len(e) = Len(a) /\ \A i \in 1..Len(a) : e[i] = c[(m - 1) + i]
    BY SMTT(40), <1>1, <1>6
  <1>8. \A i \in 1..Len(a) : a[i] = e[i]
    <2>1. TAKE i \in 1..Len(a)
    <2>2. (j - 1) + i \in 1..(n-k)+1 /\ (k - 1) + ((j - 1) + i) = (m - 1) + i
      BY <1>1, <1>5
    <2>3. a[i] = c[(k - 1) + ((j - 1) + i)]
      BY <1>3, <1>5, <2>2
    <2>4. QED
      BY <1>7, <2>2, <2>3
  <1>9. a \in Seq(M) /\ e \in Seq(M) /\ Len(e) = Len(a) /\ \A i \in 1..Len(a) : a[i] = e[i]
    BY <1>5, <1>7, <1>8
  <1> HIDE DEF m, e
  <1>10. a = e
    BY <1>9
  <1>11. QED
    BY <1>3, <1>5, <1>6, <1>10 DEF EndOf, e, M, Messages

LEMMA TrimmedItself ==
  ASSUME NEW prompt, Faithful(prompt)
  PROVE  Trimmed(prompt, prompt)
  <1>1. \A n \in SectionNames : prompt.raw[n] \in Nat
    BY DEF Faithful, Prompt, Sizes
  <1>2. prompt.history \in Messages
    BY DEF Faithful, Prompt
  <1>3. EndOf(prompt.history, prompt.history)
    BY <1>2, EndOfItself
  <1>4. QED
    BY <1>1, <1>3 DEF Trimmed

LEMMA TrimmedAgain ==
  ASSUME NEW a, NEW b, NEW c, Faithful(c), Trimmed(a, b), Trimmed(b, c)
  PROVE  Trimmed(a, c)
  <1>1. /\ \A n \in SectionNames : a.raw[n] \in Nat /\ b.raw[n] \in Nat /\ c.raw[n] \in Nat
        /\ c.history \in Messages
    BY DEF Trimmed, Faithful, Prompt, Sizes
  <1>2. \A n \in SectionNames : a.raw[n] <= c.raw[n]
    BY <1>1 DEF Trimmed
  <1>3. EndOf(a.history, c.history)
    BY <1>1, EndOfEnd DEF Trimmed
  <1>4. QED
    BY <1>2, <1>3 DEF Trimmed

(* One section is cut: no other changes, and this one is at its floor when *)
(* the excess is not gone with it.                                         *)
TrimStates == [prompt : Prompt, excess : Int]

IsCut(next, state, s, percents) ==
  /\ next \in TrimStates
  /\ Trimmed(next.prompt, state.prompt)
  /\ \A n \in SectionNames \ {s.name} :
        next.prompt.raw[n] = state.prompt.raw[n] /\ next.prompt.count[n] = state.prompt.count[n]
  /\ next.excess > 0 => state.excess > 0 /\ Minimal(next.prompt, s, percents)
  /\ state.prompt.count[s.name] <= s.floor => next = state
  /\ next.prompt.raw[s.name] < state.prompt.raw[s.name] => state.excess > 0
  /\ next.excess <= state.excess
  /\ s.name # "conversation_history" => next.prompt.history = state.prompt.history

(* Where lines are reckoned for what they measure, a cut takes at least    *)
(* what was asked of the section, and at its minimum it counts no more.    *)
IsFullCut(next, state, s) ==
  /\ IsCut(next, state, s, {})
  /\ next.prompt.count[s.name] + (state.excess - next.excess) <= state.prompt.count[s.name]

LEMMA CutIsCut ==
  ASSUME NEW state \in TrimStates, Faithful(state.prompt), NEW s \in ToSet(Layout), ~s.locked,
         NEW percent, Scale(percent), NEW percents, percent \in percents \/ Reckoned(percent)
  PROVE  /\ IsCut(Cut(state, s, percent), state, s, percents)
         /\ Reckoned(percent) => IsFullCut(Cut(state, s, percent), state, s)
  <1> DEFINE n == s.name
             prompt == state.prompt
             cut == Lesser(Greater(0, prompt.count[n] - s.floor), state.excess)
             budget == prompt.count[n] - cut
             kept == IF budget = 0 THEN <<>> ELSE NewestThatFit(prompt.history, budget, percent)
             tokens == IF n = "conversation_history" THEN HistoryTokens(kept)
                       ELSE IF budget = 0 THEN 0 ELSE WholeLines(prompt.raw[n], budget, percent)
             msgs == IF n = "conversation_history" THEN kept ELSE prompt.history
             less == [raw |-> [prompt.raw EXCEPT ![n] = tokens],
                      count |-> [prompt.count EXCEPT ![n] = Calibrated(tokens, percent)],
                      history |-> msgs]
             next == [excess |-> state.excess - cut, prompt |-> less]
  <1>1. Cut(state, s, percent) = IF cut <= 0 THEN state ELSE next
    BY DEF Cut
  <1>2. /\ n \in SectionNames /\ s.floor \in Nat /\ state.excess \in Int
        /\ prompt.raw \in Sizes /\ prompt.count \in Sizes /\ prompt.history \in Messages
        /\ prompt.raw[n] \in Nat /\ prompt.count[n] \in Nat
        /\ prompt \in Prompt /\ n \notin Locked
    <2>1. state.excess \in Int /\ prompt \in Prompt
      BY DEF TrimStates
    <2>2. prompt.raw \in Sizes /\ prompt.count \in Sizes /\ prompt.history \in Messages
      BY <2>1 DEF Prompt
    <2>3. QED
      BY <2>1, <2>2, NamedSections DEF Sizes
  <1>3. percent \in Nat \ {0}
    BY DEF Scale
  <1>4. CASE cut <= 0
    <2>1. Cut(state, s, percent) = state
      BY <1>1, <1>4
    <2>2. state.excess > 0 => prompt.count[n] <= s.floor
      BY <1>2, <1>4 DEF Lesser, Greater
    <2>3. Trimmed(prompt, prompt)
      BY TrimmedItself
    <2>4. IsCut(state, state, s, percents) /\ IsFullCut(state, state, s)
      BY <1>2, <2>2, <2>3 DEF IsCut, IsFullCut, Minimal
    <2>5. QED
      BY <2>1, <2>4
  <1>5. CASE ~(cut <= 0)
    <2>1. /\ cut \in Nat /\ cut > 0 /\ cut <= state.excess /\ cut <= prompt.count[n] - s.floor
          /\ budget \in Nat /\ state.excess > 0 /\ prompt.count[n] > s.floor
          /\ state.excess - cut > 0 => budget = s.floor
          /\ state.excess - cut \in Int
      BY <1>2, <1>5 DEF Lesser, Greater
    <2> HIDE DEF cut, budget
    <2>2. /\ tokens \in Nat /\ tokens <= prompt.raw[n]
          /\ \/ Calibrated(tokens, percent) <= budget
             \/ /\ ~Reckoned(percent) /\ n # "conversation_history" /\ budget # 0
                /\ tokens = WholeLines(prompt.raw[n], budget, percent)
          /\ msgs \in Messages /\ EndOf(msgs, prompt.history)
          /\ n = "conversation_history" => tokens = HistoryTokens(msgs)
      <3>1. HistoryTokens(<<>>) = 0 /\ Calibrated(0, percent) = 0
        BY DEF HistoryTokens, Calibrated
      <3>2. EndOf(<<>>, prompt.history) /\ EndOf(prompt.history, prompt.history) /\ <<>> \in Messages
        BY <1>2, EndOfItself DEF Messages
      <3>3. CASE n = "conversation_history" /\ budget = 0
        <4>1. kept = <<>> /\ tokens = 0 /\ msgs = <<>>
          BY <3>1, <3>3
        <4> HIDE DEF kept, tokens, msgs
        <4>2. QED
          BY <1>2, <2>1, <3>1, <3>2, <4>1
      <3>4. CASE n = "conversation_history" /\ budget # 0
        <4>1. kept = NewestThatFit(prompt.history, budget, percent) /\ msgs = kept /\ tokens = HistoryTokens(kept)
          BY <3>4
        <4> HIDE DEF kept, tokens, msgs
        <4>2. PICK k \in 1..Len(prompt.history)+1 :
                 /\ kept = SubSeq(prompt.history, k, Len(prompt.history))
                 /\ Calibrated(HistoryTokens(kept), percent) <= budget
          BY <1>2, <1>3, <2>1, <4>1, NewestFit
        <4>3. HistoryTokens(kept) \in Nat /\ HistoryTokens(kept) <= HistoryTokens(prompt.history) /\ kept \in Messages
          BY <1>2, <4>2, HistoryTokensType
        <4>4. prompt.raw[n] = HistoryTokens(prompt.history)
          BY <3>4 DEF Faithful
        <4>5. EndOf(kept, prompt.history)
          BY <4>2 DEF EndOf
        <4>6. QED
          BY <4>1, <4>2, <4>3, <4>4, <4>5
      <3>5. CASE n # "conversation_history" /\ budget = 0
        <4>1. tokens = 0 /\ msgs = prompt.history
          BY <3>5
        <4> HIDE DEF tokens, msgs
        <4>2. QED
          BY <1>2, <2>1, <3>1, <3>2, <3>5, <4>1
      <3>6. CASE n # "conversation_history" /\ budget # 0
        <4>1. tokens = WholeLines(prompt.raw[n], budget, percent) /\ msgs = prompt.history
          BY <3>6
        <4> HIDE DEF tokens, msgs
        <4>2. tokens \in Nat /\ tokens <= prompt.raw[n]
          BY <1>2, <2>1, <4>1, WholeLinesKept
        <4>3. Reckoned(percent) => Calibrated(tokens, percent) <= budget
          BY <1>2, <2>1, <3>6, <4>1, WholeLinesBound
        <4>4. QED
          BY <1>2, <3>2, <3>6, <4>1, <4>2, <4>3
      <3>7. QED
        BY <3>3, <3>4, <3>5, <3>6
    <2> HIDE DEF tokens, msgs
    <2>3. Calibrated(tokens, percent) \in Nat
      BY <1>3, <2>2, CalibratedType
    <2>4. /\ less.raw \in Sizes /\ less.count \in Sizes /\ less \in Prompt
          /\ less.raw[n] = tokens /\ less.count[n] = Calibrated(tokens, percent)
          /\ less.history = msgs
          /\ \A m \in SectionNames \ {n} : less.raw[m] = prompt.raw[m] /\ less.count[m] = prompt.count[m]
      BY <1>2, <2>2, <2>3 DEF Sizes, Prompt
    <2> HIDE DEF less
    <2>5. Faithful(less)
      <3>1. CASE n = "conversation_history"
        BY <2>2, <2>4, <3>1 DEF Faithful
      <3>2. CASE n # "conversation_history"
        <4>1. "conversation_history" \in SectionNames \ {n}
          BY <3>2, NamedSections
        <4>2. prompt.raw["conversation_history"] = HistoryTokens(prompt.history)
          BY DEF Faithful
        <4>3. msgs = prompt.history
          BY <3>2 DEF msgs
        <4>4. QED
          BY <2>4, <4>1, <4>2, <4>3 DEF Faithful
      <3>3. QED
        BY <3>1, <3>2
    <2>6. Trimmed(less, prompt)
      <3>1. \A m \in SectionNames : less.raw[m] <= prompt.raw[m]
        <4>1. \A m \in SectionNames : prompt.raw[m] \in Nat
          BY <1>2 DEF Sizes
        <4>2. QED
          BY <2>2, <2>4, <4>1
      <3>2. \A m \in Locked : less.raw[m] = prompt.raw[m]
        <4>1. \A m \in Locked : m \in SectionNames \ {n}
          BY <1>2 DEF Locked, SectionNames
        <4>2. QED
          BY <2>4, <4>1
      <3>3. QED
        BY <2>2, <2>4, <2>5, <3>1, <3>2 DEF Trimmed
    <2>7. /\ next \in TrimStates /\ next.prompt = less /\ next.excess = state.excess - cut
      BY <2>1, <2>4 DEF TrimStates
    <2> HIDE DEF next
    <2>8. next.excess > 0 => budget = s.floor
      BY <2>1, <2>7
    <2>9. next.prompt.count[n] = Calibrated(tokens, percent) /\ next.prompt.raw[n] = tokens
      BY <2>4, <2>7
    <2>10. ASSUME next.excess > 0, ~(next.prompt.count[n] <= s.floor)
           PROVE  /\ ~Reckoned(percent) /\ n # "conversation_history"
                  /\ WholeLines(next.prompt.raw[n], s.floor, percent) = next.prompt.raw[n]
      <3>1. /\ ~Reckoned(percent) /\ n # "conversation_history"
            /\ tokens = WholeLines(prompt.raw[n], s.floor, percent)
        BY <2>2, <2>8, <2>9, <2>10
      <3>2. WholeLines(tokens, s.floor, percent) = tokens
        <4>1. tokens <= WholeLines(prompt.raw[n], s.floor, percent)
          BY <2>2, <3>1
        <4>2. QED
          BY <1>2, <2>2, <4>1, WholeLinesKept
      <3>3. QED
        BY <2>9, <3>1, <3>2
    <2>11. next.excess > 0 => Minimal(next.prompt, s, percents)
      BY <2>10 DEF Minimal
    <2>12. Reckoned(percent) =>
             /\ next.excess > 0 => Minimal(next.prompt, s, {})
             /\ next.prompt.count[n] <= budget
      BY <2>2, <2>9, <2>10 DEF Minimal
    <2>13. Cut(state, s, percent) = next
      BY <1>1, <1>5, <2>1
    <2>14. /\ next.excess <= state.excess
           /\ next.prompt.count[n] <= budget =>
                 next.prompt.count[n] + (state.excess - next.excess) <= prompt.count[n]
      <3>1. budget = prompt.count[n] - cut
        BY DEF budget
      <3>2. next.prompt.count[n] \in Nat
        BY <2>3, <2>9
      <3>3. /\ cut \in Nat /\ state.excess \in Int /\ prompt.count[n] \in Nat
            /\ next.excess = state.excess - cut
        BY <1>2, <2>1, <2>7
      <3>4. next.excess <= state.excess /\ state.excess - next.excess = cut
        BY <3>3
      <3>5. \A a, b, c \in Nat : a <= b - c => a + c <= b
        OBVIOUS
      <3>6. next.prompt.count[n] <= prompt.count[n] - cut => next.prompt.count[n] + cut <= prompt.count[n]
        BY <3>2, <3>3, <3>5
      <3>7. QED
        BY <3>1, <3>4, <3>6
    <2>15. n # "conversation_history" => next.prompt.history = prompt.history
      BY <2>4, <2>7 DEF msgs
    <2>16. IsCut(next, state, s, percents)
      BY <1>2, <2>1, <2>4, <2>6, <2>7, <2>11, <2>14, <2>15 DEF IsCut
    <2>17. Reckoned(percent) => IsFullCut(next, state, s)
      BY <1>2, <2>1, <2>4, <2>6, <2>7, <2>12, <2>14, <2>15 DEF IsCut, IsFullCut
    <2>18. QED
      BY <2>13, <2>16, <2>17
  <1>6. QED
    BY <1>4, <1>5

Unlocked == {s \in ToSet(Layout) : ~s.locked}
SoundStates == {state \in TrimStates : Faithful(state.prompt)}

LEMMA CutIsFaithful ==
  ASSUME NEW state \in SoundStates, NEW s \in Unlocked, NEW percent, Scale(percent)
  PROVE  Cut(state, s, percent) \in SoundStates
  <1>1. IsCut(Cut(state, s, percent), state, s, {percent})
    BY CutIsCut DEF SoundStates, Unlocked
  <1>2. QED
    BY <1>1 DEF IsCut, Trimmed, SoundStates

Cutting(trace, state, sections, percent) ==
  /\ trace[0] = state
  /\ \A i \in 1..Len(sections) : trace[i] = Cut(trace[i - 1], sections[i], percent)
  /\ CutAll(state, sections, percent) = trace[Len(sections)]

LEMMA CutAllTrace ==
  ASSUME NEW state \in SoundStates, NEW sections \in Seq(Unlocked), NEW percent, Scale(percent)
  PROVE  \E trace \in [0..Len(sections) -> SoundStates] : Cutting(trace, state, sections, percent)
  <1> DEFINE T == SoundStates
             n == Len(sections)
             step == [i \in 1..n |-> [acc \in T |-> Cut(acc, sections[i], percent)]]
             Rec(it) == [d \in SUBSET (1..n) |->
                            IF d = {} THEN state ELSE Cut(it[d \ {Max(d)}], sections[Max(d)], percent)]
             iter == CHOOSE it : it = Rec(it)
  <1>1. n \in Nat /\ DOMAIN sections = 1..n /\ state \in T
    OBVIOUS
  <1>2. step \in [1..n -> [T -> T]]
    <2>1. \A i \in 1..n : sections[i] \in Unlocked
      OBVIOUS
    <2>2. \A i \in 1..n : \A acc \in T : Cut(acc, sections[i], percent) \in T
      BY <2>1, CutIsFaithful
    <2> HIDE DEF T
    <2>3. QED
      BY <2>2
  <1>3. \A d \in SUBSET (1..n) : d # {} => Max(d) \in 1..n /\ d \ {Max(d)} \in SUBSET (1..n)
    BY <1>1, MaxIsMember
  <1> HIDE DEF T
  <1>4. \E it : it = Rec(it)
    <2>1. PICK it \in [SUBSET (1..n) -> T] : IsFold(it, n, state, step)
      <3> HIDE DEF step, n
      <3>1. QED
        BY <1>1, <1>2, FoldExists
    <2>2. \A d \in SUBSET (1..n) :
             it[d] = IF d = {} THEN state ELSE Cut(it[d \ {Max(d)}], sections[Max(d)], percent)
      BY <1>3, <2>1 DEF IsFold
    <2>3. it = Rec(it)
      BY <2>1, <2>2
    <2> HIDE DEF Rec
    <2>4. QED
      BY <2>3
  <1>5. iter = Rec(iter)
    <2> HIDE DEF Rec
    <2>1. QED
      BY <1>4
  <1>6. CutAll(state, sections, percent) = iter[1..n]
    BY <1>1 DEF CutAll, FoldLeft, MapThenFoldSet
  <1> HIDE DEF iter
  <1>7. Recurs(iter, n, T, state, step)
    BY <1>3, <1>5 DEF Recurs
  <1>8. PICK trace \in [0..n -> T] : IsTrace(trace, n, state, step) /\ iter[1..n] = trace[n]
    <2> HIDE DEF step, n, Rec
    <2>1. Traces(iter, n, T, state, step)
      BY <1>1, <1>2, <1>7, FoldTrace
    <2>2. QED
      BY <2>1 DEF Traces
  <1>9. ASSUME NEW i \in 1..n PROVE trace[i] = Cut(trace[i - 1], sections[i], percent)
    <2>1. i - 1 \in 0..n
      BY <1>1
    <2>2. trace[i - 1] \in T
      BY <2>1, <1>8
    <2>3. trace[i] = step[i][trace[i - 1]]
      <3> HIDE DEF step, n
      <3>1. QED
        BY <1>8 DEF IsTrace
    <2>4. QED
      BY <2>2, <2>3
  <1>10. QED
    BY <1>6, <1>8, <1>9 DEF IsTrace, Cutting, T

-----------------------------------------------------------------------------
(* The order in which sections are cut. *)
Rising(in) == {e \in Unlocked \X Unlocked : Priority(e[1], in) <= Priority(e[2], in)}

LEMMA TrimmableOrder ==
  ASSUME NEW in
  PROVE  /\ Trimmable(in) \in Seq(Unlocked) /\ ToSet(Trimmable(in)) = Unlocked
         /\ Chain(Trimmable(in), Rising(in))
  <1> DEFINE group(k) == {s \in ToSet(Layout) : ~s.locked /\ Priority(s, in) = k}
             seqs == [k \in 1..9 |-> Selected(Layout, group(k))]
             S == ToSet(Layout)
  <1>1. /\ \A k \in 1..9 : group(k) \subseteq Unlocked /\ group(k) \subseteq S
        /\ \A s \in Unlocked : Priority(s, in) \in 1..9 /\ s \in group(Priority(s, in))
        /\ \A s \in S : Priority(s, in) \in Nat
    <2>1. \A s \in Unlocked : s \in S /\ ~s.locked /\ s.priority \in 5..9
      BY NamedSections DEF Unlocked
    <2>2. \A s \in Unlocked : Priority(s, in) \in 1..9
      BY <2>1 DEF Priority
    <2>3. \A s \in S : Priority(s, in) \in Nat
      <3>1. \A i \in 1..14 : Layout[i].priority \in Nat
        BY DEF Layout, Section
      <3>2. QED
        BY <3>1, LayoutIsSequence DEF Priority
    <2>4. QED
      BY <2>1, <2>2, <2>3 DEF Unlocked
  <1>2. \A k \in 1..9 : /\ Selected(Layout, group(k)) \in Seq(S)
                        /\ ToSet(Selected(Layout, group(k))) = group(k)
    <2>1. TAKE k \in 1..9
    <2> DEFINE K == group(k)
    <2>2. K \subseteq S
      BY <1>1
    <2> HIDE DEF K, S
    <2>3. Layout \in Seq(S) /\ S = ToSet(Layout)
      BY LayoutIsSequence DEF S
    <2>4. Selected(Layout, K) \in Seq(S) /\ ToSet(Selected(Layout, K)) = ToSet(Layout) \cap K
      BY <2>3, SelectedPlaces, SelectedSet
    <2>5. QED
      BY <2>2, <2>3, <2>4 DEF K
  <1>3. \A k \in 1..9 : seqs[k] = Selected(Layout, group(k))
    OBVIOUS
  <1> HIDE DEF group
  <1>4. seqs \in Seq(Seq(S)) /\ DOMAIN seqs = 1..9
    <2> HIDE DEF S
    <2>1. QED
      BY <1>2
  <1> HIDE DEF seqs, S
  <1>5. \A k \in 1..9 : seqs[k] \in Seq(S) /\ ToSet(seqs[k]) = group(k)
    BY <1>2, <1>3
  <1>6. Trimmable(in) = FlattenSeq(seqs)
    BY DEF Trimmable, seqs, group
  <1>7. Trimmable(in) \in Seq(S) /\ ToSet(Trimmable(in)) = UNION {ToSet(seqs[k]) : k \in 1..9}
    BY <1>4, <1>6, FlattenedSet
  <1>8. ToSet(Trimmable(in)) = Unlocked
    BY <1>1, <1>5, <1>7
  <1>9. Trimmable(in) \in Seq(Unlocked)
    <2> DEFINE T == Trimmable(in)
    <2>1. T \in Seq(S) /\ \A i \in DOMAIN T : T[i] \in Unlocked
      BY <1>7, <1>8 DEF ToSet
    <2> HIDE DEF T
    <2>2. T \in Seq(Unlocked)
      BY <2>1
    <2>3. QED
      BY <2>2 DEF T
  <1>10. \A k \in 1..9 : \A s \in ToSet(seqs[k]) : s \in Unlocked /\ Priority(s, in) = k
    <2>1. \A k \in 1..9 : \A s \in group(k) : s \in Unlocked /\ Priority(s, in) = k
      BY DEF group, Unlocked
    <2>2. TAKE k \in 1..9
    <2>3. ToSet(seqs[k]) = group(k)
      BY <1>5
    <2>4. QED
      BY <2>1, <2>3
  <1>11. \A k \in 1..9 : Chain(seqs[k], Rising(in))
    <2>1. TAKE k \in 1..9
    <2>2. \A i \in DOMAIN seqs[k] : seqs[k][i] \in Unlocked /\ Priority(seqs[k][i], in) = k
      <3>1. \A i \in DOMAIN seqs[k] : seqs[k][i] \in ToSet(seqs[k])
        BY DEF ToSet
      <3>2. QED
        BY <1>10, <3>1
    <2>3. \A i, j \in DOMAIN seqs[k] : <<seqs[k][i], seqs[k][j]>> \in Rising(in)
      BY <2>2 DEF Rising
    <2>4. QED
      BY <2>3 DEF Chain
  <1>12. \A j, k \in 1..9 : j < k => \A x \in ToSet(seqs[j]), y \in ToSet(seqs[k]) : <<x, y>> \in Rising(in)
    <2>1. TAKE j, k \in 1..9
    <2>2. ASSUME j < k, NEW x \in ToSet(seqs[j]), NEW y \in ToSet(seqs[k]) PROVE <<x, y>> \in Rising(in)
      <3>1. x \in Unlocked /\ y \in Unlocked /\ Priority(x, in) = j /\ Priority(y, in) = k
        BY <1>10
      <3>2. Priority(x, in) <= Priority(y, in)
        BY <2>2, <3>1
      <3>3. QED
        BY <3>1, <3>2 DEF Rising
    <2>3. QED
      BY <2>2
  <1>13. Chain(FlattenSeq(seqs), Rising(in))
    BY <1>4, <1>11, <1>12, ChainFlatten
  <1>14. QED
    BY <1>6, <1>8, <1>9, <1>13

-----------------------------------------------------------------------------
(* Everything less important than a passage of an attached document is at  *)
(* its minimum, as models that count with these multipliers reckon it.     *)
Multipliers == SUBSET (Nat \ {0})

AtFloors(prompt, percents) ==
  \A s \in Unlocked : s.priority < 9 /\ s.name # "retrieval" => Minimal(prompt, s, percents)

LEMMA FloorsStay ==
  ASSUME NEW percents \in Multipliers, NEW next, NEW state \in TrimStates, NEW s \in Unlocked,
         IsCut(next, state, s, percents),
         NEW t \in Unlocked, Minimal(state.prompt, t, percents)
  PROVE  Minimal(next.prompt, t, percents)
  <1>1. CASE t.name = s.name
    <2>1. t = s
      BY <1>1, NamesAreDistinct DEF Unlocked
    <2>2. CASE state.prompt.count[t.name] <= t.floor
      <3>1. next = state
        BY <2>1, <2>2 DEF IsCut
      <3>2. QED
        BY <3>1
    <2>3. CASE ~(state.prompt.count[t.name] <= t.floor)
      <3>1. t.name # "conversation_history" /\ t.name \in SectionNames /\ t.floor \in Nat
        BY <2>3, NamedSections DEF Minimal, Unlocked
      <3>2. PICK percent \in percents :
               WholeLines(state.prompt.raw[t.name], t.floor, percent) = state.prompt.raw[t.name]
        BY <2>3 DEF Minimal
      <3>3. /\ state.prompt.raw[t.name] \in Nat /\ next.prompt.raw[t.name] \in Nat
            /\ next.prompt.raw[t.name] <= state.prompt.raw[t.name]
        BY <3>1 DEF IsCut, Trimmed, TrimStates, Prompt, Sizes
      <3>4. Scale(percent)
        BY DEF Multipliers, Scale
      <3>5. WholeLines(next.prompt.raw[t.name], t.floor, percent) = next.prompt.raw[t.name]
        BY <3>1, <3>2, <3>3, <3>4, WholeLinesKept
      <3>6. QED
        BY <3>1, <3>5 DEF Minimal
    <2>4. QED
      BY <2>2, <2>3
  <1>2. CASE t.name # s.name
    <2>1. t.name \in SectionNames \ {s.name}
      BY <1>2, NamedSections DEF Unlocked
    <2>2. QED
      BY <2>1 DEF IsCut, Minimal
  <1>3. QED
    BY <1>1, <1>2

(* A state the cuts pass through, after the first m sections. *)
Halfway(now, state, order, m, percents) ==
  /\ now \in SoundStates
  /\ Trimmed(now.prompt, state.prompt)
  /\ now.excess > 0 => \A i \in 1..m : Minimal(now.prompt, order[i], percents)
  /\ AtFloors(state.prompt, percents) => AtFloors(now.prompt, percents)

Shrunk(a, b) == a.prompt.raw["retrieval"] < b.prompt.raw["retrieval"]

LEMMA HalfwayStep ==
  ASSUME NEW percents \in Multipliers, NEW order \in Seq(Unlocked), NEW m \in Nat, m + 1 \in DOMAIN order,
         NEW state \in SoundStates, NEW now, Halfway(now, state, order, m, percents),
         NEW next, IsCut(next, now, order[m + 1], percents)
  PROVE  Halfway(next, state, order, m + 1, percents)
  <1> DEFINE s == order[m + 1]
  <1>1. s \in Unlocked /\ now \in TrimStates
    BY DEF Halfway, SoundStates
  <1>2. next \in SoundStates
    BY DEF IsCut, Trimmed, SoundStates
  <1>3. Trimmed(next.prompt, state.prompt)
    BY TrimmedAgain DEF IsCut, Halfway, SoundStates
  <1>4. ASSUME next.excess > 0, NEW i \in 1..m+1
        PROVE  Minimal(next.prompt, order[i], percents)
    <2>1. CASE i = m + 1
      BY <1>4, <2>1 DEF IsCut, IsFullCut, Minimal
    <2>2. CASE i # m + 1
      <3>1. i \in 1..m /\ i \in DOMAIN order /\ order[i] \in Unlocked
        BY <1>4, <2>2
      <3>2. now.excess > 0
        BY <1>4 DEF IsCut
      <3>3. Minimal(now.prompt, order[i], percents)
        BY <3>1, <3>2 DEF Halfway
      <3>4. QED
        BY <1>1, <3>1, <3>3, FloorsStay
    <2>3. QED
      BY <2>1, <2>2
  <1>5. AtFloors(state.prompt, percents) => AtFloors(next.prompt, percents)
    BY <1>1, FloorsStay DEF AtFloors, Halfway
  <1>6. QED
    BY <1>2, <1>3, <1>4, <1>5 DEF Halfway

LEMMA PassagesStep ==
  ASSUME NEW percents \in Multipliers, NEW in, in.files, NEW m \in Nat, m + 1 \in DOMAIN Trimmable(in),
         NEW state \in SoundStates, NEW now, Halfway(now, state, Trimmable(in), m, percents),
         NEW next, IsCut(next, now, Trimmable(in)[m + 1], percents),
         Shrunk(now, state) => AtFloors(now.prompt, percents)
  PROVE  Shrunk(next, state) => AtFloors(next.prompt, percents)
  <1> DEFINE order == Trimmable(in)
             s == order[m + 1]
  <1>1. /\ order \in Seq(Unlocked) /\ s \in Unlocked /\ now \in TrimStates
        /\ ToSet(order) = Unlocked /\ Chain(order, Rising(in))
    BY TrimmableOrder DEF Halfway, SoundStates
  <1>2. CASE Shrunk(now, state)
    BY <1>1, <1>2, FloorsStay DEF AtFloors
  <1>3. CASE ~Shrunk(now, state) /\ Shrunk(next, state)
    <2>1. /\ now.prompt.raw["retrieval"] \in Nat /\ next.prompt.raw["retrieval"] \in Nat
          /\ state.prompt.raw["retrieval"] \in Nat
      BY NamedSections DEF IsCut, Halfway, SoundStates, TrimStates, Prompt, Sizes
    <2>2. Shrunk(next, now)
      BY <1>3, <2>1 DEF Shrunk
    <2>3. s.name = "retrieval"
      BY <2>1, <2>2, NamedSections DEF IsCut, Shrunk
    <2>4. now.excess > 0
      BY <2>2, <2>3 DEF IsCut, Shrunk
    <2>5. ASSUME NEW e \in Unlocked, e.priority < 9, e.name # "retrieval"
          PROVE  Minimal(now.prompt, e, percents)
      <3>1. PICK i \in DOMAIN order : order[i] = e
        BY <1>1 DEF ToSet
      <3>2. i # m + 1
        BY <2>3, <2>5, <3>1
      <3>3. ~(m + 1 < i)
        <4>1. ASSUME m + 1 < i PROVE FALSE
          <5>1. <<s, e>> \in Rising(in)
            BY <1>1, <3>1, <4>1 DEF Chain
          <5>2. Priority(s, in) <= Priority(e, in)
            BY <5>1 DEF Rising
          <5>3. Priority(s, in) = 9 /\ Priority(e, in) = e.priority /\ e.priority \in Nat
            <6>1. e.priority \in 5..9
              BY NamedSections DEF Unlocked
            <6>2. QED
              BY <2>3, <2>5, <6>1 DEF Priority
          <5>4. QED
            BY <2>5, <5>2, <5>3
        <4>2. QED
          BY <4>1
      <3>4. i \in 1..m
        <4>1. i \in Nat \ {0}
          BY <1>1, <3>1
        <4>2. QED
          BY <3>2, <3>3, <4>1
      <3>5. QED
        BY <2>4, <3>1, <3>4 DEF Halfway
    <2>6. QED
      BY <1>1, <2>5, FloorsStay DEF AtFloors
  <1>4. QED
    BY <1>2, <1>3

LEMMA AllCut ==
  ASSUME NEW in, NEW state \in SoundStates,
         NEW percents \in Multipliers, NEW percent \in percents
  PROVE  LET final == CutAll(state, Trimmable(in), percent)
         IN  /\ final \in SoundStates
             /\ Trimmed(final.prompt, state.prompt)
             /\ AtFloors(state.prompt, percents) => AtFloors(final.prompt, percents)
             /\ in.files /\ Shrunk(final, state) => AtFloors(final.prompt, percents)
  <1> DEFINE order == Trimmable(in)
             n == Len(order)
  <1>1. order \in Seq(Unlocked) /\ n \in Nat /\ DOMAIN order = 1..n
    BY TrimmableOrder
  <1>2. Scale(percent)
    BY DEF Multipliers, Scale
  <1>3. PICK trace \in [0..n -> SoundStates] : Cutting(trace, state, order, percent)
    BY <1>1, <1>2, CutAllTrace
  <1> DEFINE Good(m) == /\ Halfway(trace[m], state, order, m, percents)
                        /\ in.files => (Shrunk(trace[m], state) => AtFloors(trace[m].prompt, percents))
             good == {m \in 0..n : Good(m)}
  <1>4. Good(0)
    <2>1. trace[0] = state
      BY <1>3 DEF Cutting
    <2>2. ~Shrunk(state, state)
      <3>1. state.prompt.raw["retrieval"] \in Nat
        BY NamedSections DEF SoundStates, TrimStates, Prompt, Sizes
      <3>2. QED
        BY <3>1 DEF Shrunk
    <2>3. Trimmed(state.prompt, state.prompt)
      BY TrimmedItself DEF SoundStates
    <2>4. QED
      BY <2>1, <2>2, <2>3 DEF Halfway
  <1>5. ASSUME NEW m \in 0..n-1, Good(m) PROVE Good(m + 1)
    <2>1. m \in Nat /\ m + 1 \in 1..n /\ m + 1 \in DOMAIN order /\ (m + 1) - 1 = m /\ order[m + 1] \in Unlocked
      BY <1>1
    <2>2. trace[m + 1] = Cut(trace[m], order[m + 1], percent)
      <3>1. trace[m + 1] = Cut(trace[(m + 1) - 1], order[m + 1], percent)
        BY <1>3, <2>1 DEF Cutting
      <3>2. QED
        BY <2>1, <3>1
    <2>3. trace[m] \in TrimStates /\ Faithful(trace[m].prompt)
      BY <1>5 DEF Halfway, SoundStates
    <2>4. IsCut(trace[m + 1], trace[m], order[m + 1], percents)
      BY <1>2, <2>1, <2>2, <2>3, CutIsCut DEF Unlocked
    <2>5. Halfway(trace[m + 1], state, order, m + 1, percents)
      BY <1>1, <1>5, <2>1, <2>4, HalfwayStep
    <2>6. in.files => (Shrunk(trace[m + 1], state) => AtFloors(trace[m + 1].prompt, percents))
      BY <1>5, <2>1, <2>4, PassagesStep
    <2>7. QED
      BY <2>5, <2>6
  <1>6. n \in good
    <2> HIDE DEF Good
    <2>1. 0 \in good /\ \A m \in 0..n-1 : m \in good => m + 1 \in good
      BY <1>1, <1>4, <1>5
    <2> HIDE DEF good
    <2>2. \A m \in 0..n : m \in good
      BY <1>1, <2>1, Induction
    <2>3. QED
      BY <1>1, <2>2
  <1>7. CutAll(state, order, percent) = trace[n]
    BY <1>3 DEF Cutting
  <1>8. QED
    BY <1>6, <1>7 DEF Halfway

-----------------------------------------------------------------------------
(* What the fits make of a prompt. *)
Fitted(now, prompt, in, percents) ==
  /\ Trimmed(now, prompt)
  /\ AtFloors(prompt, percents) => AtFloors(now, percents)
  /\ in.files /\ now.raw["retrieval"] < prompt.raw["retrieval"] => AtFloors(now, percents)

LEMMA FittedItself ==
  ASSUME NEW prompt, Faithful(prompt), NEW in, NEW percents
  PROVE  Fitted(prompt, prompt, in, percents)
  <1>1. prompt.raw["retrieval"] \in Nat
    BY NamedSections DEF Faithful, Prompt, Sizes
  <1>2. ~(prompt.raw["retrieval"] < prompt.raw["retrieval"])
    BY <1>1
  <1>3. QED
    BY <1>2, TrimmedItself DEF Fitted

LEMMA FittedAgain ==
  ASSUME NEW a, NEW b, NEW c, Faithful(c), NEW in, NEW percents, Fitted(a, b, in, percents), Fitted(b, c, in, percents)
  PROVE  Fitted(a, c, in, percents)
  <1>1. a.raw["retrieval"] \in Nat /\ b.raw["retrieval"] \in Nat /\ c.raw["retrieval"] \in Nat
    BY NamedSections DEF Fitted, Trimmed, Faithful, Prompt, Sizes
  <1>2. Trimmed(a, c)
    BY TrimmedAgain DEF Fitted
  <1>3. AtFloors(c, percents) => AtFloors(a, percents)
    BY DEF Fitted
  <1>4. ASSUME in.files, a.raw["retrieval"] < c.raw["retrieval"] PROVE AtFloors(a, percents)
    <2>1. CASE b.raw["retrieval"] < c.raw["retrieval"]
      BY <1>4, <2>1 DEF Fitted
    <2>2. CASE ~(b.raw["retrieval"] < c.raw["retrieval"])
      <3>1. a.raw["retrieval"] < b.raw["retrieval"]
        BY <1>1, <1>4, <2>2
      <3>2. QED
        BY <1>4, <3>1 DEF Fitted
    <2>3. QED
      BY <2>1, <2>2
  <1>5. QED
    BY <1>2, <1>3, <1>4 DEF Fitted

LEMMA ManagedFits ==
  ASSUME NEW prompt, Faithful(prompt), NEW in, NEW p \in Providers, NEW budget \in Int,
         NEW percents \in Multipliers, TrimPercent(p) \in percents
  PROVE  Fitted(Managed(prompt, in, p, budget).prompt, prompt, in, percents)
  <1> DEFINE limit == Lesser(budget, WindowBudget(p))
             percent == TrimPercent(p)
             excess == Total(prompt.count) - limit
             state == [prompt |-> prompt, excess |-> excess]
             cut == CutAll(state, Trimmable(in), percent).prompt
             final == IF excess <= 0 THEN prompt ELSE cut
  <1>1. Managed(prompt, in, p, budget).prompt = final
    BY DEF Managed
  <1>2. prompt \in Prompt /\ prompt.count \in Sizes /\ Total(prompt.count) \in Nat
    BY TotalType DEF Faithful, Prompt
  <1>3. excess \in Int
    <2>1. WindowBudget(p) \in Nat
      BY WindowBudgetType
    <2>2. limit \in Int
      BY <2>1 DEF Lesser
    <2> HIDE DEF limit
    <2>3. QED
      BY <1>2, <2>2
  <1>4. percent \in percents
    OBVIOUS
  <1>5. state \in SoundStates /\ state.prompt = prompt
    BY <1>2, <1>3 DEF SoundStates, TrimStates
  <1> HIDE DEF excess, percent
  <1>6. Fitted(cut, prompt, in, percents)
    <2> DEFINE last == CutAll(state, Trimmable(in), percent)
    <2>1. /\ Trimmed(last.prompt, state.prompt)
          /\ AtFloors(state.prompt, percents) => AtFloors(last.prompt, percents)
          /\ in.files /\ Shrunk(last, state) => AtFloors(last.prompt, percents)
      <3> HIDE DEF state
      <3>1. QED
        BY <1>4, <1>5, AllCut
    <2>2. cut = last.prompt
      OBVIOUS
    <2> HIDE DEF last, cut, state
    <2>3. QED
      BY <1>5, <2>1, <2>2 DEF Fitted, Shrunk
  <1>7. QED
    BY <1>1, <1>6, FittedItself

(* What the chain hands to a provider fits it, or is refused. *)
LEMMA FitForFits ==
  ASSUME NEW prompt, Faithful(prompt), NEW in, NEW p \in Providers,
         NEW percents \in Multipliers, TrimPercent(p) \in percents
  PROVE  /\ Fitted(FitFor(prompt, in, p).prompt, prompt, in, percents)
         /\ ~FitFor(prompt, in, p).overflow => Measured(FitFor(prompt, in, p).prompt, p) <= InputBudget(p)
  <1> DEFINE budget == InputBudget(p)
             once == Managed(prompt, in, p, budget)
             gap == Measured(once.prompt, p) - Total(once.prompt.count)
             again == Managed(prompt, in, p, Greater(1, budget - gap))
             fit == FitFor(prompt, in, p)
  <1>1. budget \in Int
    BY InputBudgetType
  <1>2. Fitted(once.prompt, prompt, in, percents)
    BY <1>1, ManagedFits
  <1>3. once.prompt \in Prompt
    BY <1>2 DEF Fitted, Trimmed, Faithful
  <1>4. Measured(once.prompt, p) \in Int /\ Total(once.prompt.count) \in Nat
    BY <1>3, MeasuredType, TotalType DEF Prompt
  <1>5. Greater(1, budget - gap) \in Int
    BY <1>1, <1>4 DEF Greater
  <1>6. Fitted(again.prompt, prompt, in, percents)
    BY <1>5, ManagedFits
  <1>7. again.prompt \in Prompt
    BY <1>6 DEF Fitted, Trimmed, Faithful
  <1>8. Measured(again.prompt, p) \in Int
    BY <1>7, MeasuredType
  <1>9. Fitted(prompt, prompt, in, percents)
    BY FittedItself
  <1>10. fit = IF Measured(prompt, p) <= budget
               THEN [prompt |-> prompt, overflow |-> FALSE]
               ELSE IF once.overflow \/ Measured(once.prompt, p) <= budget
               THEN once
               ELSE [prompt |-> again.prompt,
                     overflow |-> again.overflow \/ Measured(again.prompt, p) > budget]
    BY DEF FitFor
  <1> HIDE DEF fit, once, again, budget
  <1>11. CASE Measured(prompt, p) <= budget
    BY <1>9, <1>10, <1>11 DEF fit, budget
  <1>12. CASE ~(Measured(prompt, p) <= budget) /\ (once.overflow \/ Measured(once.prompt, p) <= budget)
    <2>1. fit = once
      BY <1>10, <1>12
    <2>2. QED
      BY <1>2, <1>12, <2>1 DEF fit, budget
  <1>13. CASE ~(Measured(prompt, p) <= budget) /\ ~(once.overflow \/ Measured(once.prompt, p) <= budget)
    <2>1. fit.prompt = again.prompt /\ (~fit.overflow => ~(Measured(again.prompt, p) > budget))
      BY <1>10, <1>13
    <2>2. ~fit.overflow => Measured(again.prompt, p) <= budget
      BY <1>1, <1>8, <2>1
    <2>3. QED
      BY <1>6, <2>1, <2>2 DEF fit, budget
  <1>14. QED
    BY <1>11, <1>12, <1>13

-----------------------------------------------------------------------------
(* A condensed history: an end of the conversation, or a note and an end.  *)
NoteOf(size) == <<[id |-> 0, size |-> size]>>

Condensed(h, said) ==
  \E end : EndOf(end, said) /\ (h = end \/ \E size \in Nat : h = NoteOf(size) \o end)

LEMMA CondensedTypes ==
  ASSUME NEW said \in Messages, NEW h, Condensed(h, said)
  PROVE  h \in Messages
  <1>1. PICK end : EndOf(end, said) /\ (h = end \/ \E size \in Nat : h = NoteOf(size) \o end)
    BY DEF Condensed
  <1>2. end \in Messages
    BY <1>1, EndOfItself, EndOfEnd
  <1>3. \A size \in Nat : NoteOf(size) \in Messages
    BY DEF NoteOf, Messages
  <1>4. \A size \in Nat : NoteOf(size) \o end \in Messages
    BY <1>2, <1>3 DEF Messages
  <1>5. QED
    BY <1>1, <1>2, <1>4

(* The ends of a condensed history are condensed; one that leaves a        *)
(* message out has no note.                                                *)
LEMMA EndOfCondensed ==
  ASSUME NEW said \in Messages, NEW h, Condensed(h, said), NEW k \in 1..Len(h)+1
  PROVE  /\ Condensed(SubSeq(h, k, Len(h)), said)
         /\ k > 1 => EndOf(SubSeq(h, k, Len(h)), said)
  <1> DEFINE M == [id : Nat, size : Nat]
             part == SubSeq(h, k, Len(h))
  <1>1. h \in Seq(M) /\ said \in Seq(M) /\ Messages = Seq(M)
    BY CondensedTypes DEF Messages
  <1> HIDE DEF M
  <1>2. PICK end : EndOf(end, said) /\ (h = end \/ \E size \in Nat : h = NoteOf(size) \o end)
    BY DEF Condensed
  <1>3. CASE h = end
    <2>1. EndOf(part, h)
      BY DEF EndOf
    <2>2. EndOf(part, said)
      BY <1>2, <1>3, <2>1, EndOfEnd
    <2>3. QED
      BY <2>2 DEF Condensed
  <1>4. CASE \E size \in Nat : h = NoteOf(size) \o end
    <2>1. PICK size \in Nat : h = NoteOf(size) \o end
      BY <1>4
    <2>2. CASE k = 1
      <3>1. part = h
        BY <1>1, <2>2
      <3> HIDE DEF part
      <3>2. Condensed(part, said) /\ ~(k > 1)
        BY <2>2, <3>1
      <3>3. QED
        BY <3>2 DEF part
    <2>3. CASE k # 1
      <3>1. end \in Seq(M)
        BY <1>1, <1>2, EndOfItself, EndOfEnd
      <3> DEFINE n == Len(end)
                 tail == SubSeq(end, k - 1, n)
      <3>2. /\ n \in Nat /\ Len(h) = n + 1 /\ k - 1 \in 1..n+1
            /\ \A i \in 1..n : h[i + 1] = end[i]
        <4> DEFINE note == NoteOf(size)
        <4>1. note \in Seq(M) /\ Len(note) = 1
          BY DEF NoteOf, M
        <4> HIDE DEF note
        <4>2. h = note \o end
          BY <2>1 DEF note
        <4>3. /\ Len(note \o end) = Len(note) + Len(end) /\ n \in Nat
              /\ \A i \in 1..Len(end) : (note \o end)[Len(note) + i] = end[i]
          <5> DEFINE x == note
                     y == end
          <5>1. x \in Seq(M) /\ y \in Seq(M)
            BY <3>1, <4>1
          <5> HIDE DEF x, y
          <5>2. Len(x \o y) = Len(x) + Len(y) /\ Len(y) \in Nat
            BY <5>1
          <5>3. \A i \in 1..Len(y) : (x \o y)[Len(x) + i] = y[i]
            BY <5>1, ToSetConcat
          <5>4. QED
            BY <5>2, <5>3 DEF x, y
        <4>5. Len(h) = n + 1 /\ n \in Nat /\ \A i \in 1..n : h[i + 1] = end[i]
          BY <4>1, <4>2, <4>3
        <4>6. k - 1 \in 1..n+1
          BY <2>3, <4>5
        <4>7. QED
          BY <4>5, <4>6
      <3>3. /\ part \in Seq(M) /\ Len(part) = (n - k) + 2
            /\ \A i \in 1..(n-k)+2 : part[i] = h[(k - 1) + i]
        BY <1>1, <3>2
      <3>4. /\ tail \in Seq(M) /\ Len(tail) = (n - k) + 2
            /\ \A i \in 1..(n-k)+2 : tail[i] = end[(k - 2) + i]
        BY <3>1, <3>2
      <3>5. \A i \in 1..(n-k)+2 : part[i] = tail[i]
        <4>1. TAKE i \in 1..(n-k)+2
        <4>2. (k - 2) + i \in 1..n /\ ((k - 2) + i) + 1 = (k - 1) + i
          BY <3>2
        <4>3. QED
          BY <3>2, <3>3, <3>4, <4>2
      <3> HIDE DEF part, tail
      <3>6. part = tail
        BY <3>3, <3>4, <3>5
      <3>7. EndOf(part, end)
        BY <3>2, <3>6 DEF EndOf, tail
      <3>8. EndOf(part, said)
        BY <1>2, <3>7, EndOfEnd
      <3>9. QED
        BY <3>8 DEF Condensed, part
    <2>4. QED
      BY <2>2, <2>3
  <1>5. QED
    BY <1>2, <1>3, <1>4

LEMMA NoteIsNote ==
  ASSUME NEW older \in Messages, NEW room, NEW p \in Providers
  PROVE  Note(older, room, p) = <<>> \/ \E size \in Nat : Note(older, room, p) = NoteOf(size)
  <1> DEFINE said == Verbatim(older)
             cost == [i \in DOMAIN said |->
                         Calibrated(Lesser(said[i].size, NoteLine) + RolePrefix, p.percent) + 1]
             header == Calibrated(NoteHeader, p.percent) + 4
             size(k) == Added(SubSeq(cost, k, Len(cost)))
             fits == {k \in DOMAIN said : header + size(k) <= room}
             first == CHOOSE i \in fits : \A j \in fits : i <= j
  <1>1. said \in Messages
    <2> DEFINE M == [id : Nat, size : Nat]
               K == {m \in ToSet(older) : m.id # 0}
    <2>1. older \in Seq(M) /\ Messages = Seq(M) /\ said = Selected(older, K)
      BY DEF Messages, Verbatim
    <2> HIDE DEF M, K, said
    <2>2. QED
      BY <2>1, SelectedPlaces
  <1>2. NoteLine \in Nat /\ RolePrefix \in Nat /\ NoteHeader \in Nat /\ p.percent \in Nat
    BY PromptConstantsOK, PercentType
  <1>3. DOMAIN said = 1..Len(said) /\ Len(said) \in Nat /\ \A i \in 1..Len(said) : said[i].size \in Nat
    <2> DEFINE M == [id : Nat, size : Nat]
    <2>1. said \in Seq(M) /\ \A m \in M : m.size \in Nat
      BY <1>1 DEF Messages
    <2> HIDE DEF M, said
    <2>2. QED
      BY <2>1
  <1> HIDE DEF said
  <1>4. \A i \in 1..Len(said) :
           Calibrated(Lesser(said[i].size, NoteLine) + RolePrefix, p.percent) + 1 \in Nat
    <2>1. TAKE i \in 1..Len(said)
    <2> DEFINE line == Lesser(said[i].size, NoteLine) + RolePrefix
    <2>2. line \in Nat
      BY <1>2, <1>3 DEF Lesser
    <2> HIDE DEF line
    <2>3. Calibrated(line, p.percent) \in Nat
      <3> DEFINE percent == p.percent
      <3>1. percent \in Nat /\ line \in Int
        BY <1>2, <2>2
      <3> HIDE DEF percent
      <3>2. Calibrated(line, percent) \in Nat
        BY <3>1, CalibratedType
      <3>3. QED
        BY <3>2 DEF percent
    <2>4. QED
      BY <2>3 DEF line
  <1>5. cost \in Seq(Nat) /\ Len(cost) = Len(said)
    BY <1>3, <1>4
  <1>6. Note(older, room, p) =
          IF fits = {} THEN <<>> ELSE <<[id |-> 0, size |-> NoteHeader + size(first)]>>
    BY DEF Note, said
  <1> HIDE DEF cost
  <1>7. fits # {} => first \in DOMAIN said
    <2>1. fits \in SUBSET Nat /\ fits \subseteq DOMAIN said
      BY <1>3
    <2> HIDE DEF fits
    <2>2. fits # {} => \E i \in fits : \A j \in fits : i <= j
      BY <2>1, LeastNumber
    <2>3. QED
      BY <2>1, <2>2
  <1> HIDE DEF fits, first
  <1>8. ASSUME fits # {} PROVE NoteHeader + size(first) \in Nat
    <2>1. first \in 1..Len(cost)
      BY <1>3, <1>5, <1>7, <1>8
    <2>2. SubSeq(cost, first, Len(cost)) \in Seq(Nat)
      BY <1>5, <2>1
    <2>3. size(first) \in Nat
      BY <2>2, AddedType
    <2>4. QED
      BY <1>2, <2>3
  <1>9. QED
    BY <1>6, <1>8 DEF NoteOf

LEMMA CompactedIsCondensed ==
  ASSUME NEW said \in Messages, NEW h, Condensed(h, said), h # <<>>,
         NEW room, NEW summarized, NEW p \in Providers
  PROVE  Condensed(Compacted(h, room, summarized, p), said)
  <1> DEFINE n == Len(h)
             share == (room * (IF summarized THEN 10 ELSE 30)) \div 100
             from(k) == SubSeq(h, k, n)
             stays == {k \in DOMAIN h : \/ n - k < MinRecent
                                        \/ MessageTokens(from(k), p) <= room - share}
             first == CHOOSE k \in stays : \A j \in stays : k <= j
             kept == from(first)
             older == SubSeq(h, 1, n - Len(kept))
             note == Note(older, Greater(0, room - MessageTokens(kept, p)), p)
  <1>1. Compacted(h, room, summarized, p) =
          IF MessageTokens(h, p) <= room \/ older = <<>> THEN h ELSE note \o kept
    BY DEF Compacted
  <1>2. h \in Messages /\ n \in Nat \ {0} /\ DOMAIN h = 1..n
    <2>1. h \in Messages
      BY CondensedTypes
    <2>2. QED
      BY <2>1 DEF Messages
  <1>3. first \in 1..n
    <2>1. n \in stays
      BY <1>2, PromptConstantsOK
    <2>2. stays \in SUBSET Nat /\ stays # {} /\ stays \subseteq 1..n
      BY <1>2, <2>1
    <2> HIDE DEF stays
    <2>3. \E k \in stays : \A j \in stays : k <= j
      BY <2>2, LeastNumber
    <2>4. QED
      BY <2>2, <2>3
  <1> HIDE DEF first
  <1>4. Len(kept) = (n - first) + 1 /\ kept \in Messages
    <2> DEFINE M == [id : Nat, size : Nat]
    <2>1. h \in Seq(M) /\ Messages = Seq(M)
      BY <1>2 DEF Messages
    <2> HIDE DEF M
    <2>2. QED
      BY <1>2, <1>3, <2>1
  <1>5. n - Len(kept) = first - 1 /\ older \in Messages /\ (first = 1 => older = <<>>)
    <2>1. n - Len(kept) = first - 1
      BY <1>2, <1>3, <1>4
    <2>2. SubSeq(h, 1, first - 1) \in Messages /\ (first = 1 => SubSeq(h, 1, first - 1) = <<>>)
      <3> DEFINE M == [id : Nat, size : Nat]
      <3>1. h \in Seq(M) /\ Messages = Seq(M)
        BY <1>2 DEF Messages
      <3> HIDE DEF M
      <3>2. QED
        BY <1>2, <1>3, <3>1
    <2>3. QED
      BY <2>1, <2>2
  <1> HIDE DEF older
  <1>6. CASE MessageTokens(h, p) <= room \/ older = <<>>
    BY <1>1, <1>6
  <1>7. CASE ~(MessageTokens(h, p) <= room \/ older = <<>>)
    <2>1. Compacted(h, room, summarized, p) = note \o kept
      BY <1>1, <1>7
    <2>2. EndOf(kept, said)
      <3>1. first > 1 /\ first \in 1..Len(h)+1
        BY <1>2, <1>3, <1>5, <1>7
      <3>2. QED
        BY <3>1, EndOfCondensed
    <2>3. note = <<>> \/ \E size \in Nat : note = NoteOf(size)
      BY <1>5, NoteIsNote
    <2> HIDE DEF note, kept
    <2>4. <<>> \o kept = kept
      BY <1>4 DEF Messages
    <2>5. QED
      BY <2>1, <2>2, <2>3, <2>4 DEF Condensed
  <1>8. QED
    BY <1>6, <1>7

-----------------------------------------------------------------------------
(* What is known of the prompt at every stage. *)
Drafted(prompt, in) ==
  /\ Faithful(prompt)
  /\ Condensed(prompt.history, in.history)
  /\ \A n \in SectionNames \ {"conversation_history"} : prompt.raw[n] = Composed(in, in.history).raw[n]

ReadyToSend(prompt, in, percents) ==
  /\ Faithful(prompt)
  /\ Condensed(prompt.history, in.history)
  /\ \A n \in Locked : prompt.raw[n] = Composed(in, in.history).raw[n]
  /\ in.files /\ prompt.raw["retrieval"] < Composed(in, in.history).raw["retrieval"] =>
        AtFloors(prompt, percents)

SentTo(now, prompt, in, p, percents) ==
  Fitted(now, prompt, in, percents) /\ Measured(now, p) <= InputBudget(p)

(* The multipliers the models of a chain are trimmed with. *)
Percents(c) == {TrimPercent(p) : p \in ToSet(c)}

PromptInv ==
  /\ PromptTypeOK
  /\ Condensed(history, input.history)
  /\ Drafted(composed, input)
  /\ pc \in {"routing", "sent", "answered"} => ReadyToSend(fitted, input, Percents(chain))
  /\ pc \in {"sent", "answered"} => SentTo(sent, fitted, input, chain[candidate], Percents(chain))

LEMMA InputTypes ==
  ASSUME NEW in \in Inputs
  PROVE  /\ in.size \in Sizes /\ in.history \in Messages
         /\ \A i \in DOMAIN in.history : in.history[i].id # 0
  <1> DEFINE H == [id : Nat \ {0}, size : Nat]
             M == [id : Nat, size : Nat]
  <1>1. in.size \in Sizes /\ in.history \in Seq(H)
    BY PromptConstantsOK
  <1>2. H \subseteq M /\ \A m \in H : m.id # 0
    OBVIOUS
  <1> HIDE DEF H, M
  <1>3. in.history \in Seq(M) /\ \A i \in DOMAIN in.history : in.history[i].id # 0
    BY <1>1, <1>2
  <1>4. QED
    BY <1>1, <1>3 DEF M, Messages

LEMMA ChainTypes ==
  ASSUME NEW c \in Chains, NEW i \in DOMAIN c
  PROVE  /\ c[i] \in Providers /\ Len(c) \in Nat /\ DOMAIN c = 1..Len(c)
         /\ Percents(c) \in Multipliers /\ TrimPercent(c[i]) \in Percents(c)
  <1>1. c \in Seq(Providers) /\ c[i] \in ToSet(c)
    BY PromptConstantsOK DEF ToSet
  <1>2. c[i] \in Providers /\ Len(c) \in Nat /\ DOMAIN c = 1..Len(c)
    BY <1>1
  <1>3. \A p \in ToSet(c) : p \in Providers
    BY <1>1 DEF ToSet
  <1>4. \A p \in ToSet(c) : TrimPercent(p) \in Nat \ {0}
    BY <1>3, PercentType DEF TrimPercent
  <1>5. QED
    BY <1>1, <1>2, <1>4 DEF Percents, Multipliers

LEMMA ComposedIsDraft ==
  ASSUME NEW in \in Inputs, NEW h \in Messages
  PROVE  /\ Faithful(Composed(in, h)) /\ Composed(in, h).history = h
         /\ \A n \in SectionNames \ {"conversation_history"} :
               Composed(in, h).raw[n] = Composed(in, in.history).raw[n]
  <1> DEFINE count(x) == [in.size EXCEPT !["conversation_history"] = HistoryTokens(x)]
             title == IF in.size["document_notice"] > 0 THEN NoticeTitle ELSE 0
             raw(x) == [count(x) EXCEPT !["document_notice"] = @ + title]
  <1>1. in.size \in Sizes /\ in.history \in Messages /\ NoticeTitle \in Nat
    BY InputTypes, PromptConstantsOK
  <1>2. title \in Nat
    BY <1>1
  <1> HIDE DEF title
  <1>3. \A x \in Messages :
           /\ count(x) \in Sizes /\ raw(x) \in Sizes
           /\ raw(x)["conversation_history"] = HistoryTokens(x)
           /\ \A n \in SectionNames \ {"conversation_history"} :
                 raw(x)[n] = IF n = "document_notice" THEN in.size[n] + title ELSE in.size[n]
    <2>1. TAKE x \in Messages
    <2>2. HistoryTokens(x) \in Nat
      BY HistoryTokensType
    <2>3. "conversation_history" \in SectionNames /\ "document_notice" \in SectionNames
      BY NamedSections
    <2> DEFINE tokens == HistoryTokens(x)
    <2> HIDE DEF tokens
    <2>4. QED
      BY <1>1, <1>2, <2>2, <2>3 DEF Sizes, tokens
  <1>4. \A x \in Messages : Composed(in, x) = [count |-> count(x), history |-> x, raw |-> raw(x)]
    BY DEF Composed, title
  <1> HIDE DEF count, raw
  <1>5. \A x \in Messages :
           /\ Composed(in, x).raw = raw(x) /\ Composed(in, x).history = x
           /\ Composed(in, x) \in Prompt
    BY <1>3, <1>4 DEF Prompt
  <1>6. QED
    BY <1>1, <1>3, <1>5 DEF Faithful

LEMMA PromptStart ==
  PromptInit => PromptInv
  <1> SUFFICES ASSUME PromptInit PROVE PromptInv
    OBVIOUS
  <1>1. /\ input \in Inputs /\ chain \in Chains /\ candidate = 1 /\ pc = "budgeting"
        /\ history = input.history /\ composed = Original /\ fitted = Empty /\ sent = Empty
        /\ target = 0 /\ passes = 0 /\ refused = {} /\ skipped = {}
    BY DEF PromptInit, Original
  <1>2. input.history \in Messages
    BY <1>1, InputTypes
  <1>3. Condensed(input.history, input.history)
    BY <1>2, EndOfItself DEF Condensed
  <1>4. Drafted(composed, input)
    BY <1>1, <1>2, <1>3, ComposedIsDraft DEF Drafted, Original
  <1>5. candidate \in DOMAIN chain
    BY <1>1, PromptConstantsOK
  <1>6. Empty \in Prompt
    BY DEF Empty, Prompt, Sizes, Messages
  <1>7. PromptTypeOK
    BY <1>1, <1>2, <1>4, <1>5, <1>6 DEF PromptTypeOK, Drafted, Faithful
  <1>8. QED
    BY <1>1, <1>3, <1>4, <1>7 DEF PromptInv
LEMMA RecomposedIsDraft ==
  ASSUME NEW in \in Inputs, NEW h, Condensed(h, in.history)
  PROVE  Drafted(Composed(in, h), in) /\ Composed(in, h) \in Prompt /\ h \in Messages
  <1>1. h \in Messages
    BY InputTypes, CondensedTypes
  <1>2. QED
    BY <1>1, ComposedIsDraft DEF Drafted, Faithful

(* What a trimming pass hands on may be sent. *)
LEMMA TrimmedIsReady ==
  ASSUME NEW in \in Inputs, NEW before, Drafted(before, in),
         NEW percents, NEW prompt, Fitted(prompt, before, in, percents)
  PROVE  ReadyToSend(prompt, in, percents)
  <1>1. Faithful(prompt) /\ in.history \in Messages
    BY InputTypes DEF Fitted, Trimmed
  <1>2. Condensed(prompt.history, in.history)
    <2>1. PICK k \in 1..Len(before.history)+1 :
             prompt.history = SubSeq(before.history, k, Len(before.history))
      BY DEF Fitted, Trimmed, EndOf
    <2>2. Condensed(SubSeq(before.history, k, Len(before.history)), in.history)
      BY <1>1, EndOfCondensed DEF Drafted
    <2>3. QED
      BY <2>1, <2>2
  <1>3. \A n \in Locked : prompt.raw[n] = Composed(in, in.history).raw[n]
    <2>1. \A n \in Locked : n \in SectionNames \ {"conversation_history"}
      BY NamedSections DEF Locked
    <2>2. \A n \in Locked : prompt.raw[n] = before.raw[n]
      BY DEF Fitted, Trimmed
    <2>3. QED
      BY <2>1, <2>2 DEF Drafted
  <1>4. before.raw["retrieval"] = Composed(in, in.history).raw["retrieval"]
    <2>1. "retrieval" \in SectionNames \ {"conversation_history"}
      BY NamedSections
    <2>2. QED
      BY <2>1 DEF Drafted
  <1>5. QED
    BY <1>1, <1>2, <1>3, <1>4 DEF ReadyToSend, Fitted

LEMMA PromptStep ==
  PromptInv /\ [PromptNext]_promptVars => PromptInv'
  <1> SUFFICES ASSUME PromptInv, [PromptNext]_promptVars
               PROVE  PromptInv'
    OBVIOUS
  <1> DEFINE p == chain[candidate]
  <1>1. /\ PromptTypeOK
        /\ Condensed(history, input.history)
        /\ Drafted(composed, input)
        /\ pc \in {"routing", "sent", "answered"} => ReadyToSend(fitted, input, Percents(chain))
        /\ pc \in {"sent", "answered"} => SentTo(sent, fitted, input, chain[candidate], Percents(chain))
    BY DEF PromptInv
  <1>2. /\ input \in Inputs /\ chain \in Chains /\ candidate \in 1..Len(chain) /\ Len(chain) \in Nat
        /\ DOMAIN chain = 1..Len(chain)
        /\ \A i \in DOMAIN chain : chain[i] \in Providers /\ TrimPercent(chain[i]) \in Percents(chain)
        /\ Percents(chain) \in Multipliers
    BY <1>1, ChainTypes DEF PromptTypeOK
  <1>3. /\ p \in Providers /\ InputBudget(p) \in Int
        /\ TrimPercent(p) \in Percents(chain) /\ Percents(chain) \in Multipliers
    BY <1>2, InputBudgetType
  <1>4. input.history \in Messages
    BY <1>2, InputTypes
  <1> DEFINE fit == FitFor(fitted, input, p)
  <1>5. CASE Fail
    BY <1>1, <1>5 DEF Fail, PromptInv, PromptTypeOK, request, fitting
  <1>6. CASE BudgetError
    BY <1>5, <1>6 DEF BudgetError
  <1>7. CASE Budget
    <2> DEFINE h == CompactionOf(composed, history, input, p)
    <2>1. history # <<>> => Condensed(h, input.history)
      BY <1>1, <1>3, <1>4, CompactedIsCondensed DEF CompactionOf
    <2>2. history # <<>> => Drafted(Composed(input, h), input) /\ Composed(input, h) \in Prompt /\ h \in Messages
      BY <1>2, <2>1, RecomposedIsDraft
    <2>3. /\ pc' = "trimming" /\ target' = InputBudget(p) /\ passes' = 0
          /\ UNCHANGED <<request, candidate, fitted, sent, refused, skipped>>
      BY <1>7 DEF Budget
    <2>4. InputBudget(p) \in Nat
      BY <1>3, <1>7 DEF Budget, Misconfigured
    <2> HIDE DEF h
    <2>5. \/ history # <<>> /\ history' = h /\ composed' = Composed(input, h)
          \/ history # <<>> /\ history' = h /\ composed' = composed
          \/ history' = history /\ composed' = composed
      BY <1>7 DEF Budget, h
    <2>6. /\ Condensed(history', input.history) /\ history' \in Messages
          /\ Drafted(composed', input) /\ composed' \in Prompt
      BY <1>1, <2>1, <2>2, <2>5 DEF PromptTypeOK
    <2>7. QED
      BY <1>1, <2>3, <2>4, <2>6 DEF PromptInv, PromptTypeOK, request
  <1>8. CASE Trim
    <2> DEFINE trimmed == Managed(composed, input, p, target)
               over == Measured(trimmed.prompt, p) - InputBudget(p)
    <2>1. Fitted(trimmed.prompt, composed, input, Percents(chain))
      BY <1>1, <1>3, ManagedFits DEF PromptTypeOK, Drafted
    <2>2. ReadyToSend(trimmed.prompt, input, Percents(chain)) /\ trimmed.prompt \in Prompt
      BY <1>1, <1>2, <2>1, TrimmedIsReady DEF ReadyToSend, Faithful
    <2>3. over \in Int
      BY <1>3, <2>2, MeasuredType
    <2>4. Condensed(input.history, input.history)
      BY <1>4, EndOfItself DEF Condensed
    <2>5. Drafted(Composed(input, input.history), input) /\ Composed(input, input.history) \in Prompt
      BY <1>2, <2>4, RecomposedIsDraft
    <2>6. pc = "trimming" /\ target \in Nat /\ passes \in 0..5
      BY <1>1, <1>8 DEF Trim, PromptTypeOK
    <2>7. \/ Refuse
          \/ /\ passes # 5 /\ target' = Greater(1, target - over) /\ passes' = passes + 1
             /\ UNCHANGED <<request, pc, candidate, history, composed, fitted, sent, refused, skipped>>
          \/ /\ fitted' = trimmed.prompt /\ pc' = "routing" /\ candidate' = 1
             /\ UNCHANGED <<request, fitting, sent, refused, skipped>>
      BY <1>8 DEF Trim
    <2> HIDE DEF trimmed, over
    <2>8. CASE Refuse
      <3>1. UNCHANGED <<request, history, target, passes, fitted, sent, skipped>>
        BY <2>8 DEF Refuse
      <3>2. /\ refused' = refused \union {candidate}
            /\ \/ candidate < Len(chain) /\ pc' = "budgeting" /\ candidate' = candidate + 1
                  /\ composed' = Composed(input, input.history)
               \/ pc' = "failed" /\ candidate' = candidate /\ composed' = composed
        BY <2>8 DEF Refuse
      <3>3. candidate' \in DOMAIN chain /\ refused' \subseteq DOMAIN chain
        BY <1>1, <1>2, <3>2 DEF PromptTypeOK
      <3>4. QED
        BY <1>1, <2>5, <3>1, <3>2, <3>3 DEF PromptInv, PromptTypeOK, request
    <2>9. CASE /\ passes # 5 /\ target' = Greater(1, target - over) /\ passes' = passes + 1
               /\ UNCHANGED <<request, pc, candidate, history, composed, fitted, sent, refused, skipped>>
      <3>1. target' \in Nat /\ passes' \in 0..5
        BY <2>3, <2>6, <2>9 DEF Greater
      <3>2. QED
        BY <1>1, <2>6, <2>9, <3>1 DEF PromptInv, PromptTypeOK, request
    <2>10. CASE /\ fitted' = trimmed.prompt /\ pc' = "routing" /\ candidate' = 1
                /\ UNCHANGED <<request, fitting, sent, refused, skipped>>
      <3>1. candidate' \in DOMAIN chain
        BY <1>2, <2>10
      <3>2. QED
        BY <1>1, <2>2, <2>10, <3>1 DEF PromptInv, PromptTypeOK, request, fitting
    <2>11. QED
      BY <2>7, <2>8, <2>9, <2>10
  <1>9. ASSUME NextProvider, pc \in {"routing", "sent"}, skipped' \subseteq DOMAIN chain,
               UNCHANGED <<request, fitting, fitted, sent, refused>>
        PROVE  PromptInv'
    <2>1. candidate' \in DOMAIN chain /\ pc' \in {"routing", "failed"}
      BY <1>2, <1>9 DEF NextProvider
    <2>2. QED
      BY <1>1, <1>9, <2>1 DEF PromptInv, PromptTypeOK, request, fitting
  <1>10. CASE BreakerOpen
    BY <1>1, <1>9, <1>10 DEF BreakerOpen, PromptTypeOK, request
  <1>11. CASE FitterBudgetError
    BY <1>5, <1>11 DEF FitterBudgetError
  <1>12. CASE TooBig
    <2>1. skipped' \subseteq DOMAIN chain
      BY <1>1, <1>2, <1>12 DEF TooBig, PromptTypeOK
    <2>2. QED
      BY <1>9, <1>12, <2>1 DEF TooBig
  <1>13. CASE Send
    <2>1. /\ pc = "routing" /\ pc' = "sent" /\ ~fit.overflow /\ sent' = fit.prompt
          /\ UNCHANGED <<request, candidate, fitting, fitted, refused, skipped>>
      BY <1>13 DEF Send
    <2>2. Faithful(fitted)
      BY <1>1, <2>1 DEF ReadyToSend
    <2>3. SentTo(fit.prompt, fitted, input, p, Percents(chain))
      BY <1>3, <2>1, <2>2, FitForFits DEF SentTo
    <2>4. fit.prompt \in Prompt
      BY <2>3 DEF SentTo, Fitted, Trimmed, Faithful
    <2> HIDE DEF fit
    <2>5. QED
      BY <1>1, <2>1, <2>3, <2>4 DEF PromptInv, PromptTypeOK, request, fitting
  <1>14. CASE ProviderFails
    BY <1>1, <1>9, <1>14 DEF ProviderFails, PromptTypeOK, request
  <1>15. CASE ProviderSpeaks
    BY <1>1, <1>15 DEF ProviderSpeaks, PromptInv, PromptTypeOK, request, fitting
  <1>16. CASE UNCHANGED promptVars
    BY <1>1, <1>16 DEF promptVars, PromptInv, PromptTypeOK, request, fitting
  <1>17. QED
    BY <1>6, <1>7, <1>8, <1>10, <1>11, <1>12, <1>13, <1>14, <1>15, <1>16 DEF PromptNext

-----------------------------------------------------------------------------
(* The messages of a condensed history, without its note. *)
LEMMA CondensedIsNewest ==
  ASSUME NEW said \in Messages, \A i \in DOMAIN said : said[i].id # 0, NEW h, Condensed(h, said)
  PROVE  /\ IsSuffix(Verbatim(h), said) /\ IsSuffix(Verbatim(h), h)
         /\ Len(h) <= Len(Verbatim(h)) + 1
  <1> DEFINE M == [id : Nat, size : Nat]
             K == {m \in ToSet(h) : m.id # 0}
             n == Len(h)
  <1>1. PICK end : EndOf(end, said) /\ (h = end \/ \E size \in Nat : h = NoteOf(size) \o end)
    BY DEF Condensed
  <1>2. said \in Seq(M) /\ end \in Seq(M) /\ h \in Seq(M)
    BY <1>1, EndOfItself, EndOfEnd, CondensedTypes DEF Messages
  <1>3. \A size \in Nat : NoteOf(size) \in Seq(M) /\ Len(NoteOf(size)) = 1 /\ NoteOf(size)[1].id = 0
    BY DEF NoteOf
  <1> HIDE DEF M
  <1>4. PICK k \in 1..Len(said)+1 : end = SubSeq(said, k, Len(said))
    BY <1>1 DEF EndOf
  <1>5. IsSuffix(end, said)
    BY <1>2, <1>4, EndIsSuffix
  <1>6. \A i \in 1..Len(end) : end[i].id # 0
    <2>1. TAKE i \in 1..Len(end)
    <2>2. Len(end) = (Len(said) - k) + 1 /\ Len(said) \in Nat /\ end[i] = said[(k - 1) + i]
      BY <1>2, <1>4
    <2>3. (k - 1) + i \in DOMAIN said
      BY <1>2, <2>2
    <2>4. QED
      BY <2>2, <2>3
  <1>7. n \in Nat /\ \A i \in 1..n : h[i] \in K <=> h[i].id # 0
    BY <1>2 DEF ToSet
  <1>8. Verbatim(h) = Selected(h, K)
    BY DEF Verbatim
  <1> HIDE DEF K
  <1>9. CASE h = end
    <2>1. \A i \in 1..0 : h[i] \notin K
      OBVIOUS
    <2>2. \A i \in 0+1..n : h[i] \in K
      BY <1>6, <1>7, <1>9
    <2>3. 0 \in 0..n /\ 0 + 1 = 1
      BY <1>7
    <2>4. Selected(h, K) = SubSeq(h, 0 + 1, n)
      BY <1>2, <2>1, <2>2, <2>3, SelectedEnd
    <2>5. SubSeq(h, 1, n) = h /\ 1 \in 1..n+1
      BY <1>2, <1>7
    <2>6. Verbatim(h) = h /\ IsSuffix(h, h)
      <3>1. IsSuffix(SubSeq(h, 1, n), h)
        BY <1>2, <2>5, EndIsSuffix
      <3>2. QED
        BY <1>8, <2>3, <2>4, <2>5, <3>1
    <2>7. QED
      BY <1>5, <1>7, <1>9, <2>6
  <1>10. CASE \E size \in Nat : h = NoteOf(size) \o end
    <2>1. PICK size \in Nat : h = NoteOf(size) \o end
      BY <1>10
    <2> DEFINE note == NoteOf(size)
    <2>2. note \in Seq(M) /\ Len(note) = 1 /\ note[1].id = 0 /\ h = note \o end
      BY <1>3, <2>1
    <2> HIDE DEF note
    <2>3. n = Len(end) + 1 /\ Len(end) \in Nat /\ h[1] = note[1] /\ \A i \in 1..Len(end) : h[i + 1] = end[i]
      <3>1. /\ Len(note \o end) = Len(note) + Len(end) /\ Len(end) \in Nat
            /\ \A i \in 1..Len(note) : (note \o end)[i] = note[i]
            /\ \A i \in 1..Len(end) : (note \o end)[Len(note) + i] = end[i]
        <4> DEFINE x == note
                   y == end
        <4>1. x \in Seq(M) /\ y \in Seq(M)
          BY <1>2, <2>2
        <4> HIDE DEF x, y
        <4>2. Len(x \o y) = Len(x) + Len(y) /\ Len(y) \in Nat
          BY <4>1
        <4>3. /\ \A i \in 1..Len(x) : (x \o y)[i] = x[i]
              /\ \A i \in 1..Len(y) : (x \o y)[Len(x) + i] = y[i]
          BY <4>1, ToSetConcat
        <4>4. QED
          BY <4>2, <4>3 DEF x, y
      <3>2. QED
        BY <2>2, <3>1
    <2>4. \A i \in 1..1 : h[i] \notin K
      BY <1>7, <2>2, <2>3
    <2>5. \A i \in 1+1..n : h[i] \in K
      <3>1. TAKE i \in 1+1..n
      <3>2. i - 1 \in 1..Len(end) /\ (i - 1) + 1 = i /\ i \in 1..n
        BY <2>3
      <3>3. h[i] = end[i - 1]
        BY <2>3, <3>2
      <3>4. QED
        BY <1>6, <1>7, <3>2, <3>3
    <2>6. 1 \in 0..n
      BY <2>3
    <2>7. Selected(h, K) = SubSeq(h, 1 + 1, n)
      BY <1>2, <2>4, <2>5, <2>6, SelectedEnd
    <2>8. SubSeq(h, 2, n) = end
      <3> DEFINE tail == SubSeq(h, 2, n)
      <3>1. tail \in Seq(M) /\ Len(tail) = Len(end) /\ \A i \in 1..Len(end) : tail[i] = h[i + 1]
        BY <1>2, <2>3
      <3> HIDE DEF tail
      <3>2. \A i \in 1..Len(end) : tail[i] = end[i]
        BY <2>3, <3>1
      <3>3. tail = end
        BY SMTT(40), <1>2, <3>1, <3>2
      <3>4. QED
        BY <3>3 DEF tail
    <2>9. IsSuffix(end, h)
      BY <1>2, <2>2, SuffixOfConcat
    <2>10. Verbatim(h) = end
      BY <1>8, <2>7, <2>8
    <2>11. Len(h) <= Len(end) + 1
      BY <1>7, <2>3
    <2>12. QED
      BY <1>5, <2>9, <2>10, <2>11
  <1>11. QED
    BY <1>1, <1>9, <1>10

-----------------------------------------------------------------------------
LEMMA PromptAlways == PromptSpec => []PromptInv
  BY PromptStart, PromptStep, PTL DEF PromptSpec

(* Every state of the fitting has the types the code declares: a prompt's  *)
(* counts stay numbers through compactions, cuts and refits, the target of *)
(* a pass is never negative, and the candidate is one of the chain.        *)
THEOREM PromptTypeCorrect == PromptSpec => []PromptTypeOK
  <1>1. PromptInv => PromptTypeOK
    BY DEF PromptInv
  <1>2. QED
    BY <1>1, PromptAlways, PTL

LEMMA SentIsReady ==
  ASSUME PromptInv, pc \in {"sent", "answered"}
  PROVE  /\ input \in Inputs /\ ReadyToSend(fitted, input, Percents(chain))
         /\ SentTo(sent, fitted, input, chain[candidate], Percents(chain))
         /\ Faithful(sent)
         /\ Condensed(sent.history, input.history)
         /\ \A n \in SectionNames : sent.raw[n] \in Nat /\ fitted.raw[n] \in Nat /\ Original.raw[n] \in Nat
  <1>1. input \in Inputs /\ ReadyToSend(fitted, input, Percents(chain)) /\ SentTo(sent, fitted, input, chain[candidate], Percents(chain))
    BY DEF PromptInv, PromptTypeOK
  <1>2. Faithful(sent) /\ Faithful(fitted) /\ Condensed(fitted.history, input.history)
    BY <1>1 DEF ReadyToSend, SentTo, Fitted, Trimmed
  <1>3. input.history \in Messages
    BY <1>1, InputTypes
  <1>4. Faithful(Original)
    BY <1>1, <1>3, ComposedIsDraft DEF Original
  <1>5. Condensed(sent.history, input.history)
    <2>1. PICK k \in 1..Len(fitted.history)+1 :
             sent.history = SubSeq(fitted.history, k, Len(fitted.history))
      BY <1>1 DEF SentTo, Fitted, Trimmed, EndOf
    <2>2. Condensed(SubSeq(fitted.history, k, Len(fitted.history)), input.history)
      BY <1>2, <1>3, EndOfCondensed
    <2>3. QED
      BY <2>1, <2>2
  <1>6. QED
    BY <1>1, <1>2, <1>4, <1>5 DEF Faithful, Prompt, Sizes

(* build_chain_fitter measures what it returns against the budget of the   *)
(* provider that is tried, starts from the prompt the first fit produced,  *)
(* and trim skips every locked section: so no provider is sent more than   *)
(* its own budget, less than the mandatory sections, or text an earlier    *)
(* fit left out.                                                           *)
THEOREM SentPromptsFit == PromptSpec => []SentFits
  <1>1. ASSUME PromptInv, pc \in {"sent", "answered"}
        PROVE  /\ Measured(sent, chain[candidate]) <= InputBudget(chain[candidate])
               /\ \A n \in Locked : sent.raw[n] = Original.raw[n]
               /\ \A n \in SectionNames : sent.raw[n] <= fitted.raw[n]
    BY <1>1, SentIsReady DEF ReadyToSend, SentTo, Fitted, Trimmed, Original
  <1>2. PromptInv => SentFits
    BY <1>1 DEF SentFits
  <1>3. QED
    BY <1>2, PromptAlways, PTL

(* trim takes the sections in the order of their priority, each down to    *)
(* its minimum before the next, and the passages of attached documents     *)
(* last: so a prompt that was sent with less of them, whichever provider   *)
(* and however many passes it took, has nothing less important to spare.   *)
THEOREM DocumentsGoLast == PromptSpec => []DocumentsLast
  <1>1. ASSUME PromptInv, pc \in {"sent", "answered"}, input.files,
               sent.raw["retrieval"] < Original.raw["retrieval"]
        PROVE  AtFloors(sent, Percents(chain))
    <2>1. /\ ReadyToSend(fitted, input, Percents(chain)) /\ Fitted(sent, fitted, input, Percents(chain))
          /\ sent.raw["retrieval"] \in Nat /\ fitted.raw["retrieval"] \in Nat
          /\ Original.raw["retrieval"] \in Nat
      BY <1>1, SentIsReady, NamedSections DEF SentTo
    <2>2. CASE fitted.raw["retrieval"] < Original.raw["retrieval"]
      BY <1>1, <2>1, <2>2 DEF ReadyToSend, Fitted, Original
    <2>3. CASE ~(fitted.raw["retrieval"] < Original.raw["retrieval"])
      <3>1. sent.raw["retrieval"] < fitted.raw["retrieval"]
        BY <1>1, <2>1, <2>3
      <3>2. QED
        BY <1>1, <2>1, <3>1 DEF Fitted
    <2>4. QED
      BY <2>2, <2>3
  <1>2. PromptInv => DocumentsLast
    BY <1>1 DEF DocumentsLast, AtFloors, Unlocked, Percents
  <1>3. QED
    BY <1>2, PromptAlways, PTL

(* compact_history keeps the end of the history and puts at most one note  *)
(* before it, and _shrink_history drops from the start: so the messages a  *)
(* provider reads word for word are the last ones of the conversation,     *)
(* also when what was compacted for one provider is compacted again.       *)
THEOREM NewestMessagesKept == PromptSpec => []NewestKept
  <1>1. ASSUME PromptInv, pc \in {"sent", "answered"}
        PROVE  /\ IsSuffix(Verbatim(sent.history), input.history)
               /\ IsSuffix(Verbatim(sent.history), sent.history)
               /\ Len(sent.history) <= Len(Verbatim(sent.history)) + 1
    <2>1. Condensed(sent.history, input.history) /\ input \in Inputs
      BY <1>1, SentIsReady
    <2>2. input.history \in Messages /\ \A i \in DOMAIN input.history : input.history[i].id # 0
      BY <2>1, InputTypes
    <2>3. QED
      BY <2>1, <2>2, CondensedIsNewest
  <1>2. PromptInv => NewestKept
    BY <1>1 DEF NewestKept
  <1>3. QED
    BY <1>2, PromptAlways, PTL

-----------------------------------------------------------------------------
(* Sums are compared place by place. *)
LEMMA AddedCompare ==
  ASSUME NEW f \in Seq(Nat), NEW g \in Seq(Nat), NEW h \in Seq(Nat), NEW k \in Seq(Nat),
         Len(f) = Len(g), Len(h) = Len(g), Len(k) = Len(g),
         \A i \in 1..Len(g) : f[i] + k[i] <= g[i] + h[i]
  PROVE  Added(f) + Added(k) <= Added(g) + Added(h)
  <1> DEFINE n == Len(g)
  <1>1. n \in Nat /\ \A i \in 1..n : f[i] \in Nat /\ g[i] \in Nat /\ h[i] \in Nat /\ k[i] \in Nat
    <2>1. \A e \in Seq(Nat) : Len(e) \in Nat /\ \A i \in 1..Len(e) : e[i] \in Nat
      OBVIOUS
    <2>2. QED
      BY <2>1
  <1> HIDE DEF n
  <1>2. PICK tf \in [0..n -> Nat] : Adding(tf, f)
    BY AddedTrace DEF n
  <1>3. PICK tg \in [0..n -> Nat] : Adding(tg, g)
    BY AddedTrace DEF n
  <1>4. PICK th \in [0..n -> Nat] : Adding(th, h)
    BY AddedTrace DEF n
  <1>5. PICK tk \in [0..n -> Nat] : Adding(tk, k)
    BY AddedTrace DEF n
  <1> DEFINE T == {i \in 0..n : tf[i] + tk[i] <= tg[i] + th[i]}
  <1>6. 0 \in T
    BY <1>1, <1>2, <1>3, <1>4, <1>5 DEF Adding
  <1>7. ASSUME NEW i \in 0..n-1, i \in T PROVE i + 1 \in T
    <2>1. i + 1 \in 1..n /\ (i + 1) - 1 = i /\ i \in 0..n
      BY <1>1
    <2>2. /\ tf[i + 1] = tf[i] + f[i + 1] /\ tg[i + 1] = tg[i] + g[i + 1]
          /\ th[i + 1] = th[i] + h[i + 1] /\ tk[i + 1] = tk[i] + k[i + 1]
      BY <1>2, <1>3, <1>4, <1>5, <2>1 DEF Adding, n
    <2>3. f[i + 1] + k[i + 1] <= g[i + 1] + h[i + 1] /\ tf[i] + tk[i] <= tg[i] + th[i]
      BY <1>7, <2>1 DEF n
    <2>4. /\ tf[i] \in Nat /\ tg[i] \in Nat /\ th[i] \in Nat /\ tk[i] \in Nat
          /\ f[i + 1] \in Nat /\ g[i + 1] \in Nat /\ h[i + 1] \in Nat /\ k[i + 1] \in Nat
      BY <1>1, <2>1
    <2>5. tf[i + 1] + tk[i + 1] <= tg[i + 1] + th[i + 1]
      <3> DEFINE a == tf[i]  b == tg[i]  c == th[i]  d == tk[i]
                 x == f[i + 1]  y == g[i + 1]  z == h[i + 1]  w == k[i + 1]
      <3>1. /\ a \in Nat /\ b \in Nat /\ c \in Nat /\ d \in Nat
            /\ x \in Nat /\ y \in Nat /\ z \in Nat /\ w \in Nat
            /\ x + w <= y + z /\ a + d <= b + c
        BY <2>3, <2>4
      <3>2. tf[i + 1] = a + x /\ tg[i + 1] = b + y /\ th[i + 1] = c + z /\ tk[i + 1] = d + w
        BY <2>2
      <3> HIDE DEF a, b, c, d, x, y, z, w
      <3>3. (a + x) + (d + w) <= (b + y) + (c + z)
        BY <3>1
      <3>4. QED
        BY <3>2, <3>3
    <2>6. QED
      BY <2>1, <2>5
  <1>8. n \in T
    <2> HIDE DEF T
    <2>1. \A i \in 0..n : i \in T
      BY <1>1, <1>6, <1>7, Induction
    <2>2. QED
      BY <1>1, <2>1
  <1>9. QED
    BY <1>2, <1>3, <1>4, <1>5, <1>8 DEF Adding, n

(* No summand is more than the sum, and nothing adds up to nothing. *)
LEMMA AddedParts ==
  ASSUME NEW f \in Seq(Nat)
  PROVE  /\ \A j \in 1..Len(f) : f[j] <= Added(f)
         /\ (\A j \in 1..Len(f) : f[j] = 0) => Added(f) = 0
  <1> DEFINE n == Len(f)
  <1>1. n \in Nat /\ \A i \in 1..n : f[i] \in Nat
    OBVIOUS
  <1> HIDE DEF n
  <1>2. PICK tf \in [0..n -> Nat] : Adding(tf, f)
    BY AddedTrace DEF n
  <1>3. ASSUME NEW i \in 0..n-1
        PROVE  i + 1 \in 1..n /\ i \in 0..n /\ tf[i] \in Nat /\ f[i + 1] \in Nat /\ tf[i + 1] = tf[i] + f[i + 1]
    <2>1. i + 1 \in 1..n /\ (i + 1) - 1 = i /\ i \in 0..n
      BY <1>1
    <2>2. tf[i + 1] = tf[i] + f[i + 1]
      BY <1>2, <2>1 DEF Adding, n
    <2>3. QED
      BY <1>1, <2>1, <2>2
  <1>4. ASSUME NEW j \in 1..n PROVE f[j] <= Added(f)
    <2> DEFINE T == {i \in 0..n : i >= j => f[j] <= tf[i]}
    <2>1. 0 \in T
      BY <1>1
    <2>2. ASSUME NEW i \in 0..n-1, i \in T PROVE i + 1 \in T
      <3>1. /\ i + 1 \in 0..n /\ i \in Nat /\ j \in Nat
            /\ tf[i] \in Nat /\ f[i + 1] \in Nat /\ tf[i + 1] = tf[i] + f[i + 1]
        BY <1>1, <1>3
      <3>2. i >= j => f[j] <= tf[i]
        BY <2>2
      <3>3. f[j] \in Nat
        BY <1>1
      <3>4. tf[i] <= tf[i + 1] /\ f[i + 1] <= tf[i + 1] /\ tf[i + 1] \in Nat
        BY <3>1
      <3>5. ASSUME i + 1 >= j PROVE f[j] <= tf[i + 1]
        <4>1. CASE i + 1 = j
          BY <3>4, <4>1
        <4>2. CASE i + 1 # j
          <5>1. i >= j
            BY <3>1, <3>5, <4>2
          <5>2. QED
            BY <3>1, <3>2, <3>3, <3>4, <5>1
        <4>3. QED
          BY <4>1, <4>2
      <3>6. QED
        BY <3>1, <3>5
    <2>3. n \in T
      <3> HIDE DEF T
      <3>1. \A i \in 0..n : i \in T
        BY <1>1, <2>1, <2>2, Induction
      <3>2. QED
        BY <1>1, <3>1
    <2>4. QED
      BY <1>1, <1>2, <2>3 DEF Adding, n
  <1>5. ASSUME \A j \in 1..n : f[j] = 0 PROVE Added(f) = 0
    <2> DEFINE T == {i \in 0..n : tf[i] = 0}
    <2>1. 0 \in T
      BY <1>1, <1>2 DEF Adding
    <2>2. ASSUME NEW i \in 0..n-1, i \in T PROVE i + 1 \in T
      BY <1>3, <1>5, <2>2
    <2>3. n \in T
      <3> HIDE DEF T
      <3>1. \A i \in 0..n : i \in T
        BY <1>1, <2>1, <2>2, Induction
      <3>2. QED
        BY <1>1, <3>1
    <2>4. QED
      BY <1>2, <2>3 DEF Adding, n
  <1>6. QED
    BY <1>4, <1>5 DEF n

-----------------------------------------------------------------------------
(* The same of totals. *)
LEMMA TotalIsAdded ==
  ASSUME NEW f \in Sizes
  PROVE  LET numbers == [i \in DOMAIN Layout |-> f[Layout[i].name]]
         IN  /\ numbers \in Seq(Nat) /\ Len(numbers) = 14 /\ Total(f) = Added(numbers)
             /\ \A i \in 1..14 : Layout[i].name \in SectionNames /\ numbers[i] = f[Layout[i].name]
  <1>1. DOMAIN Layout = 1..14 /\ \A i \in 1..14 : Layout[i].name \in SectionNames
    BY LayoutIsSequence DEF SectionNames
  <1>2. QED
    BY <1>1 DEF Sizes, Total

LEMMA TotalsCompare ==
  ASSUME NEW f \in Sizes, NEW g \in Sizes, NEW h \in Sizes, NEW k \in Sizes,
         \A n \in SectionNames : f[n] + k[n] <= g[n] + h[n]
  PROVE  Total(f) + Total(k) <= Total(g) + Total(h)
  <1> DEFINE list(s) == [i \in DOMAIN Layout |-> s[Layout[i].name]]
  <1>1. \A s \in Sizes : /\ list(s) \in Seq(Nat) /\ Len(list(s)) = 14 /\ Total(s) = Added(list(s))
                         /\ \A i \in 1..14 : Layout[i].name \in SectionNames /\ list(s)[i] = s[Layout[i].name]
    BY TotalIsAdded
  <1> HIDE DEF list
  <1>2. \A i \in 1..14 : list(f)[i] + list(k)[i] <= list(g)[i] + list(h)[i]
    BY <1>1
  <1>3. Added(list(f)) + Added(list(k)) <= Added(list(g)) + Added(list(h))
    BY <1>1, <1>2, AddedCompare
  <1>4. QED
    BY <1>1, <1>3

LEMMA TotalsOrdered ==
  ASSUME NEW f \in Sizes, NEW g \in Sizes, \A n \in SectionNames : f[n] <= g[n]
  PROVE  Total(f) <= Total(g)
  <1>1. \A n \in SectionNames : f[n] + g[n] <= g[n] + g[n]
    BY DEF Sizes
  <1>2. Total(f) + Total(g) <= Total(g) + Total(g)
    BY <1>1, TotalsCompare
  <1>3. Total(f) \in Nat /\ Total(g) \in Nat
    BY TotalType
  <1>4. QED
    BY <1>2, <1>3

LEMMA PartOfTotal ==
  ASSUME NEW f \in Sizes
  PROVE  /\ \A n \in SectionNames : f[n] <= Total(f)
         /\ (\A n \in SectionNames : f[n] = 0) => Total(f) = 0
  <1> DEFINE numbers == [i \in DOMAIN Layout |-> f[Layout[i].name]]
  <1>1. /\ numbers \in Seq(Nat) /\ Len(numbers) = 14 /\ Total(f) = Added(numbers)
        /\ \A i \in 1..14 : Layout[i].name \in SectionNames /\ numbers[i] = f[Layout[i].name]
    BY TotalIsAdded
  <1> HIDE DEF numbers
  <1>2. /\ \A i \in 1..14 : numbers[i] <= Added(numbers)
        /\ (\A i \in 1..14 : numbers[i] = 0) => Added(numbers) = 0
    BY <1>1, AddedParts
  <1>3. \A n \in SectionNames : \E i \in 1..14 : Layout[i].name = n
    BY LayoutIsSequence DEF SectionNames
  <1>4. ASSUME NEW n \in SectionNames PROVE f[n] <= Total(f)
    <2>1. PICK i \in 1..14 : Layout[i].name = n
      BY <1>3
    <2>2. QED
      BY <1>1, <1>2, <2>1
  <1>5. ASSUME \A n \in SectionNames : f[n] = 0 PROVE Total(f) = 0
    <2>1. \A i \in 1..14 : numbers[i] = 0
      BY <1>1, <1>5
    <2>2. QED
      BY <1>1, <1>2, <2>1
  <1>6. QED
    BY <1>4, <1>5

(* A total from which one section has lost some. *)
LEMMA TotalLess ==
  ASSUME NEW f \in Sizes, NEW g \in Sizes, NEW n \in SectionNames, NEW d \in Nat,
         f[n] + d <= g[n], \A m \in SectionNames \ {n} : f[m] = g[m]
  PROVE  Total(f) + d <= Total(g)
  <1> DEFINE k == [m \in SectionNames |-> IF m = n THEN d ELSE 0]
             z == [m \in SectionNames |-> 0]
  <1>1. k \in Sizes /\ z \in Sizes
    BY DEF Sizes
  <1>2. \A m \in SectionNames : f[m] + k[m] <= g[m] + z[m]
    BY DEF Sizes
  <1>3. k[n] = d /\ \A m \in SectionNames : z[m] = 0
    OBVIOUS
  <1> HIDE DEF k, z
  <1>4. Total(f) + Total(k) <= Total(g) + Total(z)
    BY <1>1, <1>2, TotalsCompare
  <1>5. Total(z) = 0 /\ d <= Total(k)
    BY <1>1, <1>3, PartOfTotal
  <1>6. Total(f) \in Nat /\ Total(g) \in Nat /\ Total(k) \in Nat
    BY <1>1, TotalType
  <1>7. QED
    BY <1>4, <1>5, <1>6

-----------------------------------------------------------------------------
(* What a cut takes of a section, and what it leaves.                      *)
CutOf(state, s) == Lesser(Greater(0, state.prompt.count[s.name] - s.floor), state.excess)

Left(prompt, n, budget, percent) ==
  IF n = "conversation_history"
  THEN HistoryTokens(IF budget = 0 THEN <<>> ELSE NewestThatFit(prompt.history, budget, percent))
  ELSE IF budget = 0 THEN 0 ELSE WholeLines(prompt.raw[n], budget, percent)

LEMMA CutResult ==
  ASSUME NEW state \in TrimStates, NEW s \in Unlocked, NEW percent
  PROVE  LET next == Cut(state, s, percent)
             cut == CutOf(state, s)
         IN  /\ cut <= 0 => next = state
             /\ ~(cut <= 0) =>
                   /\ next.excess = state.excess - cut
                   /\ next.prompt.raw[s.name] =
                         Left(state.prompt, s.name, state.prompt.count[s.name] - cut, percent)
                   /\ next.prompt.count[s.name] = Calibrated(next.prompt.raw[s.name], percent)
  <1> DEFINE n == s.name
             prompt == state.prompt
             cut == CutOf(state, s)
             budget == prompt.count[n] - cut
             kept == IF budget = 0 THEN <<>> ELSE NewestThatFit(prompt.history, budget, percent)
             tokens == IF n = "conversation_history" THEN HistoryTokens(kept)
                       ELSE IF budget = 0 THEN 0 ELSE WholeLines(prompt.raw[n], budget, percent)
             msgs == IF n = "conversation_history" THEN kept ELSE prompt.history
             less == [raw |-> [prompt.raw EXCEPT ![n] = tokens],
                      count |-> [prompt.count EXCEPT ![n] = Calibrated(tokens, percent)],
                      history |-> msgs]
             next == [excess |-> state.excess - cut, prompt |-> less]
  <1>1. Cut(state, s, percent) = IF cut <= 0 THEN state ELSE next
    BY DEF Cut, CutOf
  <1>2. n \in SectionNames /\ prompt.raw \in Sizes /\ prompt.count \in Sizes
    BY NamedSections DEF Unlocked, TrimStates, Prompt
  <1>3. tokens = Left(prompt, n, budget, percent)
    BY DEF Left
  <1> HIDE DEF tokens, msgs, cut
  <1>4. less.raw[n] = tokens /\ less.count[n] = Calibrated(tokens, percent)
    BY <1>2 DEF Sizes
  <1>5. next.excess = state.excess - cut /\ next.prompt = less
    OBVIOUS
  <1> HIDE DEF less, next
  <1>6. QED
    BY <1>1, <1>3, <1>4, <1>5 DEF cut

(* At a multiplier of 1.00 a text counts for what it measures, a smaller   *)
(* budget leaves less, and only no budget leaves nothing.                  *)
LEMMA Plainly ==
  ASSUME NEW tokens \in Nat
  PROVE  Calibrated(tokens, 100) = tokens
  <1>1. (tokens * 100) \div 100 = tokens
    OBVIOUS
  <1>2. QED
    BY <1>1 DEF Calibrated, Greater

LEMMA LinesOfLess ==
  ASSUME NEW tokens \in Nat, NEW less \in Nat, NEW more \in Nat \ {0}, less <= more
  PROVE  (IF less = 0 THEN 0 ELSE WholeLines(tokens, less, 100)) <= WholeLines(tokens, more, 100)
  <1> DEFINE each == Line + 1
             fl == less \div each
             fm == more \div each
             room(b) == IF b \div each > 0 THEN (b \div each) * each ELSE b
  <1>1. each \in Nat \ {0} /\ Line \in Nat
    BY PromptConstantsOK
  <1>2. \A b \in Nat : WholeLines(tokens, b, 100) = Lesser(tokens, room(b))
    <2>1. TAKE b \in Nat
    <2>2. Calibrated(Line, 100) = Line
      BY <1>1, Plainly
    <2>3. (b * 100) \div 100 = b
      OBVIOUS
    <2>4. QED
      BY <2>2, <2>3 DEF WholeLines
  <1> HIDE DEF each
  <1>3. fl \in Nat /\ fm \in Nat /\ fl * each <= less /\ fm * each <= more
    BY <1>1, Division
  <1>4. fl * each \in Nat /\ fm * each \in Nat
    BY <1>1, <1>3, Products
  <1>5. less < (fl + 1) * each /\ more < (fm + 1) * each
    BY <1>1
  <1>6. room(less) \in Nat /\ room(more) \in Nat /\ room(less) <= room(more)
    <2>1. fl <= fm
      BY <1>1
    <2>2. each * fl <= each * fm
      BY <1>1, <1>3, <2>1, Scaled
    <2>3. fl * each <= fm * each
      BY <1>1, <1>3, <2>2, Products
    <2>4. fl = 0 /\ fm > 0 => less <= fm * each
      <3>1. ASSUME fl = 0, fm > 0 PROVE less <= fm * each
        <4>1. less < each
          BY <1>1, <1>5, <3>1
        <4>2. each * 1 <= each * fm
          BY <1>1, <1>3, <3>1, Scaled
        <4>3. each <= fm * each
          BY <1>1, <1>3, <4>2, Products
        <4>4. QED
          BY <1>1, <1>4, <4>1, <4>3
      <3>2. QED
        BY <3>1
    <2> DEFINE x == fl * each
               y == fm * each
    <2>5. room(less) = (IF fl > 0 THEN x ELSE less) /\ room(more) = (IF fm > 0 THEN y ELSE more)
      OBVIOUS
    <2>6. x \in Nat /\ y \in Nat /\ x <= y /\ (fl = 0 /\ fm > 0 => less <= y)
      BY <1>4, <2>3, <2>4
    <2> HIDE DEF x, y, room, fl, fm
    <2>7. QED
      BY <1>3, <2>1, <2>5, <2>6
  <1> HIDE DEF room
  <1>7. QED
    BY <1>2, <1>6 DEF Lesser

LEMMA NewestOfLess ==
  ASSUME NEW h \in Messages, NEW less \in Nat, NEW more \in Nat, less <= more
  PROVE  HistoryTokens(NewestThatFit(h, less, 100)) <= HistoryTokens(NewestThatFit(h, more, 100))
  <1> DEFINE n == Len(h)
             tokens(k) == HistoryTokens(SubSeq(h, k, n))
             fits(b) == {k \in 1..n+1 : tokens(k) <= b}
             first(b) == CHOOSE k \in fits(b) : \A j \in fits(b) : k <= j
  <1>1. n \in Nat /\ \A k \in 1..n+1 : tokens(k) \in Nat /\ Calibrated(tokens(k), 100) = tokens(k)
    <2>1. n \in Nat
      BY DEF Messages
    <2>2. \A k \in 1..n+1 : SubSeq(h, k, n) \in Messages
      BY HistoryTokensType
    <2>3. \A k \in 1..n+1 : tokens(k) \in Nat
      BY <2>2, HistoryTokensType
    <2> HIDE DEF tokens
    <2>4. QED
      BY <2>1, <2>3, Plainly
  <1>2. \A b \in Nat : NewestThatFit(h, b, 100) = SubSeq(h, first(b), n)
    <2>1. TAKE b \in Nat
    <2> DEFINE measured == {k \in 1..n+1 : Calibrated(tokens(k), 100) <= b}
    <2>2. NewestThatFit(h, b, 100) = SubSeq(h, CHOOSE k \in measured : \A j \in measured : k <= j, n)
      BY DEF NewestThatFit
    <2>3. measured = fits(b)
      BY <1>1
    <2> HIDE DEF measured, fits
    <2>4. QED
      BY <2>2, <2>3
  <1>3. \A b \in Nat : first(b) \in fits(b) /\ \A j \in fits(b) : first(b) <= j
    <2>1. TAKE b \in Nat
    <2>2. n + 1 \in fits(b)
      <3>1. SubSeq(h, n + 1, n) = <<>>
        BY <1>1 DEF Messages
      <3>2. tokens(n + 1) = 0
        BY <3>1 DEF HistoryTokens
      <3> HIDE DEF tokens
      <3>3. QED
        BY <1>1, <3>2
    <2>3. fits(b) \in SUBSET Nat /\ fits(b) # {}
      BY <1>1, <2>2
    <2> HIDE DEF fits
    <2>4. \E i \in fits(b) : \A j \in fits(b) : i <= j
      BY <2>3, LeastNumber
    <2>5. QED
      BY <2>4
  <1> HIDE DEF first, tokens
  <1>4. first(less) \in 1..n+1 /\ first(more) \in 1..n+1 /\ tokens(first(less)) <= less
    BY <1>3
  <1>5. first(more) <= first(less)
    <2>1. first(less) \in fits(more)
      BY <1>1, <1>4
    <2>2. QED
      BY <1>3, <2>1
  <1>6. tokens(first(less)) <= tokens(first(more))
    <2>1. CASE tokens(first(more)) <= less
      <3>1. first(less) <= first(more)
        BY <1>3, <1>4, <2>1
      <3>2. first(less) = first(more)
        BY <1>4, <1>5, <3>1
      <3>3. QED
        BY <1>1, <1>4, <3>2
    <2>2. CASE ~(tokens(first(more)) <= less)
      BY <1>1, <1>4, <2>2
    <2>3. QED
      BY <2>1, <2>2
  <1>7. QED
    BY <1>2, <1>6 DEF tokens

LEMMA LeftOfLess ==
  ASSUME NEW a \in Prompt, NEW b \in Prompt, NEW n \in SectionNames, a.raw[n] = b.raw[n],
         n = "conversation_history" => a.history = b.history,
         NEW less \in Nat, NEW more \in Nat, less <= more
  PROVE  Left(b, n, less, 100) <= Left(a, n, more, 100)
  <1>1. a.raw[n] \in Nat /\ a.history \in Messages
    BY DEF Prompt, Sizes
  <1>2. HistoryTokens(<<>>) = 0
    BY DEF HistoryTokens
  <1>3. ASSUME NEW h \in Messages, NEW m \in Nat PROVE HistoryTokens(NewestThatFit(h, m, 100)) \in Nat
    <2>1. PICK k \in 1..Len(h)+1 : NewestThatFit(h, m, 100) = SubSeq(h, k, Len(h))
      <3>1. \E k \in 1..Len(h)+1 :
               /\ NewestThatFit(h, m, 100) = SubSeq(h, k, Len(h))
               /\ Calibrated(HistoryTokens(SubSeq(h, k, Len(h))), 100) <= m
        BY NewestFit
      <3>2. QED
        BY <3>1
    <2>2. NewestThatFit(h, m, 100) \in Messages
      BY <2>1, HistoryTokensType
    <2>3. QED
      BY <2>2, HistoryTokensType
  <1>4. CASE n = "conversation_history"
    <2> DEFINE kept(m) == HistoryTokens(NewestThatFit(a.history, m, 100))
    <2>1. \A m \in Nat : kept(m) \in Nat
      BY <1>1, <1>3
    <2>2. kept(less) <= kept(more)
      BY <1>1, NewestOfLess
    <2>3. \A h, m : HistoryTokens(IF m = 0 THEN <<>> ELSE NewestThatFit(h, m, 100)) =
                      IF m = 0 THEN 0 ELSE HistoryTokens(NewestThatFit(h, m, 100))
      BY <1>2
    <2>4. /\ Left(b, n, less, 100) = (IF less = 0 THEN 0 ELSE kept(less))
          /\ Left(a, n, more, 100) = (IF more = 0 THEN 0 ELSE kept(more))
      BY <1>4, <2>3 DEF Left
    <2> HIDE DEF kept
    <2>5. QED
      BY <2>1, <2>2, <2>4
  <1>5. CASE n # "conversation_history"
    <2>1. CASE more = 0
      BY <1>5, <2>1 DEF Left
    <2>2. CASE more # 0
      BY <1>1, <1>5, <2>2, LinesOfLess DEF Left
    <2>3. QED
      BY <2>1, <2>2
  <1>6. QED
    BY <1>4, <1>5

-----------------------------------------------------------------------------
(* No section is cut twice. *)
LEMMA CutOnce ==
  ASSUME NEW in
  PROVE  \A i, j \in DOMAIN Trimmable(in) : i # j => Trimmable(in)[i].name # Trimmable(in)[j].name
  <1> DEFINE group(k) == {s \in ToSet(Layout) : ~s.locked /\ Priority(s, in) = k}
             seqs == [k \in 1..9 |-> Selected(Layout, group(k))]
             S == ToSet(Layout)
             R == {e \in S \X S : e[1].name # e[2].name}
             order == Trimmable(in)
  <1>1. Chain(Layout, R)
    <2>1. \A i, j \in 1..14 : i < j => Layout[i].name # Layout[j].name
      BY SMTT(60) DEF Layout, Section
    <2>2. DOMAIN Layout = 1..14 /\ \A i \in 1..14 : Layout[i] \in S
      BY LayoutIsSequence
    <2> HIDE DEF S
    <2>3. QED
      BY <2>1, <2>2 DEF Chain
  <1>2. Layout \in Seq(S)
    BY LayoutIsSequence
  <1> HIDE DEF R
  <1>3. \A k \in 1..9 : Selected(Layout, group(k)) \in Seq(S) /\ Chain(Selected(Layout, group(k)), R)
    <2>1. TAKE k \in 1..9
    <2> DEFINE K == group(k)
    <2> HIDE DEF K, S
    <2>2. Selected(Layout, K) \in Seq(S)
      BY <1>2, SelectedPlaces
    <2>3. Chain(Selected(Layout, K), R)
      BY <1>1, <1>2, ChainSelected
    <2>4. QED
      BY <2>2, <2>3 DEF K
  <1>4. \A k \in 1..9 : ToSet(Selected(Layout, group(k))) = group(k)
    <2>1. TAKE k \in 1..9
    <2> DEFINE K == group(k)
    <2>2. K \subseteq S
      OBVIOUS
    <2> HIDE DEF K, S
    <2>3. ToSet(Selected(Layout, K)) = ToSet(Layout) \cap K
      BY <1>2, SelectedSet
    <2>4. QED
      BY <2>2, <2>3 DEF K, S
  <1>5. \A j, k \in 1..9 : j < k => \A x \in group(j), y \in group(k) : <<x, y>> \in R
    <2>1. TAKE j, k \in 1..9
    <2>2. ASSUME j < k, NEW x \in group(j), NEW y \in group(k) PROVE <<x, y>> \in R
      <3>1. x # y /\ x \in S /\ y \in S
        BY <2>2
      <3>2. x.name # y.name
        BY <3>1, NamesAreDistinct
      <3>3. QED
        BY <3>1, <3>2 DEF R
    <2>3. QED
      BY <2>2
  <1>6. \A k \in 1..9 : seqs[k] = Selected(Layout, group(k))
    OBVIOUS
  <1>7. order = FlattenSeq(seqs)
    BY DEF Trimmable
  <1> HIDE DEF group
  <1>8. seqs \in Seq(Seq(S)) /\ DOMAIN seqs = 1..9
    <2> HIDE DEF S
    <2>1. QED
      BY <1>3
  <1> HIDE DEF seqs, S, order
  <1>9. Chain(FlattenSeq(seqs), R)
    <2>1. \A k \in DOMAIN seqs : Chain(seqs[k], R)
      BY <1>3, <1>6, <1>8
    <2>2. \A j, k \in DOMAIN seqs : j < k => \A x \in ToSet(seqs[j]), y \in ToSet(seqs[k]) : <<x, y>> \in R
      BY <1>4, <1>5, <1>6, <1>8
    <2>3. QED
      BY <1>8, <2>1, <2>2, ChainFlatten
  <1>10. Chain(order, R)
    BY <1>7, <1>9
  <1>11. order \in Seq(Unlocked)
    BY TrimmableOrder DEF order
  <1>12. ASSUME NEW i \in DOMAIN order, NEW j \in DOMAIN order, i # j PROVE order[i].name # order[j].name
    <2>1. i < j \/ j < i
      BY <1>11, <1>12
    <2>2. <<order[i], order[j]>> \in R \/ <<order[j], order[i]>> \in R
      BY <1>10, <2>1 DEF Chain
    <2>3. QED
      BY <2>2 DEF R
  <1>13. QED
    BY <1>12 DEF order

-----------------------------------------------------------------------------
(* Two prompts cut side by side, the second for more: it is left with no   *)
(* more of any section, and what it is left with is counted for what it    *)
(* measures wherever it was cut further.                                   *)
Deeper(b, a) ==
  \A n \in SectionNames :
     /\ b.raw[n] <= a.raw[n]
     /\ b.count[n] = b.raw[n] \/ (b.raw[n] = a.raw[n] /\ b.count[n] = a.count[n])

Abreast(b, a, order, m) ==
  /\ a \in SoundStates /\ b \in SoundStates /\ a.excess <= b.excess
  /\ Deeper(b.prompt, a.prompt)
  /\ \A i \in m+1..Len(order) :
        LET n == order[i].name
        IN  /\ a.prompt.raw[n] = b.prompt.raw[n] /\ a.prompt.count[n] = b.prompt.count[n]
            /\ n = "conversation_history" => a.prompt.history = b.prompt.history

LEMMA StateTypes ==
  ASSUME NEW state \in SoundStates
  PROVE  /\ state \in TrimStates /\ Faithful(state.prompt) /\ state.excess \in Int
         /\ state.prompt \in Prompt /\ state.prompt.count \in Sizes /\ state.prompt.raw \in Sizes
         /\ \A n \in SectionNames : state.prompt.raw[n] \in Nat /\ state.prompt.count[n] \in Nat
  <1>1. state \in TrimStates /\ Faithful(state.prompt) /\ state.excess \in Int /\ state.prompt \in Prompt
    BY DEF SoundStates, TrimStates
  <1>2. QED
    BY <1>1 DEF Prompt, Sizes

LEMMA PlainScale == Scale(100) /\ Reckoned(100)
  <1>1. Line \in Nat /\ Calibrated(Line, 100) = Line
    BY Plainly, PromptConstantsOK
  <1>2. QED
    BY <1>1 DEF Scale, Reckoned

(* The section both are cut at. *)
LEMMA CutDeeper ==
  ASSUME NEW a \in SoundStates, NEW b \in SoundStates, NEW s \in Unlocked, a.excess <= b.excess,
         a.prompt.raw[s.name] = b.prompt.raw[s.name], a.prompt.count[s.name] = b.prompt.count[s.name],
         s.name = "conversation_history" => a.prompt.history = b.prompt.history
  PROVE  LET x == Cut(a, s, 100)
             y == Cut(b, s, 100)
         IN  /\ x.excess <= y.excess
             /\ y.prompt.raw[s.name] <= x.prompt.raw[s.name]
             /\ \/ y.prompt.count[s.name] = y.prompt.raw[s.name]
                \/ /\ y.prompt.raw[s.name] = x.prompt.raw[s.name]
                   /\ y.prompt.count[s.name] = x.prompt.count[s.name]
  <1> DEFINE n == s.name
             x == Cut(a, s, 100)
             y == Cut(b, s, 100)
             c == a.prompt.count[n]
             p == CutOf(a, s)
             q == CutOf(b, s)
  <1>1. /\ n \in SectionNames /\ s.floor \in Nat /\ c \in Nat /\ a.prompt.raw[n] \in Nat
        /\ a.excess \in Int /\ b.excess \in Int /\ a \in TrimStates /\ b \in TrimStates
        /\ a.prompt \in Prompt /\ b.prompt \in Prompt
    BY StateTypes, NamedSections DEF Unlocked
  <1>2. /\ p = Lesser(Greater(0, c - s.floor), a.excess)
        /\ q = Lesser(Greater(0, c - s.floor), b.excess)
    BY DEF CutOf
  <1>3. /\ p \in Int /\ q \in Int /\ p <= q
        /\ p > 0 => c - p \in Nat
        /\ q > 0 => c - q \in Nat
        /\ (IF p <= 0 THEN a.excess ELSE a.excess - p) <= (IF q <= 0 THEN b.excess ELSE b.excess - q)
    BY <1>1, <1>2 DEF Lesser, Greater
  <1>4. /\ p <= 0 => x = a
        /\ ~(p <= 0) => /\ x.excess = a.excess - p
                        /\ x.prompt.raw[n] = Left(a.prompt, n, c - p, 100)
                        /\ x.prompt.count[n] = Calibrated(x.prompt.raw[n], 100)
    BY <1>1, CutResult
  <1>5. /\ q <= 0 => y = b
        /\ ~(q <= 0) => /\ y.excess = b.excess - q
                        /\ y.prompt.raw[n] = Left(b.prompt, n, c - q, 100)
                        /\ y.prompt.count[n] = Calibrated(y.prompt.raw[n], 100)
    BY <1>1, CutResult
  <1>6. IsFullCut(y, b, s)
    BY StateTypes, PlainScale, CutIsCut DEF Unlocked
  <1>7. y.prompt.raw[n] \in Nat /\ y.prompt.raw[n] <= b.prompt.raw[n]
    BY <1>1, <1>6 DEF IsCut, IsFullCut, Trimmed, TrimStates, Prompt, Sizes
  <1> HIDE DEF x, y, c, p, q
  <1>8. x.excess <= y.excess
    BY <1>3, <1>4, <1>5
  <1>9. CASE q <= 0
    <2>1. x = a /\ y = b
      BY <1>3, <1>4, <1>5, <1>9
    <2>2. /\ y.prompt.raw[n] = x.prompt.raw[n] /\ y.prompt.count[n] = x.prompt.count[n]
          /\ y.prompt.raw[n] <= x.prompt.raw[n]
      BY <1>1, <2>1
    <2>3. QED
      BY <1>8, <2>2 DEF x, y
  <1>10. CASE ~(q <= 0)
    <2>1. y.prompt.count[n] = y.prompt.raw[n]
      BY <1>5, <1>7, <1>10, Plainly
    <2>2. y.prompt.raw[n] <= x.prompt.raw[n]
      <3>1. CASE p <= 0
        BY <1>4, <1>7, <3>1
      <3>2. CASE ~(p <= 0)
        <4>1. c - p \in Nat /\ c - q \in Nat /\ c - q <= c - p
          BY <1>1, <1>3, <1>10, <3>2
        <4> DEFINE less == c - q
                   more == c - p
        <4>2. less \in Nat /\ more \in Nat /\ less <= more
          BY <4>1
        <4>3. x.prompt.raw[n] = Left(a.prompt, n, more, 100) /\ y.prompt.raw[n] = Left(b.prompt, n, less, 100)
          BY <1>4, <1>5, <1>10, <3>2
        <4> HIDE DEF less, more
        <4>4. QED
          BY <1>1, <4>2, <4>3, LeftOfLess
      <3>3. QED
        BY <3>1, <3>2
    <2>3. QED
      BY <1>8, <2>1, <2>2 DEF x, y
  <1>11. QED
    BY <1>8, <1>9, <1>10 DEF x, y

LEMMA AbreastStep ==
  ASSUME NEW in, NEW m \in Nat, m + 1 \in DOMAIN Trimmable(in),
         NEW a, NEW b, Abreast(b, a, Trimmable(in), m)
  PROVE  Abreast(Cut(b, Trimmable(in)[m + 1], 100), Cut(a, Trimmable(in)[m + 1], 100), Trimmable(in), m + 1)
  <1> DEFINE order == Trimmable(in)
             s == order[m + 1]
             x == Cut(a, s, 100)
             y == Cut(b, s, 100)
  <1>1. /\ order \in Seq(Unlocked) /\ s \in Unlocked /\ s.name \in SectionNames
        /\ DOMAIN order = 1..Len(order) /\ m + 1 \in 1..Len(order) /\ Len(order) \in Nat
    <2>1. order \in Seq(Unlocked) /\ m + 1 \in DOMAIN order
      BY TrimmableOrder
    <2> HIDE DEF order
    <2>2. s \in Unlocked /\ DOMAIN order = 1..Len(order) /\ Len(order) \in Nat
      BY <2>1
    <2>3. s.name \in SectionNames
      BY <2>2, NamedSections DEF Unlocked
    <2>4. QED
      BY <2>1, <2>2, <2>3
  <1>2. a \in SoundStates /\ b \in SoundStates /\ a.excess <= b.excess /\ Deeper(b.prompt, a.prompt)
    BY DEF Abreast
  <1>3. /\ a.prompt.raw[s.name] = b.prompt.raw[s.name] /\ a.prompt.count[s.name] = b.prompt.count[s.name]
        /\ s.name = "conversation_history" => a.prompt.history = b.prompt.history
    BY <1>1 DEF Abreast
  <1>4. IsFullCut(x, a, s) /\ IsFullCut(y, b, s) /\ x \in SoundStates /\ y \in SoundStates
    BY <1>1, <1>2, StateTypes, PlainScale, CutIsCut, CutIsFaithful DEF Unlocked
  <1>5. /\ x.excess <= y.excess
        /\ y.prompt.raw[s.name] <= x.prompt.raw[s.name]
        /\ \/ y.prompt.count[s.name] = y.prompt.raw[s.name]
           \/ /\ y.prompt.raw[s.name] = x.prompt.raw[s.name]
              /\ y.prompt.count[s.name] = x.prompt.count[s.name]
    BY <1>1, <1>2, <1>3, CutDeeper
  <1>6. ASSUME NEW i \in m+2..Len(order)
        PROVE  /\ order[i].name \in SectionNames \ {s.name}
               /\ i \in m+1..Len(order)
    <2>1. i \in DOMAIN order /\ m + 1 \in DOMAIN order /\ i # m + 1 /\ i \in m+1..Len(order)
      BY <1>1
    <2>2. order[i].name # s.name
      BY <2>1, CutOnce
    <2>3. order[i] \in Unlocked
      BY <1>1, <2>1
    <2>4. QED
      BY <2>1, <2>2, <2>3, NamedSections DEF Unlocked
  <1> HIDE DEF x, y, s, order
  <1>7. \A n \in SectionNames \ {s.name} :
           /\ x.prompt.raw[n] = a.prompt.raw[n] /\ x.prompt.count[n] = a.prompt.count[n]
           /\ y.prompt.raw[n] = b.prompt.raw[n] /\ y.prompt.count[n] = b.prompt.count[n]
    BY <1>4 DEF IsCut, IsFullCut
  <1>8. Deeper(y.prompt, x.prompt)
    <2>1. \A n \in SectionNames \ {s.name} :
             /\ y.prompt.raw[n] <= x.prompt.raw[n]
             /\ \/ y.prompt.count[n] = y.prompt.raw[n]
                \/ y.prompt.raw[n] = x.prompt.raw[n] /\ y.prompt.count[n] = x.prompt.count[n]
      BY <1>2, <1>7 DEF Deeper
    <2>2. QED
      BY <1>5, <2>1 DEF Deeper
  <1>9. ASSUME NEW i \in m+2..Len(order)
        PROVE  LET n == order[i].name
               IN  /\ x.prompt.raw[n] = y.prompt.raw[n] /\ x.prompt.count[n] = y.prompt.count[n]
                   /\ n = "conversation_history" => x.prompt.history = y.prompt.history
    <2> DEFINE n == order[i].name
    <2>1. n \in SectionNames \ {s.name} /\ i \in m+1..Len(order)
      BY <1>6
    <2>2. /\ a.prompt.raw[n] = b.prompt.raw[n] /\ a.prompt.count[n] = b.prompt.count[n]
          /\ n = "conversation_history" => a.prompt.history = b.prompt.history
      BY <2>1 DEF Abreast, order
    <2>3. n = "conversation_history" => x.prompt.history = a.prompt.history /\ y.prompt.history = b.prompt.history
      BY <1>4, <2>1 DEF IsCut, IsFullCut, Minimal
    <2> HIDE DEF n
    <2>4. /\ x.prompt.raw[n] = y.prompt.raw[n] /\ x.prompt.count[n] = y.prompt.count[n]
          /\ n = "conversation_history" => x.prompt.history = y.prompt.history
      BY <1>7, <2>1, <2>2, <2>3
    <2>5. QED
      BY <2>4 DEF n
  <1>10. (m + 1) + 1 = m + 2
    OBVIOUS
  <1>11. Abreast(y, x, order, m + 1)
    BY <1>4, <1>5, <1>8, <1>9, <1>10 DEF Abreast
  <1>12. QED
    BY <1>11 DEF x, y, s, order

(* The more is asked of a prompt, the deeper it is cut.                    *)
LEMMA CutForMore ==
  ASSUME NEW in, NEW prompt, Faithful(prompt), NEW few \in Int, NEW many \in Int, few <= many
  PROVE  LET after(excess) == CutAll([prompt |-> prompt, excess |-> excess], Trimmable(in), 100).prompt
         IN  Deeper(after(many), after(few))
  <1> DEFINE order == Trimmable(in)
             n == Len(order)
             start(excess) == [prompt |-> prompt, excess |-> excess]
  <1>1. order \in Seq(Unlocked) /\ n \in Nat /\ DOMAIN order = 1..n
    BY TrimmableOrder
  <1>2. start(few) \in SoundStates /\ start(many) \in SoundStates
    BY DEF SoundStates, TrimStates, Faithful
  <1>3. /\ start(few).prompt = prompt /\ start(many).prompt = prompt
        /\ start(few).excess = few /\ start(many).excess = many
    OBVIOUS
  <1> HIDE DEF start
  <1>4. PICK t \in [0..n -> SoundStates] : Cutting(t, start(few), order, 100)
    BY <1>1, <1>2, PlainScale, CutAllTrace
  <1>5. PICK u \in [0..n -> SoundStates] : Cutting(u, start(many), order, 100)
    BY <1>1, <1>2, PlainScale, CutAllTrace
  <1> DEFINE good == {m \in 0..n : Abreast(u[m], t[m], order, m)}
  <1>6. 0 \in good
    <2>1. t[0] = start(few) /\ u[0] = start(many)
      BY <1>4, <1>5 DEF Cutting
    <2>2. Deeper(prompt, prompt)
      BY DEF Deeper, Faithful, Prompt, Sizes
    <2>3. QED
      BY <1>1, <1>2, <1>3, <2>1, <2>2 DEF Abreast
  <1>7. ASSUME NEW m \in 0..n-1, m \in good PROVE m + 1 \in good
    <2>1. m \in Nat /\ m + 1 \in 1..n /\ m + 1 \in DOMAIN order /\ (m + 1) - 1 = m
      BY <1>1
    <2>2. t[m + 1] = Cut(t[(m + 1) - 1], order[m + 1], 100) /\ u[m + 1] = Cut(u[(m + 1) - 1], order[m + 1], 100)
      BY <1>4, <1>5, <2>1 DEF Cutting
    <2>3. t[m + 1] = Cut(t[m], order[m + 1], 100) /\ u[m + 1] = Cut(u[m], order[m + 1], 100)
      BY <2>1, <2>2
    <2>4. Abreast(u[m + 1], t[m + 1], order, m + 1)
      BY <1>7, <2>1, <2>3, AbreastStep
    <2>5. QED
      BY <1>1, <2>1, <2>4
  <1>8. n \in good
    <2> HIDE DEF good
    <2>1. \A m \in 0..n : m \in good
      BY <1>1, <1>6, <1>7, Induction
    <2>2. QED
      BY <1>1, <2>1
  <1>9. CutAll(start(few), order, 100) = t[n] /\ CutAll(start(many), order, 100) = u[n]
    BY <1>4, <1>5 DEF Cutting
  <1>10. Deeper(u[n].prompt, t[n].prompt)
    BY <1>8 DEF Abreast
  <1>11. QED
    BY <1>9, <1>10 DEF start

(* Nothing is cut when nothing is asked.                                   *)
LEMMA CutForNothing ==
  ASSUME NEW in, NEW prompt, Faithful(prompt)
  PROVE  CutAll([prompt |-> prompt, excess |-> 0], Trimmable(in), 100).prompt = prompt
  <1> DEFINE order == Trimmable(in)
             n == Len(order)
             start == [prompt |-> prompt, excess |-> 0]
  <1>1. order \in Seq(Unlocked) /\ n \in Nat /\ DOMAIN order = 1..n
    BY TrimmableOrder
  <1>2. start \in SoundStates
    BY DEF SoundStates, TrimStates, Faithful
  <1>3. start.prompt = prompt /\ start.excess = 0
    OBVIOUS
  <1> HIDE DEF start
  <1>4. PICK t \in [0..n -> SoundStates] : Cutting(t, start, order, 100)
    BY <1>1, <1>2, PlainScale, CutAllTrace
  <1> DEFINE good == {m \in 0..n : t[m] = start}
  <1>5. 0 \in good
    BY <1>1, <1>4 DEF Cutting
  <1>6. ASSUME NEW m \in 0..n-1, m \in good PROVE m + 1 \in good
    <2>1. m + 1 \in 1..n /\ m + 1 \in 0..n /\ (m + 1) - 1 = m /\ order[m + 1] \in Unlocked
      BY <1>1
    <2>2. t[m + 1] = Cut(start, order[m + 1], 100)
      <3>1. t[m + 1] = Cut(t[(m + 1) - 1], order[m + 1], 100)
        BY <1>4, <2>1 DEF Cutting
      <3>2. QED
        BY <1>6, <2>1, <3>1
    <2>3. CutOf(start, order[m + 1]) <= 0
      <3>1. start.prompt.count[order[m + 1].name] \in Nat /\ order[m + 1].floor \in Nat
        BY <1>2, <2>1, StateTypes, NamedSections DEF Unlocked
      <3>2. QED
        BY <1>3, <3>1 DEF CutOf, Lesser, Greater
    <2>4. t[m + 1] = start
      BY <1>2, <2>1, <2>2, <2>3, StateTypes, CutResult
    <2>5. QED
      BY <2>1, <2>4
  <1>7. n \in good
    <2> HIDE DEF good
    <2>1. \A m \in 0..n : m \in good
      BY <1>1, <1>5, <1>6, Induction
    <2>2. QED
      BY <1>1, <2>1
  <1>8. CutAll(start, order, 100) = start
    BY <1>4, <1>7 DEF Cutting
  <1>9. QED
    BY <1>3, <1>8 DEF start

-----------------------------------------------------------------------------
(* What is asked of a prompt is taken from its counts, or everything that  *)
(* may be cut is down to its minimum.                                      *)
Weighed(prompt) ==
  /\ \A n \in SectionNames : prompt.count[n] <= prompt.raw[n]
  /\ prompt.count["user_query"] > 0

Accounted(now, start, order, m) ==
  /\ Halfway(now, start, order, m, {})
  /\ \A n \in SectionNames : now.prompt.count[n] <= start.prompt.count[n]
  /\ \A n \in Locked : now.prompt.count[n] = start.prompt.count[n]
  /\ Total(now.prompt.count) + start.excess <= Total(start.prompt.count) + now.excess

LEMMA AccountedStep ==
  ASSUME NEW order \in Seq(Unlocked), NEW m \in Nat, m + 1 \in DOMAIN order,
         NEW start \in SoundStates, NEW now, Accounted(now, start, order, m),
         NEW next, IsFullCut(next, now, order[m + 1])
  PROVE  Accounted(next, start, order, m + 1)
  <1> DEFINE s == order[m + 1]
  <1>1. s \in Unlocked /\ s.name \in SectionNames /\ s.name \notin Locked
    <2>1. s \in Unlocked
      OBVIOUS
    <2>2. QED
      BY <2>1, NamedSections DEF Unlocked
  <1>2. Halfway(next, start, order, m + 1, {})
    BY HalfwayStep DEF Accounted, IsFullCut, Multipliers
  <1>3. now \in SoundStates /\ next \in SoundStates
    BY <1>2 DEF Halfway, Accounted
  <1>4. /\ now.prompt.count \in Sizes /\ next.prompt.count \in Sizes /\ start.prompt.count \in Sizes
        /\ now.excess \in Int /\ next.excess \in Int /\ start.excess \in Int
        /\ \A n \in SectionNames : /\ now.prompt.count[n] \in Nat /\ next.prompt.count[n] \in Nat
                                   /\ start.prompt.count[n] \in Nat
    BY <1>3, StateTypes
  <1> HIDE DEF s
  <1>5. /\ \A n \in SectionNames \ {s.name} : next.prompt.count[n] = now.prompt.count[n]
        /\ next.prompt.count[s.name] + (now.excess - next.excess) <= now.prompt.count[s.name]
        /\ now.excess - next.excess \in Nat
    BY <1>4 DEF IsCut, IsFullCut, s
  <1>6. Total(next.prompt.count) + (now.excess - next.excess) <= Total(now.prompt.count)
    BY <1>1, <1>4, <1>5, TotalLess
  <1>7. Total(next.prompt.count) \in Nat /\ Total(now.prompt.count) \in Nat /\ Total(start.prompt.count) \in Nat
    BY <1>4, TotalType
  <1>8. Total(next.prompt.count) + start.excess <= Total(start.prompt.count) + next.excess
    BY <1>4, <1>6, <1>7 DEF Accounted
  <1>9. \A n \in SectionNames : next.prompt.count[n] <= start.prompt.count[n]
    <2>1. TAKE n \in SectionNames
    <2>2. next.prompt.count[n] <= now.prompt.count[n]
      <3>1. CASE n = s.name
        BY <1>4, <1>5, <3>1
      <3>2. CASE n # s.name
        BY <1>4, <1>5, <3>2
      <3>3. QED
        BY <3>1, <3>2
    <2>3. QED
      BY <1>4, <2>2 DEF Accounted
  <1>10. \A n \in Locked : next.prompt.count[n] = start.prompt.count[n]
    <2>1. \A n \in Locked : n \in SectionNames \ {s.name}
      BY <1>1 DEF Locked, SectionNames
    <2>2. QED
      BY <1>5, <2>1 DEF Accounted
  <1>11. QED
    BY <1>2, <1>8, <1>9, <1>10 DEF Accounted

LEMMA FloorOf ==
  ASSUME NEW s \in ToSet(Layout)
  PROVE  Floor(s.name) = s.floor
  <1> DEFINE x == CHOOSE x \in ToSet(Layout) : x.name = s.name
  <1>1. x \in ToSet(Layout) /\ x.name = s.name
    OBVIOUS
  <1>2. x = s
    BY <1>1, NamesAreDistinct
  <1>3. QED
    BY <1>2 DEF Floor

Least(prompt) ==
  [n \in SectionNames |-> IF n \in Locked THEN prompt.count[n] ELSE Lesser(prompt.count[n], Floor(n))]

LEMMA LeastType ==
  ASSUME NEW prompt \in Prompt
  PROVE  Least(prompt) \in Sizes
  <1>1. \A n \in SectionNames : prompt.count[n] \in Nat
    BY DEF Prompt, Sizes
  <1>2. \A n \in SectionNames : Floor(n) \in Nat
    <2>1. TAKE n \in SectionNames
    <2>2. PICK s \in ToSet(Layout) : s.name = n
      BY DEF SectionNames
    <2>3. QED
      BY <2>2, FloorOf, NamedSections
  <1>3. QED
    BY <1>1, <1>2 DEF Least, Sizes, Lesser

LEMMA CutAccounts ==
  ASSUME NEW in, NEW start \in SoundStates
  PROVE  LET final == CutAll(start, Trimmable(in), 100)
         IN  /\ final \in SoundStates /\ Trimmed(final.prompt, start.prompt)
             /\ \A n \in Locked : final.prompt.count[n] = start.prompt.count[n]
             /\ \/ Total(final.prompt.count) + start.excess <= Total(start.prompt.count)
                \/ Total(final.prompt.count) <= Total(Least(start.prompt))
  <1> DEFINE order == Trimmable(in)
             n == Len(order)
             final == CutAll(start, order, 100)
  <1>1. order \in Seq(Unlocked) /\ n \in Nat /\ DOMAIN order = 1..n /\ ToSet(order) = Unlocked
    BY TrimmableOrder
  <1>2. PICK t \in [0..n -> SoundStates] : Cutting(t, start, order, 100)
    BY <1>1, PlainScale, CutAllTrace
  <1> DEFINE good == {m \in 0..n : Accounted(t[m], start, order, m)}
  <1>3. /\ start.prompt \in Prompt /\ start.prompt.count \in Sizes /\ start.excess \in Int
        /\ Faithful(start.prompt)
        /\ \A k \in SectionNames : start.prompt.count[k] \in Nat
    BY StateTypes
  <1>4. 0 \in good
    <2>1. t[0] = start
      BY <1>2 DEF Cutting
    <2>2. Total(start.prompt.count) \in Nat
      BY <1>3, TotalType
    <2>3. Halfway(start, start, order, 0, {})
      BY <1>3, TrimmedItself DEF Halfway
    <2>4. Accounted(start, start, order, 0)
      BY <1>3, <2>2, <2>3 DEF Accounted
    <2>5. QED
      BY <1>1, <2>1, <2>4
  <1>5. ASSUME NEW m \in 0..n-1, m \in good PROVE m + 1 \in good
    <2>1. m \in Nat /\ m + 1 \in 1..n /\ m + 1 \in DOMAIN order /\ (m + 1) - 1 = m /\ order[m + 1] \in Unlocked
      BY <1>1
    <2>2. t[m + 1] = Cut(t[m], order[m + 1], 100)
      <3>1. t[m + 1] = Cut(t[(m + 1) - 1], order[m + 1], 100)
        BY <1>2, <2>1 DEF Cutting
      <3>2. QED
        BY <2>1, <3>1
    <2>3. t[m] \in SoundStates /\ Accounted(t[m], start, order, m)
      BY <1>5 DEF Accounted, Halfway
    <2>4. IsFullCut(t[m + 1], t[m], order[m + 1])
      BY <2>1, <2>2, <2>3, StateTypes, PlainScale, CutIsCut DEF Unlocked
    <2>5. Accounted(t[m + 1], start, order, m + 1)
      BY <1>1, <2>1, <2>3, <2>4, AccountedStep
    <2>6. QED
      BY <1>1, <2>1, <2>5
  <1>6. n \in good
    <2> HIDE DEF good
    <2>1. \A m \in 0..n : m \in good
      BY <1>1, <1>4, <1>5, Induction
    <2>2. QED
      BY <1>1, <2>1
  <1>7. final = t[n]
    BY <1>2 DEF Cutting
  <1>8. Accounted(final, start, order, n)
    BY <1>6, <1>7
  <1> HIDE DEF final, order
  <1>9. final \in SoundStates /\ final.excess \in Int /\ final.prompt.count \in Sizes
    BY <1>8, StateTypes DEF Accounted, Halfway
  <1>10. CASE final.excess <= 0
    <2>1. Total(final.prompt.count) \in Nat /\ Total(start.prompt.count) \in Nat
      BY <1>3, <1>9, TotalType
    <2>2. Total(final.prompt.count) + start.excess <= Total(start.prompt.count)
      BY <1>3, <1>8, <1>9, <1>10, <2>1 DEF Accounted
    <2>3. QED
      BY <1>8, <1>9, <2>2 DEF Accounted, Halfway, final, order
  <1>11. CASE ~(final.excess <= 0)
    <2>1. \A s \in Unlocked : final.prompt.count[s.name] <= s.floor
      <3>1. TAKE s \in Unlocked
      <3>2. PICK i \in 1..n : order[i] = s
        BY <1>1 DEF ToSet
      <3>3. final.excess > 0
        BY <1>9, <1>11
      <3>4. QED
        BY <1>8, <3>2, <3>3 DEF Accounted, Halfway, Minimal
    <2>2. ASSUME NEW k \in SectionNames PROVE final.prompt.count[k] <= Least(start.prompt)[k]
      <3>1. final.prompt.count[k] <= start.prompt.count[k] /\ final.prompt.count[k] \in Nat
        BY <1>8, <1>9 DEF Accounted, Sizes
      <3>2. CASE k \in Locked
        BY <3>1, <3>2 DEF Least
      <3>3. CASE k \notin Locked
        <4>1. PICK s \in ToSet(Layout) : s.name = k
          BY DEF SectionNames
        <4>2. s \in Unlocked
          BY <3>3, <4>1 DEF Unlocked, Locked
        <4>3. final.prompt.count[k] <= Floor(k)
          BY <2>1, <4>1, <4>2, FloorOf
        <4>4. QED
          BY <3>1, <3>3, <4>3 DEF Least, Lesser
      <3>4. QED
        BY <3>2, <3>3
    <2>3. Total(final.prompt.count) <= Total(Least(start.prompt))
      BY <1>3, <1>9, <2>2, LeastType, TotalsOrdered
    <2>4. QED
      BY <1>8, <1>9, <2>3 DEF Accounted, Halfway, final, order
  <1>12. QED
    BY <1>10, <1>11

-----------------------------------------------------------------------------
(* What measuring adds to the counts does not grow when more is cut.       *)
Parts(prompt) ==
  [n \in SectionNames |-> IF n = "system" \/ prompt.raw[n] = 0 THEN 0 ELSE prompt.raw[n] + Separator]

Gap(prompt, p) == Measured(prompt, p) - Total(prompt.count)

LEMMA PlainMeasure ==
  ASSUME NEW prompt \in Prompt, prompt.raw["user_query"] > 0, NEW p \in Providers, p.percent = 100
  PROVE  /\ Parts(prompt) \in Sizes
         /\ Measured(prompt, p) = prompt.raw["system"] + (Total(Parts(prompt)) - Separator) + 10
  <1> DEFINE joined == Total(Parts(prompt)) - Separator
  <1>1. Separator \in Nat /\ \A n \in SectionNames : prompt.raw[n] \in Nat
    BY PromptConstantsOK DEF Prompt, Sizes
  <1>2. Parts(prompt) \in Sizes
    BY <1>1 DEF Parts, Sizes
  <1>3. Total(Parts(prompt)) \in Nat /\ Parts(prompt)["user_query"] <= Total(Parts(prompt))
    BY <1>2, TotalType, PartOfTotal, NamedSections
  <1>4. Parts(prompt)["user_query"] = prompt.raw["user_query"] + Separator /\ prompt.raw["user_query"] \in Nat
    BY <1>1, NamedSections DEF Parts
  <1>5. joined \in Nat
    BY <1>1, <1>3, <1>4
  <1>6. Calibrated(joined, 100) = joined
    <2> HIDE DEF joined
    <2>1. QED
      BY <1>5, Plainly
  <1>7. Calibrated(prompt.raw["system"], 100) = prompt.raw["system"]
    BY <1>1, NamedSections, Plainly
  <1>8. Measured(prompt, p) = Calibrated(prompt.raw["system"], 100) + Calibrated(joined, 100) + 10
    BY DEF Measured, Parts
  <1>9. QED
    BY <1>2, <1>6, <1>7, <1>8

LEMMA GapShrinks ==
  ASSUME NEW a \in Prompt, NEW b \in Prompt, Deeper(b, a), NEW p \in Providers, p.percent = 100,
         \A n \in SectionNames : a.count[n] <= a.raw[n],
         a.raw["user_query"] > 0, b.raw["user_query"] > 0,
         a.raw["system"] = b.raw["system"], a.count["system"] = b.count["system"]
  PROVE  Gap(b, p) <= Gap(a, p)
  <1>1. /\ a.count \in Sizes /\ b.count \in Sizes /\ Separator \in Nat
        /\ \A n \in SectionNames : /\ a.raw[n] \in Nat /\ b.raw[n] \in Nat
                                   /\ a.count[n] \in Nat /\ b.count[n] \in Nat
    BY PromptConstantsOK DEF Prompt, Sizes
  <1>2. /\ Parts(a) \in Sizes /\ Measured(a, p) = a.raw["system"] + (Total(Parts(a)) - Separator) + 10
        /\ Parts(b) \in Sizes /\ Measured(b, p) = b.raw["system"] + (Total(Parts(b)) - Separator) + 10
    BY PlainMeasure
  <1>3. ASSUME NEW n \in SectionNames
        PROVE  Parts(b)[n] + a.count[n] <= Parts(a)[n] + b.count[n]
    <2> DEFINE ra == a.raw[n]  rb == b.raw[n]  ca == a.count[n]  cb == b.count[n]
               pa == Parts(a)[n]  pb == Parts(b)[n]
    <2>1. /\ ra \in Nat /\ rb \in Nat /\ ca \in Nat /\ cb \in Nat /\ ca <= ra
          /\ rb <= ra /\ (cb = rb \/ (rb = ra /\ cb = ca))
      BY <1>1 DEF Deeper
    <2>2. CASE n = "system"
      <3>1. pa = 0 /\ pb = 0 /\ ca = cb
        BY <2>2 DEF Parts
      <3> HIDE DEF pa, pb, ca, cb
      <3>2. pb + ca <= pa + cb
        BY <2>1, <3>1
      <3>3. QED
        BY <3>2 DEF pa, pb, ca, cb
    <2>3. CASE n # "system"
      <3>1. /\ pa = (IF ra = 0 THEN 0 ELSE ra + Separator)
            /\ pb = (IF rb = 0 THEN 0 ELSE rb + Separator)
        BY <2>3 DEF Parts
      <3> HIDE DEF pa, pb, ca, cb, ra, rb
      <3>2. pb + ca <= pa + cb
        BY <1>1, <2>1, <3>1
      <3>3. QED
        BY <3>2 DEF pa, pb, ca, cb
    <2>4. QED
      BY <2>2, <2>3
  <1>4. Total(Parts(b)) + Total(a.count) <= Total(Parts(a)) + Total(b.count)
    BY <1>1, <1>2, <1>3, TotalsCompare
  <1>5. /\ Total(Parts(a)) \in Nat /\ Total(Parts(b)) \in Nat
        /\ Total(a.count) \in Nat /\ Total(b.count) \in Nat
    BY <1>1, <1>2, TotalType
  <1>6. a.raw["system"] \in Nat
    BY <1>1, NamedSections
  <1>7. QED
    BY <1>1, <1>2, <1>4, <1>5, <1>6 DEF Gap

-----------------------------------------------------------------------------
(* A trimming pass of such a provider, with a budget that is not above its *)
(* window's.                                                               *)
LEMMA BudgetInWindow ==
  ASSUME NEW p \in Providers
  PROVE  InputBudget(p) <= WindowBudget(p)
  <1> DEFINE total == IF p.app = 0 THEN p.window ELSE Lesser(p.app, p.window)
             window == (total * 95) \div 100 - p.output
             rate == IF p.tpm = 0 THEN window ELSE Lesser(window, p.tpm - p.output - 200)
             most == (p.window * 95) \div 100 - p.output
  <1>1. p.app \in Nat /\ p.window \in Nat /\ p.output \in Nat /\ p.tpm \in Nat /\ LegacyCap \in Nat
    BY PromptConstantsOK DEF Providers
  <1>2. total \in Nat /\ total <= p.window
    BY <1>1 DEF Lesser
  <1> HIDE DEF total
  <1>3. window \in Int /\ most \in Int /\ window <= most
    BY <1>1, <1>2
  <1> HIDE DEF window
  <1>4. rate \in Int /\ rate <= window
    BY <1>1, <1>3 DEF Lesser
  <1>5. InputBudget(p) = IF LegacyCap = 0 THEN rate ELSE Lesser(rate, LegacyCap)
    BY DEF InputBudget, rate, window, total
  <1> HIDE DEF rate
  <1>6. WindowBudget(p) = Greater(500, most)
    BY DEF WindowBudget
  <1> HIDE DEF most
  <1>7. QED
    BY <1>1, <1>3, <1>4, <1>5, <1>6 DEF Lesser, Greater

CutFor(prompt, in, excess) == CutAll([prompt |-> prompt, excess |-> excess], Trimmable(in), 100).prompt

LEMMA PlainPass ==
  ASSUME NEW prompt, Faithful(prompt), NEW in, NEW p \in Providers, p.percent = 100,
         NEW budget \in Int, budget <= WindowBudget(p)
  PROVE  LET pass == Managed(prompt, in, p, budget)
         IN  /\ pass.prompt = CutFor(prompt, in, Greater(0, Total(prompt.count) - budget))
             /\ pass.overflow <=> Total(pass.prompt.count) > budget
             /\ pass.prompt \in Prompt /\ Trimmed(pass.prompt, prompt)
             /\ \A n \in Locked : pass.prompt.count[n] = prompt.count[n]
             /\ pass.overflow => Total(Least(prompt)) > budget
  <1> DEFINE pass == Managed(prompt, in, p, budget)
             excess == Total(prompt.count) - budget
             start == [prompt |-> prompt, excess |-> excess]
             final == CutAll(start, Trimmable(in), 100)
  <1>1. prompt \in Prompt /\ prompt.count \in Sizes /\ Total(prompt.count) \in Nat
    BY TotalType DEF Faithful, Prompt
  <1>2. WindowBudget(p) \in Nat
    BY WindowBudgetType
  <1>3. Lesser(budget, WindowBudget(p)) = budget /\ TrimPercent(p) = 100
    BY <1>2 DEF Lesser, TrimPercent
  <1>4. pass = [prompt |-> IF excess <= 0 THEN prompt ELSE final.prompt,
                overflow |-> Total((IF excess <= 0 THEN prompt ELSE final.prompt).count) > budget]
    BY <1>3 DEF Managed
  <1>5. start \in SoundStates /\ start.prompt = prompt /\ start.excess = excess /\ excess \in Int
    BY <1>1 DEF SoundStates, TrimStates
  <1>6. /\ final \in SoundStates /\ Trimmed(final.prompt, prompt)
        /\ \A n \in Locked : final.prompt.count[n] = prompt.count[n]
        /\ \/ Total(final.prompt.count) + excess <= Total(prompt.count)
           \/ Total(final.prompt.count) <= Total(Least(prompt))
    <2>1. LET last == CutAll(start, Trimmable(in), 100)
          IN  /\ last \in SoundStates /\ Trimmed(last.prompt, start.prompt)
              /\ \A n \in Locked : last.prompt.count[n] = start.prompt.count[n]
              /\ \/ Total(last.prompt.count) + start.excess <= Total(start.prompt.count)
                 \/ Total(last.prompt.count) <= Total(Least(start.prompt))
      <3> HIDE DEF start
      <3>1. QED
        BY <1>5, CutAccounts
    <2> HIDE DEF start
    <2>2. QED
      BY <1>5, <2>1
  <1>7. final.prompt \in Prompt /\ Total(final.prompt.count) \in Nat
    <2> HIDE DEF final
    <2>1. final.prompt \in Prompt /\ final.prompt.count \in Sizes
      BY <1>6, StateTypes
    <2>2. QED
      BY <2>1, TotalType
  <1>8. Total(Least(prompt)) \in Nat
    BY <1>1, LeastType, TotalType
  <1>9. excess > 0 => Greater(0, excess) = excess
    BY <1>5 DEF Greater
  <1>10. excess <= 0 => Greater(0, excess) = 0
    BY <1>5 DEF Greater
  <1>11. CutFor(prompt, in, 0) = prompt
    BY CutForNothing DEF CutFor
  <1>12. CutFor(prompt, in, excess) = final.prompt
    BY DEF CutFor
  <1> HIDE DEF pass, final, start
  <1>13. CASE excess <= 0
    <2>1. pass.prompt = prompt /\ (pass.overflow <=> Total(prompt.count) > budget)
      BY <1>4, <1>13
    <2>2. ~pass.overflow
      BY <1>1, <1>13, <2>1
    <2>3. Trimmed(prompt, prompt)
      BY TrimmedItself
    <2>4. QED
      BY <1>1, <1>10, <1>11, <1>13, <2>1, <2>2, <2>3 DEF pass
  <1>14. CASE ~(excess <= 0)
    <2>1. pass.prompt = final.prompt /\ (pass.overflow <=> Total(final.prompt.count) > budget)
      BY <1>4, <1>14
    <2>2. pass.prompt = CutFor(prompt, in, Greater(0, excess))
      BY <1>5, <1>9, <1>12, <1>14, <2>1
    <2>3. pass.overflow => Total(Least(prompt)) > budget
      BY <1>1, <1>6, <1>7, <1>8, <2>1
    <2>4. QED
      BY <1>6, <1>7, <2>1, <2>2, <2>3 DEF pass
  <1>15. QED
    BY <1>13, <1>14

-----------------------------------------------------------------------------
(* Both passes of build_chain_fitter, for a provider with a multiplier of  *)
(* 1.00: where they give up the prompt needs more than the budget.         *)
LEMMA QuerySections ==
  {"system", "user_query"} \subseteq Locked /\ Locked \subseteq SectionNames
  <1>1. Layout[1].name = "system" /\ Layout[1].locked /\ Layout[14].name = "user_query" /\ Layout[14].locked
    BY DEF Layout, Section
  <1>2. Layout[1] \in ToSet(Layout) /\ Layout[14] \in ToSet(Layout)
    BY LayoutIsSequence
  <1>3. QED
    BY <1>1, <1>2 DEF Locked, SectionNames

LEMMA NeedsIsLeast ==
  ASSUME NEW prompt \in Prompt, NEW p \in Providers
  PROVE  /\ Needs(prompt, p) = Total(Least(prompt)) + Greater(0, Gap(prompt, p))
         /\ Total(Least(prompt)) \in Nat /\ Gap(prompt, p) \in Int
         /\ prompt.count["user_query"] <= Total(Least(prompt))
  <1>1. Needs(prompt, p) = Total(Least(prompt)) + Greater(0, Gap(prompt, p))
    BY DEF Needs, Least, Gap
  <1>2. Least(prompt) \in Sizes
    BY LeastType
  <1>3. Measured(prompt, p) \in Int /\ Total(prompt.count) \in Nat
    BY MeasuredType, TotalType DEF Prompt
  <1>4. Least(prompt)["user_query"] = prompt.count["user_query"]
    BY QuerySections DEF Least
  <1>5. Total(Least(prompt)) \in Nat /\ Least(prompt)["user_query"] <= Total(Least(prompt))
    BY <1>2, TotalType, PartOfTotal, NamedSections
  <1>6. QED
    BY <1>1, <1>3, <1>4, <1>5 DEF Gap

LEMMA SkippedNeedsMore ==
  ASSUME NEW prompt, Faithful(prompt), Weighed(prompt), NEW in, NEW p \in Providers, p.percent = 100,
         InputBudget(p) > 0, FitFor(prompt, in, p).overflow
  PROVE  Needs(prompt, p) > InputBudget(p)
  <1> DEFINE budget == InputBudget(p)
             once == Managed(prompt, in, p, budget)
             gap == Gap(once.prompt, p)
             next == Greater(1, budget - gap)
             again == Managed(prompt, in, p, next)
             total == Total(prompt.count)
             least == Total(Least(prompt))
  <1>1. /\ prompt \in Prompt /\ budget \in Int /\ budget > 0 /\ budget <= WindowBudget(p)
        /\ total \in Nat /\ prompt.count \in Sizes
    BY InputBudgetType, BudgetInWindow, TotalType DEF Faithful, Prompt
  <1>2. /\ Needs(prompt, p) = least + Greater(0, Gap(prompt, p)) /\ least \in Nat
        /\ Gap(prompt, p) \in Int /\ least >= 1
    <2>1. prompt.count["user_query"] \in Nat /\ prompt.count["user_query"] > 0
      BY <1>1, NamedSections DEF Weighed, Sizes
    <2>2. QED
      BY <1>1, <2>1, NeedsIsLeast
  <1> HIDE DEF least, budget
  <1>3. /\ once.prompt = CutFor(prompt, in, Greater(0, total - budget))
        /\ once.overflow <=> Total(once.prompt.count) > budget
        /\ once.prompt \in Prompt /\ Trimmed(once.prompt, prompt)
        /\ \A n \in Locked : once.prompt.count[n] = prompt.count[n]
        /\ once.overflow => least > budget
    BY <1>1, PlainPass DEF least
  <1> HIDE DEF once
  <1>4. /\ Total(once.prompt.count) \in Nat /\ Measured(once.prompt, p) \in Int
        /\ gap = Measured(once.prompt, p) - Total(once.prompt.count) /\ gap \in Int
    BY <1>3, TotalType, MeasuredType DEF Gap, Prompt
  <1>5. /\ once.prompt.raw["user_query"] > 0 /\ prompt.raw["user_query"] > 0
        /\ once.prompt.raw["system"] = prompt.raw["system"]
        /\ once.prompt.count["system"] = prompt.count["system"]
        /\ \A n \in SectionNames : prompt.count[n] <= prompt.raw[n]
    <2>1. prompt.raw["user_query"] \in Nat /\ prompt.count["user_query"] \in Nat
      BY <1>1, NamedSections DEF Prompt, Sizes
    <2>2. QED
      BY <1>3, <2>1, QuerySections, NamedSections DEF Weighed, Trimmed
  <1>6. gap <= Gap(prompt, p)
    <2>1. CutFor(prompt, in, 0) = prompt
      BY CutForNothing DEF CutFor
    <2>2. Greater(0, total - budget) \in Int /\ 0 <= Greater(0, total - budget)
      BY <1>1 DEF Greater
    <2>3. Deeper(CutFor(prompt, in, Greater(0, total - budget)), CutFor(prompt, in, 0))
      BY <2>2, CutForMore DEF CutFor
    <2>4. Deeper(once.prompt, prompt)
      BY <1>3, <2>1, <2>3
    <2>5. QED
      BY <1>1, <1>3, <1>5, <2>4, GapShrinks
  <1>7. CASE once.overflow
    BY <1>1, <1>2, <1>3, <1>7 DEF Greater, budget
  <1>8. CASE ~once.overflow
    <2>1. Measured(once.prompt, p) > budget /\ (again.overflow \/ Measured(again.prompt, p) > budget)
      <3>1. FitFor(prompt, in, p) =
              IF Measured(prompt, p) <= budget
              THEN [prompt |-> prompt, overflow |-> FALSE]
              ELSE IF once.overflow \/ Measured(once.prompt, p) <= budget
              THEN once
              ELSE [prompt |-> again.prompt,
                    overflow |-> again.overflow \/ Measured(again.prompt, p) > budget]
        BY DEF FitFor, Gap, once, budget
      <3> HIDE DEF again
      <3>2. ~(Measured(prompt, p) <= budget)
        BY <3>1
      <3>3. ~(Measured(once.prompt, p) <= budget)
        BY <1>8, <3>1, <3>2
      <3>4. again.overflow \/ Measured(again.prompt, p) > budget
        <4> DEFINE over == again.overflow \/ Measured(again.prompt, p) > budget
        <4>1. FitFor(prompt, in, p) = [prompt |-> again.prompt, overflow |-> over]
          BY <1>8, <3>1, <3>2, <3>3
        <4> HIDE DEF over
        <4>2. FitFor(prompt, in, p).overflow = over
          BY <4>1
        <4>3. over
          BY <4>2, Zenon
        <4>4. QED
          BY <4>3 DEF over
      <3>5. QED
        BY <1>1, <1>4, <3>3, <3>4
    <2>2. Total(once.prompt.count) <= budget /\ gap > 0
      BY <1>1, <1>3, <1>4, <1>8, <2>1
    <2>3. /\ next \in Int /\ next <= budget /\ next <= WindowBudget(p) /\ next >= budget - gap /\ next >= 1
          /\ next > budget - gap => next = 1 /\ gap >= budget
      <3>1. WindowBudget(p) \in Nat
        BY WindowBudgetType
      <3>2. QED
        BY <1>1, <1>4, <2>2, <3>1 DEF Greater
    <2> HIDE DEF next, gap
    <2>4. /\ again.prompt = CutFor(prompt, in, Greater(0, total - next))
          /\ again.overflow <=> Total(again.prompt.count) > next
          /\ again.prompt \in Prompt /\ Trimmed(again.prompt, prompt)
          /\ \A n \in Locked : again.prompt.count[n] = prompt.count[n]
          /\ again.overflow => least > next
      BY <2>3, PlainPass DEF least
    <2> HIDE DEF again
    <2>5. CASE again.overflow
      <3>1. least > budget - gap
        BY <1>1, <1>2, <1>4, <2>3, <2>4, <2>5
      <3>2. QED
        BY <1>1, <1>2, <1>4, <1>6, <2>2, <3>1 DEF Greater, budget
    <2>6. CASE ~again.overflow
      <3>1. Measured(again.prompt, p) > budget /\ Total(again.prompt.count) <= next
            /\ Total(again.prompt.count) \in Nat /\ Measured(again.prompt, p) \in Int
        <4>1. Total(again.prompt.count) \in Nat /\ Measured(again.prompt, p) \in Int
          BY <2>4, TotalType, MeasuredType DEF Prompt
        <4>2. QED
          BY <2>1, <2>3, <2>4, <2>6, <4>1
      <3>2. Gap(again.prompt, p) <= gap
        <4>1. Greater(0, total - budget) \in Int /\ Greater(0, total - next) \in Int
              /\ Greater(0, total - budget) <= Greater(0, total - next)
          BY <1>1, <2>3 DEF Greater
        <4>2. Deeper(CutFor(prompt, in, Greater(0, total - next)), CutFor(prompt, in, Greater(0, total - budget)))
          BY <4>1, CutForMore DEF CutFor
        <4>3. Deeper(again.prompt, once.prompt)
          BY <1>3, <2>4, <4>2
        <4>4. \A n \in SectionNames : once.prompt.count[n] <= once.prompt.raw[n]
          <5>1. Deeper(once.prompt, prompt)
            <6>1. CutFor(prompt, in, 0) = prompt
              BY CutForNothing DEF CutFor
            <6>2. Greater(0, total - budget) \in Int /\ 0 <= Greater(0, total - budget)
              BY <1>1 DEF Greater
            <6>3. Deeper(CutFor(prompt, in, Greater(0, total - budget)), CutFor(prompt, in, 0))
              BY <6>2, CutForMore DEF CutFor
            <6>4. QED
              BY <1>3, <6>1, <6>3
          <5>2. \A n \in SectionNames : once.prompt.count[n] \in Nat /\ once.prompt.raw[n] \in Nat
            BY <1>3 DEF Prompt, Sizes
          <5>3. QED
            BY <1>5, <5>1, <5>2 DEF Deeper
        <4>5. /\ again.prompt.raw["user_query"] > 0
              /\ once.prompt.raw["system"] = again.prompt.raw["system"]
              /\ once.prompt.count["system"] = again.prompt.count["system"]
          BY <1>3, <1>5, <2>4, QuerySections DEF Trimmed
        <4>6. QED
          BY <1>3, <1>5, <2>4, <4>3, <4>4, <4>5, GapShrinks DEF gap
      <3>3. Gap(again.prompt, p) = Measured(again.prompt, p) - Total(again.prompt.count)
        BY DEF Gap
      <3>4. next > budget - gap
        BY <1>1, <1>4, <2>3, <3>1, <3>2, <3>3
      <3>5. gap >= budget
        BY <2>3, <3>4
      <3>6. QED
        BY <1>1, <1>2, <1>4, <1>6, <3>5 DEF Greater, budget
    <2>7. QED
      BY <2>5, <2>6
  <1>9. QED
    BY <1>7, <1>8

-----------------------------------------------------------------------------
(* No section is counted for more than it measures, in what the builder    *)
(* composes and in what trimming makes of it.                              *)
LEMMA CalibratedIsLess ==
  ASSUME NEW tokens \in Nat, NEW percent \in 1..100
  PROVE  Calibrated(tokens, percent) <= tokens
  <1>1. tokens * percent <= tokens * 100 /\ tokens * percent \in Nat
    BY Scaled, Products
  <1>2. (tokens * percent) \div 100 <= tokens
    BY <1>1
  <1>3. QED
    BY <1>2 DEF Calibrated, Greater

LEMMA ComposedWeighs ==
  ASSUME NEW in \in Inputs, NEW h \in Messages
  PROVE  Weighed(Composed(in, h))
  <1> DEFINE tokens == HistoryTokens(h)
             count == [in.size EXCEPT !["conversation_history"] = tokens]
             title == IF in.size["document_notice"] > 0 THEN NoticeTitle ELSE 0
             raw == [count EXCEPT !["document_notice"] = @ + title]
  <1>1. in.size \in Sizes /\ tokens \in Nat /\ NoticeTitle \in Nat
    BY InputTypes, HistoryTokensType, PromptConstantsOK
  <1>2. title \in Nat
    BY <1>1
  <1>3. Composed(in, h).count = count /\ Composed(in, h).raw = raw
    BY DEF Composed
  <1> HIDE DEF title, tokens
  <1>4. count \in Sizes /\ count["user_query"] = in.size["user_query"]
    BY <1>1, NamedSections DEF Sizes
  <1> HIDE DEF count
  <1>5. \A n \in SectionNames : count[n] \in Nat /\ raw[n] = IF n = "document_notice" THEN count[n] + title ELSE count[n]
    BY <1>4 DEF Sizes
  <1>6. \A n \in SectionNames : count[n] <= raw[n]
    BY <1>2, <1>5
  <1>7. in.size["user_query"] > 0
    BY QueryOK
  <1>8. QED
    BY <1>3, <1>4, <1>6, <1>7 DEF Weighed

LEMMA CutWeighs ==
  ASSUME NEW state \in SoundStates, Weighed(state.prompt), NEW s \in Unlocked,
         NEW percent \in 1..100, Scale(percent)
  PROVE  Weighed(Cut(state, s, percent).prompt)
  <1> DEFINE next == Cut(state, s, percent)
  <1>1. state \in TrimStates /\ Faithful(state.prompt) /\ next \in SoundStates
    BY StateTypes, CutIsFaithful
  <1>2. IsCut(next, state, s, {percent})
    BY <1>1, CutIsCut DEF Unlocked
  <1>3. s.name \in SectionNames /\ s.name # "user_query" /\ "user_query" \in SectionNames
    BY NamedSections, QuerySections DEF Unlocked
  <1>4. next = state \/ next.prompt.count[s.name] = Calibrated(next.prompt.raw[s.name], percent)
    BY <1>1, CutResult
  <1> HIDE DEF next
  <1>5. next.prompt.raw[s.name] \in Nat
    BY <1>1, <1>3, StateTypes
  <1>6. next.prompt.count[s.name] <= next.prompt.raw[s.name]
    <2>1. CASE next = state
      BY <1>3, <2>1 DEF Weighed
    <2>2. CASE next.prompt.count[s.name] = Calibrated(next.prompt.raw[s.name], percent)
      BY <1>5, <2>2, CalibratedIsLess
    <2>3. QED
      BY <1>4, <2>1, <2>2
  <1>7. QED
    BY <1>2, <1>3, <1>6 DEF IsCut, Weighed, next

LEMMA PassWeighs ==
  ASSUME NEW prompt, Faithful(prompt), Weighed(prompt), NEW in, NEW p \in Providers,
         NEW budget \in Int
  PROVE  Weighed(Managed(prompt, in, p, budget).prompt)
  <1> DEFINE percent == TrimPercent(p)
             excess == Total(prompt.count) - Lesser(budget, WindowBudget(p))
             start == [prompt |-> prompt, excess |-> excess]
             order == Trimmable(in)
             n == Len(order)
  <1>1. Managed(prompt, in, p, budget).prompt = IF excess <= 0 THEN prompt ELSE CutAll(start, order, percent).prompt
    BY DEF Managed
  <1>2. percent \in 1..100 /\ Scale(percent)
    BY DEF Providers, TrimPercent, Scale
  <1>3. excess \in Int
    <2>1. Total(prompt.count) \in Nat /\ WindowBudget(p) \in Nat
      BY TotalType, WindowBudgetType DEF Faithful, Prompt
    <2>2. Lesser(budget, WindowBudget(p)) \in Int
      BY <2>1 DEF Lesser
    <2>3. QED
      BY <2>1, <2>2
  <1> HIDE DEF excess, percent
  <1>4. start \in SoundStates /\ start.prompt = prompt
    BY <1>3 DEF SoundStates, TrimStates, Faithful
  <1> HIDE DEF start
  <1>5. order \in Seq(Unlocked) /\ n \in Nat /\ DOMAIN order = 1..n
    BY TrimmableOrder
  <1>6. PICK t \in [0..n -> SoundStates] : Cutting(t, start, order, percent)
    BY <1>2, <1>4, <1>5, CutAllTrace
  <1> DEFINE good == {m \in 0..n : Weighed(t[m].prompt)}
  <1>7. 0 \in good
    BY <1>4, <1>5, <1>6 DEF Cutting
  <1>8. ASSUME NEW m \in 0..n-1, m \in good PROVE m + 1 \in good
    <2>1. m + 1 \in 1..n /\ m + 1 \in 0..n /\ m \in 0..n /\ (m + 1) - 1 = m /\ order[m + 1] \in Unlocked
      BY <1>5
    <2>2. t[m + 1] = Cut(t[m], order[m + 1], percent)
      <3>1. t[m + 1] = Cut(t[(m + 1) - 1], order[m + 1], percent)
        BY <1>6, <2>1 DEF Cutting
      <3>2. QED
        BY <2>1, <3>1
    <2>3. Weighed(t[m + 1].prompt)
      BY <1>2, <1>8, <2>1, <2>2, CutWeighs
    <2>4. QED
      BY <2>1, <2>3
  <1>9. n \in good
    <2> HIDE DEF good
    <2>1. \A m \in 0..n : m \in good
      BY <1>5, <1>7, <1>8, Induction
    <2>2. QED
      BY <1>5, <2>1
  <1>10. CutAll(start, order, percent) = t[n]
    BY <1>6 DEF Cutting
  <1>11. QED
    BY <1>1, <1>9, <1>10

-----------------------------------------------------------------------------
(* Prompts are weighed at every stage, and the chain skips nobody before   *)
(* the prompt it starts from is settled.                                   *)
WeightInv ==
  /\ Weighed(composed)
  /\ pc \in {"routing", "sent"} => Weighed(fitted)
  /\ pc \in {"budgeting", "trimming"} => skipped = {}
  /\ \A i \in skipped : chain[i].percent = 100 => Needs(fitted, chain[i]) > InputBudget(chain[i])

LEMMA WeightStart ==
  PromptInit => WeightInv
  <1> SUFFICES ASSUME PromptInit PROVE WeightInv
    OBVIOUS
  <1>1. input \in Inputs /\ composed = Composed(input, input.history) /\ skipped = {} /\ pc = "budgeting"
    BY DEF PromptInit
  <1>2. Weighed(composed)
    BY <1>1, InputTypes, ComposedWeighs
  <1>3. QED
    BY <1>1, <1>2 DEF WeightInv

LEMMA WeightStep ==
  PromptInv /\ WeightInv /\ [PromptNext]_promptVars => WeightInv'
  <1> SUFFICES ASSUME PromptInv, WeightInv, [PromptNext]_promptVars PROVE WeightInv'
    OBVIOUS
  <1> DEFINE p == chain[candidate]
  <1>1. PromptTypeOK /\ Faithful(composed) /\ (pc = "routing" => Faithful(fitted))
    BY DEF PromptInv, Drafted, ReadyToSend
  <1>2. input \in Inputs /\ chain \in Chains /\ p \in Providers /\ input.history \in Messages
    BY <1>1, ChainTypes, InputTypes DEF PromptTypeOK
  <1>3. UNCHANGED request => UNCHANGED <<input, chain>>
    BY DEF request
  <1>4. UNCHANGED fitting => UNCHANGED composed
    BY DEF fitting
  <1>5. CASE Fail
    BY <1>3, <1>4, <1>5 DEF Fail, WeightInv
  <1>6. CASE BudgetError
    BY <1>5, <1>6 DEF BudgetError
  <1>7. CASE Budget
    <2> DEFINE h == CompactionOf(composed, history, input, p)
    <2>1. pc = "budgeting" /\ pc' = "trimming" /\ UNCHANGED <<input, chain, fitted, skipped>>
      BY <1>3, <1>7 DEF Budget
    <2>2. composed' = composed \/ (history # <<>> /\ composed' = Composed(input, h))
      BY <1>7 DEF Budget
    <2>3. ASSUME history # <<>> PROVE h \in Messages
      <3>1. Condensed(h, input.history)
        BY <1>2, <2>3, InputBudgetType, CompactedIsCondensed DEF CompactionOf, PromptInv
      <3>2. QED
        BY <1>2, <3>1, RecomposedIsDraft
    <2> HIDE DEF h
    <2>4. Weighed(composed')
      BY <1>2, <2>2, <2>3, ComposedWeighs DEF WeightInv
    <2>5. QED
      BY <2>1, <2>4 DEF WeightInv
  <1>8. CASE Trim
    <2> DEFINE trimmed == Managed(composed, input, p, target)
    <2>1. pc = "trimming" /\ skipped = {} /\ target \in Int
      BY <1>1, <1>8 DEF Trim, WeightInv, PromptTypeOK
    <2>2. UNCHANGED skipped
      BY <1>8 DEF Trim, Refuse
    <2>3. Weighed(trimmed.prompt)
      BY <1>1, <1>2, <2>1, PassWeighs DEF WeightInv
    <2>4. \/ Refuse
          \/ pc' = pc /\ UNCHANGED <<composed, fitted>>
          \/ fitted' = trimmed.prompt /\ UNCHANGED composed
      BY <1>4, <1>8 DEF Trim
    <2> HIDE DEF trimmed
    <2>5. CASE Refuse
      <3>1. composed' = composed \/ composed' = Composed(input, input.history)
        BY <2>5 DEF Refuse
      <3>2. Weighed(composed')
        BY <1>2, <3>1, ComposedWeighs DEF WeightInv
      <3>3. pc' \in {"budgeting", "failed"}
        BY <2>5 DEF Refuse
      <3>4. QED
        BY <2>1, <2>2, <3>2, <3>3 DEF WeightInv
    <2>6. CASE pc' = pc /\ UNCHANGED <<composed, fitted>>
      BY <2>1, <2>2, <2>6 DEF WeightInv
    <2>7. CASE fitted' = trimmed.prompt /\ UNCHANGED composed
      BY <2>1, <2>2, <2>3, <2>7 DEF WeightInv
    <2>8. QED
      BY <2>4, <2>5, <2>6, <2>7
  <1>9. ASSUME NextProvider, pc \in {"routing", "sent"}, UNCHANGED <<request, fitting, fitted>>,
               \A i \in skipped' : chain[i].percent = 100 => Needs(fitted, chain[i]) > InputBudget(chain[i])
        PROVE  WeightInv'
    <2>1. pc' \in {"routing", "failed"}
      BY <1>9 DEF NextProvider
    <2>2. QED
      BY <1>3, <1>4, <1>9, <2>1 DEF WeightInv
  <1>10. CASE BreakerOpen
    BY <1>9, <1>10 DEF BreakerOpen, WeightInv
  <1>11. CASE FitterBudgetError
    BY <1>5, <1>11 DEF FitterBudgetError
  <1>12. CASE TooBig
    <2>1. /\ pc = "routing" /\ ~Misconfigured(p) /\ FitFor(fitted, input, p).overflow
          /\ skipped' = skipped \union {candidate}
          /\ NextProvider /\ UNCHANGED <<request, fitting, fitted>>
      BY <1>12 DEF TooBig
    <2>2. InputBudget(p) > 0
      <3>1. InputBudget(p) \in Int
        BY <1>2, InputBudgetType
      <3>2. QED
        BY <2>1, <3>1 DEF Misconfigured
    <2>3. p.percent = 100 => Needs(fitted, p) > InputBudget(p)
      BY <1>1, <1>2, <2>1, <2>2, SkippedNeedsMore DEF WeightInv
    <2>4. QED
      BY <1>9, <2>1, <2>3 DEF WeightInv
  <1>13. CASE Send
    BY <1>3, <1>4, <1>13 DEF Send, WeightInv
  <1>14. CASE ProviderFails
    BY <1>9, <1>14 DEF ProviderFails, WeightInv
  <1>15. CASE ProviderSpeaks
    BY <1>3, <1>4, <1>15 DEF ProviderSpeaks, WeightInv
  <1>16. CASE UNCHANGED promptVars
    BY <1>3, <1>4, <1>16 DEF promptVars, WeightInv
  <1>17. QED
    BY <1>6, <1>7, <1>8, <1>10, <1>11, <1>12, <1>13, <1>14, <1>15, <1>16 DEF PromptNext

LEMMA WeightAlways == PromptSpec => []WeightInv
  BY WeightStart, WeightStep, PromptAlways, PTL DEF PromptSpec

(* build_chain_fitter trims to the provider's budget and, when what the    *)
(* counts leave out still puts the prompt above it, once more for that     *)
(* much less: a second pass is enough where tokens are counted as they     *)
(* are, because cutting deeper never adds to what the counts leave out.    *)
(* So the chain passes over such a provider only when everything that may  *)
(* be cut, cut to its minimum, would still not fit.                        *)
THEOREM SkippedPlainlyTooBig ==
  PromptSpec =>
    [](\A i \in skipped : chain[i].percent = 100 => Needs(fitted, chain[i]) > InputBudget(chain[i]))
  <1>1. WeightInv =>
          (\A i \in skipped : chain[i].percent = 100 => Needs(fitted, chain[i]) > InputBudget(chain[i]))
    BY DEF WeightInv
  <1>2. QED
    BY <1>1, WeightAlways, PTL

(* With no Gemini model among the configured ones, no provider of the      *)
(* chain is ever skipped as too small unless the prompt cannot be made to  *)
(* fit it.                                                                 *)
THEOREM PlainChainsSkipFairly ==
  ASSUME \A c \in Chains : \A p \in ToSet(c) : p.percent = 100
  PROVE  PromptSpec => []SkippedOnlyIfTooBig
  <1>1. PromptInv /\ WeightInv => SkippedOnlyIfTooBig
    <2> SUFFICES ASSUME PromptInv, WeightInv, NEW i \in skipped
                 PROVE  Needs(fitted, chain[i]) > InputBudget(chain[i])
      BY DEF SkippedOnlyIfTooBig
    <2>1. chain \in Chains /\ i \in DOMAIN chain
      BY DEF PromptInv, PromptTypeOK
    <2>2. chain[i] \in ToSet(chain)
      BY <2>1 DEF ToSet
    <2>3. chain[i].percent = 100
      BY <2>1, <2>2
    <2>4. QED
      BY <2>3 DEF WeightInv
  <1>2. QED
    BY <1>1, PromptAlways, WeightAlways, PTL

-----------------------------------------------------------------------------
(* How many steps the fitting and the chain have left at most: a refit for *)
(* each pass and provider, then an attempt at each provider.               *)
AttemptsLeft ==
    LET others == Len(chain) - candidate
        fallbacks == 3 * Len(chain)
    IN  CASE pc = "budgeting"              -> fallbacks + 8 * others + 11
          [] pc = "trimming"               -> fallbacks + 8 * others + 10 - passes
          [] pc = "routing"                -> 3 * others + 3
          [] pc = "sent"                   -> 3 * others + 2
          [] pc \in {"answered", "failed"} -> 0

(* A refused provider leaves fewer passes to the others, and the chain     *)
(* starts over only once.                                                  *)
LEMMA AttemptIsProgress ==
    ASSUME PromptInv, PromptNext
    PROVE  AttemptsLeft' \in Nat /\ AttemptsLeft' < AttemptsLeft
  <1> DEFINE n == Len(chain)
  <1>1. n \in Nat /\ candidate \in 1..n /\ passes \in 0..5 /\ chain' = chain
    <2>1. chain \in Chains /\ candidate \in DOMAIN chain /\ passes \in 0..5
      BY DEF PromptInv, PromptTypeOK
    <2>2. Len(chain) \in Nat /\ DOMAIN chain = 1..Len(chain)
      BY <2>1, ChainTypes
    <2>3. chain' = chain
      BY DEF PromptNext, BudgetError, Budget, Trim, Refuse, BreakerOpen, FitterBudgetError, TooBig,
             Send, ProviderFails, ProviderSpeaks, Fail, request
    <2>4. QED
      BY <2>1, <2>2, <2>3
  <1>2. PICK before :
          /\ before = AttemptsLeft
          /\ pc = "budgeting" => before = 3 * n + 8 * (n - candidate) + 11
          /\ pc = "trimming" => before = 3 * n + 8 * (n - candidate) + 10 - passes
          /\ pc = "routing" => before = 3 * (n - candidate) + 3
          /\ pc = "sent" => before = 3 * (n - candidate) + 2
    BY DEF AttemptsLeft
  <1>3. PICK after :
          /\ after = AttemptsLeft'
          /\ pc' = "budgeting" => after = 3 * n + 8 * (n - candidate') + 11
          /\ pc' = "trimming" => after = 3 * n + 8 * (n - candidate') + 10 - passes'
          /\ pc' = "routing" => after = 3 * (n - candidate') + 3
          /\ pc' = "sent" => after = 3 * (n - candidate') + 2
          /\ pc' \in {"answered", "failed"} => after = 0
    BY <1>1 DEF AttemptsLeft
  <1> HIDE DEF n
  <1> DEFINE Less == after \in Nat /\ after < before
  <1>4. ASSUME pc \in {"budgeting", "routing"}, Fail PROVE Less
    BY <1>1, <1>2, <1>3, <1>4 DEF Fail
  <1>5. ASSUME Budget PROVE Less
    <2>1. pc = "budgeting" /\ pc' = "trimming" /\ candidate' = candidate /\ passes' = 0
      BY <1>5 DEF Budget
    <2>2. QED
      BY <1>1, <1>2, <1>3, <2>1
  <1>6. ASSUME pc = "trimming", Refuse PROVE Less
    <2>1. CASE candidate < n
      <3>1. pc' = "budgeting" /\ candidate' = candidate + 1
        BY <1>6, <2>1 DEF Refuse, n
      <3>2. QED
        BY <1>1, <1>2, <1>3, <1>6, <2>1, <3>1
    <2>2. CASE ~(candidate < n)
      <3>1. pc' = "failed"
        BY <1>6, <2>2 DEF Refuse, n
      <3>2. QED
        BY <1>1, <1>2, <1>3, <1>6, <3>1
    <2>3. QED
      BY <2>1, <2>2
  <1>7. ASSUME Trim PROVE Less
    <2> DEFINE p == chain[candidate]
               trimmed == Managed(composed, input, p, target)
               over == Measured(trimmed.prompt, p) - InputBudget(p)
    <2>1. pc = "trimming"
      BY <1>7 DEF Trim
    <2>2. CASE trimmed.overflow \/ (over > 0 /\ passes = 5)
      BY <1>6, <1>7, <2>1, <2>2 DEF Trim
    <2>3. CASE ~(trimmed.overflow \/ (over > 0 /\ passes = 5)) /\ over > 0
      <3>1. pc' = pc /\ candidate' = candidate /\ passes' = passes + 1 /\ passes # 5
        BY <1>7, <2>3 DEF Trim
      <3>2. QED
        BY <1>1, <1>2, <1>3, <2>1, <3>1
    <2>4. CASE ~(trimmed.overflow \/ (over > 0 /\ passes = 5)) /\ ~(over > 0)
      <3>1. pc' = "routing" /\ candidate' = 1
        BY <1>7, <2>4 DEF Trim
      <3>2. QED
        BY <1>1, <1>2, <1>3, <2>1, <3>1
    <2>5. QED
      BY <2>2, <2>3, <2>4
  <1>8. ASSUME pc \in {"routing", "sent"}, NextProvider PROVE Less
    <2>1. CASE candidate < n
      <3>1. pc' = "routing" /\ candidate' = candidate + 1
        BY <1>8, <2>1 DEF NextProvider, n
      <3>2. QED
        BY <1>1, <1>2, <1>3, <1>8, <2>1, <3>1
    <2>2. CASE ~(candidate < n)
      <3>1. pc' = "failed"
        BY <1>8, <2>2 DEF NextProvider, n
      <3>2. QED
        BY <1>1, <1>2, <1>3, <1>8, <3>1
    <2>3. QED
      BY <2>1, <2>2
  <1>9. ASSUME Send PROVE Less
    <2>1. pc = "routing" /\ pc' = "sent" /\ candidate' = candidate
      BY <1>9 DEF Send
    <2>2. QED
      BY <1>1, <1>2, <1>3, <2>1
  <1>10. ASSUME ProviderSpeaks PROVE Less
    <2>1. pc = "sent" /\ pc' = "answered"
      BY <1>10 DEF ProviderSpeaks
    <2>2. QED
      BY <1>1, <1>2, <1>3, <2>1
  <1>11. QED
    <2>1. BudgetError \/ FitterBudgetError => Less
      BY <1>4 DEF BudgetError, FitterBudgetError
    <2>2. BreakerOpen \/ TooBig \/ ProviderFails => Less
      BY <1>8 DEF BreakerOpen, TooBig, ProviderFails
    <2>3. Less
      BY <1>5, <1>7, <1>9, <1>10, <2>1, <2>2 DEF PromptNext
    <2>4. QED
      BY <1>2, <1>3, <2>3

(* fit_prompt and ProviderChain.generate_stream: a prompt is fitted and    *)
(* tried in at most eleven steps per provider and three, however often a   *)
(* refit still measures too much and whichever providers fail.             *)
THEOREM FittingIsFinite == PromptSpec => [][AttemptsLeft' \in Nat /\ AttemptsLeft' < AttemptsLeft]_promptVars
  <1>1. PromptInv /\ [PromptNext]_promptVars => [AttemptsLeft' \in Nat /\ AttemptsLeft' < AttemptsLeft]_promptVars
    BY AttemptIsProgress
  <1>2. QED
    BY <1>1, PromptAlways, PTL DEF PromptSpec
=============================================================================
