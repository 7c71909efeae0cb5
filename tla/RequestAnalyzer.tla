--------------------------- MODULE RequestAnalyzer ---------------------------
(***************************************************************************)
(* RequestAnalyzer (app/request_analyzer/analyzer.py): the plan of a turn  *)
(* comes from Groq, behind the analyzer's own circuit breaker and two      *)
(* attempts, else from the first of the fallbacks that gives a readable    *)
(* one (the other Groq models, Gemini, NVIDIA; none of them behind a       *)
(* breaker), else from SafeDefaultFactory.                                 *)
(*                                                                         *)
(* A plan is the rung it came from; what is in it and the overrides are in *)
(* ResponseModes.  A timeout is a failure at any moment.                   *)
(***************************************************************************)
EXTENDS CircuitBreaker, Sequences

CONSTANTS
    Tasks,          \* tasks that analyze a request
    Fallbacks,      \* fallback_clients, fallback_adapters, nvidia_adapter
    MaxAttempts     \* max_attempts of the retry policy

ASSUME AnalyzerConstantsOK ==
    /\ MaxAttempts \in Nat \ {0}
    /\ Fallbacks \in Seq(STRING)
    /\ \A i, j \in DOMAIN Fallbacks : Fallbacks[i] = Fallbacks[j] => i = j
    /\ \A i \in DOMAIN Fallbacks : Fallbacks[i] \notin {"none", "groq", "default"}

VARIABLES
    at,         \* where the analysis of each task is
    rung,       \* the fallback a turn is at, past the last one: none is left
    tries,      \* attempts at Groq begun by a turn
    planner,    \* who made the plan of a turn
    breaker,    \* the analyzer's circuit breaker
    heard,      \* history: who failed a turn
    fresh       \* history: Groq calls ended well since the last counted failure

analyzerVars == <<at, rung, tries, planner, breaker, heard, fresh>>

Rungs == DOMAIN Fallbacks
Names == {Fallbacks[i] : i \in Rungs}

(* What may go wrong at Groq: a rate limit or a timeout, an API error with *)
(* a status of retriable_status_codes, anything else (a refused key, an    *)
(* empty answer, a lost connection: groq_client wraps it without status).  *)
Failures == {"transient", "server", "other"}

AnalyzerInit ==
    /\ at = [t \in Tasks |-> "idle"]
    /\ rung = [t \in Tasks |-> 0]
    /\ tries = [t \in Tasks |-> 0]
    /\ planner = [t \in Tasks |-> "none"]
    /\ breaker = Fresh
    /\ heard = [t \in Tasks |-> {}]
    /\ fresh = 0

(* is_retriable with the retry policy, and without it in the breaker. *)
Retried(failure) == failure \in {"transient", "server"}
Counted(failure) == failure = "transient"

(* Mutated form: without Groq there is no plan but the default one. *)
DefaultAtOnce(t, r) ==
    /\ at' = [at EXCEPT ![t] = "planned"]
    /\ rung' = rung
    /\ planner' = [planner EXCEPT ![t] = "default"]

(* The next fallback, or the safe default after the last one. *)
Climb(t, r) ==
    /\ rung' = [rung EXCEPT ![t] = r]
    /\ at' = [at EXCEPT ![t] = IF r \in Rungs THEN "fallback" ELSE "planned"]
    /\ planner' = [planner EXCEPT ![t] = IF r \in Rungs THEN @ ELSE "default"]

Planned(t, who) ==
    /\ at' = [at EXCEPT ![t] = "planned"]
    /\ planner' = [planner EXCEPT ![t] = who]
    /\ rung' = rung

-----------------------------------------------------------------------------
(* analyze: call() lets the turn through to Groq or raises CircuitOpenError.*)
Admit(t) ==
    /\ at[t] = "idle"
    /\ IF IsOpen(breaker)
       THEN /\ Climb(t, 1)
            /\ heard' = [heard EXCEPT ![t] = {"groq"}]
            /\ UNCHANGED <<tries, breaker>>
       ELSE /\ at' = [at EXCEPT ![t] = "groq"]
            /\ tries' = [tries EXCEPT ![t] = 1]
            /\ breaker' = Entered(breaker)
            /\ UNCHANGED <<rung, planner, heard>>
    /\ UNCHANGED fresh

(* Groq answers, which the breaker counts before anyone reads the answer.  *)
GroqAnswers(t, readable) ==
    /\ at[t] = "groq"
    /\ breaker' = OnSuccess(breaker)
    /\ fresh' = IF fresh < SuccessThreshold THEN fresh + 1 ELSE fresh
    /\ IF readable
       THEN Planned(t, "groq") /\ UNCHANGED heard
       ELSE Climb(t, 1) /\ heard' = [heard EXCEPT ![t] = {"groq"}]
    /\ UNCHANGED tries

(* Mutated form: a failure worth a retry is always retried. *)
LastTryNever(t, failure) == ~Retried(failure)

LastTry(t, failure) == tries[t] >= MaxAttempts \/ ~Retried(failure)

(* Groq fails: retried after a delay, or the breaker counts what escapes   *)
(* from execute_with_retry.                                                *)
GroqFails(t, failure) ==
    /\ at[t] = "groq"
    /\ IF LastTry(t, failure)
       THEN /\ Climb(t, 1)
            /\ heard' = [heard EXCEPT ![t] = {"groq"}]
            /\ breaker' = IF Counted(failure) THEN OnFailure(breaker) ELSE breaker
            /\ fresh' = IF Counted(failure) THEN 0 ELSE fresh
       ELSE /\ at' = [at EXCEPT ![t] = "waiting"]
            /\ UNCHANGED <<rung, planner, heard, breaker, fresh>>
    /\ UNCHANGED tries

DelayOver(t) ==
    /\ at[t] = "waiting"
    /\ at' = [at EXCEPT ![t] = "groq"]
    /\ tries' = [tries EXCEPT ![t] = IF @ < MaxAttempts THEN @ + 1 ELSE @]
    /\ UNCHANGED <<rung, planner, breaker, heard, fresh>>

FallbackPlans(t) ==
    /\ at[t] = "fallback"
    /\ Planned(t, Fallbacks[rung[t]])
    /\ UNCHANGED <<tries, breaker, heard, fresh>>

(* It fails, takes too long or answers without a readable plan. *)
FallbackFails(t) ==
    /\ at[t] = "fallback"
    /\ heard' = [heard EXCEPT ![t] = @ \union {Fallbacks[rung[t]]}]
    /\ Climb(t, rung[t] + 1)
    /\ UNCHANGED <<tries, breaker, fresh>>

(* analyze returns, and the task goes on with another request. *)
Return(t) ==
    /\ at[t] = "planned"
    /\ at' = [at EXCEPT ![t] = "idle"]
    /\ rung' = [rung EXCEPT ![t] = 0]
    /\ tries' = [tries EXCEPT ![t] = 0]
    /\ planner' = [planner EXCEPT ![t] = "none"]
    /\ heard' = [heard EXCEPT ![t] = {}]
    /\ UNCHANGED <<breaker, fresh>>

CoolDown ==
    /\ breaker' = Cool(breaker)
    /\ UNCHANGED <<at, rung, tries, planner, heard, fresh>>

Proceed(t) ==
    \/ \E readable \in BOOLEAN : GroqAnswers(t, readable)
    \/ \E failure \in Failures : GroqFails(t, failure)
    \/ DelayOver(t) \/ FallbackPlans(t) \/ FallbackFails(t) \/ Return(t)

AnalyzerNext == CoolDown \/ \E t \in Tasks : Admit(t) \/ Proceed(t)

(* Every call a task waits for ends: the clients and the adapters time out *)
(* (wait_for around the fallbacks), and the event loop runs every task.    *)
AnalyzerSpec == AnalyzerInit /\ [][AnalyzerNext]_analyzerVars /\ \A t \in Tasks : WF_analyzerVars(Proceed(t))

-----------------------------------------------------------------------------
(* Types, with the bound on the attempts of a turn at Groq.                *)
AnalyzerTypeOK ==
    /\ at \in [Tasks -> {"idle", "groq", "waiting", "fallback", "planned"}]
    /\ rung \in [Tasks -> Nat]
    /\ tries \in [Tasks -> 0..MaxAttempts]
    /\ planner \in [Tasks -> {"none", "groq", "default"} \union Names]
    /\ breaker \in Breakers
    /\ heard \in [Tasks -> SUBSET ({"groq"} \union Names)]
    /\ fresh \in 0..SuccessThreshold

(* Safety: however the calls of concurrent requests end, the breaker       *)
(* closes only after success_threshold calls ended well since the last     *)
(* failure it counted: a probe that succeeds before another one fails      *)
(* lends nothing to the next recovery (CircuitBreaker.call, on_success).   *)
ClosesOnFreshSuccesses ==
    [][breaker.state = "half" /\ breaker'.state = "closed" => fresh' >= SuccessThreshold]_analyzerVars

(* The rungs above the one a plan came from. *)
Above(who) ==
    IF who = "groq" THEN {}
    ELSE {"groq"} \union {Fallbacks[i] : i \in {i \in Rungs : \A j \in 1..i : Fallbacks[j] # who}}

(* Safety: whatever the breaker of Groq says, a request gets the plan of   *)
(* the first provider that could make one, and the safe default only after *)
(* all failed it (RequestAnalyzer.analyze: "before giving up to            *)
(* SafeDefaultPlan").                                                      *)
FirstThatCould == \A t \in Tasks : at[t] = "planned" => heard[t] = Above(planner[t])

(* Liveness: every analysis ends with a plan, whatever fails ("Guaranteed  *)
(* to return a valid ExecutionPlan (never raises)").                       *)
PlanMade == \A t \in Tasks : at[t] = "groq" ~> at[t] = "planned"
=============================================================================
