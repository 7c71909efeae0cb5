---------------------------- MODULE ProviderChain ----------------------------
(***************************************************************************)
(* ProviderChain.generate_stream (app/providers/chain.py): concurrent      *)
(* requests try the providers in order, each provider behind a circuit     *)
(* breaker that all requests share.  The chain uses only is_open,          *)
(* on_success and on_failure of a breaker, never its call() guard.         *)
(*                                                                         *)
(* From one await on the provider's stream to the next the code runs       *)
(* without suspending: recording a failure, skipping the providers that    *)
(* are open or too small and starting the next stream are one step.        *)
(***************************************************************************)
EXTENDS CircuitBreaker

CONSTANTS
    Requests,   \* concurrent callers of generate_stream
    Last        \* number of providers; provider 1 is the first choice

ASSUME ChainOK == Last \in Nat \ {0}

Providers == 1..Last

VARIABLES
    breaker,    \* the breaker of each provider
    sick,       \* providers that are failing right now
    pc,         \* idle, trying (no token yet), streaming, answered, failed
    at,         \* provider whose stream the request consumes
    fits,       \* providers whose context budget takes the request's prompt
    spoke,      \* history: providers whose tokens the request yielded
    skipped,    \* history: providers the request gave up on or passed over
    streak      \* history: successes since a provider's last failure cooled

vars == <<breaker, sick, pc, at, fits, spoke, skipped, streak>>

Init ==
    /\ breaker = [p \in Providers |-> Fresh]
    /\ sick = {}
    /\ pc = [r \in Requests |-> "idle"]
    /\ at = [r \in Requests |-> 1]
    /\ fits = [r \in Requests |-> {}]
    /\ spoke = [r \in Requests |-> {}]
    /\ skipped = [r \in Requests |-> {}]
    /\ streak = [p \in Providers |-> 0]

-----------------------------------------------------------------------------
(* The for loop, from provider `from' to the next stream it opens, or to   *)
(* AllProvidersFailedError when it runs off the end; `behind' are the      *)
(* providers the request has done with, b the breakers as they are now.    *)
Advance(r, behind, from, fitting, b) ==
    LET usable == {p \in from..Last : ~IsOpen(b[p]) /\ p \in fitting} IN
    \/ /\ usable = {}
       /\ pc' = [pc EXCEPT ![r] = "failed"]
       /\ skipped' = [skipped EXCEPT ![r] = behind \union from..Last]
       /\ UNCHANGED at
    \/ \E p \in usable :
       /\ \A q \in usable : p <= q
       /\ pc' = [pc EXCEPT ![r] = "trying"]
       /\ at' = [at EXCEPT ![r] = p]
       /\ skipped' = [skipped EXCEPT ![r] = behind \union from..p - 1]

(* The pipeline calls the chain only with a prompt that fits some provider *)
(* (_fit_to_first_fitting_provider).                                       *)
Start(r) ==
    /\ pc[r] \in {"idle", "answered", "failed"}
    /\ \E fitting \in (SUBSET Providers) \ {{}} :
        /\ fits' = [fits EXCEPT ![r] = fitting]
        /\ Advance(r, {}, 1, fitting, breaker)
    /\ spoke' = [spoke EXCEPT ![r] = {}]
    /\ UNCHANGED <<breaker, sick, streak>>

(* The first token: the breaker hears of the success, the token goes out. *)
FirstToken(r) ==
    /\ pc[r] = "trying"
    /\ breaker' = [breaker EXCEPT ![at[r]] = OnSuccess(@)]
    /\ streak' = [streak EXCEPT ![at[r]] =
                     IF breaker[at[r]].cooling \/ @ = SuccessThreshold THEN @ ELSE @ + 1]
    /\ pc' = [pc EXCEPT ![r] = "streaming"]
    /\ spoke' = [spoke EXCEPT ![r] = @ \union {at[r]}]
    /\ UNCHANGED <<sick, at, fits, skipped>>

(* The stream ends; one that never produced a token ends the same way. *)
StreamEnds(r) ==
    /\ pc[r] \in {"trying", "streaming"}
    /\ pc' = [pc EXCEPT ![r] = "answered"]
    /\ UNCHANGED <<breaker, sick, at, fits, spoke, skipped, streak>>

(* Mutated form: the loop index is advanced twice after a failure. *)
FailsSkipsOne(r) ==
    /\ pc[r] \in {"trying", "streaming"}
    /\ at[r] \in sick
    /\ breaker' = [breaker EXCEPT ![at[r]] = OnFailure(@)]
    /\ streak' = [streak EXCEPT ![at[r]] = 0]
    /\ \/ /\ pc[r] = "trying"
          /\ Advance(r, skipped[r] \union {at[r]}, at[r] + 2, fits[r], breaker')
       \/ pc[r] = "streaming" /\ pc' = [pc EXCEPT ![r] = "failed"] /\ UNCHANGED <<at, skipped>>
    /\ UNCHANGED <<sick, fits, spoke>>

(* Mutated form: the chain moves on after text has been streamed. *)
FailsMidAnswer(r) ==
    /\ pc[r] \in {"trying", "streaming"}
    /\ at[r] \in sick
    /\ breaker' = [breaker EXCEPT ![at[r]] = OnFailure(@)]
    /\ streak' = [streak EXCEPT ![at[r]] = 0]
    /\ Advance(r, skipped[r] \union {at[r]}, at[r] + 1, fits[r], breaker')
    /\ UNCHANGED <<sick, fits, spoke>>

(* An error or a missed deadline: before the first token the next provider *)
(* is tried, after it the error is raised.                                 *)
ProviderFails(r) ==
    /\ pc[r] \in {"trying", "streaming"}
    /\ at[r] \in sick
    /\ breaker' = [breaker EXCEPT ![at[r]] = OnFailure(@)]
    /\ streak' = [streak EXCEPT ![at[r]] = 0]
    /\ \/ /\ pc[r] = "trying"
          /\ Advance(r, skipped[r] \union {at[r]}, at[r] + 1, fits[r], breaker')
       \/ pc[r] = "streaming" /\ pc' = [pc EXCEPT ![r] = "failed"] /\ UNCHANGED <<at, skipped>>
    /\ UNCHANGED <<sick, fits, spoke>>

(* The consumer failed to publish a chunk and drops the generator, which   *)
(* no `except Exception' sees.                                             *)
ConsumerGone(r) ==
    /\ pc[r] = "streaming"
    /\ pc' = [pc EXCEPT ![r] = "failed"]
    /\ UNCHANGED <<breaker, sick, at, fits, spoke, skipped, streak>>

(* Environment: the recovery timeout of p's last failure expires; a        *)
(* provider starts or stops failing.                                       *)
TimePasses(p) ==
    /\ breaker[p].cooling
    /\ breaker' = [breaker EXCEPT ![p] = Cool(@)]
    /\ UNCHANGED <<sick, pc, at, fits, spoke, skipped, streak>>

HealthChanges(p) ==
    /\ sick' = IF p \in sick THEN sick \ {p} ELSE sick \union {p}
    /\ UNCHANGED <<breaker, pc, at, fits, spoke, skipped, streak>>

RequestStep(r) == FirstToken(r) \/ StreamEnds(r) \/ ProviderFails(r)

Next ==
    \/ \E r \in Requests : Start(r) \/ RequestStep(r) \/ ConsumerGone(r)
    \/ \E p \in Providers : TimePasses(p) \/ HealthChanges(p)

Spec == Init /\ [][Next]_vars

(* The clock advances, and the deadlines of with_deadlines and the token   *)
(* limit of a request end every stream.                                    *)
Fairness ==
    /\ \A p \in Providers : WF_vars(TimePasses(p))
    /\ \A r \in Requests : WF_vars(RequestStep(r))

FairSpec == Spec /\ Fairness

-----------------------------------------------------------------------------
(* Properties. *)

PCs == {"idle", "trying", "streaming", "answered", "failed"}

TypeOK ==
    /\ breaker \in [Providers -> Breakers]
    /\ sick \subseteq Providers
    /\ pc \in [Requests -> PCs]
    /\ at \in [Requests -> Providers]
    /\ fits \in [Requests -> SUBSET Providers]
    /\ spoke \in [Requests -> SUBSET Providers]
    /\ skipped \in [Requests -> SUBSET Providers]
    /\ streak \in [Providers -> 0..SuccessThreshold]

(* "Once any text has been streamed the turn never switches provider (that *)
(* would splice two different answers together)" (chain.py docstring).     *)
OneVoice ==
    \A r \in Requests : pc[r] # "idle" =>
        /\ spoke[r] \subseteq {at[r]}
        /\ pc[r] = "streaming" => spoke[r] = {at[r]}

(* A request that gives up without having shown any text went through      *)
(* every provider: each one failed for it, refused it or was too small.    *)
(* While it runs, exactly the providers before the current one are behind. *)
TriedInOrder ==
    \A r \in Requests :
        /\ (pc[r] = "failed" /\ spoke[r] = {}) => skipped[r] = Providers
        /\ pc[r] \in {"trying", "streaming"} => skipped[r] = 1..at[r] - 1

(* A closed breaker is below its threshold whatever order the successes    *)
(* and failures of concurrent requests arrive in: no provider is used as   *)
(* healthy after FailureThreshold unanswered failures.                     *)
ClosedBelowThreshold ==
    \A p \in Providers : breaker[p].state = "closed" => breaker[p].failures < FailureThreshold

(* A first-choice provider that recovers gets its requests back: once it   *)
(* stops failing for good, every request whose prompt fits it is           *)
(* eventually served by it and never again by a fallback.                  *)
FirstChoiceReturns ==
    <>[](1 \notin sick) =>
        <>[](\A r \in Requests : (pc[r] \in {"trying", "streaming"} /\ 1 \in fits[r]) => at[r] = 1)

(* docs/updates/task_update2.md 3.4: "HALF_OPEN: After 30 seconds recovery *)
(* window, permits probe requests. Closes after 2 consecutive probe        *)
(* successes."  A provider that answered SuccessThreshold times without a  *)
(* failure since it was opened is closed again.                            *)
SuccessesClose ==
    \A p \in Providers : streak[p] >= SuccessThreshold => breaker[p].state # "open"

=============================================================================
