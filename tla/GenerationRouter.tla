--------------------------- MODULE GenerationRouter ---------------------------
(***************************************************************************)
(* GenerationRouter.generate_stream (app/providers/router.py), which       *)
(* answers when the deployment has no provider chain: a primary provider   *)
(* and, when it is enabled, a fallback, each behind a circuit breaker that *)
(* all requests share.  The prompt is sent to either as it is.             *)
(*                                                                         *)
(* A request reads tokens through with_deadlines: a token that is late is  *)
(* a failure of the provider.  From one read to the next the code does not *)
(* suspend but for the breaker's lock, which nobody holds across an await. *)
(***************************************************************************)
EXTENDS CircuitBreaker

CONSTANTS
    Requests,           \* concurrent callers of generate_stream
    FallbackEnabled     \* fallback_enabled

Primary == 1
Secondary == 2
Slots == IF FallbackEnabled THEN {Primary, Secondary} ELSE {Primary}

VARIABLES
    breaker,    \* the breaker of each slot
    sick,       \* slots whose provider is failing right now
    pc,         \* idle, trying (no token yet), streaming, answered, failed
    slot,       \* whose stream the request reads
    spoke,      \* history: slots whose tokens the request yielded
    skipped,    \* history: slots the request gave up on or passed over
    streak      \* history: successes since a slot's last failure cooled

vars == <<breaker, sick, pc, slot, spoke, skipped, streak>>

Init ==
    /\ breaker = [s \in Slots |-> Fresh]
    /\ sick = {}
    /\ pc = [r \in Requests |-> "idle"]
    /\ slot = [r \in Requests |-> Primary]
    /\ spoke = [r \in Requests |-> {}]
    /\ skipped = [r \in Requests |-> {}]
    /\ streak = [s \in Slots |-> 0]

-----------------------------------------------------------------------------
Leaves(r, how) == pc' = [pc EXCEPT ![r] = how]

Opens(r, s, behind) ==
    /\ pc' = [pc EXCEPT ![r] = "trying"]
    /\ slot' = [slot EXCEPT ![r] = s]
    /\ skipped' = [skipped EXCEPT ![r] = behind]

(* _stream_fallback, with the breakers as they are now: the fallback's     *)
(* stream, or AllProvidersFailedError.                                     *)
FallBack(r, b) ==
    \/ FallbackEnabled /\ ~IsOpen(b[Secondary]) /\ Opens(r, Secondary, {Primary})
    \/ /\ FallbackEnabled => IsOpen(b[Secondary])
       /\ Leaves(r, "failed")
       /\ skipped' = [skipped EXCEPT ![r] = Slots]
       /\ UNCHANGED slot

(* A request begins: the primary, or the fallback when its breaker is open.*)
Begin(r) ==
    /\ pc[r] \in {"idle", "answered", "failed"}
    /\ \/ ~IsOpen(breaker[Primary]) /\ Opens(r, Primary, {})
       \/ IsOpen(breaker[Primary]) /\ FallBack(r, breaker)
    /\ spoke' = [spoke EXCEPT ![r] = {}]
    /\ UNCHANGED <<breaker, sick, streak>>

(* The first token of either stream; later ones change nothing here. *)
FirstToken(r) ==
    /\ pc[r] = "trying"
    /\ breaker' = [breaker EXCEPT ![slot[r]] = OnSuccess(@)]
    /\ streak' = [streak EXCEPT ![slot[r]] =
                     IF breaker[slot[r]].cooling \/ @ = SuccessThreshold THEN @ ELSE @ + 1]
    /\ Leaves(r, "streaming")
    /\ spoke' = [spoke EXCEPT ![r] = @ \union {slot[r]}]
    /\ UNCHANGED <<sick, slot, skipped>>

StreamEnds(r) ==
    /\ pc[r] \in {"trying", "streaming"}
    /\ Leaves(r, "answered")
    /\ UNCHANGED <<breaker, sick, slot, spoke, skipped, streak>>

Counted(s) ==
    /\ breaker' = [breaker EXCEPT ![s] = OnFailure(@)]
    /\ streak' = [streak EXCEPT ![s] = 0]

(* Mutated form: the fallback goes on with the answer of the primary. *)
PrimaryFailsOver(r) ==
    /\ pc[r] \in {"trying", "streaming"} /\ slot[r] = Primary /\ Primary \in sick
    /\ Counted(Primary)
    /\ FallBack(r, breaker')
    /\ UNCHANGED <<sick, spoke>>

(* The primary fails: before its first token the fallback is tried, after  *)
(* it the error is raised.                                                 *)
PrimaryFails(r) ==
    /\ pc[r] \in {"trying", "streaming"} /\ slot[r] = Primary /\ Primary \in sick
    /\ Counted(Primary)
    /\ \/ pc[r] = "trying" /\ FallBack(r, breaker')
       \/ pc[r] = "streaming" /\ Leaves(r, "failed") /\ UNCHANGED <<slot, skipped>>
    /\ UNCHANGED <<sick, spoke>>

(* The fallback fails: AllProvidersFailedError, also after text was shown. *)
FallbackFails(r) ==
    /\ pc[r] \in {"trying", "streaming"} /\ slot[r] = Secondary /\ Secondary \in sick
    /\ Counted(Secondary)
    /\ Leaves(r, "failed")
    /\ skipped' = [skipped EXCEPT ![r] = IF pc[r] = "trying" THEN Slots ELSE @]
    /\ UNCHANGED <<sick, slot, spoke>>

(* The consumer could not publish a chunk and drops the generator. *)
ConsumerGone(r) ==
    /\ pc[r] = "streaming"
    /\ Leaves(r, "failed")
    /\ UNCHANGED <<breaker, sick, slot, spoke, skipped, streak>>

(* Environment: a recovery timeout expires, a provider starts or stops     *)
(* failing.                                                                *)
TimePasses(s) ==
    /\ breaker[s].cooling
    /\ breaker' = [breaker EXCEPT ![s] = Cool(@)]
    /\ UNCHANGED <<sick, pc, slot, spoke, skipped, streak>>

HealthChanges(s) ==
    /\ sick' = IF s \in sick THEN sick \ {s} ELSE sick \union {s}
    /\ UNCHANGED <<breaker, pc, slot, spoke, skipped, streak>>

Next ==
    \/ \E r \in Requests :
        \/ Begin(r) \/ FirstToken(r) \/ StreamEnds(r)
        \/ PrimaryFails(r) \/ FallbackFails(r) \/ ConsumerGone(r)
    \/ \E s \in Slots : TimePasses(s) \/ HealthChanges(s)

Spec == Init /\ [][Next]_vars

-----------------------------------------------------------------------------
(* Properties. *)

TypeOK ==
    /\ breaker \in [Slots -> Breakers]
    /\ sick \subseteq Slots
    /\ pc \in [Requests -> {"idle", "trying", "streaming", "answered", "failed"}]
    /\ slot \in [Requests -> Slots]
    /\ {spoke[r] : r \in Requests} \union {skipped[r] : r \in Requests} \subseteq SUBSET Slots
    /\ streak \in [Slots -> 0..SuccessThreshold]

Chain == INSTANCE ProviderChain WITH
    Last <- IF FallbackEnabled THEN 2 ELSE 1,
    at <- slot,
    fits <- [r \in Requests |-> IF pc[r] = "idle" THEN {} ELSE Slots]

(* The router is a provider chain of one or two providers each of which    *)
(* takes every prompt: what holds for the chain, whatever its length,      *)
(* holds for a deployment that has none (router.py: "once any token has    *)
(* been emitted we never switch provider").                                *)
RouterIsChain == Chain!Spec
=============================================================================
