---------------------------- MODULE CircuitBreaker ----------------------------
(***************************************************************************)
(* CircuitBreaker (app/utils/circuit_breaker.py) as operators on a record. *)
(* Every method holds the asyncio lock without awaiting anything, so each  *)
(* is one atomic function of the breaker.                                  *)
(*                                                                         *)
(* The clock is abstracted to what the code compares it with: `cooling'    *)
(* holds while the last failure is younger than recovery_timeout_seconds.  *)
(* The failure count saturates at the threshold; beyond it the code only   *)
(* asks whether the threshold is reached.                                  *)
(***************************************************************************)
EXTENDS Integers

CONSTANTS
    FailureThreshold,   \* failure_threshold
    SuccessThreshold    \* success_threshold

ASSUME ThresholdsOK ==
    /\ FailureThreshold \in Nat \ {0}
    /\ SuccessThreshold \in Nat \ {0}

States == {"closed", "open", "half"}

Breakers ==
    [state : States, failures : 0..FailureThreshold, successes : 0..SuccessThreshold - 1,
     cooling : BOOLEAN]

(* __init__ and reset. *)
Fresh == [state |-> "closed", failures |-> 0, successes |-> 0, cooling |-> FALSE]

(* Mutated form: the recovery timeout is forgotten. *)
OpenWhateverTheTime(b) == b.state = "open"

(* is_open: past the recovery timeout an OPEN breaker no longer refuses,   *)
(* and stays OPEN.                                                         *)
IsOpen(b) == b.state = "open" /\ b.cooling

(* Mutated form: the successes of an earlier probe still count. *)
EnteredAgain(b) ==
    IF b.state = "open" /\ ~b.cooling THEN [b EXCEPT !.state = "half"] ELSE b

(* call, on entry: past the recovery timeout an OPEN breaker turns         *)
(* HALF_OPEN; before it, it raises CircuitOpenError (IsOpen).              *)
Entered(b) ==
    IF b.state = "open" /\ ~b.cooling
    THEN [b EXCEPT !.state = "half", !.successes = 0] ELSE b

OnSuccess(b) ==
    CASE b.state = "half" /\ b.successes + 1 >= SuccessThreshold ->
            [b EXCEPT !.state = "closed", !.failures = 0, !.successes = 0]
      [] b.state = "half" /\ b.successes + 1 < SuccessThreshold ->
            [b EXCEPT !.successes = @ + 1]
      [] b.state = "closed" /\ b.failures > 0 -> [b EXCEPT !.failures = @ - 1]
      [] OTHER -> b

AddFailure(b) == IF b.failures < FailureThreshold THEN b.failures + 1 ELSE FailureThreshold

(* Mutated form: the threshold is compared before the failure is counted. *)
LateFailure(b) ==
    [b EXCEPT !.failures = AddFailure(b),
              !.cooling = TRUE,
              !.state = IF @ = "half" \/ b.failures >= FailureThreshold THEN "open" ELSE @]

OnFailure(b) ==
    [b EXCEPT !.failures = AddFailure(b),
              !.cooling = TRUE,
              !.state = IF @ = "half" \/ AddFailure(b) >= FailureThreshold THEN "open" ELSE @]

(* recovery_timeout_seconds have passed since the last failure. *)
Cool(b) == [b EXCEPT !.cooling = FALSE]
=============================================================================
