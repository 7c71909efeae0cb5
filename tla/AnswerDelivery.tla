---------------------------- MODULE AnswerDelivery ----------------------------
(***************************************************************************)
(* What one request promises the Conversation Service, seen from the Kafka *)
(* topics: text appears in the order the provider produced it and without  *)
(* gaps, a success event only comes when all of it has appeared, and after *)
(* an error event nothing changes any more.                                *)
(***************************************************************************)
EXTENDS Integers

VARIABLES
    produced,   \* pieces of text the provider has yielded
    shown,      \* pieces of text that are on the chunk topic
    outcome     \* open, answered, failed, retracted (an error event after
                \* the success event) or silent (the run ended unheard)

vars == <<produced, shown, outcome>>

Outcomes == {"open", "answered", "failed", "retracted", "silent"}

Init == produced = 0 /\ shown = 0 /\ outcome = "open"

(* Whatever step meets a dead publisher is the last one, and unheard. *)
GoesOn == outcome = "open" /\ outcome' \in {"open", "silent"}

Produce ==
    /\ GoesOn
    /\ produced' = produced + 1
    /\ UNCHANGED shown

Show ==
    /\ GoesOn
    /\ shown' \in shown + 1 .. produced
    /\ UNCHANGED produced

Conclude ==
    /\ \/ outcome = "open" /\ shown = produced /\ outcome' = "answered"
       \/ outcome = "open" /\ outcome' \in {"failed", "silent"}
       \/ outcome = "answered" /\ outcome' = "retracted"
    /\ UNCHANGED <<produced, shown>>

Next == Produce \/ Show \/ Conclude

Spec == Init /\ [][Next]_vars
=============================================================================
