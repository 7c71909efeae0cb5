-------------------------- MODULE MCRequestAnalyzer --------------------------
(***************************************************************************)
(* Three tasks over Groq, one more Groq model and NVIDIA.  The breaker     *)
(* opens at its second failure and closes at its second success; main.py   *)
(* has five failures, two successes and two attempts.                      *)
(***************************************************************************)
EXTENDS RequestAnalyzer, Wiring

(* Two Groq models in the order, no key for Gemini. *)
MCSettings ==
    [order |-> <<Item("groq:gpt", "groq"), Gemini, Item("groq:qwen", "groq")>>, keys |-> {"groq"},
     nvidia |-> FALSE, model |-> "groq:gpt", fallback |-> "gemini"]

MCFallbacks == <<"groq:qwen", "nvidia">>

ASSUME FallbacksAreWired ==
    LET rungs == AnalysisFallbacks(MCSettings)
    IN  MCFallbacks = [i \in DOMAIN rungs |-> rungs[i].name]
=============================================================================
