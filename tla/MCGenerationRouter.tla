-------------------------- MODULE MCGenerationRouter --------------------------
(***************************************************************************)
(* Two requests over the two slots of a deployment without API keys in its *)
(* provider order.                                                         *)
(***************************************************************************)
EXTENDS GenerationRouter

W == INSTANCE Wiring

ASSUME RouterIsWired ==
    LET settings == [order |-> <<>>, keys |-> {"nvidia", "gemini"}, nvidia |-> TRUE,
                     model |-> "groq:gpt", fallback |-> "gemini"]
    IN  W!ChainEntries(settings) = <<>> /\ FallbackEnabled = W!HasFallback(settings)
=============================================================================
