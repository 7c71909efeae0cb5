--------------------------- MODULE MCProviderChain ---------------------------
EXTENDS ProviderChain

W == INSTANCE Wiring

CONSTANTS r1, r2

MCRequests == {r1, r2}
OneRequest == {r1}

(* One Groq model, then Gemini; NVIDIA has a key but is switched off. *)
ASSUME ChainIsWired ==
    Providers = DOMAIN W!ChainEntries(
        [order |-> <<W!Item("groq:gpt", "groq"), W!Gemini, W!Nvidia>>,
         keys |-> {"groq", "gemini", "nvidia"}, nvidia |-> FALSE,
         model |-> "groq:gpt", fallback |-> "gemini"])
=============================================================================
