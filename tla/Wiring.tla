-------------------------------- MODULE Wiring --------------------------------
(***************************************************************************)
(* Which providers a deployment works with: what lifespan (app/main.py)    *)
(* makes of the API keys, the provider order and the switches of           *)
(* LLMServiceConfig before the service takes its first request.  The       *)
(* constants of ProviderChain, GenerationRouter, PromptFit and             *)
(* RequestAnalyzer are values of these operators.                          *)
(*                                                                         *)
(* settings is a record: keys, the providers that have an API key; nvidia, *)
(* ENABLE_NVIDIA; order, GENERATION_PROVIDER_ORDER; model, the Groq model  *)
(* of the analyzer; fallback, GENERATION_FALLBACK_PROVIDER.                *)
(***************************************************************************)
EXTENDS Integers, SequencesExt

(* An item of the order: "groq:<model>", "gemini", "nvidia", or a name     *)
(* nobody knows.                                                           *)
Item(name, provider) == [name |-> name, provider |-> provider]

Gemini == Item("gemini", "gemini")
Nvidia == Item("nvidia", "nvidia")

(* generation_order_list: an item counts where it comes first. *)
Order(settings) ==
    FoldLeft(LAMBDA seen, i : IF Contains(seen, i) THEN seen ELSE Append(seen, i), <<>>, settings.order)

(* groq_order_models *)
GroqItems(settings) == SelectSeq(Order(settings), LAMBDA i : i.provider = "groq")

(* The rungs below Groq of the request analyzer: the other Groq models,    *)
(* Gemini when it has a key, and NVIDIA, with a key or without one and     *)
(* whether it is enabled or not.                                           *)
AnalysisFallbacks(settings) ==
    (IF "groq" \in settings.keys
     THEN SelectSeq(GroqItems(settings), LAMBDA i : i.name # settings.model) ELSE <<>>)
    \o (IF "gemini" \in settings.keys THEN <<Gemini>> ELSE <<>>)
    \o <<Nvidia>>

(* The entries of the provider chain. *)
Configured(item, settings) ==
    /\ item.provider \in settings.keys
    /\ item.provider = "nvidia" => settings.nvidia

ChainEntries(settings) == SelectSeq(Order(settings), LAMBDA i : Configured(i, settings))

(* The router of two slots that answers when the chain has no entry.  Its  *)
(* providers need no key; without one each of their calls fails.           *)
Primary(settings) == IF settings.nvidia THEN Nvidia ELSE Item(settings.model, "groq")

Secondary(settings) == IF settings.fallback = "groq" THEN Item(settings.model, "groq") ELSE Gemini

HasFallback(settings) ==
    settings.fallback # "none" /\ Secondary(settings) # Primary(settings)

(* _provider_candidates: whom the pipeline fits the prompt to.  The        *)
(* second slot of the router is not among them.                            *)
Candidates(settings) ==
    IF ChainEntries(settings) # <<>> THEN ChainEntries(settings) ELSE <<Primary(settings)>>
=============================================================================
