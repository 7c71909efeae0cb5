---------------------------- MODULE MCPromptFit ----------------------------
EXTENDS PromptFit, Wiring

(* The default configuration: a Groq key on the free tier, then Gemini and *)
(* NVIDIA, whose models have no registered window.                         *)
groq == [percent |-> 100, registered |-> FALSE, window |-> 32768,
         output |-> 2048, app |-> 150000, tpm |-> 8000]
gemini == [groq EXCEPT !.percent = 97, !.output = 8192, !.tpm = 0]
nvidia == [groq EXCEPT !.output = 8192, !.tpm = 0]

(* A registered Gemini model with a small budget of its own, and a Groq    *)
(* key whose answers may use up its rate limit.                            *)
flash == [gemini EXCEPT !.registered = TRUE, !.window = 1048576, !.app = 14000]
stalled == [groq EXCEPT !.output = 8192]

(* Deployments, and the budgets their models have.  In the third Gemini    *)
(* has no key; in the last the order names one model twice.                *)
gpt == Item("groq:gpt-oss-120b", "groq")

Keys == {"groq", "gemini", "nvidia"}
Default == [order |-> <<gpt, Gemini, Nvidia>>, keys |-> Keys, nvidia |-> TRUE,
            model |-> gpt.name, fallback |-> "gemini"]
Models == [groq |-> groq, gemini |-> gemini, nvidia |-> nvidia]

Deployments ==
    { [settings |-> Default, models |-> Models],
      [settings |-> [Default EXCEPT !.order = <<Gemini, gpt, Nvidia>>, !.nvidia = FALSE],
       models |-> [Models EXCEPT !.gemini = flash]],
      [settings |-> [Default EXCEPT !.order = <<Nvidia, Gemini, gpt>>, !.keys = {"nvidia", "groq"}],
       models |-> Models],
      [settings |-> [Default EXCEPT !.order = <<Gemini, gpt>>],
       models |-> [Models EXCEPT !.groq = stalled]],
      [settings |-> [Default EXCEPT !.order = <<gpt, Gemini, gpt>>],
       models |-> [Models EXCEPT !.groq = stalled]] }

MCChains ==
    { LET entries == Candidates(d.settings) IN [i \in DOMAIN entries |-> d.models[entries[i].provider]] :
        d \in Deployments }

Conversation(sizes) == [i \in DOMAIN sizes |-> [id |-> i, size |-> sizes[i]]]

Sized(query, docs, extras, draft) ==
    [n \in SectionNames |->
        CASE n = "system" -> 742
          [] n = "user_query" -> query
          [] n = "retrieval" -> docs
          [] n = "draft_content" -> draft
          [] n \in {"conversation_history", "conversation_summary"} -> 0
          [] n \in {"document_notice", "language_reminder", "conversation_anchors"} -> IF extras > 0 THEN 40 ELSE 0
          [] OTHER -> extras]

MCInputs ==
    {[size |-> [Sized(q, d, e, w) EXCEPT !["conversation_summary"] = s],
      history |-> Conversation(h), files |-> f] :
        q \in {300, 5200}, d \in {0, 4700, 9000}, e \in {0, 420}, w \in {0, 900}, s \in {0, 300},
        h \in {<<>>, <<500, 30, 700, 250>>, <<6000, 900, 4000, 800, 3000>>}, f \in BOOLEAN}
=============================================================================
