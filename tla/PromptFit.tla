------------------------------ MODULE PromptFit ------------------------------
(***************************************************************************)
(* How a request's prompt is fitted to the provider that will answer: the  *)
(* sections PromptBuilder composes (app/prompts/builder.py), the budget of *)
(* a provider (context_window/budget_policy.py), the compaction of the     *)
(* history (compaction.py), priority trimming (trimmer.py, manager.py) and *)
(* the refits of fit.py, first for the first provider that can take the    *)
(* prompt (RequestPipeline._fit_to_first_fitting_provider), then, from     *)
(* that prompt, for every provider ProviderChain tries.                    *)
(*                                                                         *)
(* Text is its number of tokens: `raw' is what the text measures, `count'  *)
(* the token_count the section carries.  Prose is made of lines of Line    *)
(* tokens; a message of the history has a number (0 is the note that       *)
(* stands for condensed messages) and a size.                              *)
(***************************************************************************)
EXTENDS Integers, Selection

CONSTANTS
    Inputs,         \* what may be composed: [size, history, files]
    Chains,         \* configured provider chains
    MinRecent,      \* context_compaction_min_recent_messages
    LegacyCap,      \* prompt_token_budget, 0 when there is none
    Line,           \* tokens of a line of prose
    Separator,      \* tokens of the blank line between two sections
    NoticeTitle,    \* title of the document notice, left out of its count
    HistoryHeader,  \* tokens of HISTORY_HEADER
    RolePrefix,     \* tokens of "User: "
    NoteHeader,     \* tokens of NOTE_HEADER
    NoteLine        \* tokens of LINE_CLIP_CHARS characters

Lesser(a, b) == IF a <= b THEN a ELSE b
Greater(a, b) == IF a <= b THEN b ELSE a
Added(numbers) == FoldLeft(LAMBDA a, b : a + b, 0, numbers)

(* The sections _build_sections composes, in its order.  Floor: the        *)
(* trimmer's SECTION_MINIMUMS.                                             *)
Section(name, priority, locked, floor) ==
    [name |-> name, priority |-> priority, locked |-> locked, floor |-> floor]

Layout == <<
    Section("system", 10, TRUE, 0),
    Section("long_term_memory", 7, FALSE, 100),
    Section("conversation_summary", 8, FALSE, 0),
    Section("conversation_anchors", 9, TRUE, 0),
    Section("retrieved_history", 6, FALSE, 0),
    Section("inherited_context", 7, FALSE, 0),
    Section("graph_context", 5, FALSE, 0),
    Section("retrieval", 5, FALSE, 0),
    Section("document_notice", 9, TRUE, 0),
    Section("tool_results", 6, FALSE, 50),
    Section("draft_content", 9, FALSE, 200),
    Section("conversation_history", 8, FALSE, 200),
    Section("language_reminder", 10, TRUE, 0),
    Section("user_query", 10, TRUE, 0) >>

SectionNames == {s.name : s \in ToSet(Layout)}
Locked == {s.name : s \in {t \in ToSet(Layout) : t.locked}}
Floor(n) == (CHOOSE s \in ToSet(Layout) : s.name = n).floor

(* The sum of what the sections of a prompt count. *)
Total(count) == Added([i \in DOMAIN Layout |-> count[Layout[i].name]])

Sizes == [SectionNames -> Nat]
Messages == Seq([id : Nat, size : Nat])
Prompt == [raw : Sizes, count : Sizes, history : Messages]

(* A model's multiplier, 100 or Gemini's 97, whether its window is          *)
(* registered, its window and output limit, the application's limit and    *)
(* the provider's rate, 0 when there is none.                              *)
Providers == [percent : 1..100, registered : BOOLEAN,
              window : Nat, output : Nat, app : Nat, tpm : Nat]

ASSUME PromptConstantsOK ==
    /\ MinRecent \in Nat \ {0} /\ LegacyCap \in Nat /\ Line \in Nat \ {0}
    /\ {Separator, NoticeTitle, HistoryHeader, RolePrefix, NoteHeader, NoteLine} \subseteq Nat
    /\ Chains \subseteq Seq(Providers) \ {<<>>}
    /\ Inputs \subseteq [size : Sizes, history : Seq([id : Nat \ {0}, size : Nat]), files : BOOLEAN]

(* The section of the user's message begins with its own header. *)
ASSUME QueryOK == \A in \in Inputs : in.size["user_query"] > 0

VARIABLES
    input,      \* what was loaded for the request, never changed
    chain,      \* the configured providers, in order
    pc,         \* budgeting, trimming, routing, sent, answered, failed
    candidate,  \* provider being fitted to or tried
    history,    \* the history held by the workflow result and the context
    composed,   \* the prompt the trimmer starts from
    target,     \* token budget of the next trimming pass
    passes,     \* refit passes done
    fitted,     \* the prompt handed to the provider chain
    sent,       \* the prompt the candidate was sent
    refused,    \* history: providers the first fit gave up on
    skipped     \* history: providers the chain skipped as too small

request == <<input, chain>>
fitting == <<history, composed, target, passes>>
promptVars == <<request, pc, candidate, fitting, fitted, sent, refused, skipped>>

-----------------------------------------------------------------------------
(* TokenCounter.  A provider's multiplier is in percent.                   *)
Calibrated(tokens, percent) ==
    IF tokens = 0 THEN 0 ELSE Greater(1, (tokens * percent) \div 100)

HistoryTokens(h) ==
    IF h = <<>> THEN 0
    ELSE HistoryHeader + Added([i \in DOMAIN h |-> h[i].size + RolePrefix])

(* PromptBuilder.build: every section carries the count of its text but    *)
(* for the notice, whose title is not counted.                             *)
Composed(in, h) ==
    LET count == [in.size EXCEPT !["conversation_history"] = HistoryTokens(h)]
        title == IF in.size["document_notice"] > 0 THEN NoticeTitle ELSE 0
    IN  [count |-> count, history |-> h,
         raw |-> [count EXCEPT !["document_notice"] = @ + title]]

(* compose_messages without prompt_history_as_messages: a system message   *)
(* and a user message that joins every other section; count_messages adds  *)
(* 4 tokens to each and 2 for the answer.                                  *)
Measured(prompt, p) ==
    LET part(n) == IF n = "system" \/ prompt.raw[n] = 0 THEN 0 ELSE prompt.raw[n] + Separator
        joined == Total([n \in SectionNames |-> part(n)]) - Separator
    IN  Calibrated(prompt.raw["system"], p.percent) + Calibrated(joined, p.percent) + 10

(* resolve_context_budget, with the default safety margin of 5%.           *)
InputBudget(p) ==
    LET total  == IF p.app = 0 THEN p.window ELSE Lesser(p.app, p.window)
        window == (total * 95) \div 100 - p.output
        rate   == IF p.tpm = 0 THEN window ELSE Lesser(window, p.tpm - p.output - 200)
    IN  IF LegacyCap = 0 THEN rate ELSE Lesser(rate, LegacyCap)

(* ContextBudgetError: MIN_INPUT_TOKENS. *)
Misconfigured(p) == InputBudget(p) < 1000

(* BudgetCalculator: what manage never exceeds, whatever it is asked.      *)
WindowBudget(p) == Greater(500, (p.window * 95) \div 100 - p.output)

-----------------------------------------------------------------------------
(* PriorityTrimmer. *)

(* Mutated form: attached documents go first. *)
PriorityOfType(s, in) == s.priority

(* Passages of attached documents are cut last. *)
Priority(s, in) == IF s.name = "retrieval" /\ in.files THEN 9 ELSE s.priority

Trimmable(in) ==
    FlattenSeq([k \in 1..9 |->
        Selected(Layout, {s \in ToSet(Layout) : ~s.locked /\ Priority(s, in) = k})])

(* _keep_whole_lines: whole lines from the start, or a cut at a word       *)
(* boundary when not even the first line fits.                             *)
WholeLines(tokens, budget, percent) ==
    LET lines == budget \div (Calibrated(Line, percent) + 1)
    IN  Lesser(tokens, IF lines > 0 THEN lines * (Line + 1) ELSE (budget * 100) \div percent)

(* Mutated form: cut from the end, as other sections are. *)
OldestThatFit(h, budget, percent) ==
    LET fits == {k \in 0..Len(h) : Calibrated(HistoryTokens(SubSeq(h, 1, k)), percent) <= budget}
    IN  SubSeq(h, 1, CHOOSE k \in fits : \A j \in fits : j <= k)

(* _shrink_history: the oldest messages go first, the rest stay whole.     *)
NewestThatFit(h, budget, percent) ==
    LET from(k) == SubSeq(h, k, Len(h))
        fits == {k \in 1..Len(h) + 1 : Calibrated(HistoryTokens(from(k)), percent) <= budget}
    IN  from(CHOOSE k \in fits : \A j \in fits : k <= j)

(* One section of trim's loop.  The excess shrinks by what was asked of    *)
(* the section, not by what the section lost.                              *)
Cut(state, s, percent) ==
    LET n == s.name
        prompt == state.prompt
        cut == Lesser(Greater(0, prompt.count[n] - s.floor), state.excess)
        budget == prompt.count[n] - cut
        kept == IF budget = 0 THEN <<>> ELSE NewestThatFit(prompt.history, budget, percent)
        tokens == IF n = "conversation_history" THEN HistoryTokens(kept)
                  ELSE IF budget = 0 THEN 0 ELSE WholeLines(prompt.raw[n], budget, percent)
    IN  IF cut <= 0 THEN state
        ELSE [excess |-> state.excess - cut,
              prompt |-> [raw |-> [prompt.raw EXCEPT ![n] = tokens],
                          count |-> [prompt.count EXCEPT ![n] = Calibrated(tokens, percent)],
                          history |-> IF n = "conversation_history" THEN kept ELSE prompt.history]]

CutAll(state, sections, percent) == FoldLeft(LAMBDA st, s : Cut(st, s, percent), state, sections)

(* An unregistered model is counted as "nvidia". *)
TrimPercent(p) == IF p.registered THEN p.percent ELSE 100

(* ContextWindowManager.manage: trim to the budget, or to the model's      *)
(* window when that is smaller.  An overflow shows as a count above the    *)
(* budget.                                                                 *)
Managed(prompt, in, p, budget) ==
    LET limit == Lesser(budget, WindowBudget(p))
        excess == Total(prompt.count) - limit
        start == [prompt |-> prompt, excess |-> excess]
        cut == CutAll(start, Trimmable(in), TrimPercent(p)).prompt
        final == IF excess <= 0 THEN prompt ELSE cut
    IN  [prompt |-> final, overflow |-> Total(final.count) > limit]

-----------------------------------------------------------------------------
(* compact_history: the newest messages stay, at least MinRecent of them;  *)
(* the others shrink to a line each of a note, the newest lines first.     *)
MessageTokens(h, p) == Added([i \in DOMAIN h |-> Calibrated(h[i].size, p.percent) + 4])

(* The messages themselves, without a note on others. *)
Verbatim(h) == Selected(h, {m \in ToSet(h) : m.id # 0})

Note(older, room, p) ==
    LET said == Verbatim(older)
        cost == [i \in DOMAIN said |->
                    Calibrated(Lesser(said[i].size, NoteLine) + RolePrefix, p.percent) + 1]
        header == Calibrated(NoteHeader, p.percent) + 4
        size(k) == Added(SubSeq(cost, k, Len(cost)))
        fits == {k \in DOMAIN said : header + size(k) <= room}
    IN  IF fits = {} THEN <<>>
        ELSE LET k == CHOOSE i \in fits : \A j \in fits : i <= j
             IN  << [id |-> 0, size |-> NoteHeader + size(k)] >>

Compacted(h, room, summarized, p) ==
    LET share == (room * (IF summarized THEN 10 ELSE 30)) \div 100
        from(k) == SubSeq(h, k, Len(h))
        stays == {k \in DOMAIN h : \/ Len(h) - k < MinRecent
                                   \/ MessageTokens(from(k), p) <= room - share}
        kept == from(CHOOSE k \in stays : \A j \in stays : k <= j)
        older == SubSeq(h, 1, Len(h) - Len(kept))
    IN  IF MessageTokens(h, p) <= room \/ older = <<>> THEN h
        ELSE Note(older, Greater(0, room - MessageTokens(kept, p)), p) \o kept

(* fit_prompt: compaction is tried from 85% of the budget and aims at 65%. *)
CompactionDue(prompt, p) ==
    LET estimate == Measured(prompt, p)
    IN  estimate >= (InputBudget(p) * 85) \div 100 \/ estimate > InputBudget(p)

CompactionOf(prompt, h, in, p) ==
    LET others == Measured(prompt, p) - MessageTokens(h, p)
    IN  Compacted(h, Greater(0, (InputBudget(p) * 65) \div 100 - others),
                  in.size["conversation_summary"] > 0, p)

-----------------------------------------------------------------------------
Empty == [raw |-> [n \in SectionNames |-> 0], count |-> [n \in SectionNames |-> 0], history |-> <<>>]

PromptInit ==
    /\ input \in Inputs
    /\ chain \in Chains
    /\ pc = "budgeting"
    /\ candidate = 1
    /\ history = input.history
    /\ composed = Composed(input, input.history)
    /\ target = 0
    /\ passes = 0
    /\ fitted = Empty
    /\ sent = Empty
    /\ refused = {}
    /\ skipped = {}

Fail ==
    /\ pc' = "failed"
    /\ UNCHANGED <<request, candidate, fitting, fitted, sent, refused, skipped>>

(* ContextBudgetError is no ContextOverflowError: the loop over the        *)
(* providers does not catch it.                                            *)
BudgetError ==
    /\ pc = "budgeting" /\ Misconfigured(chain[candidate])
    /\ Fail

(* The budget and the compaction.  Only the pipeline's local prompt is     *)
(* recomposed; the history of the result and the context is replaced.  A   *)
(* compaction that raises, before or after that, leaves the prompt as is.  *)
Budget ==
    /\ pc = "budgeting" /\ ~Misconfigured(chain[candidate])
    /\ LET p == chain[candidate]
           h == CompactionOf(composed, history, input, p)
       IN  IF CompactionDue(composed, p) /\ history # <<>> /\ h # history
           THEN \/ history' = h /\ composed' = Composed(input, h)
                \/ history' \in {history, h} /\ UNCHANGED composed
           ELSE UNCHANGED <<history, composed>>
    /\ pc' = "trimming"
    /\ target' = InputBudget(chain[candidate])
    /\ passes' = 0
    /\ UNCHANGED <<request, candidate, fitted, sent, refused, skipped>>

(* The prompt overflows this provider: the next one starts from the prompt *)
(* as the pipeline composed it, and from the history as it is now.         *)
Refuse ==
    /\ refused' = refused \union {candidate}
    /\ IF candidate < Len(chain)
       THEN /\ pc' = "budgeting"
            /\ candidate' = candidate + 1
            /\ composed' = Composed(input, input.history)
       ELSE /\ pc' = "failed"
            /\ UNCHANGED <<candidate, composed>>
    /\ UNCHANGED <<request, history, target, passes, fitted, sent, skipped>>

(* A trimming pass of fit_prompt, the first or one of _REFIT_PASSES.       *)
Trim ==
    /\ pc = "trimming"
    /\ LET p == chain[candidate]
           trimmed == Managed(composed, input, p, target)
           over == Measured(trimmed.prompt, p) - InputBudget(p)
       IN  IF trimmed.overflow \/ (over > 0 /\ passes = 5)
           THEN Refuse
           ELSE IF over > 0
           THEN /\ target' = Greater(1, target - over)
                /\ passes' = passes + 1
                /\ UNCHANGED <<request, pc, candidate, history, composed, fitted, sent, refused, skipped>>
           ELSE /\ fitted' = trimmed.prompt
                /\ pc' = "routing"
                /\ candidate' = 1
                /\ UNCHANGED <<request, fitting, sent, refused, skipped>>

-----------------------------------------------------------------------------
(* Mutated form: one pass, whose result is not measured. *)
FitOnce(prompt, in, p) ==
    LET once == Managed(prompt, in, p, InputBudget(p))
    IN  IF Measured(prompt, p) <= InputBudget(p)
        THEN [prompt |-> prompt, overflow |-> FALSE]
        ELSE once

(* Mutated form: no second pass. *)
FitWithoutRetry(prompt, in, p) ==
    LET once == Managed(prompt, in, p, InputBudget(p))
        over == once.overflow \/ Measured(once.prompt, p) > InputBudget(p)
    IN  IF Measured(prompt, p) <= InputBudget(p)
        THEN [prompt |-> prompt, overflow |-> FALSE]
        ELSE [prompt |-> once.prompt, overflow |-> over]

(* build_chain_fitter: as it is, trimmed, or trimmed once more by what the *)
(* first trimming left uncounted.                                          *)
FitFor(prompt, in, p) ==
    LET budget == InputBudget(p)
        once == Managed(prompt, in, p, budget)
        gap == Measured(once.prompt, p) - Total(once.prompt.count)
        again == Managed(prompt, in, p, Greater(1, budget - gap))
    IN  IF Measured(prompt, p) <= budget
        THEN [prompt |-> prompt, overflow |-> FALSE]
        ELSE IF once.overflow \/ Measured(once.prompt, p) <= budget
        THEN once
        ELSE [prompt |-> again.prompt,
              overflow |-> again.overflow \/ Measured(again.prompt, p) > budget]

(* ProviderChain.generate_stream goes on to the next provider. *)
NextProvider ==
    IF candidate < Len(chain) THEN candidate' = candidate + 1 /\ pc' = "routing" ELSE pc' = "failed" /\ UNCHANGED candidate

BreakerOpen ==
    /\ pc = "routing"
    /\ NextProvider
    /\ UNCHANGED <<request, fitting, fitted, sent, refused, skipped>>

FitterBudgetError ==
    /\ pc = "routing" /\ Misconfigured(chain[candidate])
    /\ Fail

TooBig ==
    /\ pc = "routing" /\ ~Misconfigured(chain[candidate])
    /\ FitFor(fitted, input, chain[candidate]).overflow
    /\ skipped' = skipped \union {candidate}
    /\ NextProvider
    /\ UNCHANGED <<request, fitting, fitted, sent, refused>>

Send ==
    /\ pc = "routing" /\ ~Misconfigured(chain[candidate])
    /\ LET fit == FitFor(fitted, input, chain[candidate])
       IN  ~fit.overflow /\ sent' = fit.prompt
    /\ pc' = "sent"
    /\ UNCHANGED <<request, candidate, fitting, fitted, refused, skipped>>

(* No token came: the next provider starts from the fitted prompt again.   *)
ProviderFails ==
    /\ pc = "sent"
    /\ NextProvider
    /\ UNCHANGED <<request, fitting, fitted, sent, refused, skipped>>

ProviderSpeaks ==
    /\ pc = "sent"
    /\ pc' = "answered"
    /\ UNCHANGED <<request, candidate, fitting, fitted, sent, refused, skipped>>

PromptNext ==
    \/ BudgetError \/ Budget \/ Trim
    \/ BreakerOpen \/ FitterBudgetError \/ TooBig \/ Send
    \/ ProviderFails \/ ProviderSpeaks

PromptSpec == PromptInit /\ [][PromptNext]_promptVars

-----------------------------------------------------------------------------
(* Properties. *)

PromptTypeOK ==
    /\ input \in Inputs /\ chain \in Chains
    /\ pc \in {"budgeting", "trimming", "routing", "sent", "answered", "failed"}
    /\ candidate \in DOMAIN chain
    /\ history \in Messages
    /\ {composed, fitted, sent} \subseteq Prompt
    /\ target \in Nat /\ passes \in 0..5
    /\ refused \subseteq DOMAIN chain /\ skipped \subseteq DOMAIN chain

Original == Composed(input, input.history)

(* Whatever provider a prompt is sent to, it measures no more than that    *)
(* provider's own budget, holds every section that may not be cut in full  *)
(* and nothing the first fit left out (build_chain_fitter: "A larger       *)
(* window never re-expands a prompt that was already trimmed").            *)
SentFits ==
    pc \in {"sent", "answered"} =>
        /\ Measured(sent, chain[candidate]) <= InputBudget(chain[candidate])
        /\ \A n \in Locked : sent.raw[n] = Original.raw[n]
        /\ \A n \in SectionNames : sent.raw[n] <= fitted.raw[n]

(* A section has nothing more to give: it counts no more than its minimum, *)
(* or trimming it to the minimum leaves it as it is.  The two differ where *)
(* the lines kept for a budget count more than it, because each is         *)
(* reckoned alone and a multiplier below 1 is rounded for each of them.    *)
Minimal(prompt, s, percents) ==
    \/ prompt.count[s.name] <= s.floor
    \/ /\ s.name # "conversation_history"
       /\ \E percent \in percents :
             WholeLines(prompt.raw[s.name], s.floor, percent) = prompt.raw[s.name]

(* A passage of an attached document is only cut when everything less      *)
(* important is already down to its minimum, over compaction, refits and   *)
(* fallbacks to providers that count otherwise, however long the lines are *)
(* (builder.py: "cut graph/memory/tool results first and keep the document *)
(* passages").                                                             *)
DocumentsLast ==
    (/\ pc \in {"sent", "answered"} /\ input.files
     /\ sent.raw["retrieval"] < Original.raw["retrieval"]) =>
        \A s \in ToSet(Layout) :
            (~s.locked /\ s.priority < 9) =>
                s.name = "retrieval"
                    \/ Minimal(sent, s, {TrimPercent(p) : p \in ToSet(chain)})

(* The messages a provider reads word for word are the newest ones of the  *)
(* conversation, none missing in between, and a note comes before them     *)
(* (compact_history, _shrink_history), also when the history was compacted *)
(* for one provider and again for the next.                                *)
NewestKept ==
    pc \in {"sent", "answered"} =>
        LET verbatim == Verbatim(sent.history)
        IN  /\ IsSuffix(verbatim, input.history)
            /\ IsSuffix(verbatim, sent.history)
            /\ Len(sent.history) <= Len(verbatim) + 1

(* What a prompt needs when everything that may be cut is down to its      *)
(* minimum, and the framing stays as it is.                                *)
Needs(prompt, p) ==
    LET least(n) == IF n \in Locked THEN prompt.count[n] ELSE Lesser(prompt.count[n], Floor(n))
    IN  Total([n \in SectionNames |-> least(n)]) + Greater(0, Measured(prompt, p) - Total(prompt.count))

(* The chain skips a provider as too small only when the prompt cannot be  *)
(* made to fit it (build_chain_fitter: "if the mandatory content cannot    *)
(* fit, raises ContextOverflowError"), where the sections are counted as   *)
(* they are: unregistered models and all but Gemini's.                     *)
SkippedOnlyIfTooBig ==
    \A i \in skipped :
        TrimPercent(chain[i]) = 100 => Needs(fitted, chain[i]) > InputBudget(chain[i])

(* The sentence for every model.  With a multiplier below 1 the lines kept *)
(* for a target count more than it, so that a long section of short lines  *)
(* overflows although more of it could go.                                 *)
OverflowIsMandatory ==
    \A i \in skipped : Needs(fitted, chain[i]) > InputBudget(chain[i])

(* fit_prompt: "Trim again, each time removing exactly the measured        *)
(* overshoot from the target, until it fits.  A single retry left requests *)
(* failing by ONE token."                                                  *)
RefusedOnlyIfTooBig ==
    \A i \in refused : Needs(Original, chain[i]) > InputBudget(chain[i])

=============================================================================
