--------------------------- MODULE RequestPipeline ---------------------------
(***************************************************************************)
(* RequestPipeline.run for one request, from the consumed event to its     *)
(* outcome: validation, context, analysis, the mode's handler or graph,    *)
(* the tools the user picked, fitting the prompt and streaming.  Every     *)
(* stage may raise; run() turns that into an error event.                  *)
(*                                                                         *)
(* The stages run in one task, so a stage is one step; the loops of the    *)
(* Smart and Deep research graphs are a step per round.  Streaming is the  *)
(* step AnswerDelivery describes and ResponseStream details.               *)
(***************************************************************************)
EXTENDS ResponseModes, ErrorTaxonomy

CONSTANTS
    PlannerTools,   \* the tool lists the planner may return
    PlannerRounds,  \* the loop budgets the planner may return
    Sources,        \* search providers a result may come from
    MaxHits,        \* results of one deep research search
    EnoughFindings, \* findings at which deep research stops searching
    MaxSubtasks     \* most sub-tasks of the rule-based Smart plan

(* What the planner may list: the one registered tool, or a name that is   *)
(* registered for none.                                                    *)
Calls == Seq([tool : {"web_search", "unknown"}, required : BOOLEAN])

ASSUME PipelineConstantsOK ==
    /\ PlannerTools \subseteq Calls
    /\ PlannerRounds \subseteq Nat \ {0}
    /\ MaxHits \in Nat /\ EnoughFindings \in Nat /\ MaxSubtasks \in Nat \ {0}

(* MAX_PLANNED_TOOLS *)
MaxPlannedTools == 4

VARIABLES
    cfg, req,   \* the feature flags and the request
    stage,      \* what run() does next
    retrieval,  \* how the documents were read: none, usable, no_match, unusable
    picked,     \* selected_calls holds web_search
    plan,       \* ctx.plan
    tasks,      \* unsatisfied sub-tasks of the Smart graph
    round,      \* loop_iteration_count
    hits,       \* sources of the results of all deep research searches
    findings,   \* sources of the deep research findings
    verified,   \* findings marked as corroborated
    draft,      \* draft_content of the workflow result
    grounded,   \* some web search succeeded
    raised,     \* what the except block of run() caught
    told,       \* the error event
    outcome     \* of the answer, as in AnswerDelivery

vars == <<cfg, req, stage, retrieval, picked, plan, tasks, round, hits, findings, verified, draft,
          grounded, raised, told, outcome>>

NoPlan == [mode |-> "none", tools |-> <<>>, iterations |-> 0, fallback |-> FALSE]

NoError == Exception({}, "none")
NoEvent == [mode |-> "none", code |-> "none", message |-> "none"]

research == <<hits, findings, verified>>
graph == <<tasks, round, research, draft>>
given == <<cfg, req>>
ending == <<told, outcome>>

(* A stage ends well, or raises into the except block of run(). *)
GoTo(next) == stage' = next /\ UNCHANGED raised
Raise(error) == stage' = "error" /\ raised' = error

Start(configs, requests) ==
    /\ cfg \in configs /\ req \in requests
    /\ stage = "validate" /\ retrieval = "none" /\ picked = FALSE
    /\ plan = NoPlan /\ tasks = <<>> /\ round = 0
    /\ hits = <<>> /\ findings = <<>> /\ verified = {} /\ draft = "none"
    /\ grounded = FALSE /\ raised = NoError /\ told = NoEvent /\ outcome = "open"

Init == Start(Configs, Requests)

-----------------------------------------------------------------------------
(* Explicit choices that cannot run end the request before any work. *)
Validate ==
    /\ stage = "validate"
    /\ IF BadSelection(req, cfg) THEN Raise(InvalidToolSelection)
       ELSE IF Requested(req, cfg) = "invalid" THEN Raise(InvalidMode) ELSE GoTo("context")
    /\ picked' = (PickedTool(req) = "web_search" /\ ~BadSelection(req, cfg))
    /\ UNCHANGED <<given, retrieval, plan, graph, grounded, ending>>

(* Mutated form: an unreachable retrieval service is degraded context. *)
DocumentsUnlessRefused(how) == req.files => how # "unusable"

(* _enforce_document_context: attached documents must be searched. *)
DocumentsRead(how) == req.files => how \in {"usable", "no_match"}

(* _fetch_retrieval, full text, search or retry: documents are retrieved   *)
(* when there are files, and none is a retrieval call that failed.         *)
RetrievalResults == IF req.files THEN {"usable", "no_match", "unusable", "none"} ELSE {"none"}

(* Context is collected, unless the message is small talk. *)
CollectContext(how) ==
    /\ stage = "context"
    /\ how \in IF FastPath(req, cfg) THEN {"none"} ELSE RetrievalResults
    /\ retrieval' = how
    /\ IF DocumentsRead(how) THEN GoTo("analyze") ELSE Raise(DocumentContextUnavailable)
    /\ UNCHANGED <<given, picked, plan, graph, grounded, ending>>

(* The plan the run works with: the user's mode wins, web search mode      *)
(* covers a picked search, and a picked search is taken off the plan.      *)
Settle(planned) ==
    LET applied == Applied(planned, Requested(req, cfg))
        kept    == picked /\ applied.mode # "web_search"
    IN
    /\ picked' = kept
    /\ plan' = IF kept THEN [applied EXCEPT !.tools = Others(@)] ELSE applied

(* The request analyzer, whose every failure is a safe default plan. *)
Analyze(planned) ==
    /\ stage = "analyze"
    /\ Settle(IF FastPath(req, cfg) THEN SafeDefault ELSE planned)
    /\ GoTo(IF plan'.mode \in Graphs THEN plan'.mode ELSE "handler")
    /\ UNCHANGED <<given, retrieval, graph, grounded, ending>>

Plans ==
    {SafeDefault} \union
    {Overridden(p, req, cfg) :
        p \in [mode : Modes, tools : PlannerTools, iterations : PlannerRounds, fallback : BOOLEAN]}

-----------------------------------------------------------------------------
(* The calls of one dispatch, those in good succeeding: an unknown or      *)
(* disabled tool fails, and a required call that fails raises.             *)
Succeeds(calls, good) == good \subseteq {i \in DOMAIN calls : IsSearch(calls[i]) /\ cfg.web}

Raises(calls, good) == \E i \in DOMAIN calls : calls[i].required /\ i \notin good

(* Mutated form: no call is required. *)
DispatchOptional(calls, good, next) ==
    /\ Succeeds(calls, good)
    /\ grounded' = (grounded \/ good # {})
    /\ GoTo(next)

Dispatch(calls, good, next) ==
    /\ Succeeds(calls, good)
    /\ grounded' = (grounded \/ good # {})
    /\ IF Raises(calls, good) THEN Raise(RequiredToolFailed) ELSE GoTo(next)

(* A mode handler makes its calls once. *)
RunHandler(good) ==
    /\ stage = "handler"
    /\ Dispatch(HandlerCalls(plan), good, "selected")
    /\ UNCHANGED <<given, retrieval, picked, plan, graph, ending>>

(* The Smart planner: the plan's tools as sub-tasks or, for a fallback     *)
(* plan or a message that asks for a search, some optional searches.       *)
PlanSubtasks(n) ==
    /\ stage = "smart"
    /\ n \in IF plan.tools = <<>> /\ req.message = "asks_search" THEN 1..MaxSubtasks
             ELSE IF plan.tools = <<>> /\ plan.fallback THEN 0..MaxSubtasks ELSE {0}
    /\ tasks' = IF plan.tools # <<>>
                THEN SubSeq(plan.tools, 1, SmallerOf(Len(plan.tools), MaxPlannedTools))
                ELSE [i \in 1..n |-> Call(FALSE)]
    /\ GoTo("subtask")
    /\ UNCHANGED <<given, retrieval, picked, plan, round, research, draft, grounded, ending>>

(* LoopGuard.evaluate *)
LoopsOn(done, open) == open /\ done < plan.iterations

(* One round of the Smart loop: the next sub-task's tool is dispatched and *)
(* the sub-task is done, whatever an optional tool returned.               *)
RunSubtask(good) ==
    /\ stage = "subtask"
    /\ \/ /\ tasks # <<>>
          /\ tasks' = Tail(tasks)
          /\ round' = round + 1
          /\ Dispatch(<<tasks[1]>>, good, IF LoopsOn(round', tasks' # <<>>) THEN "subtask" ELSE "draft")
       \/ /\ tasks = <<>> /\ good = {}
          /\ GoTo("draft") /\ UNCHANGED <<tasks, round, grounded>>
    /\ UNCHANGED <<given, retrieval, picked, plan, research, draft, ending>>

(* The draft of the Smart graph sets out the results of its searches, of   *)
(* which a search that succeeded may have none, or says that it has none.  *)
DraftAnswer ==
    /\ stage = "draft"
    /\ draft' \in IF grounded THEN {"grounded", "ungrounded"} ELSE {"ungrounded"}
    /\ GoTo("selected")
    /\ UNCHANGED <<given, retrieval, picked, plan, tasks, round, research, grounded, ending>>

(* Deep research: a search adds its hits to search_results. *)
Search(results) ==
    /\ stage = "deep_research"
    /\ cfg.web \/ results = <<>>
    /\ hits' = hits \o results
    /\ round' = round + 1
    /\ grounded' = (grounded \/ results # <<>>)
    /\ GoTo("findings")
    /\ UNCHANGED <<given, retrieval, picked, plan, tasks, findings, verified, draft, ending>>

(* analyze: every result accumulated so far, those of earlier rounds       *)
(* included, becomes a new finding; findings accumulate too.               *)
AnalyzeFindings ==
    /\ stage = "findings"
    /\ findings' = findings \o hits
    /\ GoTo(IF Len(findings') < EnoughFindings /\ LoopsOn(round, TRUE)
            THEN "deep_research" ELSE "compare")
    /\ UNCHANGED <<given, retrieval, picked, plan, tasks, round, hits, verified, draft, grounded, ending>>

(* compare_sources: a finding is corroborated when its source has been     *)
(* seen before.                                                            *)
CompareSources ==
    /\ stage = "compare"
    /\ verified' = {i \in DOMAIN findings : \E j \in 1..i - 1 : findings[j] = findings[i]}
    /\ GoTo("report")
    /\ UNCHANGED <<given, retrieval, picked, plan, tasks, round, hits, findings, draft, grounded, ending>>

(* generate_report: there is always a report, whatever was found; the rest *)
(* of the graph's state ends with it.                                      *)
Report ==
    /\ stage = "report"
    /\ draft' = IF findings # <<>> THEN "grounded" ELSE "ungrounded"
    /\ hits' = <<>> /\ findings' = <<>> /\ verified' = {}
    /\ GoTo("selected")
    /\ UNCHANGED <<given, retrieval, picked, plan, tasks, round, grounded, ending>>

(* The tools the user picked, required, after the workflow. *)
RunSelected(good) ==
    /\ stage = "selected"
    /\ Dispatch(IF picked THEN <<Call(TRUE)>> ELSE <<>>, good, "fit")
    /\ UNCHANGED <<given, retrieval, picked, plan, graph, ending>>

(* The prompt is built and fitted to the first provider it fits, if any. *)
Fit ==
    /\ stage = "fit"
    /\ \/ GoTo("stream")
       \/ \E error \in {ContextOverflow, ContextBudget} : Raise(error)
    /\ UNCHANGED <<given, retrieval, picked, plan, graph, grounded, ending>>

(* The answer is streamed.  A failure may come after the success event (no *)
(* memory update), a cancelled run ends unheard.                           *)
Stream ==
    /\ stage = "stream"
    /\ \/ outcome' \in {"answered", "silent"} /\ GoTo("done")
       \/ outcome' \in {"open", "answered"} /\ \E error \in StreamErrors : Raise(error)
    /\ UNCHANGED <<given, retrieval, picked, plan, graph, grounded, told>>

(* run()'s except block publishes the error event, or fails to. *)
PublishError ==
    /\ stage = "error"
    /\ \/ /\ outcome' = IF outcome = "answered" THEN "retracted" ELSE "failed"
          /\ told' = ErrorEvent(raised, plan.mode)
       \/ /\ outcome' = IF outcome = "answered" THEN "answered" ELSE "silent"
          /\ UNCHANGED told
    /\ GoTo("done")
    /\ UNCHANGED <<given, retrieval, picked, plan, graph, grounded>>

Next ==
    \/ Validate
    \/ \E how \in {"none", "usable", "no_match", "unusable"} : CollectContext(how)
    \/ \E planned \in Plans : Analyze(planned)
    \/ \E good \in SUBSET (1..MaxPlannedTools + 1) : RunHandler(good)
    \/ \E n \in 0..MaxSubtasks : PlanSubtasks(n)
    \/ \E good \in SUBSET {1} : RunSubtask(good) \/ RunSelected(good)
    \/ \E n \in 0..MaxHits : \E results \in [1..n -> Sources] : Search(results)
    \/ AnalyzeFindings \/ CompareSources \/ Report \/ DraftAnswer
    \/ Fit \/ Stream \/ PublishError

Spec == Init /\ [][Next]_vars

(* One task runs the stages, and every call it waits for has a deadline.   *)
FairSpec == Spec /\ WF_vars(Next)

-----------------------------------------------------------------------------
(* Properties. *)

Shown == outcome \in {"answered", "retracted"}

TypeOK ==
    /\ cfg \in Configs /\ req \in Requests
    /\ stage \in {"validate", "context", "analyze", "handler", "subtask", "findings",
                  "draft", "compare", "report", "selected", "fit", "stream", "error", "done"} \union Graphs
    /\ retrieval \in {"none", "usable", "no_match", "unusable"}
    /\ picked \in BOOLEAN /\ grounded \in BOOLEAN
    /\ plan.mode \in Modes \union {"none"}
    /\ plan.tools \in Calls /\ tasks \in Calls
    /\ round \in Nat /\ {hits, findings} \subseteq Seq(Sources) /\ verified \subseteq DOMAIN findings
    /\ draft \in {"none", "grounded", "ungrounded"}
    /\ raised.classes \subseteq {r.class : r \in ToSet(Rules)}
    /\ told.message \in {"none", "own", "generic"}
    /\ outcome \in {"open", "answered", "failed", "retracted", "silent"}

(* "Attached documents must actually be searched": a question with files   *)
(* is never answered, on whatever path, unless their retrieval succeeded   *)
(* (_enforce_document_context, the fast path, the collector), and a turn   *)
(* refused because of it tells the user so and not that something failed.  *)
AnswersReadDocuments ==
    /\ Shown /\ req.files => retrieval \in {"usable", "no_match"}
    /\ retrieval = "unusable" /\ told # NoEvent => told.code = "DOCUMENT" /\ told.message = "own"

(* The mode the user's message names, saved or chosen now. *)
Wanted ==
    CASE req.custom = "smart"                              -> "smart"
      [] req.custom = "direct"                             -> "default"
      [] req.custom = "none" /\ req.hint \in Selectable    -> req.hint
      [] req.custom = "none" /\ req.hint \notin Selectable -> "any"

(* A mode the user picked, that is turned on, is the mode that answers:    *)
(* neither the planner, nor an override, nor the fast path replaces it.    *)
SelectedModeRuns ==
    Shown /\ Wanted # "any" /\ Enabled(Wanted, cfg) => plan.mode = Wanted

(* A picked search is required: outside web search mode, whatever the      *)
(* planner listed, no answer is given unless a search succeeded.           *)
PickedSearchNotDropped ==
    Shown /\ req.pick = "web_search" /\ ~req.toolsDefault /\ plan.mode # "web_search" => grounded

(* No loop runs more rounds than its mode's configured limit, whoever      *)
(* chose the mode and whatever budget the planner asked for (LoopGuard).   *)
LoopBudget ==
    round <= CASE plan.mode = "smart"              -> SmartCap
               [] plan.mode = "deep_research"      -> DeepCap
               [] plan.mode \notin Graphs          -> 0

(* analyzer.py: "a disabled mode can't be chosen by the planner either     *)
(* (Auto never lands in it)".                                              *)
DisabledModeNeverRuns == plan.mode # "none" => Enabled(plan.mode, cfg)

(* web_search_handler.py: "Guarantees required web_search tool execution". *)
WebSearchGrounds == Shown /\ plan.mode = "web_search" => grounded

(* deep_research/nodes.py: the report says how many "distinct findings" it *)
(* evaluated.                                                              *)
DistinctFindings == stage # "findings" => Len(findings) <= Len(hits)

(* deep_research/nodes.py: "mark findings backed by multiple sources", and *)
(* the report calls them "VERIFIED CROSS-SOURCE".                          *)
VerifiedCrossSource == \A i \in verified : \E j \in DOMAIN findings : findings[j] # findings[i]
=============================================================================
