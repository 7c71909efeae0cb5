---------------------------- MODULE ResponseModes ----------------------------
(***************************************************************************)
(* How a request's mode and tools are decided: the feature flags, the      *)
(* validation of what the user asked for, the planner's plan with its      *)
(* safety overrides, and the tool calls each mode makes.  Pure operators;  *)
(* RequestPipeline applies them in the order run() does.                   *)
(*                                                                         *)
(* cfg is a record of feature flags, req the request as consumed.          *)
(***************************************************************************)
EXTENDS Integers, Selection

CONSTANTS
    SmartCap,   \* langgraph_max_loop_iterations_smart
    DeepCap     \* langgraph_max_loop_iterations_deep_research

ASSUME CapsOK == SmartCap \in 1..10 /\ DeepCap \in 1..10

Handlers == {"default", "tutor", "code", "ask_files", "web_search"}
Graphs == {"smart", "deep_research"}
Modes == Handlers \union Graphs

(* _SELECTABLE: what a user may pick. *)
Selectable == {"tutor", "code", "web_search", "smart", "deep_research"}

Configs == [smart : BOOLEAN, deep : BOOLEAN, web : BOOLEAN, fast : BOOLEAN]

(* hint: mode_hint as the client sent it, which for a custom mode is the   *)
(* built-in path it runs on; custom: the execution style of a custom mode; *)
(* pick: the selected tool; files: documents are attached; message: what   *)
(* the text is; modeDefault, toolsDefault: defaults_applied.               *)
Requests ==
    {req \in [hint : {"auto", "default", "unknown", "ask_files"} \union Selectable,
              custom : {"none", "direct", "smart"},
              pick : {"none", "web_search", "unknown"},
              files : BOOLEAN,
              message : {"smalltalk", "question", "asks_search"},
              modeDefault : BOOLEAN, toolsDefault : BOOLEAN] :
        /\ req.custom = "direct" => req.hint = "default"
        /\ req.custom = "smart" => req.hint = "smart"}

Enabled(mode, cfg) ==
    /\ mode = "smart" => cfg.smart
    /\ mode = "deep_research" => cfg.deep
    /\ mode = "web_search" => cfg.web

-----------------------------------------------------------------------------
(* What the user asked for: a mode, "auto", or "invalid" (InvalidMode-     *)
(* Error).                                                                 *)
ResolveHint(hint, cfg) ==
    CASE hint \in {"auto", "default"}                      -> "auto"
      [] hint \in Selectable /\ Enabled(hint, cfg)         -> hint
      [] hint \notin {"auto", "default"}
            /\ ~(hint \in Selectable /\ Enabled(hint, cfg)) -> "invalid"

CustomBase(style, cfg) ==
    CASE style = "smart" /\ cfg.smart  -> "smart"
      [] style = "smart" /\ ~cfg.smart -> "invalid"
      [] style = "direct"              -> "default"

AskedMode(req, cfg) ==
    IF req.custom # "none" THEN CustomBase(req.custom, cfg) ELSE ResolveHint(req.hint, cfg)

(* A saved default that cannot run falls back to Auto. *)
Requested(req, cfg) ==
    IF AskedMode(req, cfg) = "invalid" /\ req.modeDefault THEN "auto" ELSE AskedMode(req, cfg)

(* A custom mode takes part in the request unless it was such a default. *)
CustomRuns(req, cfg) ==
    req.custom # "none" /\ ~(req.modeDefault /\ AskedMode(req, cfg) = "invalid")

(* The selected tools that remain: saved defaults are filtered to what     *)
(* users may select, which the only registered tool, web_search, is not.   *)
PickedTool(req) == IF req.toolsDefault THEN "none" ELSE req.pick

(* build_selected_calls raises InvalidToolSelectionError. *)
BadSelection(req, cfg) ==
    PickedTool(req) = "unknown" \/ (PickedTool(req) = "web_search" /\ ~cfg.web)

(* is_simple_smalltalk; the context's mode_hint is set for every known     *)
(* mode name, "default" included.                                          *)
FastPath(req, cfg) ==
    /\ cfg.fast
    /\ PickedTool(req) = "none"
    /\ ~CustomRuns(req, cfg)
    /\ req.message = "smalltalk" /\ ~req.files /\ req.hint \in {"auto", "unknown"}

-----------------------------------------------------------------------------
(* Plans. *)
Call(required) == [tool |-> "web_search", required |-> required]

SafeDefault == [mode |-> "default", tools |-> <<>>, iterations |-> 1, fallback |-> TRUE]

OverriddenMode(plan, req, cfg) ==
    IF \/ plan.mode = "ask_files" /\ ~req.files
       \/ plan.mode = "deep_research" /\ ~cfg.deep
    THEN "default" ELSE plan.mode

IsSearch(call) == call.tool = "web_search"

(* The calls without the searches among them. *)
Others(calls) == Selected(calls, {c \in ToSet(calls) : ~IsSearch(c)})

SmallerOf(a, b) == IF a < b THEN a ELSE b

(* Mutated form: the planner's loop budget is taken as it comes. *)
IterationsUncapped(mode, planned) == IF mode \in Graphs THEN planned ELSE 1

Iterations(mode, planned) ==
    CASE mode = "smart"         -> SmallerOf(planned, SmartCap)
      [] mode = "deep_research" -> SmallerOf(planned, DeepCap)
      [] mode \in Handlers      -> 1

(* _apply_safety_overrides *)
Overridden(plan, req, cfg) ==
    LET mode == OverriddenMode(plan, req, cfg) IN
    [plan EXCEPT
        !.mode = mode,
        !.tools = IF cfg.web THEN @ ELSE Others(@),
        !.iterations = Iterations(mode, @)]

(* Mutated form: the planner's mode is kept when it is a graph. *)
AppliedToHandlers(plan, mode) ==
    IF mode = "auto" \/ plan.mode \in Graphs THEN plan
    ELSE [plan EXCEPT !.mode = mode, !.iterations = IF mode \in Graphs THEN SmartCap ELSE 1]

(* apply_requested_mode *)
Applied(plan, mode) ==
    IF mode = "auto" THEN plan
    ELSE [plan EXCEPT !.mode = mode,
             !.iterations = CASE mode = "smart"         -> SmartCap
                              [] mode = "deep_research" -> DeepCap
                              [] mode \in Handlers      -> 1]

(* The calls a handler dispatches. *)
HandlerCalls(plan) ==
    CASE plan.mode = "ask_files" -> <<>>
      [] plan.mode = "web_search" ->
            IF \E i \in DOMAIN plan.tools : IsSearch(plan.tools[i])
            THEN plan.tools ELSE Append(plan.tools, Call(TRUE))
      [] plan.mode \in {"default", "tutor", "code"} -> plan.tools
=============================================================================
