--------------------------- MODULE MCRequestPipeline ---------------------------
EXTENDS RequestPipeline

(* What the planner may list: nothing, an optional search, and an unknown  *)
(* tool before a required and an optional search.                          *)
MCPlannerTools ==
    {<<>>, <<Call(FALSE)>>,
     <<[tool |-> "unknown", required |-> FALSE], Call(TRUE), Call(FALSE)>>}

(* Every combination of the mode and search flags; the fast path is off    *)
(* only when everything else is on.                                        *)
MCConfigs == {c \in Configs : c.fast \/ (c.smart /\ c.deep /\ c.web)}

(* Requests in which a feature meets the others it can affect: a mode with *)
(* its default, a tool with its default, documents and small talk.         *)
MCRequests ==
    {r \in Requests :
        /\ r.toolsDefault => r.pick = "unknown" /\ r.message = "smalltalk" /\ r.hint # "tutor"
        /\ r.modeDefault => r.hint \in {"smart", "web_search", "unknown"} /\ r.pick = "none"
        /\ r.files => r.message = "question" /\ r.pick = "none"
        /\ r.message = "asks_search" => r.hint = "smart" /\ ~r.modeDefault
        /\ r.pick = "unknown" => r.hint \in {"auto", "unknown"}
        /\ r.hint \in {"tutor", "code", "ask_files", "default"} => r.message = "question"}

Alike == Permutations(Sources)

MCSpec == Start(MCConfigs, MCRequests) /\ [][Next]_vars /\ WF_vars(Next)
=============================================================================
