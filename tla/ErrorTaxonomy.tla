---------------------------- MODULE ErrorTaxonomy ----------------------------
(***************************************************************************)
(* What a failure becomes before the caller hears of it: the exceptions    *)
(* that leave a stage of the request (app/exceptions), the order in which  *)
(* ErrorHandler.classify asks what they are (app/utils/error_handler.py)   *)
(* and the error event built from the answer.                              *)
(*                                                                         *)
(* An exception is the set of the classes it is an instance of, of those   *)
(* classify asks for, and its own error_code.  The class "rate limit"      *)
(* stands for a provider error whose text speaks of a rate limit.          *)
(***************************************************************************)
EXTENDS Integers, Sequences

Exception(classes, code) == [classes |-> classes \union {"Exception"}, type |-> "none", code |-> code]

(* Errors whose message is written for the user. *)
UserFacing(type, code) ==
    [classes |-> {"UserFacingError", "PermanentError", "Exception"}, type |-> type, code |-> code]

InvalidToolSelection == UserFacing("TOOL", "INVALID_TOOL_SELECTION")
InvalidMode == UserFacing("VALIDATION", "INVALID_MODE")
DocumentContextUnavailable == UserFacing("GRPC", "DOCUMENT")

RequiredToolFailed == Exception({"ToolError", "PermanentError"}, "REQUIRED_TOOL_FAILED")
ContextOverflow == Exception({"ContextOverflowError", "PermanentError"}, "CONTEXT_OVERFLOW")

(* ContextBudgetError is a ValueError. *)
ContextBudget == Exception({}, "none")

(* What an adapter or the chain raises while the answer is streamed.       *)
ProviderFailure == Exception({"ProviderError"}, "PROVIDER_ERROR")
ProviderTimeout == Exception({"ProviderError", "RetriableError"}, "PROVIDER_TIMEOUT")
AllProvidersFailed == Exception({"ProviderError", "PermanentError"}, "PROVIDER_ALL_FAILED")
RateLimited(error) == [error EXCEPT !.classes = @ \union {"rate limit"}]

(* The publisher gave up on a chunk. *)
SendFailed == Exception({}, "none")

StreamErrors ==
    {ProviderFailure, ProviderTimeout, AllProvidersFailed, RateLimited(ProviderFailure),
     RateLimited(AllProvidersFailed), SendFailed}

-----------------------------------------------------------------------------
(* The questions of classify, in their order.  "own": what the exception   *)
(* carries; "marked": whether it is a RetriableError.                      *)
Rule(class, type, code, retriable, message) ==
    [class |-> class, type |-> type, code |-> code, retriable |-> retriable, message |-> message]

Rules == <<
    Rule("UserFacingError", "own", "own", "no", "own"),
    Rule("ToolError", "TOOL", "own", "marked", "generic"),
    Rule("GRPCError", "GRPC", "own", "marked", "generic"),
    Rule("rate limit", "INFERENCE", "RATE_LIMIT_EXCEEDED", "yes", "generic"),
    Rule("ProviderError", "INFERENCE", "own", "marked", "generic"),
    Rule("RetriableError", "INFERENCE", "own", "yes", "generic"),
    Rule("FatalError", "UNEXPECTED", "own", "no", "generic"),
    Rule("ContextOverflowError", "ANALYSIS", "CONTEXT_OVERFLOW", "no", "own"),
    Rule("PermanentError", "ANALYSIS", "own", "no", "generic"),
    Rule("RateLimitError", "INFERENCE", "RATE_LIMIT_EXCEEDED", "yes", "generic"),
    Rule("timeout", "INFERENCE", "OPERATION_TIMEOUT", "yes", "generic"),
    Rule("ValidationError", "VALIDATION", "VALIDATION_FAILED", "no", "generic"),
    Rule("Exception", "UNEXPECTED", "UNEXPECTED_ERROR", "no", "generic") >>

(* The first rule that applies. *)
RuleOf(error) ==
    Rules[CHOOSE i \in DOMAIN Rules :
            /\ Rules[i].class \in error.classes
            /\ \A j \in 1..i - 1 : Rules[j].class \notin error.classes]

Classify(error) ==
    LET r == RuleOf(error) IN
    [type |-> IF r.type = "own" THEN error.type ELSE r.type,
     code |-> IF r.code = "own" THEN error.code ELSE r.code,
     retriable |-> r.retriable = "yes" \/ (r.retriable = "marked" /\ "RetriableError" \in error.classes),
     message |-> r.message]

(* build_error_response_event: nothing of retriability reaches the caller, *)
(* and a turn that failed before it had a plan says it ran in default.     *)
ErrorEvent(error, mode) ==
    [mode |-> IF mode = "none" THEN "default" ELSE mode,
     code |-> Classify(error).code,
     message |-> Classify(error).message]
=============================================================================
