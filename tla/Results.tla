------------------------------- MODULE Results -------------------------------
(***************************************************************************)
(* The values the validation engines return and the ways the gateway       *)
(* combines them: ToolValidationChain.Handle (tool_validation.go) for MCP  *)
(* tool calls, mergeEngineResults and finalizeResults                      *)
(* (policy_evaluator.go) for the REST endpoints, and                       *)
(* ResponseValidationChain.Handle (response_validation.go).                *)
(*                                                                         *)
(* A message is present or empty; allow counts only choose messages, so    *)
(* they are left out.  An engine that is not configured contributes what   *)
(* an engine contributes that matched nothing.                             *)
(***************************************************************************)
EXTENDS Naturals

Actions == {"none", "allow", "deny"}

ResultsType == [allowed : BOOLEAN, denyCount : 0 .. 4, failedOpen : BOOLEAN,
                bypass : BOOLEAN, recommended : Actions, message : BOOLEAN]

Result(allowed, deny, failed, bypass, rec, msg) ==
    [allowed |-> allowed, denyCount |-> deny, failedOpen |-> failed,
     bypass |-> bypass, recommended |-> rec, message |-> msg]

Nothing == Result(TRUE, 0, FALSE, FALSE, "none", TRUE)

\* What CELPolicyEngine returns (CELEngine models how).  The message of a deny
\* or an allow is the rule's own, which the configuration may leave empty; an
\* audit_only deny is reported although a rule after it failed open.
CELResults ==
    {Nothing, Result(TRUE, 0, TRUE, FALSE, "none", TRUE)}
    \cup {Result(TRUE, 0, FALSE, FALSE, "allow", msg) : msg \in BOOLEAN}
    \cup {Result(FALSE, 1, FALSE, FALSE, "deny", msg) : msg \in BOOLEAN}
    \cup {Result(TRUE, 0, failed, TRUE, "deny", TRUE) : failed \in BOOLEAN}

\* What AIPolicyEngine returns when there is a budget.  (AIEngine models how.)
AIResults ==
    {Nothing, Result(TRUE, 0, FALSE, FALSE, "allow", TRUE),
     Result(TRUE, 0, FALSE, TRUE, "deny", TRUE),
     Result(TRUE, 0, TRUE, FALSE, "none", TRUE)}
    \cup {Result(FALSE, 1, failed, FALSE, "deny", TRUE) : failed \in BOOLEAN}

\* ToolValidationChain.Handle over the CEL and the AI handler: both always
\* run.  A deny shows in Allowed only if it comes with a message; DenyCount
\* counts it anyway.
Handle(cel, ai) ==
    LET results == {cel, ai}
        foundDeny == \E r \in results : r.denyCount > 0 /\ r.message
        failed == \E r \in results : r.failedOpen
        bypass == \E r \in results : r.bypass
    IN [allowed     |-> ~foundDeny,
        denyCount   |-> cel.denyCount + ai.denyCount,
        failedOpen  |-> failed,
        bypass      |-> bypass /\ ~foundDeny,
        recommended |-> CASE foundDeny -> "deny"
                          [] ~foundDeny /\ bypass -> "deny"
                          [] ~foundDeny /\ ~bypass /\ failed -> "none"
                          [] OTHER -> "allow",
        message     |-> \E r \in results : r.message]

\* PolicyEvaluator: mergeEngineResults for each engine, then finalizeResults,
\* which sets a message where there is none.
Evaluate(cel, ai) ==
    LET results == {cel, ai}
        allowed == \A r \in results : r.allowed \/ r.bypass
    IN [allowed     |-> allowed,
        denyCount   |-> cel.denyCount + ai.denyCount,
        failedOpen  |-> \E r \in results : r.failedOpen,
        bypass      |-> allowed /\ \E r \in results : r.bypass,
        recommended |-> "none",
        message     |-> TRUE]

\* A shell tool is evaluated as a command and as a tool call: either denies.
mergeShellResults(cli, mcp) ==
    LET results == {cli, mcp}
        allowed == \A r \in results : r.allowed
    IN [allowed     |-> allowed,
        denyCount   |-> cli.denyCount + mcp.denyCount,
        failedOpen  |-> \E r \in results : r.failedOpen,
        bypass      |-> allowed /\ \E r \in results : r.bypass,
        recommended |-> "none",
        message     |-> TRUE]

DeriveAuditActionReason(r, denyReason) ==
    IF ~r.allowed THEN denyReason
    ELSE IF r.bypass THEN "audit_mode"
    ELSE IF r.failedOpen THEN "fail_open" ELSE "none"
-----------------------------------------------------------------------------
(* Responses. *)

ResponseType == [allowed : BOOLEAN, redacted : BOOLEAN, failedOpen : BOOLEAN,
                 bypass : BOOLEAN]

Response(allowed, redacted, failed, bypass) ==
    [allowed |-> allowed, redacted |-> redacted, failedOpen |-> failed, bypass |-> bypass]

Untouched == Response(TRUE, FALSE, FALSE, FALSE)

\* CELResponsePolicyEngine: redactions before the deny or the error stand,
\* and an audit_only deny is never reported as a bypass.
CELResponses ==
    {r \in ResponseType : ~r.bypass /\ (r.failedOpen => r.allowed)}

\* AIResponsePolicyEngine: the redaction counts only if it is the decision.
AIResponses ==
    {r \in ResponseType : /\ r.redacted => r.allowed
                          /\ r.bypass => r.allowed /\ ~r.redacted /\ ~r.failedOpen}

\* Mutant: the last handler's verdict replaces the one before.
LastHandlerDecides(cel, ai) ==
    [allowed |-> ai.allowed, redacted |-> cel.redacted \/ ai.redacted,
     failedOpen |-> cel.failedOpen \/ ai.failedOpen, bypass |-> cel.bypass \/ ai.bypass]

\* ResponseValidationChain.Handle over the two handlers.
HandleResponse(cel, ai) ==
    [allowed |-> cel.allowed /\ ai.allowed, redacted |-> cel.redacted \/ ai.redacted,
     failedOpen |-> cel.failedOpen \/ ai.failedOpen, bypass |-> cel.bypass \/ ai.bypass]
=============================================================================
