------------------------------ MODULE CELEngine ------------------------------
(***************************************************************************)
(* One evaluation of the CEL rules, in their configured order: the request *)
(* phase (EvaluateToolCall and its twin EvaluateCLICommand, cel_engine.go) *)
(* and the response phase (EvaluateResponse, cel_response_engine.go).      *)
(*                                                                         *)
(* Four ways to fail (compiling, building the program, evaluating it, a    *)
(* value that is not a boolean) are handled alike and are one action here. *)
(* A text is the set of secrets still readable in it; secret r is what the *)
(* redaction pattern of rule r matches.  The gateway gives each evaluation *)
(* a budget; without one only the times in the record differ.              *)
(***************************************************************************)
EXTENDS Budget, Sequences

CONSTANTS N,            \* number of configured rules
          MaxBlocking,  \* validation.max_blocking_ms, in ticks
          MaxTime       \* bound: the clock of the model stops here

ASSUME CELAssumption == N \in Nat /\ MaxBlocking \in Nat /\ MaxTime \in Nat

VARIABLES
    kind,       \* "request" or "response"
    mode,       \* mode[r]: effective mode of a rule, or "disabled"
    action,     \* action[r]: what a match means
    hasText,    \* the response has a text block that is not empty
    now, budget, phase,
    pc,         \* "loop", "finish" or "returned"
    next,       \* the rule the loop is at
    outcome,    \* outcome[r]: what evaluating the rule gave, or "pending"
    record,     \* ruleResults
    finalAction, decidingRule, auditOnlyDeny, allowCount, failedOpen,
    redacted,   \* redactedContent, or Unredacted
    res         \* what was returned

configVars == <<kind, mode, action, hasText>>
budgetVars == <<budget, phase>>
decideVars == <<finalAction, decidingRule, auditOnlyDeny, allowCount, failedOpen>>
vars == <<configVars, now, budgetVars, pc, next, outcome, record, decideVars,
          redacted, res>>

R == INSTANCE Results

Rules == 1 .. N
NoRule == 0
Modes == {"enforce", "audit_only"}
\* A redact rule has a pattern, none (everything is replaced) or one that does
\* not compile.
Redactions == {"redact", "redact_all", "redact_bad"}
ActionsOf(k) == {"allow", "deny"} \cup (IF k = "response" THEN Redactions ELSE {})
Unredacted == {NoRule}  \* no redacted content
Text == Rules
\* The results before anything is evaluated.
EmptyResults(k) ==
    IF k = "request" THEN R!Result(FALSE, 0, FALSE, FALSE, "none", FALSE) ELSE R!Untouched

ResolvePolicyMode(top, rule) ==
    IF top = "audit_only" \/ rule = "audit_only" THEN "audit_only" ELSE "enforce"

\* Rules that are switched off, and request rules that have no expression for
\* this kind of request, take no part.
LoadPolicies(top, cfg) ==
    [r \in Rules |-> IF cfg[r] = "disabled" THEN "disabled"
                     ELSE ResolvePolicyMode(top, cfg[r])]

Init ==
    /\ kind \in {"request", "response"}
    /\ \E top \in Modes, cfg \in [Rules -> Modes \cup {"disabled"}] :
          mode = LoadPolicies(top, cfg)
    /\ action \in [Rules -> ActionsOf(kind)]
    /\ hasText \in BOOLEAN /\ (hasText => kind = "response")
    /\ now = 0
    /\ budget \in {b \in BudgetType(MaxBlocking) : b.exhausted => b.total = b.max}
    /\ phase = StartPhase(0)
    /\ pc = "loop"
    /\ next = 1
    /\ outcome = [r \in Rules |-> "pending"]
    /\ record = << >>
    /\ finalAction = "allow" /\ decidingRule = NoRule /\ auditOnlyDeny = FALSE
    /\ allowCount = 0 /\ failedOpen = FALSE
    /\ redacted = Unredacted
    /\ res = EmptyResults(kind)
-----------------------------------------------------------------------------
Tick ==
    /\ pc = "loop"
    /\ now < MaxTime
    /\ now' = now + 1
    /\ UNCHANGED <<configVars, budgetVars, pc, next, outcome, record, decideVars,
                   redacted, res>>

At(r) == pc = "loop" /\ r = next

Continue ==
    /\ next' = next + 1
    /\ UNCHANGED <<pc, budgetVars>>

\* Early termination: the phase is decided.
Break ==
    LET m == MarkDecided(budget, phase, now) IN
    /\ pc' = "finish"
    /\ budget' = m.budget /\ phase' = m.phase
    /\ UNCHANGED next

SkipRule(r) ==
    /\ At(r)
    /\ mode[r] = "disabled"
    /\ Continue
    /\ UNCHANGED <<configVars, now, outcome, record, decideVars, redacted, res>>

Evaluated(r, o, result) ==
    /\ At(r)
    /\ mode[r] # "disabled"
    /\ outcome' = [outcome EXCEPT ![r] = o]
    /\ record' = Append(record, [rule |-> r, result |-> result])
    /\ UNCHANGED <<configVars, now, res>>

\* An error of an enforced rule ends the phase: it fails open.
RuleFails(r) ==
    /\ Evaluated(r, "error", "error")
    /\ IF mode[r] = "enforce" THEN Break /\ failedOpen' = TRUE
                              ELSE Continue /\ UNCHANGED failedOpen
    /\ UNCHANGED <<finalAction, decidingRule, auditOnlyDeny, allowCount, redacted>>

\* The record calls a rule that did not match by the opposite of its action.
RuleUnmatched(r) ==
    /\ Evaluated(r, "unmatched", IF action[r] = "allow" THEN "deny" ELSE "allow")
    /\ Continue
    /\ UNCHANGED <<decideVars, redacted>>

AllowMatches(r) ==
    /\ action[r] = "allow"
    /\ Evaluated(r, "matched", "allow")
    /\ allowCount' = IF mode[r] = "enforce" THEN allowCount + 1 ELSE allowCount
    /\ Continue
    /\ UNCHANGED <<finalAction, decidingRule, auditOnlyDeny, failedOpen, redacted>>

\* Mutant: the loop goes on after the deny.
DecideAndContinue(r) ==
    /\ Continue
    /\ finalAction' = "deny" /\ decidingRule' = r
    /\ UNCHANGED <<auditOnlyDeny, allowCount, failedOpen, redacted>>

DecideDeny(r) ==
    /\ Break
    /\ finalAction' = "deny" /\ decidingRule' = r
    /\ UNCHANGED <<auditOnlyDeny, allowCount, failedOpen, redacted>>

\* Mutant: the mode of the rule is not looked at.
AnyDenyMatches(r) ==
    /\ action[r] = "deny"
    /\ Evaluated(r, "matched", "deny")
    /\ DecideDeny(r)

\* Only the request engine remembers a deny in audit_only mode.
DenyMatches(r) ==
    /\ action[r] = "deny"
    /\ Evaluated(r, "matched", "deny")
    /\ \/ mode[r] = "enforce" /\ DecideDeny(r)
       \/ /\ mode[r] = "audit_only"
          /\ Continue
          /\ auditOnlyDeny' = (auditOnlyDeny \/ kind = "request")
          /\ UNCHANGED <<finalAction, decidingRule, allowCount, failedOpen, redacted>>

applyRedaction(r) ==
    CASE action[r] = "redact"     -> Text \ {r}
      [] action[r] = "redact_all" -> {}
      [] action[r] = "redact_bad" -> Text

\* Every redaction starts from the text of the response.
RedactMatches(r) ==
    /\ action[r] \in Redactions
    /\ Evaluated(r, "matched", "redact")
    /\ IF hasText /\ mode[r] = "enforce"
       THEN /\ finalAction' = "redact"
            /\ redacted' = applyRedaction(r)
       ELSE UNCHANGED <<finalAction, redacted>>
    /\ Continue
    /\ UNCHANGED <<decidingRule, auditOnlyDeny, allowCount, failedOpen>>

LoopDone ==
    /\ pc = "loop" /\ next > N
    /\ pc' = "finish"
    /\ UNCHANGED <<configVars, now, budgetVars, next, outcome, record, decideVars,
                   redacted, res>>

\* Mutant: an audit_only deny is reported beside a deny.
BuildResultsWithBypass(message) ==
    R!Result(finalAction # "deny", IF finalAction = "deny" THEN 1 ELSE 0, failedOpen,
             auditOnlyDeny, IF finalAction = "deny" THEN "deny" ELSE "none", message)

\* The ValidationResults of a request; the message of the rule that decided
\* may be empty.
BuildResults(message) ==
    CASE finalAction = "deny"                    ->
           R!Result(FALSE, 1, failedOpen, FALSE, "deny", message)
      [] finalAction # "deny" /\ auditOnlyDeny   ->
           R!Result(TRUE, 0, failedOpen, TRUE, "deny", TRUE)
      [] finalAction # "deny" /\ ~auditOnlyDeny /\ failedOpen ->
           R!Result(TRUE, 0, TRUE, FALSE, "none", TRUE)
      [] finalAction # "deny" /\ ~auditOnlyDeny /\ ~failedOpen /\ allowCount > 0 ->
           R!Result(TRUE, 0, FALSE, FALSE, "allow", message)
      [] OTHER -> R!Nothing

\* The ResponseValidationResults of a response.
BuildResponse ==
    R!Response(finalAction # "deny", redacted # Unredacted, failedOpen, FALSE)

Finish ==
    /\ pc = "finish"
    /\ LET f == Finalize(budget, phase, now) IN budget' = f.budget /\ phase' = f.phase
    /\ IF kind = "request" THEN \E message \in BOOLEAN : res' = BuildResults(message)
                           ELSE res' = BuildResponse
    /\ pc' = "returned"
    /\ UNCHANGED <<configVars, now, next, outcome, record, decideVars, redacted>>

Next ==
    \/ Tick \/ LoopDone \/ Finish
    \/ \E r \in Rules : SkipRule(r) \/ RuleFails(r) \/ RuleUnmatched(r)
                        \/ AllowMatches(r) \/ DenyMatches(r) \/ RedactMatches(r)

SafetySpec == Init /\ [][Next]_vars
-----------------------------------------------------------------------------
(* Properties. *)

\* Every variable keeps its type; a phase charges the budget it shares with
\* the other phases of the request at most once and never beyond its maximum.
TypeOK ==
    /\ kind \in {"request", "response"}
    /\ mode \in [Rules -> Modes \cup {"disabled"}]
    /\ action \in [Rules -> ActionsOf(kind)]
    /\ hasText \in BOOLEAN
    /\ now \in Nat
    /\ budget \in BudgetType(MaxBlocking)
    /\ phase \in PhaseType
    /\ pc \in {"loop", "finish", "returned"}
    /\ next \in 1 .. N + 1
    /\ outcome \in [Rules -> {"pending", "matched", "unmatched", "error"}]
    /\ record \in Seq([rule : Rules, result : {"allow", "deny", "redact", "error"}])
    /\ finalAction \in {"allow", "deny", "redact"}
    /\ decidingRule \in 0 .. N
    /\ auditOnlyDeny \in BOOLEAN
    /\ allowCount \in 0 .. N
    /\ failedOpen \in BOOLEAN
    /\ redacted \in (SUBSET Text) \cup {Unredacted}
    /\ res \in (IF kind = "request" THEN R!ResultsType ELSE R!ResponseType)

Returned == pc = "returned"

\* What a rule says of the call: a deny rule that matched denies, an allow
\* rule that did not match denies nothing.
Verdict(r) ==
    CASE outcome[r] = "matched" /\ action[r] = "deny" -> "deny"
      [] outcome[r] \in {"pending", "error"}          -> outcome[r]
      [] OTHER                                        -> "allow"

Decision ==
    CASE ~Returned                                        -> "pending"
      [] Returned /\ ~res.allowed                         -> "deny"
      [] Returned /\ res.allowed /\ res.failedOpen        -> "failopen"
      [] OTHER                                            -> "allow"

PP == INSTANCE PolicyPhase WITH outcome <- [r \in Rules |-> Verdict(r)],
                                decision <- Decision

\* The CEL engines implement the abstract phase: they deny only because of a
\* rule in enforce mode and allow, without failing open, only when every such
\* rule was evaluated and none denied.
ImplementsPolicyPhase == PP!Spec

\* What the engines return is among the values that ToolCall assumes of them.
ReturnsAssumedResult ==
    Returned => res \in (IF kind = "request" THEN R!CELResults ELSE R!CELResponses)

\* The deny of a phase is that of the first enforced rule, in configured
\* order, that denies: it ends the record, no rule after it was evaluated,
\* and no enforced rule before it denied or failed.
FirstDenyDecides ==
    Returned /\ decidingRule # NoRule =>
        /\ record[Len(record)].rule = decidingRule
        /\ \A r \in Rules : r > decidingRule => outcome[r] = "pending"
        /\ \A r \in Rules : r < decidingRule /\ mode[r] = "enforce" =>
                               Verdict(r) = "allow"

\* "Don't show parts of the response to the AI agent. Replace matched
\* content": the secret of every enforced redact rule that matched is gone
\* from the text of a response that is passed on as redacted.
MatchedContentIsRedacted ==
    Returned /\ res.allowed /\ redacted # Unredacted =>
        \A r \in Rules : mode[r] = "enforce" /\ action[r] = "redact"
                         /\ outcome[r] = "matched" => r \notin redacted
=============================================================================
