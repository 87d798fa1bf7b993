--------------------------- MODULE AIResponseEngine ---------------------------
(***************************************************************************)
(* One call of AIResponsePolicyEngine.EvaluateResponse                     *)
(* (ai_response_engine.go), the AI response phase.  Like the request       *)
(* engine (AIEngine) it asks the AI provider about every policy at once    *)
(* and collects the results in the order in which they come; unlike it, a  *)
(* policy may redact, and there is no deadline: what bounds the wait is    *)
(* the timeout of each policy, capped to what is left of the budget.       *)
(*                                                                         *)
(* A redacted text is named after the policy that produced it: a result    *)
(* carries the whole text, so two redactions never add up.                 *)
(***************************************************************************)
EXTENDS Budget, FiniteSets

CONSTANTS Rules,        \* the configured AI response policies
          MaxBlocking,  \* validation.max_blocking_ms, in ticks
          MaxTime,      \* bound: the clock of the model stops here
          NoRule        \* "no rule"

ASSUME ResponseRules == IsFiniteSet(Rules) /\ NoRule \notin Rules
ASSUME ResponseTime == MaxBlocking \in Nat /\ MaxTime \in Nat

VARIABLES
    mode,              \* mode[r]: effective mode of a policy, or "disabled"
    outcome,           \* outcome[r]: what r's goroutine found, or "pending"
    resultChan,        \* results sent and not yet received
    now, budget, phase,
    pc,                \* where the calling goroutine is
    received,          \* ruleResults: rules whose result it collected
    remainingEnabled, remainingTotal,
    decided, finalAction, decidingRule, auditOnlyDeny, failedOpen,
    redactedBy,        \* redactedContent: the rule whose text it is
    async,             \* the background collector of this call
    res,               \* the ResponseValidationResults returned
    aiDetails          \* the audit record handed to the caller, if any

ruleVars    == <<mode, outcome>>
budgetVars  == <<budget, phase>>
collectVars == <<received, remainingEnabled, remainingTotal>>
decideVars  == <<decided, finalAction, decidingRule, auditOnlyDeny, failedOpen, redactedBy>>
vars == <<ruleVars, resultChan, now, budgetVars, pc, collectVars, decideVars, async, res,
          aiDetails>>

R == INSTANCE Results

Modes == {"enforce", "audit_only"}
Outcomes == {"allow", "deny", "redact", "error"}

Policies == {r \in Rules : mode[r] # "disabled"}
Enforced == {r \in Rules : mode[r] = "enforce"}
AuditOnly == {r \in Rules : mode[r] = "audit_only"}

Details(action, rules, rule) == [action |-> action, rules |-> rules, decidingRule |-> rule]
NoDetails == Details("none", {}, NoRule)
Collector(status, remaining, results, action, rule) ==
    [status |-> status, remaining |-> remaining, results |-> results, action |-> action,
     decidingRule |-> rule]
NoAsync == Collector("none", 0, {}, "none", NoRule)

\* Effective modes are resolved as for the other engines (ResolvePolicyMode).
LoadPolicies == mode \in [Rules -> Modes \cup {"disabled"}]

Init ==
    /\ LoadPolicies
    /\ outcome = [r \in Rules |-> "pending"]
    /\ resultChan = {}
    /\ now = 0
    /\ budget \in {b \in BudgetType(MaxBlocking) : b.exhausted => b.total = b.max}
    /\ phase = StartPhase(0)
    /\ pc = "start"
    /\ received = {} /\ remainingEnabled = 0 /\ remainingTotal = 0
    /\ decided = FALSE /\ finalAction = "allow" /\ decidingRule = NoRule
    /\ auditOnlyDeny = FALSE /\ failedOpen = FALSE /\ redactedBy = NoRule
    /\ async = NoAsync
    /\ res = R!Untouched
    /\ aiDetails = NoDetails
-----------------------------------------------------------------------------
(* The goroutine of one policy. *)

\* allowed is the provider's verdict; text says what it sent as redacted text.
DetermineResponseDecision(action, allowed, text) ==
    IF action = "redact" THEN IF text = "changed" THEN "redact" ELSE "allow"
    ELSE IF allowed THEN "allow" ELSE "deny"

\* The provider answers, fails or runs into the timeout of the policy.
EvaluateRule(r) ==
    /\ pc # "start"
    /\ r \in Policies
    /\ outcome[r] = "pending"
    /\ \/ outcome' = [outcome EXCEPT ![r] = "error"]
       \/ \E action \in {"allow", "deny", "redact"}, allowed \in BOOLEAN,
             text \in {"empty", "echoed", "changed"} :
             outcome' = [outcome EXCEPT
                           ![r] = DetermineResponseDecision(action, allowed, text)]
    /\ resultChan' = resultChan \cup {r}
    /\ UNCHANGED <<mode, now, budgetVars, pc, collectVars, decideVars, async, res, aiDetails>>

Tick ==
    /\ pc \notin {"start", "returned"}
    /\ now < MaxTime
    /\ now' = now + 1
    /\ UNCHANGED <<ruleVars, resultChan, budgetVars, pc, collectVars, decideVars, async, res,
                   aiDetails>>
-----------------------------------------------------------------------------
(* The calling goroutine. *)

MarkPhaseDecided ==
    LET m == MarkDecided(budget, phase, now) IN budget' = m.budget /\ phase' = m.phase
FinalizePhase ==
    LET f == Finalize(budget, phase, now) IN budget' = f.budget /\ phase' = f.phase

\* len(e.policies) == 0: an empty record.
ReturnNoPolicies ==
    /\ pc = "start"
    /\ Policies = {}
    /\ FinalizePhase
    /\ aiDetails' = Details("allow", {}, NoRule)
    /\ pc' = "returned"
    /\ UNCHANGED <<ruleVars, resultChan, now, collectVars, decideVars, async, res>>

\* Every policy is audit_only: the response passes at once.
LaunchAllAuditOnly ==
    /\ pc = "start"
    /\ Policies # {} /\ Enforced = {}
    /\ MarkPhaseDecided
    /\ async' = Collector("collecting", Cardinality(Policies), {}, "allow", NoRule)
    /\ pc' = "returned"
    /\ UNCHANGED <<ruleVars, resultChan, now, collectVars, decideVars, res, aiDetails>>

LaunchBlocking ==
    /\ pc = "start"
    /\ Enforced # {}
    /\ remainingEnabled' = Cardinality(Enforced)
    /\ remainingTotal' = Cardinality(Policies)
    /\ pc' = "loop"
    /\ UNCHANGED <<ruleVars, resultChan, now, budgetVars, received, decideVars, async, res,
                   aiDetails>>

\* Mutant: the action is captured before it is decided.
LeaveLoopStaleAction ==
    /\ pc' = "finish"
    /\ IF AuditOnly = {} THEN UNCHANGED async
       ELSE async' = Collector("collecting", remainingTotal, received, "allow",
                               decidingRule)

\* Mutant: the background goroutine awaits one result per policy again.
LeaveLoopAwaitAll ==
    /\ pc' = "finish"
    /\ IF AuditOnly = {} THEN UNCHANGED async
       ELSE async' = Collector("collecting", Cardinality(Policies), received, finalAction,
                               decidingRule)

\* Leaving the loop with results outstanding, which a background goroutine
\* takes over only when some policy is audit_only.
LeaveLoop ==
    /\ pc' = "finish"
    /\ IF AuditOnly = {} THEN UNCHANGED async
       ELSE async' = Collector("collecting", remainingTotal, received, finalAction,
                               decidingRule)

\* Mutant: the wait ends when one result is outstanding, whichever it is.
LoopDecidedEarly ==
    /\ pc = "loop" /\ remainingTotal > 0
    /\ decided \/ remainingTotal = 1
    /\ decided' = TRUE
    /\ IF decided THEN UNCHANGED budgetVars ELSE MarkPhaseDecided
    /\ LeaveLoop
    /\ UNCHANGED <<ruleVars, resultChan, now, collectVars, finalAction, decidingRule,
                   auditOnlyDeny, failedOpen, redactedBy, res, aiDetails>>

\* The head of the loop: decided by a deny or because every enforced policy
\* has answered.
LoopDecided ==
    /\ pc = "loop" /\ remainingTotal > 0
    /\ decided \/ remainingEnabled = 0
    /\ decided' = TRUE
    /\ IF decided THEN UNCHANGED budgetVars ELSE MarkPhaseDecided
    /\ LeaveLoop
    /\ UNCHANGED <<ruleVars, resultChan, now, collectVars, finalAction, decidingRule,
                   auditOnlyDeny, failedOpen, redactedBy, res, aiDetails>>

LoopExhausted ==
    /\ pc = "loop" /\ remainingTotal = 0
    /\ pc' = "finish"
    /\ UNCHANGED <<ruleVars, resultChan, now, budgetVars, collectVars, decideVars, async, res,
                   aiDetails>>

\* What a result of an enforced policy does to the decision.
Decide(r) ==
    CASE r \in Enforced /\ outcome[r] = "deny" ->
           /\ MarkPhaseDecided
           /\ decided' = TRUE /\ finalAction' = "deny" /\ decidingRule' = r
           /\ UNCHANGED <<failedOpen, redactedBy>>
      [] r \in Enforced /\ outcome[r] = "error" ->
           /\ failedOpen' = TRUE
           /\ UNCHANGED <<budgetVars, decided, finalAction, decidingRule, redactedBy>>
      [] r \in Enforced /\ outcome[r] = "redact" ->
           /\ finalAction' = "redact" /\ redactedBy' = r
           /\ UNCHANGED <<budgetVars, decided, decidingRule, failedOpen>>
      [] OTHER -> UNCHANGED <<budgetVars, decided, finalAction, decidingRule, failedOpen,
                              redactedBy>>

\* The select of the loop; its timer arm leads back to the same state.
Receive(r) ==
    /\ pc = "loop" /\ ~decided /\ remainingEnabled > 0
    /\ r \in resultChan
    /\ resultChan' = resultChan \ {r}
    /\ received' = received \cup {r}
    /\ remainingTotal' = remainingTotal - 1
    /\ remainingEnabled' = IF r \in Enforced THEN remainingEnabled - 1 ELSE remainingEnabled
    /\ auditOnlyDeny' = (auditOnlyDeny \/ (r \in AuditOnly /\ outcome[r] = "deny"))
    /\ Decide(r)
    /\ UNCHANGED <<ruleVars, now, pc, async, res, aiDetails>>

\* Mutant: redacted content goes with a deny.
BuildResultsKeepRedaction ==
    R!Response(finalAction # "deny", redactedBy # NoRule, failedOpen,
               finalAction = "allow" /\ ~failedOpen /\ auditOnlyDeny)

\* Mutant: a failure of one policy drops the redaction of another.
BuildResultsFailOpenFirst ==
    R!Response(finalAction # "deny", finalAction = "redact" /\ ~failedOpen, failedOpen,
               finalAction = "allow" /\ ~failedOpen /\ auditOnlyDeny)

\* Redacted content is returned only if redact is the decision.
BuildResults ==
    R!Response(finalAction # "deny", finalAction = "redact" /\ redactedBy # NoRule,
               failedOpen, finalAction = "allow" /\ ~failedOpen /\ auditOnlyDeny)

Finish ==
    /\ pc = "finish"
    /\ FinalizePhase
    /\ res' = BuildResults
    /\ aiDetails' = IF async.status = "none"
                    THEN Details(finalAction, received, decidingRule) ELSE aiDetails
    /\ pc' = "returned"
    /\ UNCHANGED <<ruleVars, resultChan, now, collectVars, decideVars, async>>
-----------------------------------------------------------------------------
(* The background goroutine. *)

AsyncReceive(r) ==
    /\ async.status = "collecting"
    /\ async.remaining > 0
    /\ r \in resultChan
    /\ resultChan' = resultChan \ {r}
    /\ async' = [async EXCEPT !.remaining = @ - 1, !.results = @ \cup {r}]
    /\ UNCHANGED <<ruleVars, now, budgetVars, pc, collectVars, decideVars, res, aiDetails>>

AsyncComplete ==
    /\ async.status = "collecting"
    /\ async.remaining = 0
    /\ async' = [async EXCEPT !.status = "done"]
    /\ aiDetails' = Details(async.action, async.results, async.decidingRule)
    /\ UNCHANGED <<ruleVars, resultChan, now, budgetVars, pc, collectVars, decideVars, res>>
-----------------------------------------------------------------------------
Caller ==
    \/ ReturnNoPolicies \/ LaunchAllAuditOnly \/ LaunchBlocking
    \/ LoopDecided \/ LoopExhausted \/ Finish
    \/ \E r \in Rules : Receive(r)

Next ==
    \/ Caller \/ Tick \/ AsyncComplete
    \/ \E r \in Rules : EvaluateRule(r) \/ AsyncReceive(r)

\* The goroutines are scheduled, and every provider call ends because its
\* context has a timeout.
Fairness ==
    /\ WF_vars(Caller)
    /\ WF_vars(AsyncComplete \/ \E r \in Rules : AsyncReceive(r))
    /\ \A r \in Rules : WF_vars(EvaluateRule(r))

SafetySpec == Init /\ [][Next]_vars
Spec == SafetySpec /\ Fairness
-----------------------------------------------------------------------------
(* Properties. *)

Returned == pc = "returned"

\* Every variable keeps its type; the counters of awaited results never go
\* negative and the budget never holds more than its maximum.
TypeOK ==
    /\ mode \in [Rules -> Modes \cup {"disabled"}]
    /\ outcome \in [Rules -> Outcomes \cup {"pending"}]
    /\ resultChan \in SUBSET Rules
    /\ now \in Nat
    /\ budget \in BudgetType(MaxBlocking)
    /\ phase \in PhaseType
    /\ pc \in {"start", "loop", "finish", "returned"}
    /\ received \in SUBSET Rules
    /\ remainingEnabled \in Nat /\ remainingTotal \in Nat
    /\ decided \in BOOLEAN
    /\ finalAction \in {"allow", "deny", "redact"}
    /\ decidingRule \in Rules \cup {NoRule}
    /\ auditOnlyDeny \in BOOLEAN /\ failedOpen \in BOOLEAN
    /\ redactedBy \in Rules \cup {NoRule}
    /\ async.status \in {"none", "collecting", "done"} /\ async.remaining \in Nat
    /\ async.results \in SUBSET Rules
    /\ res \in R!ResponseType
    /\ aiDetails.rules \in SUBSET Rules

\* A redaction lets the response pass.
Verdict(r) == IF outcome[r] = "redact" THEN "allow" ELSE outcome[r]
Decision ==
    CASE ~Returned                                 -> "pending"
      [] Returned /\ ~res.allowed                  -> "deny"
      [] Returned /\ res.allowed /\ res.failedOpen -> "failopen"
      [] OTHER                                     -> "allow"

PP == INSTANCE PolicyPhase WITH outcome <- [r \in Rules |-> Verdict(r)],
                                decision <- Decision

\* The engine implements the abstract phase, although it decides from results
\* in the order in which they happen to come.
ImplementsPolicyPhase == PP!Spec

\* What the engine returns is among the values that ToolCall assumes of it; in
\* particular a deny carries no redacted content.
ReturnsAssumedResult == Returned => res \in R!AIResponses

\* When the response passes with every enforced policy heard, a redaction that
\* one of them asked for is not forgotten: some redacted text replaces it.
RedactionIsKept ==
    Returned /\ res.allowed /\ (\E r \in Enforced : outcome[r] = "redact") => res.redacted

\* The audit record, whoever builds it, tells what was done with the response,
\* and one completed in the background lists every loaded policy.
RecordTellsDecision ==
    /\ Returned /\ aiDetails # NoDetails =>
          aiDetails.action = (IF ~res.allowed THEN "deny"
                              ELSE IF res.redacted THEN "redact" ELSE "allow")
    /\ async.status = "done" => aiDetails.rules = Policies

\* The call returns, and its collector, if it has one, completes the record.
EventuallyRecorded == <>(Returned /\ aiDetails # NoDetails)
=============================================================================
