------------------------------ MODULE AIEngine ------------------------------
(***************************************************************************)
(* One call of AIPolicyEngine.EvaluateToolCall (ai_engine.go), the AI      *)
(* request phase.  One goroutine per loaded policy asks the AI provider    *)
(* and sends one result on a buffered channel.  The calling goroutine      *)
(* collects results until it can decide, and hands what is left to a       *)
(* background goroutine that finishes the audit record.                    *)
(*                                                                         *)
(* EvaluateCLICommand of the same file repeats the same control flow for   *)
(* shell commands; this module stands for both.                            *)
(*                                                                         *)
(* resultChan is a set: the channel has room for every result, goroutines  *)
(* send in any order, so results are received in any order.                *)
(***************************************************************************)
EXTENDS Budget, FiniteSets

CONSTANTS Rules,        \* the configured AI policies
          MaxBlocking,  \* validation.max_blocking_ms, in ticks
          MaxTime,      \* bound: the clock of the model stops here
          NoRule        \* "no deciding rule"

ASSUME RulesAssumption == IsFiniteSet(Rules) /\ NoRule \notin Rules
ASSUME TimeAssumption == MaxBlocking \in Nat /\ MaxTime \in Nat /\ MaxBlocking < MaxTime

VARIABLES
    topMode,           \* top-level mode of the phase
    mode,              \* mode[r]: effective mode of a policy, or "disabled"
    outcome,           \* outcome[r]: what r's goroutine found, or "pending"
    resultChan,        \* results sent and not yet received
    now,               \* ticks since the evaluation started
    hasBudget,         \* budget # nil
    budget,            \* the request's blocking budget
    phase,             \* this phase's tracker
    deadline,          \* blockingDeadline
    pc,                \* where the calling goroutine is
    received,          \* auditResults: rules whose result it collected
    remainingEnabled,  \* enforce results still awaited
    remainingTotal,    \* results still awaited
    decided, finalAction, decidingRule, auditOnlyDeny, failedOpen,
    async,             \* the background collector of this call
    res,               \* the ValidationResults returned
    aiDetails          \* the audit record handed to the caller, if any

policyVars  == <<topMode, mode>>
ruleVars    == <<outcome, resultChan>>
budgetVars  == <<hasBudget, budget, phase>>
decideVars  == <<decided, finalAction, decidingRule, auditOnlyDeny, failedOpen>>
collectVars == <<received, remainingEnabled, remainingTotal>>
vars == <<policyVars, ruleVars, now, budgetVars, deadline, pc, collectVars,
          decideVars, async, res, aiDetails>>

Modes == {"enforce", "audit_only"}
Outcomes == {"allow", "deny", "error"}
Replies == {"api_error", "unparsable", "allowed", "refused"}

Policies == {r \in Rules : mode[r] # "disabled"}
Enforced == {r \in Rules : mode[r] = "enforce"}
AuditOnly == {r \in Rules : mode[r] = "audit_only"}

NoResults == [allowed |-> FALSE, failedOpen |-> FALSE, allowCount |-> 0,
              denyCount |-> 0, bypass |-> FALSE, recommended |-> "none"]
\* The allow given without waiting for any result.
AllowAtOnce(count) ==
    [allowed |-> TRUE, failedOpen |-> FALSE, allowCount |-> count,
     denyCount |-> 0, bypass |-> FALSE, recommended |-> "none"]
NoDetails == [action |-> "none", rules |-> {}, decidingRule |-> NoRule]
NoAsync == [status |-> "none", remaining |-> 0, results |-> {},
            action |-> "none", decidingRule |-> NoRule]
-----------------------------------------------------------------------------
(* Loading policies. *)

\* Mutant: the top-level mode is only a default.
ResolveRuleModeOnly(top, rule) ==
    IF rule = "audit_only" THEN "audit_only" ELSE "enforce"

ResolvePolicyMode(top, rule) ==
    IF top = "audit_only" \/ rule = "audit_only" THEN "audit_only" ELSE "enforce"

\* The effective modes of a configuration; a policy with enabled: false is
\* not loaded.
LoadPolicies(top, cfg) ==
    [r \in Rules |-> IF cfg[r] = "disabled" THEN "disabled"
                     ELSE ResolvePolicyMode(top, cfg[r])]

\* Budgets earlier phases of the same request can leave behind.
InheritedBudgets ==
    {b \in BudgetType(MaxBlocking) : b.exhausted => b.total = b.max}

Init ==
    /\ topMode \in Modes
    /\ \E cfg \in [Rules -> Modes \cup {"disabled"}] :
          mode = LoadPolicies(topMode, cfg)
    /\ outcome = [r \in Rules |-> "pending"]
    /\ resultChan = {}
    /\ now = 0
    /\ hasBudget \in BOOLEAN
    /\ budget \in InheritedBudgets
    /\ phase = StartPhase(0)
    /\ deadline = 0
    /\ pc = "start"
    /\ received = {}
    /\ remainingEnabled = 0 /\ remainingTotal = 0
    /\ decided = FALSE /\ finalAction = "allow" /\ decidingRule = NoRule
    /\ auditOnlyDeny = FALSE /\ failedOpen = FALSE
    /\ async = NoAsync
    /\ res = NoResults
    /\ aiDetails = NoDetails
-----------------------------------------------------------------------------
(* The goroutine of one policy. *)

\* A refusal denies whether the policy is a deny rule (an issue was found) or
\* an allow rule (the gate failed); API failures, timeouts and replies that
\* do not parse are errors.
RuleResult(reply) ==
    CASE reply = "allowed" -> "allow"
      [] reply = "refused" -> "deny"
      [] OTHER             -> "error"

\* The provider answers or the rule's own timeout expires; the goroutine has
\* a context of its own, so this happens whatever the caller does meanwhile.
EvaluateRule(r) ==
    /\ pc # "start"
    /\ r \in Policies
    /\ outcome[r] = "pending"
    /\ \E reply \in Replies :
          outcome' = [outcome EXCEPT ![r] = RuleResult(reply)]
    /\ resultChan' = resultChan \cup {r}
    /\ UNCHANGED <<policyVars, now, budgetVars, deadline, pc, collectVars,
                   decideVars, async, res, aiDetails>>

Tick ==
    /\ pc # "start"
    /\ now < MaxTime
    /\ now' = now + 1
    /\ UNCHANGED <<policyVars, ruleVars, budgetVars, deadline, pc, collectVars,
                   decideVars, async, res, aiDetails>>
-----------------------------------------------------------------------------
(* The calling goroutine. *)

\* phaseTracker.MarkDecided() when there is a tracker.
MarkPhaseDecided ==
    LET m == MarkDecided(budget, phase, now) IN
    IF hasBudget THEN budget' = m.budget /\ phase' = m.phase
                 ELSE UNCHANGED <<budget, phase>>

\* len(e.policies) == 0
ReturnNoPolicies ==
    /\ pc = "start"
    /\ Policies = {}
    /\ pc' = "returned"
    /\ res' = AllowAtOnce(0)
    /\ UNCHANGED <<policyVars, ruleVars, now, budgetVars, deadline, collectVars,
                   decideVars, async, aiDetails>>

\* Every policy is audit_only: the call returns at once and a background
\* goroutine collects everything.
LaunchAllAuditOnly ==
    /\ pc = "start"
    /\ Policies # {} /\ Enforced = {}
    /\ MarkPhaseDecided
    /\ async' = [status |-> "collecting", remaining |-> Cardinality(Policies),
                 results |-> {}, action |-> "allow", decidingRule |-> NoRule]
    /\ res' = AllowAtOnce(1)
    /\ pc' = "returned"
    /\ UNCHANGED <<policyVars, ruleVars, now, hasBudget, deadline, collectVars,
                   decideVars, aiDetails>>

\* A policy can block but there is no budget: an error, the goroutines are
\* already running.
LaunchWithoutBudget ==
    /\ pc = "start"
    /\ Enforced # {}
    /\ ~hasBudget
    /\ pc' = "failed"
    /\ UNCHANGED <<policyVars, ruleVars, now, budgetVars, deadline, collectVars,
                   decideVars, async, res, aiDetails>>

\* Policies can block: enter the collecting loop, already decided when the
\* budget was exhausted by an earlier phase.
LaunchBlocking ==
    /\ pc = "start"
    /\ Enforced # {}
    /\ hasBudget
    /\ remainingEnabled' = Cardinality(Enforced)
    /\ remainingTotal' = Cardinality(Policies)
    /\ decided' = budget.exhausted
    /\ failedOpen' = budget.exhausted
    /\ deadline' = IF budget.exhausted THEN 0 ELSE BlockingDeadline(budget, now)
    /\ pc' = "loop"
    /\ UNCHANGED <<policyVars, ruleVars, now, budgetVars, received, finalAction,
                   decidingRule, auditOnlyDeny, async, res, aiDetails>>

\* Mutant: the action is captured before it is decided.
LeaveLoopStaleAction(action) ==
    /\ pc' = "finish"
    /\ async' = IF AuditOnly = {} THEN async
                ELSE [status |-> "collecting", remaining |-> remainingTotal,
                      results |-> received, action |-> "allow",
                      decidingRule |-> decidingRule]

\* Mutant: the results collected so far are not captured.
LeaveLoopForgetResults(action) ==
    /\ pc' = "finish"
    /\ async' = IF AuditOnly = {} THEN async
                ELSE [status |-> "collecting", remaining |-> remainingTotal,
                      results |-> {}, action |-> action,
                      decidingRule |-> decidingRule]

\* Leaving the loop with results outstanding.  Only when some policy is
\* audit_only does a background goroutine take over the remaining results.
LeaveLoop(action) ==
    /\ pc' = "finish"
    /\ async' = IF AuditOnly = {} THEN async
                ELSE [status |-> "collecting", remaining |-> remainingTotal,
                      results |-> received, action |-> action,
                      decidingRule |-> decidingRule]

\* Mutant: the deadline is checked although the phase is decided.
LoopTimedOutAlways ==
    /\ pc = "loop" /\ remainingTotal > 0
    /\ now > deadline
    /\ MarkPhaseDecided
    /\ decided' = TRUE /\ finalAction' = "allow" /\ failedOpen' = TRUE
    /\ LeaveLoop("allow")
    /\ UNCHANGED <<policyVars, ruleVars, now, hasBudget, deadline, collectVars,
                   decidingRule, auditOnlyDeny, res, aiDetails>>

\* The four ways through the head of the loop while results are awaited.
LoopTimedOut ==
    /\ pc = "loop" /\ remainingTotal > 0
    /\ ~decided /\ now > deadline
    /\ MarkPhaseDecided
    /\ decided' = TRUE /\ finalAction' = "allow" /\ failedOpen' = TRUE
    /\ LeaveLoop("allow")
    /\ UNCHANGED <<policyVars, ruleVars, now, hasBudget, deadline, collectVars,
                   decidingRule, auditOnlyDeny, res, aiDetails>>

LoopEnforcedDone ==
    /\ pc = "loop" /\ remainingTotal > 0
    /\ ~decided /\ now <= deadline /\ remainingEnabled = 0
    /\ MarkPhaseDecided
    /\ decided' = TRUE
    /\ LeaveLoop(finalAction)
    /\ UNCHANGED <<policyVars, ruleVars, now, hasBudget, deadline, collectVars,
                   finalAction, decidingRule, auditOnlyDeny, failedOpen, res, aiDetails>>

LoopAlreadyDecided ==
    /\ pc = "loop" /\ remainingTotal > 0
    /\ decided
    /\ LeaveLoop(finalAction)
    /\ UNCHANGED <<policyVars, ruleVars, now, budgetVars, deadline, collectVars,
                   decideVars, res, aiDetails>>

LoopWait ==
    /\ pc = "loop" /\ remainingTotal > 0
    /\ ~decided /\ now <= deadline /\ remainingEnabled # 0
    /\ pc' = "select"
    /\ UNCHANGED <<policyVars, ruleVars, now, budgetVars, deadline, collectVars,
                   decideVars, async, res, aiDetails>>

LoopExhausted ==
    /\ pc = "loop" /\ remainingTotal = 0
    /\ pc' = "finish"
    /\ UNCHANGED <<policyVars, ruleVars, now, budgetVars, deadline, collectVars,
                   decideVars, async, res, aiDetails>>

\* Mutant: no timer, the select wakes up only for a result.
PollOnlyWithResult ==
    /\ pc = "select"
    /\ resultChan # {}
    /\ pc' = "loop"
    /\ UNCHANGED <<policyVars, ruleVars, now, budgetVars, deadline, collectVars,
                   decideVars, async, res, aiDetails>>

\* select: the 100 ms timer fires first.
PollTick ==
    /\ pc = "select"
    /\ pc' = "loop"
    /\ UNCHANGED <<policyVars, ruleVars, now, budgetVars, deadline, collectVars,
                   decideVars, async, res, aiDetails>>

\* Mutant: the mode of the denying policy is not looked at.
TerminateOnAnyDeny(r) ==
    IF outcome[r] = "deny" /\ ~decided
    THEN /\ MarkPhaseDecided
         /\ decided' = TRUE /\ finalAction' = "deny" /\ decidingRule' = r
    ELSE UNCHANGED <<budget, phase, decided, finalAction, decidingRule>>

\* A result of a policy that may block the call: the first deny decides.
EarlyTermination(r) ==
    IF outcome[r] = "deny" /\ r \in Enforced /\ ~decided
    THEN /\ MarkPhaseDecided
         /\ decided' = TRUE /\ finalAction' = "deny" /\ decidingRule' = r
    ELSE UNCHANGED <<budget, phase, decided, finalAction, decidingRule>>

\* select: a result arrives.
Receive(r) ==
    /\ pc = "select"
    /\ r \in resultChan
    /\ resultChan' = resultChan \ {r}
    /\ received' = received \cup {r}
    /\ remainingTotal' = remainingTotal - 1
    /\ remainingEnabled' = IF r \in Enforced THEN remainingEnabled - 1
                           ELSE remainingEnabled
    /\ auditOnlyDeny' = (auditOnlyDeny \/ (r \in AuditOnly /\ outcome[r] = "deny"))
    /\ EarlyTermination(r)
    /\ failedOpen' =
          (failedOpen \/ (~decided /\ r \in Enforced /\ outcome[r] = "error"))
    /\ pc' = "loop"
    /\ UNCHANGED <<policyVars, outcome, now, hasBudget, deadline, async, res,
                   aiDetails>>

\* Mutant: a failed evaluation is reported as an audit-mode bypass too.
BuildResultsBypassFirst(action, failed, bypass) ==
    LET denied == action = "deny" IN
    [allowed     |-> action = "allow",
     failedOpen  |-> failed,
     denyCount   |-> IF denied THEN 1 ELSE 0,
     allowCount  |-> IF denied THEN 0 ELSE 1,
     bypass      |-> ~denied /\ bypass,
     recommended |-> IF denied \/ bypass THEN "deny"
                     ELSE IF failed THEN "none" ELSE "allow"]

\* The ValidationResults of a decision.
BuildResults(action, failed, bypass) ==
    LET denied == action = "deny" IN
    [allowed     |-> action = "allow",
     failedOpen  |-> failed,
     denyCount   |-> IF denied THEN 1 ELSE 0,
     allowCount  |-> IF denied THEN 0 ELSE 1,
     bypass      |-> ~denied /\ ~failed /\ bypass,
     recommended |-> IF denied THEN "deny"
                     ELSE IF failed THEN "none"
                     ELSE IF bypass THEN "deny" ELSE "allow"]

\* The record of a call that leaves no background collector behind.
BuildDetails ==
    IF async.status = "none"
    THEN [action |-> finalAction, rules |-> received, decidingRule |-> decidingRule]
    ELSE aiDetails

Finish ==
    /\ pc = "finish"
    /\ LET f == Finalize(budget, phase, now) IN
          budget' = f.budget /\ phase' = f.phase
    /\ aiDetails' = BuildDetails
    /\ res' = BuildResults(finalAction, failedOpen, auditOnlyDeny)
    /\ pc' = "returned"
    /\ UNCHANGED <<policyVars, ruleVars, now, hasBudget, deadline, collectVars,
                   decideVars, async>>
-----------------------------------------------------------------------------
(* The background collector. *)

AsyncReceive(r) ==
    /\ async.status = "collecting"
    /\ async.remaining > 0
    /\ r \in resultChan
    /\ resultChan' = resultChan \ {r}
    /\ async' = [status |-> "collecting", remaining |-> async.remaining - 1,
                 results |-> async.results \cup {r}, action |-> async.action,
                 decidingRule |-> async.decidingRule]
    /\ UNCHANGED <<policyVars, outcome, now, budgetVars, deadline, pc,
                   collectVars, decideVars, res, aiDetails>>

\* Everything collected: the record goes to the completion channel.
AsyncComplete ==
    /\ async.status = "collecting"
    /\ async.remaining = 0
    /\ async' = [async EXCEPT !.status = "done"]
    /\ aiDetails' = [action |-> async.action, rules |-> async.results,
                     decidingRule |-> async.decidingRule]
    /\ UNCHANGED <<policyVars, ruleVars, now, budgetVars, deadline, pc,
                   collectVars, decideVars, res>>
-----------------------------------------------------------------------------
Launch ==
    ReturnNoPolicies \/ LaunchAllAuditOnly \/ LaunchWithoutBudget \/ LaunchBlocking

Loop ==
    LoopTimedOut \/ LoopEnforcedDone \/ LoopAlreadyDecided \/ LoopWait \/ LoopExhausted

Next ==
    \/ Launch \/ Loop \/ PollTick \/ Finish \/ Tick
    \/ \E r \in Rules : EvaluateRule(r) \/ Receive(r) \/ AsyncReceive(r)
    \/ AsyncComplete

SafetySpec == Init /\ [][Next]_vars

\* Time passes and the calling goroutine is scheduled.  Nothing is assumed of
\* the AI provider.
CallerFairness ==
    /\ WF_vars(Tick)
    /\ WF_vars(Launch \/ Loop \/ Finish)
    /\ WF_vars(PollTick \/ \E r \in Rules : Receive(r))

\* Every provider call runs under a context with a timeout, so every rule
\* goroutine sends a result; the background collector is scheduled.
BackgroundFairness ==
    /\ \A r \in Rules : WF_vars(EvaluateRule(r))
    /\ WF_vars(AsyncComplete \/ \E r \in Rules : AsyncReceive(r))

Spec == SafetySpec /\ CallerFairness
-----------------------------------------------------------------------------
(* Properties. *)

Returned == pc = "returned"

ResultsType == [allowed : BOOLEAN, failedOpen : BOOLEAN, allowCount : 0 .. 1,
                denyCount : 0 .. 1, bypass : BOOLEAN,
                recommended : {"none", "allow", "deny"}]
AsyncType == [status : {"none", "collecting", "done"}, remaining : Nat,
              results : SUBSET Rules, action : {"none", "allow", "deny"},
              decidingRule : Rules \cup {NoRule}]
DetailsType == [action : {"none", "allow", "deny"}, rules : SUBSET Rules,
                decidingRule : Rules \cup {NoRule}]

\* Every variable keeps its type; in particular the counters of awaited
\* results never go negative and a budget never holds more than its maximum.
TypeOK ==
    /\ topMode \in Modes
    /\ mode \in [Rules -> Modes \cup {"disabled"}]
    /\ outcome \in [Rules -> Outcomes \cup {"pending"}]
    /\ resultChan \in SUBSET Rules
    /\ now \in Nat
    /\ hasBudget \in BOOLEAN
    /\ budget \in BudgetType(MaxBlocking)
    /\ phase \in PhaseType
    /\ deadline \in Nat
    /\ pc \in {"start", "loop", "select", "finish", "returned", "failed"}
    /\ received \in SUBSET Rules
    /\ remainingEnabled \in Nat
    /\ remainingTotal \in Nat
    /\ decided \in BOOLEAN
    /\ finalAction \in {"allow", "deny"}
    /\ decidingRule \in Rules \cup {NoRule}
    /\ auditOnlyDeny \in BOOLEAN
    /\ failedOpen \in BOOLEAN
    /\ async \in AsyncType
    /\ res \in ResultsType
    /\ aiDetails \in DetailsType

\* How the state of the collector reads as the state of an abstract phase.
Decision ==
    CASE pc = "failed"                          -> "error"
      [] pc = "returned" /\ ~res.allowed        -> "deny"
      [] pc = "returned" /\ res.allowed /\ res.failedOpen  -> "failopen"
      [] pc = "returned" /\ res.allowed /\ ~res.failedOpen -> "allow"
      [] OTHER                                  -> "pending"

PP == INSTANCE PolicyPhase WITH decision <- Decision

\* The evaluation implements the abstract phase: one decision, a deny only
\* because of a rule in enforce mode, a plain allow only after every such rule
\* said allow, whatever the order of answers, the deadline and the polls do.
ImplementsPolicyPhase == PP!Spec

R == INSTANCE Results

InResultsTerms(v) ==
    R!Result(v.allowed, v.denyCount, v.failedOpen, v.bypass, v.recommended, TRUE)

\* What the engine returns is among the values that ToolCall assumes of it.
ReturnsAssumedResult ==
    Returned => InResultsTerms(res) \in R!AIResults

\* A phase whose top-level mode is audit_only never blocks a call, whatever
\* modes the rules have of their own.
AuditOnlyPhaseNeverBlocks ==
    topMode = "audit_only" /\ Returned => res.allowed /\ ~res.failedOpen

\* "Would have denied" (AuditModeBypass) is reported of an allowed call only
\* when a rule in audit_only mode denied and every enforced rule vouched for
\* the call.
BypassIsHonest ==
    Returned /\ res.bypass =>
        /\ res.allowed /\ ~res.failedOpen
        /\ \E r \in AuditOnly : outcome[r] = "deny"
        /\ \A r \in Enforced : outcome[r] = "allow"

\* The audit record, whether the caller or the background goroutine builds it,
\* tells the decision the caller was given, and names the deciding rule
\* exactly when that decision is deny.
RecordTellsDecision ==
    Returned /\ aiDetails # NoDetails =>
        /\ aiDetails.action = (IF res.allowed THEN "allow" ELSE "deny")
        /\ aiDetails.action = "deny" <=> aiDetails.decidingRule # NoRule
        /\ aiDetails.action = "deny" =>
              aiDetails.decidingRule \in aiDetails.rules \cap Enforced

\* A record completed in the background lists every loaded policy, including
\* the results the caller had collected before it stopped waiting.
AsyncRecordIsComplete ==
    async.status = "done" => aiDetails.rules = Policies

\* Once decided, the decision of the phase stands: no late result, poll or
\* deadline turns a deny into an allow or the reverse.
DecisionStands ==
    [][decided => decided' /\ finalAction' = finalAction
                          /\ decidingRule' = decidingRule]_vars

(* The inductive invariant behind the theorems of AIEngineProofs. *)

\* Before the launch nothing has happened.
NotStarted ==
    pc = "start" =>
        /\ outcome = [r \in Rules |-> "pending"]
        /\ finalAction = "allow" /\ decidingRule = NoRule /\ ~failedOpen
        /\ received = {} /\ resultChan = {} /\ async = NoAsync /\ ~decided
        /\ aiDetails = NoDetails

\* Every result sent is in exactly one place.
ResultsAccounted ==
    /\ {r \in Rules : outcome[r] # "pending"}
          = resultChan \cup received \cup async.results
    /\ resultChan \cap (received \cup async.results) = {}
    /\ resultChan \cup received \cup async.results \subseteq Policies

\* While the caller collects, its counters count what it has not received.
CallerCounts ==
    pc \in {"loop", "select"} =>
        /\ async = NoAsync /\ hasBudget /\ aiDetails = NoDetails
        /\ Enforced # {}
        /\ remainingTotal = Cardinality(Policies \ received)
        /\ remainingEnabled = Cardinality(Enforced \ received)
        /\ pc = "select" => ~decided

\* What the decision variables say of the results received.
DecisionGrounded ==
    /\ finalAction = "deny" <=> decidingRule # NoRule
    /\ decidingRule # NoRule =>
          /\ decidingRule \in Enforced \cap received
          /\ outcome[decidingRule] = "deny"
          /\ decided
    /\ finalAction = "allow" => \A r \in Enforced \cap received : outcome[r] # "deny"
    /\ ~failedOpen => \A r \in Enforced \cap received : outcome[r] # "error"
    /\ (decided \/ pc = "finish") /\ finalAction = "allow" /\ ~failedOpen =>
          Enforced \subseteq received
    /\ failedOpen => Enforced # {}
    /\ auditOnlyDeny => \E r \in AuditOnly \cap received : outcome[r] = "deny"
    /\ topMode = "audit_only" => Enforced = {}
    /\ pc = "finish" => hasBudget /\ Enforced # {}

\* The background collector continues from where the caller stopped.
AsyncContinues ==
    async.status # "none" =>
        /\ pc \in {"finish", "returned"}
        /\ received \subseteq async.results
        /\ async.remaining = Cardinality(Policies \ async.results)
        /\ async.action = finalAction /\ async.decidingRule = decidingRule
        /\ async.status = "done" => async.remaining = 0
        /\ async.status = "done" <=> aiDetails # NoDetails

\* A published record tells the decision.
DetailsGrounded ==
    /\ async.status = "none" /\ pc # "returned" => aiDetails = NoDetails
    /\ aiDetails # NoDetails =>
          /\ aiDetails.action = finalAction
          /\ aiDetails.decidingRule = decidingRule
          /\ received \subseteq aiDetails.rules
          /\ async.status = "done" => aiDetails.rules = Policies

\* What the caller was given is the decision.
ReturnGrounded ==
    pc = "returned" =>
        /\ res.allowed <=> finalAction = "allow"
        /\ res.failedOpen = failedOpen
        /\ res.bypass => finalAction = "allow" /\ ~failedOpen /\ auditOnlyDeny
        /\ finalAction = "allow" /\ ~failedOpen => Enforced \subseteq received

IInv ==
    /\ TypeOK
    /\ phase.start <= now
    /\ NotStarted /\ ResultsAccounted /\ CallerCounts /\ DecisionGrounded
    /\ AsyncContinues /\ DetailsGrounded /\ ReturnGrounded

\* A call always returns to its caller, though no AI provider ever answers;
\* and a background collector always finishes, so WaitForAsync at shutdown
\* ends, provided that every provider call ends, in time or by its timeout.
EventuallyCompletes ==
    /\ <>(pc \in {"returned", "failed"})
    /\ BackgroundFairness => ((async.status = "collecting") ~> (async.status = "done"))
=============================================================================
