------------------------ MODULE AIResponseEngineProofs ------------------------
(***************************************************************************)
(* Theorems about AIResponseEngine for any set of policies, any budget and *)
(* any clock.  The proof follows the one of the request engine             *)
(* (AIEngineProofs), with what redaction adds: the invariant IInv ties the *)
(* action of the phase to the results received, so that a text asked for   *)
(* by an enforced policy cannot get lost between its goroutine and the     *)
(* result returned.                                                        *)
(***************************************************************************)
EXTENDS AIResponseEngine, BudgetProofs, FiniteSetTheorems

USE DEF ruleVars, budgetVars, collectVars, decideVars

RecordActions == {"none", "allow", "deny", "redact"}
AsyncType == [status : {"none", "collecting", "done"}, remaining : Nat,
              results : SUBSET Rules, action : RecordActions,
              decidingRule : Rules \cup {NoRule}]
DetailsType == [action : RecordActions, rules : SUBSET Rules,
                decidingRule : Rules \cup {NoRule}]

\* TypeOK with the shape of the two records.
Typed == TypeOK /\ async \in AsyncType /\ aiDetails \in DetailsType

\* Before the launch nothing has happened.
NotStarted ==
    pc = "start" =>
        /\ outcome = [r \in Rules |-> "pending"]
        /\ finalAction = "allow" /\ decidingRule = NoRule /\ ~failedOpen
        /\ received = {} /\ resultChan = {} /\ ~decided /\ res = R!Untouched
        /\ async = NoAsync /\ aiDetails = NoDetails

\* Every result sent is in exactly one place.
ResultsAccounted ==
    /\ {r \in Rules : outcome[r] # "pending"}
          = resultChan \cup received \cup async.results
    /\ resultChan \cap (received \cup async.results) = {}
    /\ resultChan \cup received \cup async.results \subseteq Policies

\* While the caller collects, its counters count what it has not received.
CallerCounts ==
    pc = "loop" =>
        /\ async = NoAsync /\ aiDetails = NoDetails
        /\ Enforced # {}
        /\ remainingTotal = Cardinality(Policies \ received)
        /\ remainingEnabled = Cardinality(Enforced \ received)

\* The action of the phase is what the enforced results received make of it:
\* a deny outranks a redaction, and a redaction an allow.
DecisionGrounded ==
    /\ finalAction = "deny" <=> decidingRule # NoRule
    /\ decidingRule # NoRule =>
          decidingRule \in Enforced \cap received /\ outcome[decidingRule] = "deny"
    /\ finalAction = "redact" => redactedBy # NoRule
    /\ finalAction # "deny" => \A r \in Enforced \cap received : outcome[r] # "deny"
    /\ finalAction = "allow" => \A r \in Enforced \cap received : outcome[r] # "redact"
    /\ ~failedOpen => \A r \in Enforced \cap received : outcome[r] # "error"
    /\ failedOpen => Enforced # {}

\* A wait that ends without a deny ends with every enforced policy heard.
WaitGrounded ==
    /\ (decided \/ pc = "finish") /\ finalAction # "deny" => Enforced \subseteq received
    /\ finalAction = "deny" => decided
    /\ pc = "finish" => Enforced # {}

\* The background collector continues from where the caller stopped.
AsyncContinues ==
    async.status # "none" =>
        /\ pc \in {"finish", "returned"}
        /\ received \subseteq async.results
        /\ async.remaining = Cardinality(Policies \ async.results)
        /\ async.action = finalAction /\ async.decidingRule = decidingRule
        /\ async.status = "done" => async.remaining = 0
        /\ async.status = "done" <=> aiDetails # NoDetails

\* A published record tells the decision.
DetailsGrounded ==
    /\ async.status = "none" /\ pc # "returned" => aiDetails = NoDetails
    /\ aiDetails # NoDetails =>
          /\ aiDetails.action = finalAction
          /\ async.status = "done" => aiDetails.rules = Policies

\* What the caller was given is the decision.
ReturnGrounded ==
    pc = "returned" =>
        /\ res.allowed <=> finalAction # "deny"
        /\ res.redacted <=> finalAction = "redact"
        /\ res.failedOpen = failedOpen
        /\ res \in R!AIResponses
        /\ finalAction # "deny" => Enforced \subseteq received

\* The inductive invariant.
IInv ==
    /\ Typed
    /\ phase.start <= now
    /\ NotStarted /\ ResultsAccounted /\ CallerCounts /\ DecisionGrounded /\ WaitGrounded
    /\ AsyncContinues /\ DetailsGrounded /\ ReturnGrounded
-----------------------------------------------------------------------------
\* The policies a call waits for can be counted, and receiving one of them
\* lowers the count by one.
LEMMA Awaited ==
    ASSUME NEW S \in SUBSET Rules
    PROVE  /\ IsFiniteSet(S)
           /\ Cardinality(S) \in Nat
           /\ Cardinality(S) = 0 <=> S = {}
           /\ \A r \in S : Cardinality(S \ {r}) = Cardinality(S) - 1
  BY ResponseRules, FS_Subset, FS_CardinalityType, FS_EmptySet, FS_RemoveElement

\* MarkDecided and Finalize keep budget and tracker well formed.
LEMMA PhaseClosed ==
    ASSUME IInv, UNCHANGED now, MarkPhaseDecided \/ FinalizePhase \/ UNCHANGED budgetVars
    PROVE  /\ budget' \in BudgetType(MaxBlocking)
           /\ phase' \in PhaseType
           /\ (phase.start <= now)'
  <1>1. /\ budget \in BudgetType(MaxBlocking) /\ phase \in PhaseType
        /\ now \in Nat /\ phase.start <= now /\ MaxBlocking \in Nat
    BY ResponseTime DEF IInv, Typed, TypeOK
  <1>2. CASE MarkPhaseDecided
    <2>1. /\ MarkDecided(budget, phase, now).budget \in BudgetType(MaxBlocking)
          /\ MarkDecided(budget, phase, now).phase \in PhaseType
          /\ MarkDecided(budget, phase, now).phase.start = phase.start
      BY <1>1, ClosePhaseType
    <2> QED
      BY <1>1, <1>2, <2>1 DEF MarkPhaseDecided
  <1>3. CASE FinalizePhase
    <2>1. /\ Finalize(budget, phase, now).budget \in BudgetType(MaxBlocking)
          /\ Finalize(budget, phase, now).phase \in PhaseType
          /\ Finalize(budget, phase, now).phase.start = phase.start
      BY <1>1, ClosePhaseType
    <2> QED
      BY <1>1, <1>3, <2>1 DEF FinalizePhase
  <1>4. CASE UNCHANGED budgetVars
    BY <1>1, <1>4
  <1> QED
    BY <1>2, <1>3, <1>4

\* What BuildResults makes of the decision variables.
LEMMA Built ==
    ASSUME IInv
    PROVE  /\ BuildResults \in R!ResponseType
           /\ BuildResults.allowed <=> finalAction # "deny"
           /\ BuildResults.redacted <=> finalAction = "redact"
           /\ BuildResults.failedOpen = failedOpen
           /\ BuildResults \in R!AIResponses
  <1>1. /\ (finalAction # "deny") \in BOOLEAN
        /\ (finalAction = "redact" /\ redactedBy # NoRule) \in BOOLEAN
        /\ failedOpen \in BOOLEAN
        /\ (finalAction = "allow" /\ ~failedOpen /\ auditOnlyDeny) \in BOOLEAN
    BY Zenon DEF IInv, Typed, TypeOK
  <1>2. BuildResults \in R!ResponseType
    BY <1>1, Zenon DEF BuildResults, R!Response, R!ResponseType
  <1>3. /\ BuildResults.allowed = (finalAction # "deny")
        /\ BuildResults.redacted = (finalAction = "redact" /\ redactedBy # NoRule)
        /\ BuildResults.failedOpen = failedOpen
        /\ BuildResults.bypass = (finalAction = "allow" /\ ~failedOpen /\ auditOnlyDeny)
    BY Zenon DEF BuildResults, R!Response
  <1>4. finalAction = "redact" => redactedBy # NoRule
    BY DEF IInv, DecisionGrounded
  <1>5. /\ BuildResults.redacted => BuildResults.allowed
        /\ BuildResults.bypass => /\ BuildResults.allowed /\ ~BuildResults.redacted
                                  /\ ~BuildResults.failedOpen
    BY <1>3
  <1>6. BuildResults \in R!AIResponses
    BY <1>2, <1>5, Zenon DEF R!AIResponses
  <1> QED
    BY <1>2, <1>3, <1>4, <1>6, Zenon

\* An untouched response is among the values assumed of the engine.
LEMMA UntouchedIsAssumed ==
    /\ R!Untouched \in R!AIResponses /\ R!Untouched \in R!ResponseType
    /\ R!Untouched.allowed /\ ~R!Untouched.redacted /\ R!Untouched.failedOpen = FALSE
  BY DEF R!Untouched, R!Response, R!AIResponses, R!ResponseType

\* The initial states satisfy the invariant.
LEMMA InitIInv == Init => IInv
  <1> SUFFICES ASSUME Init PROVE IInv
    OBVIOUS
  <1>1. phase \in PhaseType /\ phase.start = 0
    BY DEF Init, StartPhase, PhaseType
  <1>2. budget \in BudgetType(MaxBlocking)
    BY DEF Init
  <1>3. async \in AsyncType /\ aiDetails \in DetailsType
    BY DEF Init, NoAsync, Collector, NoDetails, Details, AsyncType, DetailsType, RecordActions
  <1>4. Typed
    BY <1>1, <1>2, <1>3, UntouchedIsAssumed DEF Init, LoadPolicies, TypeOK, Typed, Outcomes, AsyncType, DetailsType
  <1>5. NotStarted /\ CallerCounts /\ DecisionGrounded /\ WaitGrounded /\ ReturnGrounded
    BY DEF Init, NotStarted, CallerCounts, DecisionGrounded, WaitGrounded, ReturnGrounded
  <1>6. ResultsAccounted /\ AsyncContinues /\ DetailsGrounded
    BY DEF Init, NoAsync, Collector, ResultsAccounted, AsyncContinues, DetailsGrounded
  <1> QED
    BY <1>1, <1>4, <1>5, <1>6 DEF Init, IInv

\* No policy is loaded: the response passes.
LEMMA ReturnNoPoliciesStep ==
    ASSUME IInv, ReturnNoPolicies
    PROVE  IInv'
  <1>1. Typed'
    <2>1. budget' \in BudgetType(MaxBlocking) /\ phase' \in PhaseType
      BY PhaseClosed DEF ReturnNoPolicies
    <2>2. aiDetails' \in DetailsType
      BY DEF ReturnNoPolicies, Details, DetailsType, RecordActions
    <2> QED
      BY <2>1, <2>2 DEF IInv, Typed, TypeOK, ReturnNoPolicies, DetailsType
  <1>2. NotStarted'
    BY DEF NotStarted, ReturnNoPolicies
  <1>3. ResultsAccounted'
    BY DEF IInv, ResultsAccounted, ReturnNoPolicies, Policies, Enforced, AuditOnly
  <1>4. CallerCounts'
    BY DEF CallerCounts, ReturnNoPolicies
  <1>5. DecisionGrounded'
    BY DEF IInv, DecisionGrounded, ReturnNoPolicies, Policies, Enforced, AuditOnly
  <1>6. WaitGrounded'
    BY DEF IInv, WaitGrounded, ReturnNoPolicies, Policies, Enforced, AuditOnly
  <1>7. AsyncContinues'
    BY DEF IInv, AsyncContinues, ReturnNoPolicies, Policies, Enforced, AuditOnly
  <1>8. DetailsGrounded'
    BY DEF IInv, NotStarted, NoAsync, Collector, DetailsGrounded, ReturnNoPolicies, Details
  <1>9. ReturnGrounded'
    <2>1. /\ res' = R!Untouched /\ finalAction' = "allow" /\ failedOpen' = FALSE
          /\ Enforced' = {}
      BY DEF IInv, Typed, TypeOK, NotStarted, ReturnNoPolicies, Policies, Enforced
    <2> QED
      BY <2>1, UntouchedIsAssumed DEF ReturnGrounded
  <1>10. (phase.start <= now)'
    BY PhaseClosed DEF ReturnNoPolicies
  <1> QED
    BY <1>1, <1>2, <1>3, <1>4, <1>5, <1>6, <1>7, <1>8, <1>9, <1>10 DEF IInv

\* Only audit_only policies: the background collector takes everything.
LEMMA LaunchAllAuditOnlyStep ==
    ASSUME IInv, LaunchAllAuditOnly
    PROVE  IInv'
  <1>1. Typed'
    <2>1. budget' \in BudgetType(MaxBlocking) /\ phase' \in PhaseType
      BY PhaseClosed DEF LaunchAllAuditOnly
    <2>2. async' \in AsyncType
      BY Awaited DEF LaunchAllAuditOnly, Collector, AsyncType, RecordActions, Policies
    <2> QED
      BY <2>1, <2>2 DEF IInv, Typed, TypeOK, LaunchAllAuditOnly, AsyncType
  <1>2. NotStarted'
    BY DEF NotStarted, LaunchAllAuditOnly
  <1>3. ResultsAccounted'
    BY DEF IInv, NotStarted, NoAsync, ResultsAccounted, LaunchAllAuditOnly, Collector, Policies
  <1>4. CallerCounts'
    BY DEF CallerCounts, LaunchAllAuditOnly
  <1>5. DecisionGrounded'
    BY DEF IInv, DecisionGrounded, LaunchAllAuditOnly, Policies, Enforced, AuditOnly
  <1>6. WaitGrounded'
    BY DEF IInv, WaitGrounded, LaunchAllAuditOnly, Policies, Enforced, AuditOnly
  <1>7. AsyncContinues'
    BY DEF IInv, NotStarted, AsyncContinues, LaunchAllAuditOnly, Collector, Policies, Enforced
  <1>8. DetailsGrounded'
    BY DEF IInv, NotStarted, DetailsGrounded, LaunchAllAuditOnly
  <1>9. ReturnGrounded'
    <2>1. /\ res' = R!Untouched /\ finalAction' = "allow" /\ failedOpen' = FALSE
          /\ Enforced' = {}
      BY DEF IInv, Typed, TypeOK, NotStarted, LaunchAllAuditOnly, Enforced
    <2> QED
      BY <2>1, UntouchedIsAssumed DEF ReturnGrounded
  <1>10. (phase.start <= now)'
    BY PhaseClosed DEF LaunchAllAuditOnly
  <1> QED
    BY <1>1, <1>2, <1>3, <1>4, <1>5, <1>6, <1>7, <1>8, <1>9, <1>10 DEF IInv

\* The caller starts to wait.
LEMMA LaunchBlockingStep ==
    ASSUME IInv, LaunchBlocking
    PROVE  IInv'
  <1>1. Typed'
    <2>1. remainingEnabled' \in Nat /\ remainingTotal' \in Nat
      BY Awaited DEF LaunchBlocking, Enforced, Policies
    <2> QED
      BY <2>1 DEF IInv, Typed, TypeOK, LaunchBlocking
  <1>2. NotStarted'
    BY DEF NotStarted, LaunchBlocking
  <1>3. ResultsAccounted'
    BY DEF IInv, ResultsAccounted, LaunchBlocking, Policies, Enforced, AuditOnly
  <1>4. CallerCounts'
    BY DEF IInv, NotStarted, CallerCounts, LaunchBlocking, Policies, Enforced
  <1>5. DecisionGrounded'
    BY DEF IInv, DecisionGrounded, LaunchBlocking, Policies, Enforced, AuditOnly
  <1>6. WaitGrounded'
    BY DEF IInv, NotStarted, WaitGrounded, LaunchBlocking
  <1>7. AsyncContinues'
    BY DEF IInv, AsyncContinues, LaunchBlocking, Policies, Enforced, AuditOnly
  <1>8. DetailsGrounded'
    BY DEF IInv, NotStarted, DetailsGrounded, LaunchBlocking
  <1>9. ReturnGrounded'
    BY DEF ReturnGrounded, LaunchBlocking
  <1>10. (phase.start <= now)'
    BY DEF IInv, Typed, TypeOK, PhaseType, LaunchBlocking
  <1> QED
    BY <1>1, <1>2, <1>3, <1>4, <1>5, <1>6, <1>7, <1>8, <1>9, <1>10 DEF IInv

\* The head of the loop, decided by a deny or by the last enforced answer.
LEMMA LoopDecidedStep ==
    ASSUME IInv, LoopDecided
    PROVE  IInv'
  <1>0. /\ pc' = "finish" /\ pc = "loop" /\ async = NoAsync /\ aiDetails = NoDetails
        /\ UNCHANGED <<mode, outcome, resultChan, received, finalAction, decidingRule,
                       failedOpen, redactedBy, aiDetails, res>>
        /\ async' = IF AuditOnly = {} THEN async
                    ELSE [status |-> "collecting", remaining |-> remainingTotal,
                          results |-> received, action |-> finalAction,
                          decidingRule |-> decidingRule]
    BY DEF IInv, CallerCounts, LoopDecided, LeaveLoop, Collector
  <1>1. Typed'
    <2>1. async' \in AsyncType
      BY <1>0 DEF IInv, Typed, TypeOK, AsyncType, RecordActions
    <2>2. budget' \in BudgetType(MaxBlocking) /\ phase' \in PhaseType
      BY PhaseClosed DEF LoopDecided
    <2> QED
      BY <1>0, <2>1, <2>2 DEF IInv, Typed, TypeOK, LoopDecided, AsyncType
  <1>2. NotStarted'
    BY <1>0 DEF NotStarted
  <1>3. ResultsAccounted'
    BY <1>0 DEF IInv, ResultsAccounted, NoAsync, Collector, Policies
  <1>4. CallerCounts'
    BY <1>0 DEF CallerCounts
  <1>5. DecisionGrounded'
    BY <1>0 DEF IInv, DecisionGrounded, Enforced
  <1>6. WaitGrounded'
    <2>1. finalAction # "deny" => Enforced \subseteq received
      <3>1. CASE decided
        BY <3>1 DEF IInv, WaitGrounded
      <3>2. CASE remainingEnabled = 0
        BY <3>2, Awaited DEF IInv, CallerCounts, LoopDecided, Enforced
      <3> QED
        BY <3>1, <3>2 DEF LoopDecided
    <2> QED
      BY <1>0, <2>1 DEF IInv, CallerCounts, WaitGrounded, LoopDecided, Enforced
  <1>7. AsyncContinues'
    BY <1>0 DEF IInv, AsyncContinues, CallerCounts, NoAsync, Collector, Policies
  <1>8. DetailsGrounded'
    BY <1>0 DEF DetailsGrounded
  <1>9. ReturnGrounded'
    BY <1>0 DEF ReturnGrounded
  <1>10. (phase.start <= now)'
    BY PhaseClosed DEF LoopDecided
  <1> QED
    BY <1>1, <1>2, <1>3, <1>4, <1>5, <1>6, <1>7, <1>8, <1>9, <1>10 DEF IInv

\* Every result has been received.
LEMMA LoopExhaustedStep ==
    ASSUME IInv, LoopExhausted
    PROVE  IInv'
  <1>1. Typed'
    BY DEF IInv, Typed, TypeOK, LoopExhausted
  <1>2. NotStarted'
    BY DEF NotStarted, LoopExhausted
  <1>3. ResultsAccounted'
    BY DEF IInv, ResultsAccounted, LoopExhausted, Policies, Enforced, AuditOnly
  <1>4. CallerCounts'
    BY DEF CallerCounts, LoopExhausted
  <1>5. DecisionGrounded'
    BY DEF IInv, DecisionGrounded, LoopExhausted, Policies, Enforced, AuditOnly
  <1>6. WaitGrounded'
    <2>1. Policies \ received = {}
      BY Awaited DEF IInv, CallerCounts, LoopExhausted, Policies
    <2>2. Enforced \subseteq received
      BY <2>1 DEF Policies, Enforced
    <2> QED
      BY <2>2 DEF IInv, CallerCounts, WaitGrounded, LoopExhausted, Enforced
  <1>7. AsyncContinues'
    BY DEF IInv, AsyncContinues, LoopExhausted, Policies, Enforced, AuditOnly
  <1>8. DetailsGrounded'
    BY DEF IInv, CallerCounts, DetailsGrounded, LoopExhausted
  <1>9. ReturnGrounded'
    BY DEF ReturnGrounded, LoopExhausted
  <1>10. (phase.start <= now)'
    BY DEF IInv, Typed, TypeOK, PhaseType, LoopExhausted
  <1> QED
    BY <1>1, <1>2, <1>3, <1>4, <1>5, <1>6, <1>7, <1>8, <1>9, <1>10 DEF IInv

\* The caller returns its decision.
LEMMA FinishStep ==
    ASSUME IInv, Finish
    PROVE  IInv'
  <1>1. Typed'
    <2>1. aiDetails' \in DetailsType
      BY DEF IInv, Typed, TypeOK, Finish, Details, DetailsType, RecordActions
    <2>2. budget' \in BudgetType(MaxBlocking) /\ phase' \in PhaseType
      BY PhaseClosed DEF Finish
    <2>3. res' \in R!ResponseType
      BY Built DEF Finish
    <2> QED
      BY <2>1, <2>2, <2>3 DEF IInv, Typed, TypeOK, Finish, DetailsType
  <1>2. NotStarted'
    BY DEF NotStarted, Finish
  <1>3. ResultsAccounted'
    BY DEF IInv, ResultsAccounted, Finish, Policies, Enforced, AuditOnly
  <1>4. CallerCounts'
    BY DEF CallerCounts, Finish
  <1>5. DecisionGrounded'
    BY DEF IInv, DecisionGrounded, Finish, Policies, Enforced, AuditOnly
  <1>6. WaitGrounded'
    BY DEF IInv, WaitGrounded, Finish, Policies, Enforced, AuditOnly
  <1>7. AsyncContinues'
    BY DEF IInv, AsyncContinues, Finish, Policies
  <1>8. DetailsGrounded'
    BY DEF IInv, DetailsGrounded, Finish, Details, Policies
  <1>9. ReturnGrounded'
    BY Built DEF IInv, WaitGrounded, ReturnGrounded, Finish, Enforced
  <1>10. (phase.start <= now)'
    BY PhaseClosed DEF Finish
  <1> QED
    BY <1>1, <1>2, <1>3, <1>4, <1>5, <1>6, <1>7, <1>8, <1>9, <1>10 DEF IInv

\* Time passes.
LEMMA TickStep ==
    ASSUME IInv, Tick
    PROVE  IInv'
  <1>1. Typed'
    BY DEF IInv, Typed, TypeOK, Tick
  <1>2. NotStarted'
    BY DEF NotStarted, Tick
  <1>3. ResultsAccounted'
    BY DEF IInv, ResultsAccounted, Tick, Policies, Enforced, AuditOnly
  <1>4. CallerCounts'
    BY DEF IInv, CallerCounts, Tick, Policies, Enforced, AuditOnly
  <1>5. DecisionGrounded'
    BY DEF IInv, DecisionGrounded, Tick, Policies, Enforced, AuditOnly
  <1>6. WaitGrounded'
    BY DEF IInv, WaitGrounded, Tick, Policies, Enforced, AuditOnly
  <1>7. AsyncContinues'
    BY DEF IInv, AsyncContinues, Tick, Policies, Enforced, AuditOnly
  <1>8. DetailsGrounded'
    BY DEF IInv, DetailsGrounded, Tick, Policies, Enforced, AuditOnly
  <1>9. ReturnGrounded'
    BY DEF IInv, ReturnGrounded, Tick, Policies, Enforced, AuditOnly
  <1>10. (phase.start <= now)'
    BY DEF IInv, Typed, TypeOK, PhaseType, Tick
  <1> QED
    BY <1>1, <1>2, <1>3, <1>4, <1>5, <1>6, <1>7, <1>8, <1>9, <1>10 DEF IInv

\* The background collector publishes its record.
LEMMA AsyncCompleteStep ==
    ASSUME IInv, AsyncComplete
    PROVE  IInv'
  <1>a. /\ async \in AsyncType
        /\ async' = [async EXCEPT !.status = "done"]
        /\ async.results = Policies
        /\ aiDetails' = [action |-> async.action, rules |-> async.results,
                         decidingRule |-> async.decidingRule]
    BY Awaited DEF IInv, Typed, AsyncContinues, ResultsAccounted, AsyncComplete, Policies, Details
  <1>b. /\ aiDetails' # NoDetails /\ aiDetails'.rules = Policies
        /\ aiDetails'.action = finalAction
    BY <1>a DEF IInv, Typed, TypeOK, AsyncContinues, AsyncComplete, NoDetails, Details
  <1>1. Typed'
    <2>1. async' \in AsyncType /\ aiDetails' \in DetailsType
      BY <1>a DEF AsyncType, DetailsType
    <2> QED
      BY <2>1 DEF IInv, Typed, TypeOK, AsyncComplete, AsyncType, DetailsType
  <1>2. NotStarted'
    BY DEF IInv, AsyncContinues, NotStarted, AsyncComplete
  <1>3. ResultsAccounted'
    BY <1>a DEF IInv, ResultsAccounted, AsyncComplete, AsyncType, Policies
  <1>4. CallerCounts'
    BY DEF IInv, AsyncContinues, CallerCounts, AsyncComplete
  <1>5. DecisionGrounded'
    BY DEF IInv, DecisionGrounded, AsyncComplete, Policies, Enforced, AuditOnly
  <1>6. WaitGrounded'
    BY DEF IInv, WaitGrounded, AsyncComplete, Policies, Enforced, AuditOnly
  <1>7. AsyncContinues'
    BY <1>a, <1>b DEF IInv, AsyncContinues, AsyncComplete, AsyncType, Policies
  <1>8. DetailsGrounded'
    BY <1>a, <1>b DEF IInv, DetailsGrounded, AsyncComplete, AsyncType, Policies
  <1>9. ReturnGrounded'
    BY DEF IInv, ReturnGrounded, AsyncComplete, Policies, Enforced, AuditOnly
  <1>10. (phase.start <= now)'
    BY DEF IInv, Typed, TypeOK, PhaseType, AsyncComplete
  <1> QED
    BY <1>1, <1>2, <1>3, <1>4, <1>5, <1>6, <1>7, <1>8, <1>9, <1>10 DEF IInv

\* A policy goroutine sends its result.
LEMMA EvaluateRuleStep ==
    ASSUME IInv, NEW r \in Rules, EvaluateRule(r)
    PROVE  IInv'
  <1>a. PICK o \in Outcomes : outcome' = [outcome EXCEPT ![r] = o]
    BY DEF EvaluateRule, DetermineResponseDecision, Outcomes
  <1>1. Typed'
    BY <1>a DEF IInv, Typed, TypeOK, EvaluateRule
  <1>2. NotStarted'
    BY DEF NotStarted, EvaluateRule
  <1>3. ResultsAccounted'
    <2>1. \A q \in Rules : outcome'[q] # "pending" <=> outcome[q] # "pending" \/ q = r
      BY <1>a DEF IInv, Typed, TypeOK, Outcomes
    <2>2. r \notin resultChan \cup received \cup async.results
      BY DEF IInv, ResultsAccounted, EvaluateRule
    <2> QED
      BY <2>1, <2>2 DEF IInv, Typed, TypeOK, ResultsAccounted, EvaluateRule, Policies
  <1>4. CallerCounts'
    BY DEF IInv, CallerCounts, EvaluateRule, Policies, Enforced, AuditOnly
  <1>5. DecisionGrounded'
    <2>1. \A q \in received : outcome'[q] = outcome[q]
      BY <1>a DEF IInv, Typed, TypeOK, ResultsAccounted, EvaluateRule
    <2> QED
      BY <2>1 DEF IInv, DecisionGrounded, EvaluateRule, Enforced
  <1>6. WaitGrounded'
    BY DEF IInv, WaitGrounded, EvaluateRule, Policies, Enforced, AuditOnly
  <1>7. AsyncContinues'
    BY DEF IInv, AsyncContinues, EvaluateRule, Policies, Enforced, AuditOnly
  <1>8. DetailsGrounded'
    BY DEF IInv, DetailsGrounded, EvaluateRule, Policies, Enforced, AuditOnly
  <1>9. ReturnGrounded'
    BY DEF IInv, ReturnGrounded, EvaluateRule, Policies, Enforced, AuditOnly
  <1>10. (phase.start <= now)'
    BY DEF IInv, Typed, TypeOK, PhaseType, EvaluateRule
  <1> QED
    BY <1>1, <1>2, <1>3, <1>4, <1>5, <1>6, <1>7, <1>8, <1>9, <1>10 DEF IInv

\* The caller receives a result and decides what it means.
LEMMA ReceiveStep ==
    ASSUME IInv, NEW r \in Rules, Receive(r)
    PROVE  IInv'
  <1>a. /\ r \in Policies /\ r \notin received /\ outcome[r] # "pending"
        /\ ~decided /\ pc = "loop" /\ pc' = "loop" /\ finalAction # "deny"
        /\ UNCHANGED <<mode, outcome, async, res, aiDetails>>
        /\ received' = received \cup {r}
    BY DEF IInv, ResultsAccounted, WaitGrounded, Receive
  <1>b. /\ budget' \in BudgetType(MaxBlocking) /\ phase' \in PhaseType
        /\ (phase.start <= now)'
    <2>1. MarkPhaseDecided \/ UNCHANGED budgetVars
      BY DEF Receive, Decide
    <2> QED
      BY <2>1, PhaseClosed DEF Receive
  <1>c. /\ remainingTotal' = Cardinality(Policies \ received')
        /\ remainingEnabled' = Cardinality(Enforced \ received')
        /\ remainingTotal' \in Nat /\ remainingEnabled' \in Nat
    <2>1. Policies \ received' = (Policies \ received) \ {r}
      BY <1>a
    <2>2. r \in Enforced => Enforced \ received' = (Enforced \ received) \ {r}
      BY <1>a
    <2>3. r \notin Enforced => Enforced \ received' = Enforced \ received
      BY <1>a
    <2>4. /\ Policies \ received' \in SUBSET Rules /\ Enforced \ received' \in SUBSET Rules
          /\ Policies \ received \in SUBSET Rules /\ Enforced \ received \in SUBSET Rules
      BY DEF Policies, Enforced
    <2>5. /\ remainingTotal = Cardinality(Policies \ received)
          /\ remainingEnabled = Cardinality(Enforced \ received)
          /\ remainingTotal' = remainingTotal - 1
          /\ remainingEnabled' = IF r \in Enforced THEN remainingEnabled - 1 ELSE remainingEnabled
      BY <1>a DEF IInv, CallerCounts, Receive
    <2> QED
      BY <1>a, <2>1, <2>2, <2>3, <2>4, <2>5, Awaited
  <1>d. \/ /\ r \in Enforced /\ outcome[r] = "deny"
           /\ decided' = TRUE /\ finalAction' = "deny" /\ decidingRule' = r
           /\ UNCHANGED <<failedOpen, redactedBy>>
        \/ /\ r \in Enforced /\ outcome[r] = "error" /\ failedOpen' = TRUE
           /\ UNCHANGED <<decided, finalAction, decidingRule, redactedBy>>
        \/ /\ r \in Enforced /\ outcome[r] = "redact"
           /\ finalAction' = "redact" /\ redactedBy' = r
           /\ UNCHANGED <<decided, decidingRule, failedOpen>>
        \/ /\ ~(r \in Enforced /\ outcome[r] \in {"deny", "error", "redact"})
           /\ UNCHANGED <<decided, finalAction, decidingRule, failedOpen, redactedBy>>
    BY DEF Receive, Decide
  <1>1. Typed'
    <2>1. /\ resultChan' \in SUBSET Rules /\ received' \in SUBSET Rules
          /\ auditOnlyDeny' \in BOOLEAN
      BY DEF IInv, Typed, TypeOK, Receive
    <2>2. /\ decided' \in BOOLEAN /\ failedOpen' \in BOOLEAN
          /\ finalAction' \in {"allow", "deny", "redact"}
          /\ decidingRule' \in Rules \cup {NoRule} /\ redactedBy' \in Rules \cup {NoRule}
      BY <1>d DEF IInv, Typed, TypeOK
    <2> QED
      BY <1>b, <1>c, <2>1, <2>2 DEF IInv, Typed, TypeOK, Receive
  <1>2. NotStarted'
    BY DEF NotStarted, Receive
  <1>3. ResultsAccounted'
    BY DEF IInv, ResultsAccounted, Receive, Policies, Enforced, AuditOnly
  <1>4. CallerCounts'
    BY <1>a, <1>c DEF IInv, CallerCounts, Policies, Enforced
  <1>5. DecisionGrounded'
    <2>1. r # NoRule /\ decidingRule = NoRule
      BY <1>a, ResponseRules DEF IInv, DecisionGrounded
    <2>2. Enforced' = Enforced /\ Enforced \cap received' = (Enforced \cap received) \cup ({r} \cap Enforced)
      BY <1>a DEF Enforced
    <2> QED
      BY <1>a, <1>d, <2>1, <2>2 DEF IInv, DecisionGrounded
  <1>6. WaitGrounded'
    BY <1>a, <1>d DEF IInv, WaitGrounded, Enforced
  <1>7. AsyncContinues'
    BY <1>a DEF IInv, CallerCounts, NoAsync, Collector, AsyncContinues
  <1>8. DetailsGrounded'
    BY <1>a DEF IInv, CallerCounts, DetailsGrounded
  <1>9. ReturnGrounded'
    BY <1>a DEF ReturnGrounded
  <1>10. (phase.start <= now)'
    BY <1>b
  <1> QED
    BY <1>1, <1>2, <1>3, <1>4, <1>5, <1>6, <1>7, <1>8, <1>9, <1>10 DEF IInv

\* The background collector receives a result.
LEMMA AsyncReceiveStep ==
    ASSUME IInv, NEW r \in Rules, AsyncReceive(r)
    PROVE  IInv'
  <1>a. /\ async \in AsyncType
        /\ async' = [status |-> "collecting", remaining |-> async.remaining - 1,
                     results |-> async.results \cup {r}, action |-> async.action,
                     decidingRule |-> async.decidingRule]
        /\ r \in Policies /\ r \notin async.results /\ r \notin received
        /\ async.status = "collecting" /\ async.remaining > 0
    BY DEF IInv, Typed, ResultsAccounted, AsyncReceive, AsyncType
  <1>b. async'.remaining = Cardinality(Policies \ async'.results)
    <2>1. Policies \ async'.results = (Policies \ async.results) \ {r}
      BY <1>a DEF AsyncType
    <2>2. Policies \ async.results \in SUBSET Rules /\ r \in Policies \ async.results
      BY <1>a DEF Policies
    <2>3. async.remaining = Cardinality(Policies \ async.results)
      BY <1>a DEF IInv, AsyncContinues
    <2>4. Cardinality((Policies \ async.results) \ {r})
            = Cardinality(Policies \ async.results) - 1
      BY <2>2, Awaited
    <2>5. async'.remaining = async.remaining - 1
      BY <1>a
    <2> QED
      BY <2>1, <2>3, <2>4, <2>5
  <1>1. Typed'
    <2>1. async' \in AsyncType
      BY <1>a DEF AsyncType
    <2> QED
      BY <2>1 DEF IInv, Typed, TypeOK, AsyncReceive, AsyncType
  <1>2. NotStarted'
    BY DEF IInv, AsyncContinues, NotStarted, AsyncReceive
  <1>3. ResultsAccounted'
    BY <1>a DEF IInv, ResultsAccounted, AsyncReceive, AsyncType, Policies
  <1>4. CallerCounts'
    BY DEF IInv, AsyncContinues, CallerCounts, AsyncReceive
  <1>5. DecisionGrounded'
    BY DEF IInv, DecisionGrounded, AsyncReceive, Policies, Enforced, AuditOnly
  <1>6. WaitGrounded'
    BY DEF IInv, WaitGrounded, AsyncReceive, Policies, Enforced, AuditOnly
  <1>7. AsyncContinues'
    BY <1>a, <1>b DEF IInv, AsyncContinues, AsyncReceive, AsyncType, Policies
  <1>8. DetailsGrounded'
    BY <1>a DEF IInv, DetailsGrounded, AsyncReceive, AsyncType
  <1>9. ReturnGrounded'
    BY DEF IInv, ReturnGrounded, AsyncReceive, Policies, Enforced, AuditOnly
  <1>10. (phase.start <= now)'
    BY DEF IInv, Typed, TypeOK, PhaseType, AsyncReceive
  <1> QED
    BY <1>1, <1>2, <1>3, <1>4, <1>5, <1>6, <1>7, <1>8, <1>9, <1>10 DEF IInv

\* A step that changes nothing keeps the invariant.
LEMMA StutterStep == IInv /\ UNCHANGED vars => IInv'
  BY DEF IInv, vars, Typed, TypeOK, NotStarted, ResultsAccounted, CallerCounts,
         DecisionGrounded, WaitGrounded, AsyncContinues, DetailsGrounded, ReturnGrounded,
         Policies, Enforced, AuditOnly

\* Every step keeps the invariant.
LEMMA NextIInv == IInv /\ [Next]_vars => IInv'
  BY StutterStep, ReturnNoPoliciesStep, LaunchAllAuditOnlyStep, LaunchBlockingStep,
     LoopDecidedStep, LoopExhaustedStep, FinishStep, TickStep, AsyncCompleteStep,
     EvaluateRuleStep, ReceiveStep, AsyncReceiveStep DEF Next, Caller

\* The invariant holds in every reachable state.
THEOREM Invariance == SafetySpec => []IInv
  BY InitIInv, NextIInv, PTL DEF SafetySpec
-----------------------------------------------------------------------------
\* Type correctness: counters of awaited results never go negative, and the
\* budget never records more blocking than its maximum.
THEOREM TypeCorrect == SafetySpec => []TypeOK
  <1>1. IInv => TypeOK
    BY DEF IInv, Typed
  <1> QED
    BY <1>1, Invariance, PTL

\* What EvaluateResponse returns is among the values that the response chain
\* of ToolCall assumes of it: a deny carries no redacted content.
THEOREM ReturnCorrect == SafetySpec => []ReturnsAssumedResult
  <1>1. IInv => ReturnsAssumedResult
    BY DEF IInv, ReturnGrounded, ReturnsAssumedResult, Returned
  <1> QED
    BY <1>1, Invariance, PTL

\* A redaction asked for by an enforced policy is applied to every response
\* that passes, in whatever order the results come and whatever else fails.
THEOREM RedactionKept == SafetySpec => []RedactionIsKept
  <1>1. IInv => RedactionIsKept
    <2> SUFFICES ASSUME IInv, Returned, res.allowed,
                        NEW r \in Enforced, outcome[r] = "redact"
                 PROVE  res.redacted
      BY DEF RedactionIsKept
    <2>1. finalAction # "deny" /\ r \in received
      BY DEF IInv, ReturnGrounded, Returned
    <2>2. finalAction # "allow"
      BY <2>1 DEF IInv, DecisionGrounded
    <2>3. finalAction = "redact"
      BY <2>1, <2>2 DEF IInv, Typed, TypeOK
    <2> QED
      BY <2>3 DEF IInv, ReturnGrounded, Returned
  <1> QED
    BY <1>1, Invariance, PTL

\* The audit record of the phase tells what was done with the response, and
\* one completed in the background lists every loaded policy.
THEOREM RecordCorrect == SafetySpec => []RecordTellsDecision
  <1>1. IInv => RecordTellsDecision
    BY DEF IInv, Typed, TypeOK, AsyncContinues, DetailsGrounded, ReturnGrounded,
       RecordTellsDecision, Returned
  <1> QED
    BY <1>1, Invariance, PTL
-----------------------------------------------------------------------------
\* What the mapped decision is, by what the caller was given.
LEMMA DecisionValues ==
    /\ ~Returned => Decision = "pending"
    /\ Returned /\ ~res.allowed => Decision = "deny"
    /\ Returned /\ res.allowed /\ res.failedOpen => Decision = "failopen"
    /\ Returned /\ res.allowed /\ ~res.failedOpen => Decision = "allow"
  BY DEF Decision

\* Steps that leave policies, outcomes, results and the return alone are
\* invisible to the abstract phase.
LEMMA Invisible ==
    ASSUME UNCHANGED <<mode, outcome, res>>, Returned' <=> Returned
    PROVE  UNCHANGED PP!vars
  BY DEF PP!vars, Decision, Verdict, Returned

\* Every step is a step of the abstract phase, or changes nothing there.
LEMMA StepSimulation == IInv /\ [Next]_vars => [PP!Next]_(PP!vars)
  <1> SUFFICES ASSUME IInv, [Next]_vars PROVE [PP!Next]_(PP!vars)
    OBVIOUS
  <1> USE DEF IInv
  <1> DEFINE verdicts == [r \in Rules |-> Verdict(r)]
  <1>1. CASE ReturnNoPolicies \/ LaunchAllAuditOnly
    <2>1. Decision = "pending" /\ Enforced = {} /\ UNCHANGED <<mode, outcome>>
      BY <1>1, DecisionValues DEF ReturnNoPolicies, LaunchAllAuditOnly, Policies, Enforced, Returned
    <2>2. Returned' /\ res' = R!Untouched
      BY <1>1 DEF ReturnNoPolicies, LaunchAllAuditOnly, NotStarted, Returned
    <2>3. Decision' = "allow"
      BY <2>2, UntouchedIsAssumed DEF Decision
    <2>4. verdicts' = verdicts
      BY <2>1 DEF Verdict
    <2>5. PP!Decide("allow")
      BY <2>1, <2>3, <2>4 DEF PP!Decide, PP!Justified, PP!Enforced, Enforced
    <2> QED
      BY <2>5 DEF PP!Next
  <1>2. CASE Finish
    <2>1. IInv'
      BY <1>2, FinishStep
    <2>2. /\ Decision = "pending" /\ pc = "finish" /\ Returned' /\ Enforced' = Enforced
          /\ UNCHANGED <<mode, outcome, finalAction, failedOpen, decidingRule, received>>
      BY <1>2, DecisionValues DEF Finish, Returned, Enforced
    <2>3. (res'.allowed <=> finalAction # "deny") /\ res'.failedOpen = failedOpen
      BY <2>1, <2>2 DEF ReturnGrounded, Returned
    <2>4. verdicts' = verdicts
      BY <2>2 DEF Verdict
    <2>5. CASE finalAction = "deny"
      <3>1. Decision' = "deny"
        BY <2>2, <2>3, <2>5 DEF Decision
      <3>2. \E r \in Enforced : verdicts[r] = "deny"
        BY <2>5 DEF DecisionGrounded, Verdict, Enforced
      <3>3. PP!Decide("deny")
        BY <2>2, <2>4, <3>1, <3>2 DEF PP!Decide, PP!Justified, PP!Enforced, Enforced
      <3> QED
        BY <3>3 DEF PP!Next
    <2>6. CASE finalAction # "deny" /\ failedOpen
      <3>1. Decision' = "failopen"
        BY <2>2, <2>3, <2>6 DEF Decision
      <3>2. Enforced # {}
        BY <2>6 DEF DecisionGrounded
      <3>3. PP!Decide("failopen")
        BY <2>2, <2>4, <3>1, <3>2 DEF PP!Decide, PP!Justified, PP!Enforced, Enforced
      <3> QED
        BY <3>3 DEF PP!Next
    <2>7. CASE finalAction # "deny" /\ ~failedOpen
      <3>1. Decision' = "allow"
        BY <2>2, <2>3, <2>7 DEF Decision
      <3>2. Enforced \subseteq received
        BY <2>2, <2>7 DEF WaitGrounded
      <3>3. \A r \in Enforced : outcome[r] \in Outcomes
        BY <3>2 DEF Typed, TypeOK, ResultsAccounted, Enforced
      <3>4. \A r \in Enforced : outcome[r] # "deny" /\ outcome[r] # "error"
        BY <2>7, <3>2 DEF DecisionGrounded
      <3>5. \A r \in Enforced : verdicts[r] = "allow"
        BY <3>3, <3>4 DEF Outcomes, Verdict, Enforced
      <3>6. PP!Decide("allow")
        BY <2>2, <2>4, <3>1, <3>5 DEF PP!Decide, PP!Justified, PP!Enforced, Enforced
      <3> QED
        BY <3>6 DEF PP!Next
    <2> QED
      BY <2>5, <2>6, <2>7
  <1>3. ASSUME NEW r \in Rules, EvaluateRule(r) PROVE [PP!Next]_(PP!vars)
    <2>1. PICK o \in Outcomes : outcome' = [outcome EXCEPT ![r] = o]
      BY <1>3 DEF EvaluateRule, DetermineResponseDecision, Outcomes
    <2>2. Decision' = Decision
      BY <1>3 DEF EvaluateRule, Decision, Returned
    <2>3. verdicts' = [verdicts EXCEPT ![r] = IF o = "redact" THEN "allow" ELSE o]
      BY <2>1 DEF Typed, TypeOK, Verdict
    <2>4. verdicts[r] = "pending" /\ mode[r] # "disabled" /\ UNCHANGED mode
      BY <1>3 DEF EvaluateRule, Verdict, Policies
    <2>5. (IF o = "redact" THEN "allow" ELSE o) \in {"allow", "deny", "error"}
      BY DEF Outcomes
    <2>6. PP!Evaluate(r)
      BY <2>2, <2>3, <2>4, <2>5 DEF PP!Evaluate
    <2> QED
      BY <2>6 DEF PP!Next
  <1>4. CASE LaunchBlocking \/ LoopDecided \/ LoopExhausted \/ Tick \/ AsyncComplete
    BY <1>4, Invisible DEF LaunchBlocking, LoopDecided, LoopExhausted, LeaveLoop, Tick,
       AsyncComplete, Returned
  <1>5. ASSUME NEW r \in Rules, Receive(r) \/ AsyncReceive(r) PROVE [PP!Next]_(PP!vars)
    BY <1>5, Invisible DEF Receive, AsyncReceive, Returned
  <1>6. CASE UNCHANGED vars
    BY <1>6, Invisible DEF vars, Returned
  <1> QED
    BY <1>1, <1>2, <1>3, <1>4, <1>5, <1>6 DEF Next, Caller

\* The evaluation of AI response policies implements the abstract phase, in
\* which a redaction lets the response pass, for every set of policies, every
\* budget and every order of the answers.
THEOREM Refinement == SafetySpec => ImplementsPolicyPhase
  <1>1. Init => PP!Init
    <2> SUFFICES ASSUME Init PROVE PP!Init
      OBVIOUS
    <2>1. Decision = "pending"
      BY DecisionValues DEF Init, Returned
    <2>2. mode \in [Rules -> {"enforce", "audit_only", "disabled"}]
      BY DEF Init, LoadPolicies, Modes
    <2>3. [r \in Rules |-> Verdict(r)] = [r \in Rules |-> "pending"]
      BY DEF Init, Verdict
    <2> QED
      BY <2>1, <2>2, <2>3 DEF PP!Init
  <1> QED
    BY <1>1, StepSimulation, Invariance, PTL DEF SafetySpec, ImplementsPolicyPhase, PP!Spec
-----------------------------------------------------------------------------
(* What the refinement means for a caller. *)

\* A response is denied only by an enforced policy that denies, and passes,
\* unless it fails open, only when every enforced policy allowed or redacted.
DecisionIsEarned ==
    Returned =>
        /\ ~res.allowed => \E r \in Rules : mode[r] = "enforce" /\ outcome[r] = "deny"
        /\ res.allowed /\ ~res.failedOpen =>
              \A r \in Rules : mode[r] = "enforce" => outcome[r] \in {"allow", "redact"}

\* A decision has its reasons in the outcomes.
Justified == Decision # "pending" => PP!Justified(Decision, [r \in Rules |-> Verdict(r)])

\* The abstract phase keeps its reasons: an outcome stands once it is reached.
LEMMA PhaseIsJustified ==
    /\ PP!Init => Justified
    /\ Justified /\ [PP!Next]_(PP!vars) => Justified'
  <1>1. PP!Init => Justified
    BY DEF PP!Init, Justified
  <1>2. ASSUME Justified, NEW q \in Rules, PP!Evaluate(q)
        PROVE  Justified'
    BY <1>2 DEF PP!Evaluate, Justified, PP!Justified, PP!Enforced
  <1>3. ASSUME Justified, NEW d \in {"allow", "deny", "failopen", "error"}, PP!Decide(d)
        PROVE  Justified'
    BY <1>3 DEF PP!Decide, Justified, PP!Justified, PP!Enforced
  <1>4. ASSUME Justified, UNCHANGED PP!vars
        PROVE  Justified'
    BY <1>4 DEF PP!vars, Justified, PP!Justified, PP!Enforced
  <1> QED
    BY <1>1, <1>2, <1>3, <1>4 DEF PP!Next

\* No response is denied without an enforced policy that denies it, and none
\* passes without all of them, unless it is reported as failing open.
THEOREM Earned == SafetySpec => []DecisionIsEarned
  <1>1. TypeOK /\ Justified => DecisionIsEarned
    BY DEF TypeOK, DecisionIsEarned, Decision, Justified, PP!Justified, PP!Enforced, Returned, Verdict
  <1> QED
    BY <1>1, PhaseIsJustified, TypeCorrect, Refinement, PTL DEF ImplementsPolicyPhase, PP!Spec
=============================================================================
