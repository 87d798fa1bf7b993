---------------------------- MODULE AIEngineProofs ----------------------------
(***************************************************************************)
(* Theorems about AIEngine for any set of policies, any budget and any     *)
(* clock.  IInv, defined in AIEngine, is shown inductive: one lemma per    *)
(* action, and under it one step per part of the invariant.                *)
(***************************************************************************)
EXTENDS AIEngine, BudgetProofs, FiniteSetTheorems

USE DEF policyVars, ruleVars, budgetVars, decideVars, collectVars

\* The policies a call waits for can be counted, and receiving one of them
\* lowers the count by one.
LEMMA Awaited ==
    ASSUME NEW S \in SUBSET Rules
    PROVE  /\ IsFiniteSet(S)
           /\ Cardinality(S) \in Nat
           /\ Cardinality(S) = 0 <=> S = {}
           /\ \A r \in S : Cardinality(S \ {r}) = Cardinality(S) - 1
  BY RulesAssumption, FS_Subset, FS_CardinalityType, FS_EmptySet, FS_RemoveElement

\* MarkDecided keeps budget and tracker well formed.
LEMMA MarkPhaseDecidedType ==
    ASSUME IInv, MarkPhaseDecided, UNCHANGED now
    PROVE  /\ budget' \in BudgetType(MaxBlocking)
           /\ phase' \in PhaseType
           /\ (phase.start <= now)'
  <1>1. /\ budget \in BudgetType(MaxBlocking) /\ phase \in PhaseType
        /\ now \in Nat /\ phase.start <= now /\ MaxBlocking \in Nat
    BY TimeAssumption DEF IInv, TypeOK
  <1>2. /\ MarkDecided(budget, phase, now).budget \in BudgetType(MaxBlocking)
        /\ MarkDecided(budget, phase, now).phase \in PhaseType
        /\ MarkDecided(budget, phase, now).phase.start = phase.start
    BY <1>1, ClosePhaseType
  <1> QED
    BY <1>1, <1>2 DEF MarkPhaseDecided

\* The initial states satisfy the invariant.
LEMMA InitIInv == Init => IInv
  <1> SUFFICES ASSUME Init PROVE IInv
    OBVIOUS
  <1>1. mode \in [Rules -> Modes \cup {"disabled"}]
    BY DEF Init, LoadPolicies, ResolvePolicyMode, Modes
  <1>2. phase \in PhaseType /\ phase.start = 0
    BY DEF Init, StartPhase, PhaseType
  <1>3. budget \in BudgetType(MaxBlocking)
    BY DEF Init, InheritedBudgets
  <1>4. async \in AsyncType /\ aiDetails \in DetailsType
    BY DEF Init, NoAsync, NoDetails, AsyncType, DetailsType
  <1>5. res \in ResultsType
    BY DEF Init, NoResults, ResultsType
  <1>6. TypeOK
    BY <1>1, <1>2, <1>3, <1>4, <1>5 DEF Init, TypeOK, Outcomes
  <1>7. NotStarted /\ CallerCounts /\ DecisionGrounded /\ ReturnGrounded
    <2>1. topMode = "audit_only" => Enforced = {}
      BY DEF Init, LoadPolicies, ResolvePolicyMode, Modes, Enforced
    <2> QED
      BY <2>1 DEF Init, NotStarted, CallerCounts, DecisionGrounded, ReturnGrounded
  <1>8. ResultsAccounted /\ AsyncContinues /\ DetailsGrounded
    BY DEF Init, NoAsync, ResultsAccounted, AsyncContinues, DetailsGrounded
  <1> QED
    BY <1>2, <1>6, <1>7, <1>8 DEF Init, IInv

\* No policy: the call returns an empty allow.
LEMMA ReturnNoPoliciesStep ==
    ASSUME IInv, ReturnNoPolicies
    PROVE  IInv'
  <1>1. TypeOK'
    <2>1. res' \in ResultsType
      BY DEF ReturnNoPolicies, AllowAtOnce, ResultsType
    <2> QED
      BY <2>1 DEF IInv, TypeOK, ReturnNoPolicies
  <1>2. NotStarted'
    BY DEF NotStarted, ReturnNoPolicies
  <1>3. ResultsAccounted'
    BY DEF IInv, ResultsAccounted, ReturnNoPolicies
  <1>4. CallerCounts'
    BY DEF CallerCounts, ReturnNoPolicies
  <1>5. DecisionGrounded'
    BY DEF IInv, DecisionGrounded, ReturnNoPolicies, Policies, Enforced, AuditOnly
  <1>6. AsyncContinues'
    BY DEF IInv, AsyncContinues, ReturnNoPolicies
  <1>7. DetailsGrounded'
    BY DEF IInv, NotStarted, DetailsGrounded, ReturnNoPolicies
  <1>8. ReturnGrounded'
    BY DEF IInv, TypeOK, NotStarted, ReturnGrounded, ReturnNoPolicies, AllowAtOnce, Policies, Enforced
  <1>9. (phase.start <= now)'
    BY DEF IInv, TypeOK, PhaseType, ReturnNoPolicies
  <1> QED
    BY <1>1, <1>2, <1>3, <1>4, <1>5, <1>6, <1>7, <1>8, <1>9 DEF IInv

\* Only audit_only policies: the background collector takes everything.
LEMMA LaunchAllAuditOnlyStep ==
    ASSUME IInv, LaunchAllAuditOnly
    PROVE  IInv'
  <1>1. TypeOK'
    <2>1. budget' \in BudgetType(MaxBlocking) /\ phase' \in PhaseType
      BY MarkPhaseDecidedType DEF LaunchAllAuditOnly
    <2>2. async' \in AsyncType
      BY Awaited DEF LaunchAllAuditOnly, AsyncType, Policies
    <2>3. res' \in ResultsType
      BY DEF LaunchAllAuditOnly, AllowAtOnce, ResultsType
    <2> QED
      BY <2>1, <2>2, <2>3 DEF IInv, TypeOK, LaunchAllAuditOnly
  <1>2. NotStarted'
    BY DEF NotStarted, LaunchAllAuditOnly
  <1>3. ResultsAccounted'
    BY DEF IInv, NotStarted, ResultsAccounted, LaunchAllAuditOnly
  <1>4. CallerCounts'
    BY DEF CallerCounts, LaunchAllAuditOnly
  <1>5. DecisionGrounded'
    BY DEF IInv, DecisionGrounded, LaunchAllAuditOnly, Policies, Enforced, AuditOnly
  <1>6. AsyncContinues'
    BY DEF IInv, TypeOK, NotStarted, AsyncContinues, LaunchAllAuditOnly, Policies, Enforced, AuditOnly
  <1>7. DetailsGrounded'
    BY DEF IInv, DetailsGrounded, LaunchAllAuditOnly
  <1>8. ReturnGrounded'
    BY DEF IInv, TypeOK, NotStarted, ReturnGrounded, LaunchAllAuditOnly, AllowAtOnce, Enforced
  <1>9. (phase.start <= now)'
    BY MarkPhaseDecidedType DEF LaunchAllAuditOnly
  <1> QED
    BY <1>1, <1>2, <1>3, <1>4, <1>5, <1>6, <1>7, <1>8, <1>9 DEF IInv

\* No budget: the call fails.
LEMMA LaunchWithoutBudgetStep ==
    ASSUME IInv, LaunchWithoutBudget
    PROVE  IInv'
  <1>1. TypeOK'
    BY DEF IInv, TypeOK, LaunchWithoutBudget
  <1>2. NotStarted'
    BY DEF NotStarted, LaunchWithoutBudget
  <1>3. ResultsAccounted'
    BY DEF IInv, NotStarted, ResultsAccounted, LaunchWithoutBudget
  <1>4. CallerCounts'
    BY DEF CallerCounts, LaunchWithoutBudget
  <1>5. DecisionGrounded'
    BY DEF IInv, NotStarted, DecisionGrounded, LaunchWithoutBudget
  <1>6. AsyncContinues'
    BY DEF IInv, AsyncContinues, LaunchWithoutBudget
  <1>7. DetailsGrounded'
    BY DEF IInv, NotStarted, DetailsGrounded, LaunchWithoutBudget
  <1>8. ReturnGrounded'
    BY DEF ReturnGrounded, LaunchWithoutBudget
  <1>9. (phase.start <= now)'
    BY DEF IInv, TypeOK, PhaseType, LaunchWithoutBudget
  <1> QED
    BY <1>1, <1>2, <1>3, <1>4, <1>5, <1>6, <1>7, <1>8, <1>9 DEF IInv

\* The caller starts to wait.
LEMMA LaunchBlockingStep ==
    ASSUME IInv, LaunchBlocking
    PROVE  IInv'
  <1>1. TypeOK'
    <2>1. remainingEnabled' \in Nat /\ remainingTotal' \in Nat
      BY Awaited DEF LaunchBlocking, Enforced, Policies
    <2>2. deadline' \in Nat
      BY TimeAssumption DEF IInv, TypeOK, LaunchBlocking, BlockingDeadline, RemainingMs, BudgetType
    <2>3. budget.exhausted \in BOOLEAN
      BY DEF IInv, TypeOK, BudgetType
    <2> QED
      BY <2>1, <2>2, <2>3 DEF IInv, TypeOK, LaunchBlocking
  <1>2. NotStarted'
    BY DEF NotStarted, LaunchBlocking
  <1>3. ResultsAccounted'
    BY DEF IInv, NotStarted, ResultsAccounted, LaunchBlocking
  <1>4. CallerCounts'
    BY DEF IInv, TypeOK, NotStarted, CallerCounts, LaunchBlocking, Policies, Enforced, AuditOnly
  <1>5. DecisionGrounded'
    BY DEF IInv, TypeOK, NotStarted, DecisionGrounded, LaunchBlocking, Policies, Enforced, AuditOnly
  <1>6. AsyncContinues'
    BY DEF IInv, AsyncContinues, LaunchBlocking
  <1>7. DetailsGrounded'
    BY DEF IInv, NotStarted, DetailsGrounded, LaunchBlocking
  <1>8. ReturnGrounded'
    BY DEF ReturnGrounded, LaunchBlocking
  <1>9. (phase.start <= now)'
    BY DEF IInv, TypeOK, PhaseType, LaunchBlocking
  <1> QED
    BY <1>1, <1>2, <1>3, <1>4, <1>5, <1>6, <1>7, <1>8, <1>9 DEF IInv

\* The deadline passes while undecided.
LEMMA LoopTimedOutStep ==
    ASSUME IInv, LoopTimedOut
    PROVE  IInv'
  <1>0. /\ pc' = "finish" /\ pc = "loop" /\ async = NoAsync /\ finalAction' = "allow"
        /\ UNCHANGED <<mode, outcome, resultChan, received, decidingRule, aiDetails, res>>
        /\ async' = IF AuditOnly = {} THEN async
                    ELSE [status |-> "collecting", remaining |-> remainingTotal,
                          results |-> received, action |-> "allow",
                          decidingRule |-> decidingRule]
    BY DEF IInv, CallerCounts, LoopTimedOut, LeaveLoop
  <1>1. TypeOK'
    <2>1. async' \in AsyncType
      BY <1>0 DEF IInv, TypeOK, AsyncType
    <2>2. budget' \in BudgetType(MaxBlocking) /\ phase' \in PhaseType
      BY MarkPhaseDecidedType DEF IInv, TypeOK, LoopTimedOut
    <2> QED
      BY <1>0, <2>1, <2>2 DEF IInv, TypeOK, LoopTimedOut
  <1>2. NotStarted'
    BY <1>0 DEF NotStarted
  <1>3. ResultsAccounted'
    BY <1>0 DEF IInv, TypeOK, ResultsAccounted, NoAsync, Policies
  <1>4. CallerCounts'
    BY <1>0 DEF CallerCounts
  <1>5. DecisionGrounded'
    BY <1>0 DEF IInv, TypeOK, CallerCounts, DecisionGrounded, LoopTimedOut, Enforced, AuditOnly
  <1>6. AsyncContinues'
    <2>1. finalAction = "allow"
      BY DEF IInv, TypeOK, DecisionGrounded, LoopTimedOut
    <2> QED
      BY <1>0, <2>1 DEF IInv, TypeOK, AsyncContinues, CallerCounts, NoAsync, Policies
  <1>7. DetailsGrounded'
    BY <1>0 DEF IInv, CallerCounts, DetailsGrounded, NoAsync
  <1>8. ReturnGrounded'
    BY <1>0 DEF ReturnGrounded
  <1>9. (phase.start <= now)'
    BY MarkPhaseDecidedType DEF LoopTimedOut
  <1> QED
    BY <1>1, <1>2, <1>3, <1>4, <1>5, <1>6, <1>7, <1>8, <1>9 DEF IInv

\* Every enforced policy has answered.
LEMMA LoopEnforcedDoneStep ==
    ASSUME IInv, LoopEnforcedDone
    PROVE  IInv'
  <1>0. /\ pc' = "finish" /\ pc = "loop" /\ async = NoAsync /\ finalAction' = finalAction
        /\ UNCHANGED <<mode, outcome, resultChan, received, decidingRule, aiDetails, res>>
        /\ async' = IF AuditOnly = {} THEN async
                    ELSE [status |-> "collecting", remaining |-> remainingTotal,
                          results |-> received, action |-> finalAction,
                          decidingRule |-> decidingRule]
    BY DEF IInv, CallerCounts, LoopEnforcedDone, LeaveLoop
  <1>1. TypeOK'
    <2>1. async' \in AsyncType
      BY <1>0 DEF IInv, TypeOK, AsyncType
    <2>2. budget' \in BudgetType(MaxBlocking) /\ phase' \in PhaseType
      BY MarkPhaseDecidedType DEF IInv, TypeOK, LoopEnforcedDone
    <2> QED
      BY <1>0, <2>1, <2>2 DEF IInv, TypeOK, LoopEnforcedDone
  <1>2. NotStarted'
    BY <1>0 DEF NotStarted
  <1>3. ResultsAccounted'
    BY <1>0 DEF IInv, TypeOK, ResultsAccounted, NoAsync, Policies
  <1>4. CallerCounts'
    BY <1>0 DEF CallerCounts
  <1>5. DecisionGrounded'
    <2>1. Enforced \subseteq received
      BY Awaited DEF IInv, CallerCounts, LoopEnforcedDone, Enforced
    <2> QED
      BY <1>0, <2>1 DEF IInv, TypeOK, CallerCounts, DecisionGrounded, LoopEnforcedDone, Enforced, AuditOnly
  <1>6. AsyncContinues'
    BY <1>0 DEF IInv, TypeOK, AsyncContinues, CallerCounts, NoAsync, Policies, DecisionGrounded
  <1>7. DetailsGrounded'
    BY <1>0 DEF IInv, CallerCounts, DetailsGrounded, NoAsync
  <1>8. ReturnGrounded'
    BY <1>0 DEF ReturnGrounded
  <1>9. (phase.start <= now)'
    BY MarkPhaseDecidedType DEF LoopEnforcedDone
  <1> QED
    BY <1>1, <1>2, <1>3, <1>4, <1>5, <1>6, <1>7, <1>8, <1>9 DEF IInv

\* A decision was taken with results outstanding.
LEMMA LoopAlreadyDecidedStep ==
    ASSUME IInv, LoopAlreadyDecided
    PROVE  IInv'
  <1>0. /\ pc' = "finish" /\ pc = "loop" /\ async = NoAsync /\ finalAction' = finalAction
        /\ UNCHANGED <<mode, outcome, resultChan, received, decidingRule, aiDetails, res>>
        /\ async' = IF AuditOnly = {} THEN async
                    ELSE [status |-> "collecting", remaining |-> remainingTotal,
                          results |-> received, action |-> finalAction,
                          decidingRule |-> decidingRule]
    BY DEF IInv, CallerCounts, LoopAlreadyDecided, LeaveLoop
  <1>1. TypeOK'
    <2>1. async' \in AsyncType
      BY <1>0 DEF IInv, TypeOK, AsyncType
    <2>2. budget' \in BudgetType(MaxBlocking) /\ phase' \in PhaseType
      BY DEF IInv, TypeOK, LoopAlreadyDecided
    <2> QED
      BY <1>0, <2>1, <2>2 DEF IInv, TypeOK, LoopAlreadyDecided
  <1>2. NotStarted'
    BY <1>0 DEF NotStarted
  <1>3. ResultsAccounted'
    BY <1>0 DEF IInv, TypeOK, ResultsAccounted, NoAsync, Policies
  <1>4. CallerCounts'
    BY <1>0 DEF CallerCounts
  <1>5. DecisionGrounded'
    BY DEF IInv, TypeOK, CallerCounts, DecisionGrounded, LoopAlreadyDecided, Policies, Enforced, AuditOnly
  <1>6. AsyncContinues'
    BY <1>0 DEF IInv, TypeOK, AsyncContinues, CallerCounts, NoAsync, Policies, DecisionGrounded
  <1>7. DetailsGrounded'
    BY <1>0 DEF IInv, CallerCounts, DetailsGrounded, NoAsync
  <1>8. ReturnGrounded'
    BY <1>0 DEF ReturnGrounded
  <1>9. (phase.start <= now)'
    BY DEF IInv, TypeOK, PhaseType, LoopAlreadyDecided
  <1> QED
    BY <1>1, <1>2, <1>3, <1>4, <1>5, <1>6, <1>7, <1>8, <1>9 DEF IInv

\* The caller goes on waiting.
LEMMA LoopWaitStep ==
    ASSUME IInv, LoopWait
    PROVE  IInv'
  <1>1. TypeOK'
    BY DEF IInv, TypeOK, LoopWait
  <1>2. NotStarted'
    BY DEF NotStarted, LoopWait
  <1>3. ResultsAccounted'
    BY DEF IInv, ResultsAccounted, LoopWait, Policies, Enforced, AuditOnly
  <1>4. CallerCounts'
    BY DEF IInv, CallerCounts, LoopWait, Policies, Enforced, AuditOnly
  <1>5. DecisionGrounded'
    BY DEF IInv, DecisionGrounded, LoopWait, Policies, Enforced, AuditOnly
  <1>6. AsyncContinues'
    BY DEF IInv, AsyncContinues, LoopWait
  <1>7. DetailsGrounded'
    BY DEF IInv, CallerCounts, DetailsGrounded, LoopWait
  <1>8. ReturnGrounded'
    BY DEF ReturnGrounded, LoopWait
  <1>9. (phase.start <= now)'
    BY DEF IInv, TypeOK, PhaseType, LoopWait
  <1> QED
    BY <1>1, <1>2, <1>3, <1>4, <1>5, <1>6, <1>7, <1>8, <1>9 DEF IInv

\* Every result has been received.
LEMMA LoopExhaustedStep ==
    ASSUME IInv, LoopExhausted
    PROVE  IInv'
  <1>1. TypeOK'
    BY DEF IInv, TypeOK, LoopExhausted
  <1>2. NotStarted'
    BY DEF NotStarted, LoopExhausted
  <1>3. ResultsAccounted'
    BY DEF IInv, ResultsAccounted, LoopExhausted, Policies, Enforced, AuditOnly
  <1>4. CallerCounts'
    BY DEF CallerCounts, LoopExhausted
  <1>5. DecisionGrounded'
    <2>1. Policies \ received = {}
      BY Awaited DEF IInv, CallerCounts, LoopExhausted, Policies
    <2>2. Enforced \subseteq received
      BY <2>1 DEF Policies, Enforced
    <2> QED
      BY <2>2 DEF IInv, TypeOK, CallerCounts, DecisionGrounded, LoopExhausted, Enforced, AuditOnly
  <1>6. AsyncContinues'
    BY DEF IInv, AsyncContinues, LoopExhausted
  <1>7. DetailsGrounded'
    BY DEF IInv, CallerCounts, DetailsGrounded, LoopExhausted
  <1>8. ReturnGrounded'
    BY DEF ReturnGrounded, LoopExhausted
  <1>9. (phase.start <= now)'
    BY DEF IInv, TypeOK, PhaseType, LoopExhausted
  <1> QED
    BY <1>1, <1>2, <1>3, <1>4, <1>5, <1>6, <1>7, <1>8, <1>9 DEF IInv

\* The poll timer fires.
LEMMA PollTickStep ==
    ASSUME IInv, PollTick
    PROVE  IInv'
  <1>1. TypeOK'
    BY DEF IInv, TypeOK, PollTick
  <1>2. NotStarted'
    BY DEF NotStarted, PollTick
  <1>3. ResultsAccounted'
    BY DEF IInv, ResultsAccounted, PollTick, Policies, Enforced, AuditOnly
  <1>4. CallerCounts'
    BY DEF IInv, CallerCounts, PollTick, Policies, Enforced, AuditOnly
  <1>5. DecisionGrounded'
    BY DEF IInv, DecisionGrounded, PollTick, Policies, Enforced, AuditOnly
  <1>6. AsyncContinues'
    BY DEF IInv, AsyncContinues, PollTick
  <1>7. DetailsGrounded'
    BY DEF IInv, CallerCounts, DetailsGrounded, PollTick
  <1>8. ReturnGrounded'
    BY DEF ReturnGrounded, PollTick
  <1>9. (phase.start <= now)'
    BY DEF IInv, TypeOK, PhaseType, PollTick
  <1> QED
    BY <1>1, <1>2, <1>3, <1>4, <1>5, <1>6, <1>7, <1>8, <1>9 DEF IInv

\* The caller returns its decision.
LEMMA FinishStep ==
    ASSUME IInv, Finish
    PROVE  IInv'
  <1>a. /\ res' \in ResultsType
        /\ res'.allowed <=> finalAction = "allow"
        /\ res'.failedOpen = failedOpen
        /\ res'.bypass = (finalAction # "deny" /\ ~failedOpen /\ auditOnlyDeny)
    <2> DEFINE b == BuildResults(finalAction, failedOpen, auditOnlyDeny)
    <2>1. /\ (finalAction = "allow") \in BOOLEAN
          /\ failedOpen \in BOOLEAN
          /\ (finalAction # "deny" /\ ~failedOpen /\ auditOnlyDeny) \in BOOLEAN
      BY Zenon DEF IInv, TypeOK
    <2>2. /\ (IF finalAction = "deny" THEN 1 ELSE 0) \in 0 .. 1
          /\ (IF finalAction = "deny" THEN 0 ELSE 1) \in 0 .. 1
      OBVIOUS
    <2>3. (IF finalAction = "deny" THEN "deny"
           ELSE IF failedOpen THEN "none"
           ELSE IF auditOnlyDeny THEN "deny" ELSE "allow") \in {"none", "allow", "deny"}
      BY Zenon
    <2>4. b \in ResultsType
      BY <2>1, <2>2, <2>3, Zenon DEF BuildResults, ResultsType
    <2>5. /\ b.allowed = (finalAction = "allow") /\ b.failedOpen = failedOpen
          /\ b.bypass = (finalAction # "deny" /\ ~failedOpen /\ auditOnlyDeny)
      BY Zenon DEF BuildResults
    <2> QED
      BY <2>4, <2>5, Zenon DEF Finish
  <1>b. /\ budget' \in BudgetType(MaxBlocking) /\ phase' \in PhaseType
        /\ phase'.start = phase.start
    BY TimeAssumption, ClosePhaseType DEF IInv, TypeOK, Finish
  <1>1. TypeOK'
    <2>1. aiDetails' \in DetailsType
      BY DEF IInv, TypeOK, Finish, BuildDetails, DetailsType
    <2> QED
      BY <1>a, <1>b, <2>1 DEF IInv, TypeOK, Finish
  <1>2. NotStarted'
    BY DEF NotStarted, Finish
  <1>3. ResultsAccounted'
    BY DEF IInv, ResultsAccounted, Finish, Policies, Enforced, AuditOnly
  <1>4. CallerCounts'
    BY DEF CallerCounts, Finish
  <1>5. DecisionGrounded'
    BY DEF IInv, DecisionGrounded, Finish, Policies, Enforced, AuditOnly
  <1>6. AsyncContinues'
    BY DEF IInv, AsyncContinues, Finish, BuildDetails, Policies
  <1>7. DetailsGrounded'
    <2>1. CASE async.status = "none"
      BY <2>1 DEF IInv, TypeOK, DetailsGrounded, Finish, BuildDetails, Policies
    <2>2. CASE async.status # "none"
      BY <2>2 DEF IInv, DetailsGrounded, Finish, BuildDetails, Policies
    <2> QED
      BY <2>1, <2>2
  <1>8. ReturnGrounded'
    BY <1>a DEF IInv, TypeOK, DecisionGrounded, ReturnGrounded, Finish, Enforced
  <1>9. (phase.start <= now)'
    BY <1>b DEF IInv, Finish
  <1> QED
    BY <1>1, <1>2, <1>3, <1>4, <1>5, <1>6, <1>7, <1>8, <1>9 DEF IInv

\* Time passes.
LEMMA TickStep ==
    ASSUME IInv, Tick
    PROVE  IInv'
  <1>1. TypeOK'
    BY DEF IInv, TypeOK, Tick
  <1>2. NotStarted'
    BY DEF NotStarted, Tick
  <1>3. ResultsAccounted'
    BY DEF IInv, ResultsAccounted, Tick, Policies, Enforced, AuditOnly
  <1>4. CallerCounts'
    BY DEF IInv, CallerCounts, Tick, Policies, Enforced, AuditOnly
  <1>5. DecisionGrounded'
    BY DEF IInv, DecisionGrounded, Tick, Policies, Enforced, AuditOnly
  <1>6. AsyncContinues'
    BY DEF IInv, AsyncContinues, Tick, Policies, Enforced, AuditOnly
  <1>7. DetailsGrounded'
    BY DEF IInv, DetailsGrounded, Tick, Policies, Enforced, AuditOnly
  <1>8. ReturnGrounded'
    BY DEF IInv, ReturnGrounded, Tick, Policies, Enforced, AuditOnly
  <1>9. (phase.start <= now)'
    BY DEF IInv, TypeOK, PhaseType, Tick
  <1> QED
    BY <1>1, <1>2, <1>3, <1>4, <1>5, <1>6, <1>7, <1>8, <1>9 DEF IInv

\* The background collector publishes its record.
LEMMA AsyncCompleteStep ==
    ASSUME IInv, AsyncComplete
    PROVE  IInv'
  <1>a. /\ async \in AsyncType
        /\ async' = [async EXCEPT !.status = "done"]
        /\ async.results = Policies
        /\ aiDetails' = [action |-> async.action, rules |-> async.results,
                         decidingRule |-> async.decidingRule]
    BY Awaited DEF IInv, TypeOK, AsyncContinues, ResultsAccounted, AsyncComplete, Policies
  <1>b. aiDetails' # NoDetails /\ aiDetails'.rules = Policies
    BY <1>a DEF IInv, TypeOK, AsyncContinues, AsyncComplete, NoDetails
  <1>1. TypeOK'
    <2>1. async' \in AsyncType /\ aiDetails' \in DetailsType
      BY <1>a DEF AsyncType, DetailsType
    <2> QED
      BY <2>1 DEF IInv, TypeOK, AsyncComplete
  <1>2. NotStarted'
    BY DEF IInv, TypeOK, AsyncContinues, CallerCounts, NotStarted, AsyncComplete, Policies, Enforced, AuditOnly
  <1>3. ResultsAccounted'
    BY DEF IInv, ResultsAccounted, AsyncComplete, Policies, Enforced, AuditOnly
  <1>4. CallerCounts'
    BY DEF IInv, TypeOK, AsyncContinues, CallerCounts, AsyncComplete, Policies, Enforced, AuditOnly
  <1>5. DecisionGrounded'
    BY DEF IInv, DecisionGrounded, AsyncComplete, Policies, Enforced, AuditOnly
  <1>6. AsyncContinues'
    BY <1>a, <1>b DEF IInv, AsyncContinues, AsyncComplete, AsyncType, Policies
  <1>7. DetailsGrounded'
    BY <1>a, <1>b DEF IInv, AsyncContinues, DetailsGrounded, AsyncComplete, AsyncType, Policies
  <1>8. ReturnGrounded'
    BY DEF IInv, ReturnGrounded, AsyncComplete, Policies, Enforced, AuditOnly
  <1>9. (phase.start <= now)'
    BY DEF IInv, TypeOK, PhaseType, AsyncComplete
  <1> QED
    BY <1>1, <1>2, <1>3, <1>4, <1>5, <1>6, <1>7, <1>8, <1>9 DEF IInv

\* A policy goroutine sends its result.
LEMMA EvaluateRuleStep ==
    ASSUME IInv, NEW r \in Rules, EvaluateRule(r)
    PROVE  IInv'
  <1>a. PICK o \in Outcomes : outcome' = [outcome EXCEPT ![r] = o]
    BY DEF EvaluateRule, RuleResult, Outcomes, Replies
  <1>1. TypeOK'
    BY <1>a DEF IInv, TypeOK, EvaluateRule
  <1>2. NotStarted'
    BY DEF NotStarted, EvaluateRule
  <1>3. ResultsAccounted'
    <2>1. \A q \in Rules : outcome'[q] # "pending" <=> outcome[q] # "pending" \/ q = r
      BY <1>a DEF IInv, TypeOK, Outcomes
    <2>2. r \notin resultChan \cup received \cup async.results
      BY DEF IInv, ResultsAccounted, EvaluateRule
    <2> QED
      BY <2>1, <2>2 DEF IInv, TypeOK, ResultsAccounted, EvaluateRule, Policies
  <1>4. CallerCounts'
    BY DEF IInv, CallerCounts, EvaluateRule, Policies, Enforced, AuditOnly
  <1>5. DecisionGrounded'
    BY DEF IInv, TypeOK, ResultsAccounted, DecisionGrounded, EvaluateRule, Policies, Enforced, AuditOnly
  <1>6. AsyncContinues'
    BY DEF IInv, AsyncContinues, EvaluateRule, Policies, Enforced, AuditOnly
  <1>7. DetailsGrounded'
    BY DEF IInv, DetailsGrounded, EvaluateRule, Policies, Enforced, AuditOnly
  <1>8. ReturnGrounded'
    BY DEF IInv, ReturnGrounded, EvaluateRule, Policies, Enforced, AuditOnly
  <1>9. (phase.start <= now)'
    BY DEF IInv, TypeOK, PhaseType, EvaluateRule
  <1> QED
    BY <1>1, <1>2, <1>3, <1>4, <1>5, <1>6, <1>7, <1>8, <1>9 DEF IInv

\* The caller receives a result.
LEMMA ReceiveStep ==
    ASSUME IInv, NEW r \in Rules, Receive(r)
    PROVE  IInv'
  <1>a. /\ r \in Policies /\ r \notin received /\ outcome[r] # "pending"
        /\ ~decided /\ pc = "select" /\ finalAction = "allow"
    BY DEF IInv, TypeOK, ResultsAccounted, CallerCounts, DecisionGrounded, Receive
  <1>b. /\ budget' \in BudgetType(MaxBlocking) /\ phase' \in PhaseType
        /\ (phase.start <= now)'
    <2>1. CASE MarkPhaseDecided
      BY <2>1, MarkPhaseDecidedType DEF Receive
    <2>2. CASE UNCHANGED <<budget, phase>>
      BY <2>2 DEF IInv, TypeOK, Receive
    <2> QED
      BY <2>1, <2>2 DEF Receive, EarlyTermination
  <1>c. /\ remainingTotal' = Cardinality(Policies \ received')
        /\ remainingEnabled' = Cardinality(Enforced \ received')
        /\ remainingTotal' \in Nat /\ remainingEnabled' \in Nat
    <2>1. Policies \ received' = (Policies \ received) \ {r}
      BY DEF Receive
    <2>2. r \in Enforced => Enforced \ received' = (Enforced \ received) \ {r}
      BY DEF Receive
    <2>3. r \notin Enforced => Enforced \ received' = Enforced \ received
      BY DEF Receive
    <2>4. /\ Policies \ received' \in SUBSET Rules /\ Enforced \ received' \in SUBSET Rules
          /\ Policies \ received \in SUBSET Rules /\ Enforced \ received \in SUBSET Rules
      BY DEF Policies, Enforced
    <2>5. /\ remainingTotal = Cardinality(Policies \ received)
          /\ remainingEnabled = Cardinality(Enforced \ received)
          /\ remainingTotal' = remainingTotal - 1
          /\ remainingEnabled' = IF r \in Enforced THEN remainingEnabled - 1 ELSE remainingEnabled
      BY <1>a DEF IInv, CallerCounts, Receive
    <2> QED
      BY <1>a, <2>1, <2>2, <2>3, <2>4, <2>5, Awaited
  <1>1. TypeOK'
    BY <1>b, <1>c DEF IInv, TypeOK, Receive, EarlyTermination
  <1>2. NotStarted'
    BY DEF NotStarted, Receive
  <1>3. ResultsAccounted'
    BY DEF IInv, ResultsAccounted, Receive, Policies, Enforced, AuditOnly
  <1>4. CallerCounts'
    BY <1>a, <1>c DEF IInv, CallerCounts, Receive, Policies, Enforced
  <1>5. DecisionGrounded'
    <2>1. CASE outcome[r] = "deny" /\ r \in Enforced
      BY <1>a, <2>1, RulesAssumption DEF IInv, TypeOK, CallerCounts, DecisionGrounded, Receive, EarlyTermination, Enforced, AuditOnly
    <2>2. CASE ~(outcome[r] = "deny" /\ r \in Enforced)
      BY <1>a, <2>2 DEF IInv, TypeOK, CallerCounts, DecisionGrounded, Receive, EarlyTermination, Enforced, AuditOnly
    <2> QED
      BY <2>1, <2>2
  <1>6. AsyncContinues'
    BY DEF IInv, AsyncContinues, Receive
  <1>7. DetailsGrounded'
    BY DEF IInv, CallerCounts, DetailsGrounded, Receive
  <1>8. ReturnGrounded'
    BY DEF ReturnGrounded, Receive
  <1>9. (phase.start <= now)'
    BY <1>b
  <1> QED
    BY <1>1, <1>2, <1>3, <1>4, <1>5, <1>6, <1>7, <1>8, <1>9 DEF IInv

\* The background collector receives a result.
LEMMA AsyncReceiveStep ==
    ASSUME IInv, NEW r \in Rules, AsyncReceive(r)
    PROVE  IInv'
  <1>a. /\ async \in AsyncType
        /\ async' = [status |-> "collecting", remaining |-> async.remaining - 1,
                     results |-> async.results \cup {r}, action |-> async.action,
                     decidingRule |-> async.decidingRule]
        /\ r \in Policies /\ r \notin async.results /\ r \notin received
        /\ async.status = "collecting" /\ async.remaining > 0
    BY DEF IInv, TypeOK, ResultsAccounted, AsyncReceive
  <1>b. async'.remaining = Cardinality(Policies \ async'.results)
    <2>1. Policies \ async'.results = (Policies \ async.results) \ {r}
      BY <1>a DEF AsyncType
    <2>2. Policies \ async.results \in SUBSET Rules /\ r \in Policies \ async.results
      BY <1>a DEF Policies
    <2>3. async.remaining = Cardinality(Policies \ async.results)
      BY <1>a DEF IInv, AsyncContinues
    <2>4. Cardinality((Policies \ async.results) \ {r})
            = Cardinality(Policies \ async.results) - 1
      BY <2>2, Awaited
    <2>5. async'.remaining = async.remaining - 1
      BY <1>a
    <2> QED
      BY <2>1, <2>3, <2>4, <2>5
  <1>1. TypeOK'
    <2>1. async' \in AsyncType
      BY <1>a DEF AsyncType
    <2> QED
      BY <2>1 DEF IInv, TypeOK, AsyncReceive
  <1>2. NotStarted'
    BY DEF IInv, NotStarted, AsyncReceive
  <1>3. ResultsAccounted'
    BY DEF IInv, ResultsAccounted, AsyncReceive, Policies, Enforced, AuditOnly
  <1>4. CallerCounts'
    BY DEF IInv, TypeOK, AsyncContinues, CallerCounts, AsyncReceive, Policies, Enforced, AuditOnly
  <1>5. DecisionGrounded'
    BY DEF IInv, DecisionGrounded, AsyncReceive, Policies, Enforced, AuditOnly
  <1>6. AsyncContinues'
    BY <1>a, <1>b DEF IInv, AsyncContinues, AsyncReceive, AsyncType, Policies
  <1>7. DetailsGrounded'
    BY DEF IInv, DetailsGrounded, AsyncReceive
  <1>8. ReturnGrounded'
    BY DEF IInv, ReturnGrounded, AsyncReceive, Policies, Enforced, AuditOnly
  <1>9. (phase.start <= now)'
    BY DEF IInv, TypeOK, PhaseType, AsyncReceive
  <1> QED
    BY <1>1, <1>2, <1>3, <1>4, <1>5, <1>6, <1>7, <1>8, <1>9 DEF IInv

\* A step that changes nothing keeps the invariant.
LEMMA StutterStep == IInv /\ UNCHANGED vars => IInv'
  BY DEF IInv, vars, TypeOK, NotStarted, ResultsAccounted, CallerCounts,
         DecisionGrounded, AsyncContinues, DetailsGrounded, ReturnGrounded,
         Policies, Enforced, AuditOnly

\* Every step keeps the invariant.
LEMMA NextIInv == IInv /\ [Next]_vars => IInv'
  BY StutterStep, ReturnNoPoliciesStep, LaunchAllAuditOnlyStep,
     LaunchWithoutBudgetStep, LaunchBlockingStep, LoopTimedOutStep,
     LoopEnforcedDoneStep, LoopAlreadyDecidedStep, LoopWaitStep,
     LoopExhaustedStep, PollTickStep, FinishStep, TickStep, AsyncCompleteStep,
     EvaluateRuleStep, ReceiveStep, AsyncReceiveStep
     DEF Next, Launch, Loop

\* The invariant holds in every reachable state.
THEOREM Invariance == SafetySpec => []IInv
  BY InitIInv, NextIInv, PTL DEF SafetySpec

\* Type correctness: counters of awaited results never go negative, and the
\* budget never records more blocking than its maximum.
THEOREM TypeCorrect == SafetySpec => []TypeOK
  <1>1. IInv => TypeOK
    BY DEF IInv
  <1> QED
    BY <1>1, Invariance, PTL

\* The record of a call tells the decision its caller was given.
THEOREM RecordCorrect == SafetySpec => []RecordTellsDecision
  <1>1. IInv => RecordTellsDecision
    BY RulesAssumption DEF IInv, TypeOK, DecisionGrounded, DetailsGrounded,
       ReturnGrounded, RecordTellsDecision, Returned, Enforced
  <1> QED
    BY <1>1, Invariance, PTL

\* A record completed in the background lists every loaded policy.
THEOREM AsyncRecordCorrect == SafetySpec => []AsyncRecordIsComplete
  <1>1. IInv => AsyncRecordIsComplete
    BY DEF IInv, AsyncContinues, DetailsGrounded, AsyncRecordIsComplete
  <1> QED
    BY <1>1, Invariance, PTL

\* A phase in audit_only mode never blocks.
THEOREM AuditOnlyCorrect == SafetySpec => []AuditOnlyPhaseNeverBlocks
  <1>1. IInv => AuditOnlyPhaseNeverBlocks
    BY DEF IInv, TypeOK, DecisionGrounded, ReturnGrounded,
       AuditOnlyPhaseNeverBlocks, Returned
  <1> QED
    BY <1>1, Invariance, PTL

\* An audit-mode bypass is reported only when it is one.
THEOREM BypassCorrect == SafetySpec => []BypassIsHonest
  <1>1. IInv => BypassIsHonest
    <2> SUFFICES ASSUME IInv, Returned, res.bypass
                 PROVE  /\ res.allowed /\ ~res.failedOpen
                        /\ \E r \in AuditOnly : outcome[r] = "deny"
                        /\ \A r \in Enforced : outcome[r] = "allow"
      BY DEF BypassIsHonest
    <2>1. finalAction = "allow" /\ ~failedOpen /\ auditOnlyDeny /\ Enforced \subseteq received
      BY DEF IInv, ReturnGrounded, Returned
    <2>2. res.allowed /\ ~res.failedOpen
      BY <2>1 DEF IInv, ReturnGrounded, Returned
    <2>3. \E r \in AuditOnly : outcome[r] = "deny"
      BY <2>1 DEF IInv, DecisionGrounded
    <2>4. \A r \in Enforced : outcome[r] \in Outcomes
      BY <2>1 DEF IInv, TypeOK, ResultsAccounted, Enforced
    <2>5. \A r \in Enforced : outcome[r] # "deny" /\ outcome[r] # "error"
      BY <2>1 DEF IInv, DecisionGrounded
    <2> QED
      BY <2>2, <2>3, <2>4, <2>5 DEF Outcomes
  <1> QED
    BY <1>1, Invariance, PTL

\* A decision, once taken, is never revised.
THEOREM DecisionIsFinal == SafetySpec => DecisionStands
  <1>1. IInv /\ [Next]_vars =>
          [decided => decided' /\ finalAction' = finalAction
                              /\ decidingRule' = decidingRule]_vars
    <2> SUFFICES ASSUME IInv, Next, decided
                 PROVE  decided' /\ finalAction' = finalAction
                          /\ decidingRule' = decidingRule
      OBVIOUS
    <2>1. pc # "start" /\ pc # "select"
      BY DEF IInv, NotStarted, CallerCounts
    <2> QED
      BY <2>1 DEF Next, Launch, Loop, ReturnNoPolicies, LaunchAllAuditOnly,
         LaunchWithoutBudget, LaunchBlocking, LoopTimedOut, LoopEnforcedDone,
         LoopAlreadyDecided, LoopWait, LoopExhausted, PollTick, Finish, Tick,
         EvaluateRule, Receive, AsyncReceive, AsyncComplete
  <1> QED
    BY <1>1, Invariance, PTL DEF SafetySpec, DecisionStands

\* What the mapped decision is, by the position of the caller.
LEMMA DecisionValues ==
    /\ pc = "failed" => Decision = "error"
    /\ pc = "returned" /\ ~res.allowed => Decision = "deny"
    /\ pc = "returned" /\ res.allowed /\ res.failedOpen => Decision = "failopen"
    /\ pc = "returned" /\ res.allowed /\ ~res.failedOpen => Decision = "allow"
    /\ pc \notin {"failed", "returned"} => Decision = "pending"
  BY DEF Decision

\* The steps of the caller that neither return nor fail are invisible.
LEMMA Invisible ==
    ASSUME UNCHANGED <<mode, outcome, res>>,
           \/ pc' = pc
           \/ pc \notin {"failed", "returned"} /\ pc' \notin {"failed", "returned"}
    PROVE  UNCHANGED PP!vars
  BY DEF PP!vars, Decision

\* Every step is a step of the abstract phase, or changes nothing there.
LEMMA StepSimulation == IInv /\ [Next]_vars => [PP!Next]_(PP!vars)
  <1> SUFFICES ASSUME IInv, [Next]_vars PROVE [PP!Next]_(PP!vars)
    OBVIOUS
  <1> USE DEF IInv
  <1>1. CASE ReturnNoPolicies \/ LaunchAllAuditOnly
    <2>1. Decision = "pending"
      BY <1>1, DecisionValues DEF ReturnNoPolicies, LaunchAllAuditOnly
    <2>2. pc' = "returned" /\ res'.allowed = TRUE /\ res'.failedOpen = FALSE
      BY <1>1 DEF ReturnNoPolicies, LaunchAllAuditOnly, AllowAtOnce
    <2>3. Decision' = "allow"
      BY <2>2 DEF Decision
    <2>4. Enforced = {} /\ UNCHANGED <<mode, outcome>>
      BY <1>1 DEF ReturnNoPolicies, LaunchAllAuditOnly, Policies, Enforced
    <2>5. PP!Decide("allow")
      BY <2>1, <2>3, <2>4 DEF PP!Decide, PP!Justified, PP!Enforced, Enforced
    <2> QED
      BY <2>5 DEF PP!Next
  <1>2. CASE LaunchWithoutBudget
    <2>1. Decision = "pending" /\ Decision' = "error"
      BY <1>2 DEF LaunchWithoutBudget, Decision
    <2>2. PP!Decide("error")
      BY <1>2, <2>1 DEF LaunchWithoutBudget, PP!Decide, PP!Justified, PP!Enforced, Enforced
    <2> QED
      BY <2>2 DEF PP!Next
  <1>3. CASE Finish
    <2>1. IInv'
      BY <1>3, FinishStep
    <2>2. /\ Decision = "pending" /\ pc = "finish" /\ pc' = "returned"
          /\ UNCHANGED <<mode, outcome, finalAction, failedOpen, decidingRule, received>>
      BY <1>3, DecisionValues DEF Finish
    <2>3. /\ res'.allowed <=> finalAction = "allow"
          /\ res'.failedOpen = failedOpen
      BY <2>1, <2>2 DEF ReturnGrounded
    <2>4. CASE finalAction = "deny"
      <3>1. Decision' = "deny"
        BY <2>2, <2>3, <2>4 DEF Decision
      <3>2. \E r \in Enforced : outcome[r] = "deny"
        BY <2>4 DEF DecisionGrounded
      <3>3. PP!Decide("deny")
        BY <2>2, <3>1, <3>2 DEF PP!Decide, PP!Justified, PP!Enforced, Enforced
      <3> QED
        BY <3>3 DEF PP!Next
    <2>5. CASE finalAction = "allow" /\ failedOpen
      <3>1. Decision' = "failopen"
        BY <2>2, <2>3, <2>5 DEF Decision
      <3>2. Enforced # {}
        BY <2>5 DEF DecisionGrounded
      <3>3. PP!Decide("failopen")
        BY <2>2, <3>1, <3>2 DEF PP!Decide, PP!Justified, PP!Enforced, Enforced
      <3> QED
        BY <3>3 DEF PP!Next
    <2>6. CASE finalAction = "allow" /\ ~failedOpen
      <3>1. Decision' = "allow"
        BY <2>2, <2>3, <2>6 DEF Decision
      <3>2. Enforced \subseteq received
        BY <2>2, <2>6 DEF DecisionGrounded
      <3>3. \A r \in Enforced : outcome[r] \in Outcomes
        BY <3>2 DEF TypeOK, ResultsAccounted, Enforced
      <3>4. \A r \in Enforced : outcome[r] # "deny" /\ outcome[r] # "error"
        BY <2>6, <3>2 DEF DecisionGrounded
      <3>5. PP!Decide("allow")
        BY <2>2, <3>1, <3>3, <3>4 DEF PP!Decide, PP!Justified, PP!Enforced, Enforced, Outcomes
      <3> QED
        BY <3>5 DEF PP!Next
    <2> QED
      BY <2>4, <2>5, <2>6 DEF TypeOK
  <1>4. ASSUME NEW r \in Rules, EvaluateRule(r) PROVE [PP!Next]_(PP!vars)
    <2>1. \E o \in {"allow", "deny", "error"} : outcome' = [outcome EXCEPT ![r] = o]
      BY <1>4 DEF EvaluateRule, RuleResult, Replies
    <2>2. Decision' = Decision
      BY <1>4 DEF EvaluateRule, Decision
    <2>3. PP!Evaluate(r)
      BY <1>4, <2>1, <2>2 DEF EvaluateRule, PP!Evaluate, Policies
    <2> QED
      BY <2>3 DEF PP!Next
  <1>5. CASE LaunchBlocking \/ Loop \/ PollTick \/ Tick \/ AsyncComplete
    BY <1>5, Invisible DEF LaunchBlocking, Loop, LoopTimedOut, LoopEnforcedDone,
       LoopAlreadyDecided, LoopWait, LoopExhausted, LeaveLoop, PollTick, Tick, AsyncComplete
  <1>6. ASSUME NEW r \in Rules, Receive(r) \/ AsyncReceive(r) PROVE [PP!Next]_(PP!vars)
    BY <1>6, Invisible DEF Receive, AsyncReceive
  <1>7. CASE UNCHANGED vars
    BY <1>7, Invisible DEF vars
  <1> QED
    BY <1>1, <1>2, <1>3, <1>4, <1>5, <1>6, <1>7 DEF Next, Launch

\* The evaluation of AI policies implements the abstract phase, for every set
\* of policies, every budget and every interleaving of answers, polls and the
\* deadline.
THEOREM Refinement == SafetySpec => ImplementsPolicyPhase
  <1>1. Init => PP!Init
    <2> SUFFICES ASSUME Init PROVE PP!Init
      OBVIOUS
    <2>1. Decision = "pending"
      BY DecisionValues DEF Init
    <2>2. mode \in [Rules -> {"enforce", "audit_only", "disabled"}]
      BY InitIInv DEF IInv, TypeOK, Modes
    <2> QED
      BY <2>1, <2>2 DEF Init, PP!Init
  <1> QED
    BY <1>1, StepSimulation, Invariance, PTL DEF SafetySpec, ImplementsPolicyPhase, PP!Spec

\* What BuildResults makes of a decision is among the results ToolCall assumes.
LEMMA BuiltIsAssumed ==
    ASSUME NEW action \in {"allow", "deny"}, NEW failed \in BOOLEAN,
           NEW bypass \in BOOLEAN
    PROVE  InResultsTerms(BuildResults(action, failed, bypass)) \in R!AIResults
  <1>1. CASE action = "deny"
    <2>1. InResultsTerms(BuildResults("deny", failed, bypass))
             = R!Result(FALSE, 1, failed, FALSE, "deny", TRUE)
      BY DEF InResultsTerms, BuildResults, R!Result
    <2> QED
      BY <1>1, <2>1, Zenon DEF R!AIResults
  <1>2. CASE action = "allow" /\ failed
    <2>1. InResultsTerms(BuildResults("allow", TRUE, bypass))
             = R!Result(TRUE, 0, TRUE, FALSE, "none", TRUE)
      BY DEF InResultsTerms, BuildResults, R!Result
    <2>2. failed = TRUE
      BY <1>2, Zenon
    <2> QED
      BY <1>2, <2>1, <2>2, Zenon DEF R!AIResults
  <1>3. CASE action = "allow" /\ ~failed /\ bypass
    <2>1. InResultsTerms(BuildResults("allow", FALSE, TRUE))
             = R!Result(TRUE, 0, FALSE, TRUE, "deny", TRUE)
      BY DEF InResultsTerms, BuildResults, R!Result
    <2>2. failed = FALSE /\ bypass = TRUE
      BY <1>3, Zenon
    <2> QED
      BY <1>3, <2>1, <2>2, Zenon DEF R!AIResults
  <1>4. CASE action = "allow" /\ ~failed /\ ~bypass
    <2>1. InResultsTerms(BuildResults("allow", FALSE, FALSE))
             = R!Result(TRUE, 0, FALSE, FALSE, "allow", TRUE)
      BY DEF InResultsTerms, BuildResults, R!Result
    <2>2. failed = FALSE /\ bypass = FALSE
      BY <1>4, Zenon
    <2> QED
      BY <1>4, <2>1, <2>2, Zenon DEF R!AIResults
  <1> QED
    BY <1>1, <1>2, <1>3, <1>4, Zenon

\* What a call returns is among the values that ToolCall assumes of this engine.
THEOREM ReturnCorrect == SafetySpec => []ReturnsAssumedResult
  <1>1. Init => ReturnsAssumedResult
    BY DEF Init, ReturnsAssumedResult, Returned
  <1>2. IInv /\ ReturnsAssumedResult /\ [Next]_vars => ReturnsAssumedResult'
    <2> SUFFICES ASSUME IInv, ReturnsAssumedResult, [Next]_vars
                 PROVE  ReturnsAssumedResult'
      OBVIOUS
    <2>1. CASE ReturnNoPolicies \/ LaunchAllAuditOnly
      <3>1. PICK count : res' = AllowAtOnce(count)
        BY <2>1, Zenon DEF ReturnNoPolicies, LaunchAllAuditOnly
      <3>2. InResultsTerms(AllowAtOnce(count)) = R!Nothing
        BY DEF InResultsTerms, AllowAtOnce, R!Result, R!Nothing
      <3>3. InResultsTerms(res') \in R!AIResults
        BY <3>1, <3>2, Zenon DEF R!AIResults
      <3> QED
        BY <3>3, Zenon DEF ReturnsAssumedResult, InResultsTerms
    <2>2. CASE Finish
      <3>1. /\ finalAction \in {"allow", "deny"} /\ failedOpen \in BOOLEAN
            /\ auditOnlyDeny \in BOOLEAN
        BY Zenon DEF IInv, TypeOK
      <3>2. res' = BuildResults(finalAction, failedOpen, auditOnlyDeny)
        BY <2>2 DEF Finish
      <3>3. InResultsTerms(res') \in R!AIResults
        BY <3>1, <3>2, BuiltIsAssumed, Zenon
      <3> QED
        BY <3>3, Zenon DEF ReturnsAssumedResult, InResultsTerms
    <2>3. CASE res' = res /\ (Returned' => Returned)
      BY <2>3 DEF ReturnsAssumedResult, InResultsTerms
    <2>4. ReturnNoPolicies \/ LaunchAllAuditOnly \/ Finish
             \/ (res' = res /\ (Returned' => Returned))
      BY DEF Next, Launch, Loop, LaunchWithoutBudget, LaunchBlocking, LoopTimedOut,
         LoopEnforcedDone, LoopAlreadyDecided, LoopWait, LoopExhausted, PollTick,
         Tick, EvaluateRule, Receive, AsyncReceive, AsyncComplete, LeaveLoop,
         Returned, vars, ruleVars, collectVars, decideVars, policyVars
    <2> QED
      BY <2>1, <2>2, <2>3, <2>4
  <1> QED
    BY <1>1, <1>2, Invariance, PTL DEF SafetySpec
-----------------------------------------------------------------------------
(* What the refinement means for a caller. *)

\* A call is denied only by an enforced policy, and passes, unless it fails
\* open, only when every enforced policy allowed it.
DecisionIsEarned ==
    pc = "returned" =>
        /\ ~res.allowed => \E r \in Rules : mode[r] = "enforce" /\ outcome[r] = "deny"
        /\ res.allowed /\ ~res.failedOpen =>
              \A r \in Rules : mode[r] = "enforce" => outcome[r] = "allow"

\* A decision has its reasons in the outcomes.
Justified == Decision # "pending" => PP!Justified(Decision, outcome)

\* The abstract phase keeps its reasons: an outcome stands once it is reached.
LEMMA PhaseIsJustified ==
    /\ PP!Init => Justified
    /\ Justified /\ [PP!Next]_(PP!vars) => Justified'
  <1>1. PP!Init => Justified
    BY DEF PP!Init, Justified
  <1>2. ASSUME Justified, NEW q \in Rules, PP!Evaluate(q)
        PROVE  Justified'
    BY <1>2 DEF PP!Evaluate, Justified, PP!Justified, PP!Enforced
  <1>3. ASSUME Justified, NEW d \in {"allow", "deny", "failopen", "error"}, PP!Decide(d)
        PROVE  Justified'
    BY <1>3 DEF PP!Decide, Justified, PP!Justified, PP!Enforced
  <1>4. ASSUME Justified, UNCHANGED PP!vars
        PROVE  Justified'
    BY <1>4 DEF PP!vars, Justified, PP!Justified, PP!Enforced
  <1> QED
    BY <1>1, <1>2, <1>3, <1>4 DEF PP!Next

\* No tool call is denied without an enforced policy that denies it, and none
\* passes without all of them, unless it is reported as failing open.
THEOREM Earned == SafetySpec => []DecisionIsEarned
  <1>1. TypeOK /\ Justified => DecisionIsEarned
    BY DEF TypeOK, DecisionIsEarned, Decision, Justified, PP!Justified, PP!Enforced
  <1> QED
    BY <1>1, PhaseIsJustified, TypeCorrect, Refinement, PTL DEF ImplementsPolicyPhase, PP!Spec
=============================================================================

