--------------------------- MODULE CELEngineProofs ---------------------------
(***************************************************************************)
(* Theorems about CELEngine for any number of rules, any modes and actions *)
(* and any clock.  IInv says how far the loop has come: what it has made   *)
(* of the rules before the one it is at, and that a deny or a failure of   *)
(* an enforced rule is where it stopped.                                   *)
(***************************************************************************)
EXTENDS CELEngine, BudgetProofs

USE DEF configVars, budgetVars, decideVars

Enforced == {r \in Rules : mode[r] = "enforce"}

\* The loop evaluates the rules in order, and none twice.
InOrder ==
    /\ \A r \in Rules : r > next => outcome[r] = "pending"
    /\ pc = "loop" => \A r \in Rules : r = next => outcome[r] = "pending"
    /\ \A r \in Rules : mode[r] = "disabled" => outcome[r] = "pending"
    /\ \A r \in Enforced : r < next => Verdict(r) = "allow"
    /\ allowCount < next
    /\ auditOnlyDeny => kind = "request"

\* Why the loop was left.
StoppedAt ==
    /\ pc = "loop" => ~failedOpen /\ decidingRule = NoRule
    /\ finalAction = "deny" <=> decidingRule # NoRule
    /\ decidingRule # NoRule =>
          /\ decidingRule = next /\ decidingRule \in Enforced
          /\ action[next] = "deny" /\ outcome[next] = "matched"
          /\ Len(record) > 0 /\ record[Len(record)].rule = next
          /\ ~failedOpen
    /\ failedOpen => next \in Enforced
    /\ pc # "loop" /\ ~failedOpen /\ decidingRule = NoRule => next > N

\* What was returned is built from what was decided.
Built ==
    IF ~Returned THEN res = EmptyResults(kind)
    ELSE IF kind = "request" THEN \E message \in BOOLEAN : res = BuildResults(message)
    ELSE res = BuildResponse

IInv == TypeOK /\ phase.start <= now /\ InOrder /\ StoppedAt /\ Built
-----------------------------------------------------------------------------
(* The steps of the loop. *)

\* A rule that is evaluated is the one the loop is at; it gets an outcome and
\* the last place in the record, and the other rules keep what they have.
LEMMA EvaluatedFacts ==
    ASSUME TypeOK, NEW r \in Rules, NEW o \in {"matched", "unmatched", "error"},
           NEW result \in {"allow", "deny", "redact", "error"}, Evaluated(r, o, result)
    PROVE  /\ pc = "loop" /\ r = next /\ mode[r] # "disabled"
           /\ outcome' \in [Rules -> {"pending", "matched", "unmatched", "error"}]
           /\ outcome'[r] = o /\ outcome' = [outcome EXCEPT ![r] = o]
           /\ \A q \in Rules \ {r} : outcome'[q] = outcome[q]
           /\ record' \in Seq([rule : Rules, result : {"allow", "deny", "redact", "error"}])
           /\ Len(record') > 0 /\ record'[Len(record')].rule = r
           /\ UNCHANGED <<kind, mode, action, hasText, now, res>>
           /\ \A q \in Rules \ {r} : Verdict(q)' = Verdict(q)
  <1> DEFINE entry == [rule |-> r, result |-> result]
  <1>1. entry \in [rule : Rules, result : {"allow", "deny", "redact", "error"}]
    OBVIOUS
  <1>2. record' = Append(record, entry) /\ record \in Seq([rule : Rules, result : {"allow", "deny", "redact", "error"}])
    BY DEF TypeOK, Evaluated
  <1> HIDE DEF entry
  <1>3. /\ record' \in Seq([rule : Rules, result : {"allow", "deny", "redact", "error"}])
        /\ Len(record') > 0 /\ record'[Len(record')] = entry
    BY <1>1, <1>2
  <1>4. entry.rule = r
    BY DEF entry
  <1>5. /\ pc = "loop" /\ r = next /\ mode[r] # "disabled"
        /\ UNCHANGED <<kind, mode, action, hasText, now, res>>
        /\ outcome' = [outcome EXCEPT ![r] = o]
    BY DEF Evaluated, At
  <1>6. /\ outcome' \in [Rules -> {"pending", "matched", "unmatched", "error"}]
        /\ outcome'[r] = o
        /\ \A q \in Rules \ {r} : outcome'[q] = outcome[q]
    BY <1>5 DEF TypeOK
  <1>7. \A q \in Rules \ {r} : Verdict(q)' = Verdict(q)
    BY <1>5, <1>6 DEF Verdict
  <1> QED
    BY <1>3, <1>4, <1>5, <1>6, <1>7

\* A rule after which the loop goes on.
LEMMA GoesOn ==
    ASSUME IInv, NEW r \in Rules, NEW o \in {"matched", "unmatched", "error"},
           NEW result \in {"allow", "deny", "redact", "error"}, Evaluated(r, o, result),
           Continue, mode[r] = "enforce" => Verdict(r)' = "allow",
           allowCount' \in {allowCount, allowCount + 1},
           auditOnlyDeny' \in BOOLEAN, auditOnlyDeny' => auditOnlyDeny \/ kind = "request",
           finalAction' = finalAction \/ finalAction' = "redact",
           redacted' \in (SUBSET Text) \cup {Unredacted},
           UNCHANGED <<decidingRule, failedOpen>>
    PROVE  IInv'
  <1>0. /\ pc = "loop" /\ r = next /\ mode[r] # "disabled"
        /\ outcome' \in [Rules -> {"pending", "matched", "unmatched", "error"}]
        /\ outcome'[r] = o
        /\ \A q \in Rules \ {r} : outcome'[q] = outcome[q]
        /\ record' \in Seq([rule : Rules, result : {"allow", "deny", "redact", "error"}])
        /\ UNCHANGED <<kind, mode, action, hasText, now, res>>
        /\ \A q \in Rules \ {r} : Verdict(q)' = Verdict(q)
    BY EvaluatedFacts DEF IInv
  <1>1. /\ next' = next + 1 /\ next \in 1 .. N /\ N \in Nat
        /\ pc' = pc /\ budget' = budget /\ phase' = phase
    BY <1>0, CELAssumption DEF Continue, Rules
  <1>2. allowCount \in Nat /\ allowCount < next
    BY <1>1 DEF IInv, TypeOK, InOrder
  <1>3. TypeOK'
    <2>1. allowCount' \in 0 .. N /\ next' \in 1 .. N + 1
      BY <1>1, <1>2
    <2> QED
      BY <1>0, <1>1, <2>1 DEF IInv, TypeOK
  <1>4. InOrder'
    <2>1. /\ \A q \in Rules : (q > next' => outcome'[q] = "pending")
                               /\ (q = next' => outcome'[q] = "pending")
          /\ \A q \in Rules : mode'[q] = "disabled" => outcome'[q] = "pending"
      BY <1>0, <1>1 DEF IInv, InOrder, Rules
    <2>2. \A q \in Rules : mode'[q] = "enforce" /\ q < next' => Verdict(q)' = "allow"
      BY <1>0, <1>1 DEF IInv, InOrder, Enforced, Rules
    <2>3. allowCount' < next' /\ (auditOnlyDeny' => kind' = "request")
      BY <1>0, <1>1, <1>2 DEF IInv, InOrder
    <2> QED
      BY <2>1, <2>2, <2>3 DEF InOrder, Enforced
  <1>5. StoppedAt'
    BY <1>0, <1>1 DEF IInv, StoppedAt
  <1>6. Built'
    BY <1>0, <1>1 DEF IInv, Built, Returned, EmptyResults
  <1>7. (phase.start <= now)'
    BY <1>0, <1>1 DEF IInv
  <1> QED
    BY <1>3, <1>4, <1>5, <1>6, <1>7 DEF IInv

\* An enforced rule at which the loop stops, because it denies or fails.
LEMMA StopsAt ==
    ASSUME IInv, NEW r \in Rules, NEW o \in {"matched", "unmatched", "error"},
           NEW result \in {"allow", "deny", "redact", "error"}, Evaluated(r, o, result),
           Break, mode[r] = "enforce",
           \/ failedOpen' = TRUE /\ UNCHANGED <<finalAction, decidingRule>>
           \/ /\ failedOpen' = failedOpen /\ finalAction' = "deny" /\ decidingRule' = r
              /\ action[r] = "deny" /\ o = "matched",
           UNCHANGED <<auditOnlyDeny, allowCount, redacted>>
    PROVE  IInv'
  <1>0. /\ pc = "loop" /\ r = next /\ mode[r] # "disabled"
        /\ outcome' \in [Rules -> {"pending", "matched", "unmatched", "error"}]
        /\ outcome'[r] = o
        /\ \A q \in Rules \ {r} : outcome'[q] = outcome[q]
        /\ record' \in Seq([rule : Rules, result : {"allow", "deny", "redact", "error"}])
        /\ Len(record') > 0 /\ record'[Len(record')].rule = r
        /\ UNCHANGED <<kind, mode, action, hasText, now, res>>
        /\ \A q \in Rules \ {r} : Verdict(q)' = Verdict(q)
    BY EvaluatedFacts DEF IInv
  <1>1. next' = next /\ next \in 1 .. N /\ N \in Nat /\ pc' = "finish"
    BY <1>0, CELAssumption DEF Break, Rules
  <1>2. /\ budget' \in BudgetType(MaxBlocking) /\ phase' \in PhaseType
        /\ phase'.start = phase.start
    <2>1. MaxBlocking \in Nat /\ budget \in BudgetType(MaxBlocking) /\ phase \in PhaseType
          /\ now \in Nat /\ phase.start <= now
      BY CELAssumption DEF IInv, TypeOK
    <2>2. /\ MarkDecided(budget, phase, now).budget \in BudgetType(MaxBlocking)
          /\ MarkDecided(budget, phase, now).phase \in PhaseType
          /\ MarkDecided(budget, phase, now).phase.start = phase.start
      BY <2>1, ClosePhaseType
    <2> QED
      BY <2>2 DEF Break
  <1>3. ~failedOpen /\ decidingRule = NoRule
    BY <1>0 DEF IInv, StoppedAt
  <1>4. TypeOK'
    <2>1. decidingRule' \in 0 .. N
      BY <1>0, <1>1 DEF IInv, TypeOK
    <2> QED
      BY <1>0, <1>1, <1>2, <2>1 DEF IInv, TypeOK
  <1>5. InOrder'
    BY <1>0, <1>1 DEF IInv, InOrder, Enforced, Rules
  <1>6. StoppedAt'
    BY <1>0, <1>1, <1>3 DEF IInv, StoppedAt, Enforced, NoRule
  <1>7. Built'
    BY <1>0, <1>1 DEF IInv, Built, Returned, EmptyResults
  <1>8. (phase.start <= now)'
    BY <1>0, <1>2 DEF IInv
  <1> QED
    BY <1>4, <1>5, <1>6, <1>7, <1>8 DEF IInv

\* A rule that takes no part is passed.
LEMMA SkipRuleStep ==
    ASSUME IInv, NEW r \in Rules, SkipRule(r)
    PROVE  IInv'
  <1>1. /\ r = next /\ next \in 1 .. N /\ N \in Nat /\ next' = next + 1
        /\ pc = "loop" /\ mode[r] = "disabled"
        /\ UNCHANGED <<kind, mode, action, hasText, now, outcome, record, finalAction,
                       decidingRule, auditOnlyDeny, allowCount, failedOpen, redacted,
                       res, pc, budget, phase>>
    BY CELAssumption DEF SkipRule, At, Continue, Rules
  <1>2. \A q \in Rules : Verdict(q)' = Verdict(q)
    BY <1>1 DEF Verdict
  <1>3. TypeOK'
    BY <1>1 DEF IInv, TypeOK
  <1>4. InOrder'
    BY <1>1, <1>2 DEF IInv, TypeOK, InOrder, Enforced, Rules
  <1>5. StoppedAt'
    BY <1>1 DEF IInv, StoppedAt
  <1>6. Built'
    BY <1>1 DEF IInv, Built, Returned, EmptyResults
  <1> QED
    BY <1>1, <1>3, <1>4, <1>5, <1>6 DEF IInv

\* A rule in audit_only mode that fails is passed, an enforced one stops.
LEMMA RuleFailsStep ==
    ASSUME IInv, NEW r \in Rules, RuleFails(r)
    PROVE  IInv'
  <1> USE DEF RuleFails
  <1>1. CASE mode[r] = "enforce"
    BY <1>1, StopsAt
  <1>2. CASE mode[r] # "enforce"
    BY <1>2, GoesOn DEF IInv, TypeOK
  <1> QED
    BY <1>1, <1>2

\* A rule that did not match vouches for the call.
LEMMA RuleUnmatchedStep ==
    ASSUME IInv, NEW r \in Rules, RuleUnmatched(r)
    PROVE  IInv'
  <1> DEFINE result == IF action[r] = "allow" THEN "deny" ELSE "allow"
  <1>1. Evaluated(r, "unmatched", result) /\ result \in {"allow", "deny", "redact", "error"}
    BY DEF RuleUnmatched
  <1> HIDE DEF result
  <1>2. outcome'[r] = "unmatched"
    BY <1>1, EvaluatedFacts DEF IInv
  <1>3. Verdict(r)' = "allow"
    BY <1>2 DEF Verdict
  <1> QED
    BY <1>1, <1>3, GoesOn DEF RuleUnmatched, IInv, TypeOK

\* An allow rule that matches is counted if it is enforced.
LEMMA AllowMatchesStep ==
    ASSUME IInv, NEW r \in Rules, AllowMatches(r)
    PROVE  IInv'
  <1>1. /\ Evaluated(r, "matched", "allow") /\ Continue
        /\ action[r] = "allow"
        /\ allowCount' \in {allowCount, allowCount + 1}
        /\ UNCHANGED <<finalAction, decidingRule, auditOnlyDeny, failedOpen, redacted>>
    BY DEF AllowMatches
  <1>2. outcome'[r] = "matched" /\ action' = action
    BY <1>1, EvaluatedFacts DEF IInv
  <1>3. Verdict(r)' = "allow"
    BY <1>1, <1>2 DEF Verdict
  <1> QED
    BY <1>1, <1>3, GoesOn DEF IInv, TypeOK

\* A deny rule that matches stops the loop if it is enforced.
LEMMA DenyMatchesStep ==
    ASSUME IInv, NEW r \in Rules, DenyMatches(r)
    PROVE  IInv'
  <1>1. action[r] = "deny" /\ Evaluated(r, "matched", "deny")
    BY DEF DenyMatches
  <1>2. CASE mode[r] = "enforce" /\ DecideDeny(r)
    BY <1>1, <1>2, StopsAt DEF DecideDeny
  <1>3. CASE /\ mode[r] = "audit_only"
             /\ Continue
             /\ auditOnlyDeny' = (auditOnlyDeny \/ kind = "request")
             /\ UNCHANGED <<finalAction, decidingRule, allowCount, failedOpen, redacted>>
    <2>1. auditOnlyDeny' \in BOOLEAN /\ (auditOnlyDeny' => auditOnlyDeny \/ kind = "request")
      BY <1>3 DEF IInv, TypeOK
    <2>2. redacted' \in (SUBSET Text) \cup {Unredacted}
      BY <1>3 DEF IInv, TypeOK
    <2> QED
      BY <1>1, <1>3, <2>1, <2>2, GoesOn
  <1> QED
    BY <1>2, <1>3 DEF DenyMatches

\* A redact rule that matches replaces what was redacted before.
LEMMA RedactMatchesStep ==
    ASSUME IInv, NEW r \in Rules, RedactMatches(r)
    PROVE  IInv'
  <1>1. /\ Evaluated(r, "matched", "redact") /\ Continue
        /\ action[r] \in Redactions
        /\ UNCHANGED <<decidingRule, auditOnlyDeny, allowCount, failedOpen>>
        /\ finalAction' = finalAction \/ finalAction' = "redact"
        /\ redacted' = redacted \/ redacted' = applyRedaction(r)
    BY DEF RedactMatches
  <1>2. outcome'[r] = "matched" /\ action' = action
    BY <1>1, EvaluatedFacts DEF IInv
  <1>3. Verdict(r)' = "allow"
    BY <1>1, <1>2 DEF Verdict, Redactions
  <1>4. redacted' \in (SUBSET Text) \cup {Unredacted}
    BY <1>1 DEF IInv, TypeOK, applyRedaction, Redactions
  <1> QED
    BY <1>1, <1>3, <1>4, GoesOn DEF IInv, TypeOK

\* The loop ends, or time passes.
LEMMA LoopDoneStep ==
    ASSUME IInv, LoopDone \/ Tick
    PROVE  IInv'
  <1>1. /\ pc = "loop" /\ pc' \in {"loop", "finish"} /\ (pc' # "loop" => next > N)
        /\ now' \in Nat /\ now' >= now
        /\ UNCHANGED <<kind, mode, action, hasText, outcome, record, finalAction,
                       decidingRule, auditOnlyDeny, allowCount, failedOpen, redacted,
                       res, next, budget, phase>>
    BY CELAssumption DEF LoopDone, Tick, IInv, TypeOK
  <1>2. \A q \in Rules : Verdict(q)' = Verdict(q)
    BY <1>1 DEF Verdict
  <1>3. TypeOK'
    BY <1>1 DEF IInv, TypeOK
  <1>4. InOrder'
    BY <1>1, <1>2 DEF IInv, InOrder, Enforced
  <1>5. StoppedAt'
    BY <1>1 DEF IInv, StoppedAt, Enforced
  <1>6. Built'
    BY <1>1 DEF IInv, Built, Returned, EmptyResults
  <1>7. (phase.start <= now)'
    BY <1>1 DEF IInv, TypeOK, PhaseType
  <1> QED
    BY <1>3, <1>4, <1>5, <1>6, <1>7 DEF IInv
-----------------------------------------------------------------------------
(* What is returned. *)

\* The results of a request in terms of what was decided.
LEMMA BuildResultsFacts ==
    ASSUME TypeOK, InOrder, StoppedAt, NEW message \in BOOLEAN
    PROVE  /\ BuildResults(message) \in R!CELResults
           /\ BuildResults(message).allowed <=> finalAction # "deny"
           /\ finalAction # "deny" => (BuildResults(message).failedOpen <=> failedOpen)
  <1>0. failedOpen \in BOOLEAN /\ (finalAction = "deny" => ~failedOpen)
    BY DEF TypeOK, StoppedAt
  <1>1. CASE finalAction = "deny"
    <2>1. BuildResults(message) = R!Result(FALSE, 1, failedOpen, FALSE, "deny", message)
      BY <1>1 DEF BuildResults
    <2>2. failedOpen = FALSE
      BY <1>0, <1>1, Zenon
    <2>3. BuildResults(message) = R!Result(FALSE, 1, FALSE, FALSE, "deny", message)
      BY <2>1, <2>2, Zenon
    <2>4. BuildResults(message) \in R!CELResults
      BY <2>3, Zenon DEF R!CELResults
    <2>5. ~BuildResults(message).allowed
      BY <2>3 DEF R!Result
    <2> QED
      BY <1>1, <2>4, <2>5
  <1>2. CASE finalAction # "deny" /\ auditOnlyDeny
    <2>1. BuildResults(message) = R!Result(TRUE, 0, failedOpen, TRUE, "deny", TRUE)
      BY <1>2 DEF BuildResults
    <2>2. BuildResults(message) \in R!CELResults
      BY <1>0, <2>1, Zenon DEF R!CELResults
    <2>3. BuildResults(message).allowed /\ (BuildResults(message).failedOpen <=> failedOpen)
      BY <1>0, <2>1 DEF R!Result
    <2> QED
      BY <1>2, <2>2, <2>3
  <1>3. CASE finalAction # "deny" /\ ~auditOnlyDeny /\ failedOpen
    <2>1. BuildResults(message) = R!Result(TRUE, 0, TRUE, FALSE, "none", TRUE)
      BY <1>3 DEF BuildResults
    <2>2. BuildResults(message) \in R!CELResults
      BY <2>1, Zenon DEF R!CELResults
    <2>3. BuildResults(message).allowed /\ BuildResults(message).failedOpen
      BY <2>1 DEF R!Result
    <2> QED
      BY <1>3, <2>2, <2>3
  <1>4. CASE finalAction # "deny" /\ ~auditOnlyDeny /\ ~failedOpen /\ allowCount > 0
    <2>1. BuildResults(message) = R!Result(TRUE, 0, FALSE, FALSE, "allow", message)
      BY <1>4 DEF BuildResults
    <2>2. BuildResults(message) \in R!CELResults
      BY <2>1, Zenon DEF R!CELResults
    <2>3. BuildResults(message).allowed /\ ~BuildResults(message).failedOpen
      BY <2>1 DEF R!Result
    <2> QED
      BY <1>4, <2>2, <2>3
  <1>5. CASE finalAction # "deny" /\ ~auditOnlyDeny /\ ~failedOpen /\ ~(allowCount > 0)
    <2>1. BuildResults(message) = R!Nothing
      BY <1>5 DEF BuildResults
    <2>2. BuildResults(message) \in R!CELResults
      BY <2>1, Zenon DEF R!CELResults
    <2>3. BuildResults(message).allowed /\ ~BuildResults(message).failedOpen
      BY <2>1 DEF R!Nothing, R!Result
    <2> QED
      BY <1>5, <2>2, <2>3
  <1> QED
    BY <1>1, <1>2, <1>3, <1>4, <1>5

\* The same of a response.
LEMMA BuildResponseFacts ==
    ASSUME TypeOK, StoppedAt
    PROVE  /\ BuildResponse \in R!CELResponses
           /\ BuildResponse.allowed <=> finalAction # "deny"
           /\ BuildResponse.failedOpen <=> failedOpen
  <1>1. failedOpen \in BOOLEAN /\ (finalAction = "deny" => ~failedOpen)
    BY DEF TypeOK, StoppedAt
  <1>2. BuildResponse = [allowed |-> finalAction # "deny", redacted |-> redacted # Unredacted,
                         failedOpen |-> failedOpen, bypass |-> FALSE]
    BY DEF BuildResponse, R!Response
  <1> QED
    BY <1>1, <1>2 DEF R!CELResponses, R!ResponseType

\* Everything a request evaluation can return is typed.
LEMMA CELResultsTyped == R!CELResults \subseteq R!ResultsType
  <1>1. /\ R!Nothing \in R!ResultsType
        /\ R!Result(TRUE, 0, TRUE, FALSE, "none", TRUE) \in R!ResultsType
    BY DEF R!Nothing, R!Result, R!ResultsType, R!Actions
  <1>2. ASSUME NEW m \in BOOLEAN
        PROVE  /\ R!Result(TRUE, 0, FALSE, FALSE, "allow", m) \in R!ResultsType
               /\ R!Result(FALSE, 1, FALSE, FALSE, "deny", m) \in R!ResultsType
               /\ R!Result(TRUE, 0, m, TRUE, "deny", TRUE) \in R!ResultsType
    BY DEF R!Result, R!ResultsType, R!Actions
  <1> QED
    BY <1>1, <1>2, Zenon DEF R!CELResults

\* The evaluation returns.
LEMMA FinishStep ==
    ASSUME IInv, Finish
    PROVE  IInv'
  <1>1. /\ pc = "finish" /\ pc' = "returned"
        /\ UNCHANGED <<kind, mode, action, hasText, now, next, outcome, record, finalAction,
                       decidingRule, auditOnlyDeny, allowCount, failedOpen, redacted>>
    BY DEF Finish
  <1>2. /\ budget' \in BudgetType(MaxBlocking) /\ phase' \in PhaseType
        /\ phase'.start = phase.start
    <2>1. MaxBlocking \in Nat /\ budget \in BudgetType(MaxBlocking) /\ phase \in PhaseType
          /\ now \in Nat /\ phase.start <= now
      BY CELAssumption DEF IInv, TypeOK
    <2>2. /\ Finalize(budget, phase, now).budget \in BudgetType(MaxBlocking)
          /\ Finalize(budget, phase, now).phase \in PhaseType
          /\ Finalize(budget, phase, now).phase.start = phase.start
      BY <2>1, ClosePhaseType
    <2> QED
      BY <2>2 DEF Finish
  <1>3. /\ kind = "request" => \E message \in BOOLEAN : res' = BuildResults(message)
        /\ kind = "response" => res' = BuildResponse
    BY DEF Finish
  <1>4. TypeOK'
    <2>1. CASE kind = "request"
      <3>1. res' \in R!ResultsType
        BY <1>3, <2>1, BuildResultsFacts, CELResultsTyped DEF IInv
      <3> QED
        BY <1>1, <1>2, <2>1, <3>1 DEF IInv, TypeOK
    <2>2. CASE kind = "response"
      <3>1. res' \in R!ResponseType
        BY <1>3, <2>2, BuildResponseFacts DEF IInv, R!CELResponses
      <3> QED
        BY <1>1, <1>2, <2>2, <3>1 DEF IInv, TypeOK
    <2> QED
      BY <2>1, <2>2 DEF IInv, TypeOK
  <1>5. InOrder'
    <2>1. \A q \in Rules : Verdict(q)' = Verdict(q)
      BY <1>1 DEF Verdict
    <2> QED
      BY <1>1, <2>1 DEF IInv, InOrder, Enforced
  <1>6. StoppedAt'
    BY <1>1 DEF IInv, StoppedAt, Enforced
  <1>7. Built'
    <2>1. \A message \in BOOLEAN : BuildResults(message)' = BuildResults(message)
      BY <1>1 DEF BuildResults
    <2>2. BuildResponse' = BuildResponse
      BY <1>1 DEF BuildResponse
    <2>3. Returned' /\ kind' = kind /\ kind \in {"request", "response"}
      BY <1>1 DEF Returned, IInv, TypeOK
    <2> QED
      BY <1>3, <2>1, <2>2, <2>3 DEF Built
  <1>8. (phase.start <= now)'
    BY <1>1, <1>2 DEF IInv
  <1> QED
    BY <1>4, <1>5, <1>6, <1>7, <1>8 DEF IInv

\* The initial states satisfy the invariant.
LEMMA InitIInv == Init => IInv
  <1> SUFFICES ASSUME Init PROVE IInv
    OBVIOUS
  <1>1. /\ mode \in [Rules -> Modes \cup {"disabled"}]
        /\ budget \in BudgetType(MaxBlocking)
        /\ phase \in PhaseType /\ phase.start = 0
    BY DEF Init, LoadPolicies, ResolvePolicyMode, Modes, StartPhase, PhaseType
  <1>2. res \in (IF kind = "request" THEN R!ResultsType ELSE R!ResponseType)
    <2>1. R!Result(FALSE, 0, FALSE, FALSE, "none", FALSE) \in R!ResultsType
      BY DEF R!Result, R!ResultsType, R!Actions
    <2>2. R!Untouched \in R!ResponseType
      BY DEF R!Untouched, R!Response, R!ResponseType
    <2>3. res = EmptyResults(kind)
      BY DEF Init
    <2> QED
      BY <2>1, <2>2, <2>3 DEF EmptyResults
  <1>3. record \in Seq([rule : Rules, result : {"allow", "deny", "redact", "error"}])
    BY DEF Init
  <1>4. TypeOK
    <2>1. kind \in {"request", "response"} /\ action \in [Rules -> ActionsOf(kind)]
      BY Zenon DEF Init
    <2>2. now \in Nat /\ pc \in {"loop", "finish", "returned"}
      BY DEF Init
    <2>3. finalAction \in {"allow", "deny", "redact"}
      BY DEF Init
    <2>4. redacted \in (SUBSET Text) \cup {Unredacted}
      BY Zenon DEF Init
    <2>5. hasText \in BOOLEAN /\ auditOnlyDeny \in BOOLEAN /\ failedOpen \in BOOLEAN
      BY Zenon DEF Init
    <2>6. next \in 1 .. N + 1 /\ decidingRule \in 0 .. N /\ allowCount \in 0 .. N
      BY CELAssumption DEF Init, NoRule
    <2>7. outcome \in [Rules -> {"pending", "matched", "unmatched", "error"}]
      BY DEF Init
    <2> QED
      BY <1>1, <1>2, <1>3, <2>1, <2>2, <2>3, <2>4, <2>5, <2>6, <2>7 DEF TypeOK
  <1>5. InOrder /\ StoppedAt /\ Built
    BY CELAssumption DEF Init, InOrder, StoppedAt, Built, Returned, Enforced, Rules, NoRule
  <1> QED
    BY <1>1, <1>4, <1>5 DEF Init, IInv
-----------------------------------------------------------------------------
(* The theorems. *)

\* IInv is an invariant of every evaluation of CEL rules.
THEOREM Invariance == SafetySpec => []IInv
  <1>1. IInv /\ [Next]_vars => IInv'
    <2> SUFFICES ASSUME IInv, [Next]_vars PROVE IInv'
      OBVIOUS
    <2>1. ASSUME NEW r \in Rules,
                 SkipRule(r) \/ RuleFails(r) \/ RuleUnmatched(r)
                    \/ AllowMatches(r) \/ DenyMatches(r) \/ RedactMatches(r)
          PROVE  IInv'
      BY <2>1, SkipRuleStep, RuleFailsStep, RuleUnmatchedStep, AllowMatchesStep,
         DenyMatchesStep, RedactMatchesStep
    <2>2. CASE UNCHANGED vars
      <3>1. \A q \in Rules : Verdict(q)' = Verdict(q)
        BY <2>2 DEF Verdict, vars
      <3>2. \A message \in BOOLEAN : BuildResults(message)' = BuildResults(message)
        BY <2>2 DEF BuildResults, vars
      <3>3. TypeOK' /\ InOrder' /\ StoppedAt' /\ (phase.start <= now)'
        BY <2>2, <3>1 DEF vars, IInv, TypeOK, InOrder, StoppedAt, Enforced
      <3>4. Built'
        BY <2>2, <3>2 DEF vars, IInv, Built, Returned, EmptyResults, BuildResponse
      <3> QED
        BY <3>3, <3>4 DEF IInv
    <2> QED
      BY <2>1, <2>2, LoopDoneStep, FinishStep DEF Next
  <1> QED
    BY <1>1, InitIInv, PTL DEF SafetySpec

\* Every variable keeps its type, and the budget is never overdrawn.
THEOREM TypeCorrect == SafetySpec => []TypeOK
  <1>1. IInv => TypeOK
    BY DEF IInv
  <1> QED
    BY <1>1, Invariance, PTL

\* What an evaluation returns is among the values ToolCall assumes of it.
THEOREM ReturnCorrect == SafetySpec => []ReturnsAssumedResult
  <1>1. IInv => ReturnsAssumedResult
    <2> SUFFICES ASSUME IInv, Returned
                 PROVE  res \in (IF kind = "request" THEN R!CELResults ELSE R!CELResponses)
      BY DEF ReturnsAssumedResult
    <2>1. CASE kind = "request"
      BY <2>1, BuildResultsFacts DEF IInv, Built
    <2>2. CASE kind # "request"
      BY <2>2, BuildResponseFacts DEF IInv, Built
    <2> QED
      BY <2>1, <2>2
  <1> QED
    BY <1>1, Invariance, PTL

\* The first enforced rule, in configured order, that denies decides: it ends
\* the record, and nothing after it is evaluated.
THEOREM FirstDeny == SafetySpec => []FirstDenyDecides
  <1>1. IInv => FirstDenyDecides
    BY DEF IInv, InOrder, StoppedAt, Enforced, FirstDenyDecides
  <1> QED
    BY <1>1, Invariance, PTL

\* A step that neither evaluates a rule nor decides is a stutter of PolicyPhase.
LEMMA Invisible ==
    ASSUME UNCHANGED <<mode, outcome, action>>, Decision' = Decision
    PROVE  UNCHANGED PP!vars
  <1>1. \A r \in Rules : Verdict(r)' = Verdict(r)
    BY DEF Verdict
  <1> QED
    BY <1>1 DEF PP!vars

\* Evaluating a rule is a step of the abstract phase.
LEMMA EvaluationSimulated ==
    ASSUME IInv, NEW r \in Rules, NEW o \in {"matched", "unmatched", "error"},
           NEW result \in {"allow", "deny", "redact", "error"}, Evaluated(r, o, result),
           pc' # "returned"
    PROVE  PP!Evaluate(r)
  <1>1. /\ pc = "loop" /\ r = next /\ mode[r] # "disabled"
        /\ outcome'[r] = o /\ mode' = mode /\ action' = action
        /\ \A q \in Rules \ {r} : Verdict(q)' = Verdict(q)
    BY EvaluatedFacts DEF IInv
  <1>2. Verdict(r) = "pending"
    BY <1>1 DEF IInv, InOrder, Verdict
  <1>3. Verdict(r)' \in {"allow", "deny", "error"}
    BY <1>1 DEF Verdict
  <1>4. Decision' = Decision
    BY <1>1 DEF Decision, Returned
  <1>5. [q \in Rules |-> Verdict(q)]' = [[q \in Rules |-> Verdict(q)] EXCEPT ![r] = Verdict(r)']
    BY <1>1
  <1> QED
    BY <1>1, <1>2, <1>3, <1>4, <1>5 DEF PP!Evaluate

\* Every step is a step of the abstract phase or a stutter.
LEMMA StepSimulation == IInv /\ [Next]_vars => [PP!Next]_(PP!vars)
  <1> SUFFICES ASSUME IInv, [Next]_vars PROVE [PP!Next]_(PP!vars)
    OBVIOUS
  <1>1. ASSUME NEW r \in Rules, SkipRule(r) PROVE UNCHANGED PP!vars
    BY <1>1, Invisible DEF SkipRule, At, Continue, Decision, Returned
  <1>2. CASE LoopDone \/ Tick \/ UNCHANGED vars
    <2>1. UNCHANGED <<mode, outcome, action, res>> /\ (Returned' <=> Returned)
      BY <1>2 DEF LoopDone, Tick, vars, Returned
    <2> QED
      BY <2>1, Invisible DEF Decision
  <1>3. ASSUME NEW r \in Rules,
               RuleFails(r) \/ RuleUnmatched(r) \/ AllowMatches(r)
                  \/ DenyMatches(r) \/ RedactMatches(r)
        PROVE  PP!Next
    <2>1. pc' # "returned"
      BY <1>3 DEF RuleFails, RuleUnmatched, AllowMatches, DenyMatches, RedactMatches,
                  DecideDeny, Evaluated, At, Continue, Break
    <2>2. PICK o \in {"matched", "unmatched", "error"},
               result \in {"allow", "deny", "redact", "error"} : Evaluated(r, o, result)
      BY <1>3 DEF RuleFails, RuleUnmatched, AllowMatches, DenyMatches, RedactMatches
    <2> QED
      BY <2>1, <2>2, EvaluationSimulated DEF PP!Next
  <1>4. CASE Finish
    <2>1. /\ pc = "finish" /\ pc' = "returned" /\ kind \in {"request", "response"}
          /\ UNCHANGED <<mode, outcome, action>>
          /\ kind = "request" => \E message \in BOOLEAN : res' = BuildResults(message)
          /\ kind = "response" => res' = BuildResponse
      BY <1>4 DEF Finish, IInv, TypeOK
    <2>2. /\ res'.allowed <=> finalAction # "deny"
          /\ finalAction # "deny" => (res'.failedOpen <=> failedOpen)
      BY <2>1, BuildResultsFacts, BuildResponseFacts DEF IInv
    <2>3. Decision = "pending" /\ Returned'
      BY <2>1 DEF Decision, Returned
    <2>4. Decision' = (IF finalAction = "deny" THEN "deny"
                       ELSE IF failedOpen THEN "failopen" ELSE "allow")
      BY <2>2, <2>3 DEF Decision
    <2>5. [r \in Rules |-> Verdict(r)]' = [r \in Rules |-> Verdict(r)]
      BY <2>1 DEF Verdict
    <2>6. CASE finalAction = "deny"
      <3>1. decidingRule \in Rules /\ mode[decidingRule] = "enforce" /\ Verdict(decidingRule) = "deny"
        BY <2>6 DEF IInv, StoppedAt, Enforced, Verdict
      <3>2. PP!Decide("deny")
        BY <2>1, <2>3, <2>4, <2>5, <2>6, <3>1 DEF PP!Decide, PP!Justified, PP!Enforced
      <3> QED
        BY <3>2 DEF PP!Next
    <2>7. CASE finalAction # "deny" /\ failedOpen
      <3>1. next \in Rules /\ mode[next] = "enforce"
        BY <2>7 DEF IInv, StoppedAt, Enforced
      <3>2. PP!Decide("failopen")
        BY <2>1, <2>3, <2>4, <2>5, <2>7, <3>1 DEF PP!Decide, PP!Justified, PP!Enforced
      <3> QED
        BY <3>2 DEF PP!Next
    <2>8. CASE finalAction # "deny" /\ ~failedOpen
      <3>1. \A r \in Rules : r < next
        BY <2>1, <2>8, CELAssumption DEF IInv, StoppedAt, TypeOK, Rules
      <3>2. \A r \in Rules : mode[r] = "enforce" => Verdict(r) = "allow"
        BY <3>1 DEF IInv, InOrder, Enforced
      <3>3. PP!Decide("allow")
        BY <2>1, <2>3, <2>4, <2>5, <2>8, <3>2 DEF PP!Decide, PP!Justified, PP!Enforced
      <3> QED
        BY <3>3 DEF PP!Next
    <2> QED
      BY <2>6, <2>7, <2>8
  <1> QED
    BY <1>1, <1>2, <1>3, <1>4 DEF Next

\* The evaluation of CEL rules, of requests and of responses, implements the
\* abstract phase, for any number of rules.
THEOREM Refinement == SafetySpec => ImplementsPolicyPhase
  <1>1. Init => PP!Init
    BY DEF Init, PP!Init, Verdict, Decision, Returned, LoadPolicies, ResolvePolicyMode, Modes
  <1> QED
    BY <1>1, StepSimulation, Invariance, PTL DEF SafetySpec, ImplementsPolicyPhase, PP!Spec
-----------------------------------------------------------------------------
(* What the refinement means for a caller. *)

\* A request or response is denied only by an enforced rule that denies, and
\* passes, unless it fails open, only when every enforced rule let it.
DecisionIsEarned ==
    Returned =>
        /\ ~res.allowed => \E r \in Rules : mode[r] = "enforce" /\ Verdict(r) = "deny"
        /\ res.allowed /\ ~res.failedOpen =>
              \A r \in Rules : mode[r] = "enforce" => Verdict(r) = "allow"

\* A decision has its reasons in the outcomes.
Justified == Decision # "pending" => PP!Justified(Decision, [r \in Rules |-> Verdict(r)])

\* The abstract phase keeps its reasons: an outcome stands once it is reached.
LEMMA PhaseIsJustified ==
    /\ PP!Init => Justified
    /\ Justified /\ [PP!Next]_(PP!vars) => Justified'
  <1>1. PP!Init => Justified
    BY DEF PP!Init, Justified
  <1>2. ASSUME Justified, NEW q \in Rules, PP!Evaluate(q)
        PROVE  Justified'
    BY <1>2 DEF PP!Evaluate, Justified, PP!Justified, PP!Enforced
  <1>3. ASSUME Justified, NEW d \in {"allow", "deny", "failopen", "error"}, PP!Decide(d)
        PROVE  Justified'
    BY <1>3 DEF PP!Decide, Justified, PP!Justified, PP!Enforced
  <1>4. ASSUME Justified, UNCHANGED PP!vars
        PROVE  Justified'
    BY <1>4 DEF PP!vars, Justified, PP!Justified, PP!Enforced
  <1> QED
    BY <1>1, <1>2, <1>3, <1>4 DEF PP!Next

\* Nothing is denied by CEL without an enforced rule that denies it, and
\* nothing passes without all of them, unless it is reported as failing open.
THEOREM Earned == SafetySpec => []DecisionIsEarned
  <1>1. TypeOK /\ Justified => DecisionIsEarned
    BY DEF TypeOK, DecisionIsEarned, Decision, Justified, PP!Justified, PP!Enforced, Returned
  <1> QED
    BY <1>1, PhaseIsJustified, TypeCorrect, Refinement, PTL DEF ImplementsPolicyPhase, PP!Spec
=============================================================================
