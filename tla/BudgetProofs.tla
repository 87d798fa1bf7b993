---------------------------- MODULE BudgetProofs ----------------------------
(* Facts about the operators of Budget that every phase relies on. *)
EXTENDS Budget, TLAPS

\* ConsumeBlocking never takes more than was asked nor more than was left,
\* and adds to the total exactly what it reports as consumed.
LEMMA ConsumeBlockingSpec ==
    ASSUME NEW Max \in Nat, NEW b \in BudgetType(Max), NEW ms \in Nat
    PROVE  /\ ConsumeBlocking(b, ms).budget \in BudgetType(Max)
           /\ ConsumeBlocking(b, ms).consumed \in 0 .. ms
           /\ ConsumeBlocking(b, ms).budget.total
                = b.total + ConsumeBlocking(b, ms).consumed
  <1> DEFINE remaining == b.max - b.total
  <1> DEFINE left == [b EXCEPT !.exhausted = TRUE]
  <1> DEFINE emptied == [max |-> b.max, total |-> b.total + remaining, exhausted |-> TRUE]
  <1> DEFINE charged == [b EXCEPT !.total = b.total + ms]
  <1>1. b.max = Max /\ b.total \in 0 .. Max /\ remaining \in 0 .. Max
    BY DEF BudgetType
  <1>2. left \in BudgetType(Max) /\ left.total = b.total
    BY DEF BudgetType
  <1>3. emptied \in BudgetType(Max) /\ emptied.total = b.total + remaining
    BY <1>1 DEF BudgetType
  <1>4. ms <= remaining => charged \in BudgetType(Max) /\ charged.total = b.total + ms
    BY <1>1 DEF BudgetType
  <1>5. \/ ConsumeBlocking(b, ms) = [consumed |-> 0, budget |-> b]
        \/ ConsumeBlocking(b, ms) = [consumed |-> 0, budget |-> left]
        \/ /\ ms > remaining
           /\ ConsumeBlocking(b, ms) = [consumed |-> remaining, budget |-> emptied]
        \/ /\ ~(ms > remaining)
           /\ ConsumeBlocking(b, ms) = [consumed |-> ms, budget |-> charged]
    BY DEF ConsumeBlocking
  <1> HIDE DEF left, emptied, charged, remaining
  <1>6. CASE ConsumeBlocking(b, ms) = [consumed |-> 0, budget |-> b]
    BY <1>1, <1>6
  <1>7. CASE ConsumeBlocking(b, ms) = [consumed |-> 0, budget |-> left]
    BY <1>1, <1>2, <1>7
  <1>8. CASE /\ ms > remaining
             /\ ConsumeBlocking(b, ms) = [consumed |-> remaining, budget |-> emptied]
    BY <1>1, <1>3, <1>8
  <1>9. CASE /\ ~(ms > remaining)
             /\ ConsumeBlocking(b, ms) = [consumed |-> ms, budget |-> charged]
    BY <1>1, <1>4, <1>9
  <1> QED
    BY <1>5, <1>6, <1>7, <1>8, <1>9

\* Charging a phase that started in the past keeps tracker and budget typed,
\* charges at most the time elapsed and keeps the start of the phase.
LEMMA ChargePhaseSpec ==
    ASSUME NEW Max \in Nat, NEW b \in BudgetType(Max), NEW p \in PhaseType,
           NEW now \in Nat, p.start <= now, NEW d \in BOOLEAN
    PROVE  /\ ChargePhase(b, p, now, d).budget \in BudgetType(Max)
           /\ ChargePhase(b, p, now, d).phase \in PhaseType
           /\ ChargePhase(b, p, now, d).phase.start = p.start
           /\ ChargePhase(b, p, now, d).phase.decided = d
           /\ ChargePhase(b, p, now, d).phase.blocked <= now - p.start
           /\ ChargePhase(b, p, now, d).budget.total
                = b.total + ChargePhase(b, p, now, d).phase.blocked
  <1>1. now - p.start \in Nat
    BY DEF PhaseType
  <1> DEFINE c == ConsumeBlocking(b, now - p.start)
  <1> DEFINE q == [start |-> p.start, blocked |-> c.consumed, decided |-> d]
  <1>2. /\ c.budget \in BudgetType(Max)
        /\ c.consumed \in 0 .. (now - p.start)
        /\ c.budget.total = b.total + c.consumed
    BY <1>1, ConsumeBlockingSpec
  <1>3. ChargePhase(b, p, now, d) = [phase |-> q, budget |-> c.budget]
    BY DEF ChargePhase
  <1> HIDE DEF c
  <1>4. q \in PhaseType /\ q.start = p.start /\ q.blocked = c.consumed
    BY <1>1, <1>2 DEF PhaseType
  <1>5. q.decided = d
    BY DEF PhaseType
  <1> HIDE DEF q
  <1>6. /\ ChargePhase(b, p, now, d).phase = q
        /\ ChargePhase(b, p, now, d).budget = c.budget
    BY <1>3
  <1>7. q.blocked <= now - p.start
    BY <1>1, <1>2, <1>4
  <1> QED
    BY <1>2, <1>4, <1>5, <1>6, <1>7

\* Both ways of closing a phase leave tracker and budget well formed.
LEMMA ClosePhaseType ==
    ASSUME NEW Max \in Nat, NEW b \in BudgetType(Max), NEW p \in PhaseType,
           NEW now \in Nat, p.start <= now
    PROVE  /\ MarkDecided(b, p, now).budget \in BudgetType(Max)
           /\ MarkDecided(b, p, now).phase \in PhaseType
           /\ MarkDecided(b, p, now).phase.start = p.start
           /\ Finalize(b, p, now).budget \in BudgetType(Max)
           /\ Finalize(b, p, now).phase \in PhaseType
           /\ Finalize(b, p, now).phase.start = p.start
  <1>1. CASE p.decided
    BY <1>1 DEF MarkDecided, Finalize
  <1>2. CASE ~p.decided
    <2>1. /\ MarkDecided(b, p, now) = ChargePhase(b, p, now, TRUE)
          /\ Finalize(b, p, now) = ChargePhase(b, p, now, FALSE)
      BY <1>2 DEF MarkDecided, Finalize
    <2>2. \A d \in BOOLEAN :
             /\ ChargePhase(b, p, now, d).budget \in BudgetType(Max)
             /\ ChargePhase(b, p, now, d).phase \in PhaseType
             /\ ChargePhase(b, p, now, d).phase.start = p.start
      BY ChargePhaseSpec
    <2> QED
      BY <2>1, <2>2, Zenon
  <1> QED
    BY <1>1, <1>2
=============================================================================
