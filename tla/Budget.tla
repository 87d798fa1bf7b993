------------------------------- MODULE Budget -------------------------------
(***************************************************************************)
(* The blocking budget of one request (internal/gateway/blocking_budget.go)*)
(* as operators on records.  A budget is shared by every validation phase  *)
(* of a request; a phase tracker charges it once, at the moment the phase  *)
(* is decided or, failing that, when the phase is finalized.  Time is      *)
(* counted in abstract ticks: one tick stands for a span of milliseconds   *)
(* below which the code does not distinguish two instants.                 *)
(***************************************************************************)
EXTENDS Integers

\* struct BlockingBudget without its mutex: each operation below runs under
\* it, so each is one atomic step.
BudgetType(Max) == [max : {Max}, total : 0 .. Max, exhausted : BOOLEAN]

NewBlockingBudget(Max) == [max |-> Max, total |-> 0, exhausted |-> FALSE]

RemainingMs(b) ==
    IF b.exhausted \/ b.max < b.total THEN 0 ELSE b.max - b.total

\* Mutant: a charge is not capped by what remains.
ConsumeUncapped(b, ms) ==
    IF b.exhausted
    THEN [consumed |-> 0, budget |-> b]
    ELSE [consumed |-> ms,
          budget |-> [b EXCEPT !.total = @ + ms, !.exhausted = b.total + ms > b.max]]

\* What a charge of ms takes from the budget and what it leaves.  A charge
\* that empties the budget exactly does not mark it exhausted: the next
\* charge does.
ConsumeBlocking(b, ms) ==
    LET remaining == b.max - b.total IN
    IF b.exhausted
    THEN [consumed |-> 0, budget |-> b]
    ELSE IF remaining <= 0
    THEN [consumed |-> 0, budget |-> [b EXCEPT !.exhausted = TRUE]]
    ELSE IF ms > remaining
    THEN [consumed |-> remaining,
          budget |-> [max |-> b.max, total |-> b.total + remaining, exhausted |-> TRUE]]
    ELSE [consumed |-> ms, budget |-> [b EXCEPT !.total = @ + ms]]

\* The instant at which the budget runs out when the caller blocks from now.
BlockingDeadline(b, now) == now + RemainingMs(b)

\* struct PhaseTracker.
PhaseType == [start : Nat, blocked : Nat, decided : BOOLEAN]

StartPhase(now) == [start |-> now, blocked |-> 0, decided |-> FALSE]

\* Charging the budget for the time elapsed since the phase started.  The
\* result pairs the new tracker with the new budget.
ChargePhase(b, p, now, decided) ==
    LET c == ConsumeBlocking(b, now - p.start) IN
    [phase  |-> [start |-> p.start, blocked |-> c.consumed, decided |-> decided],
     budget |-> c.budget]

\* A phase is decided at most once; a second call changes nothing.
MarkDecided(b, p, now) ==
    IF p.decided THEN [phase |-> p, budget |-> b]
    ELSE ChargePhase(b, p, now, TRUE)

\* Finalize charges the whole evaluation of a phase that was never decided.
Finalize(b, p, now) ==
    IF p.decided THEN [phase |-> p, budget |-> b]
    ELSE ChargePhase(b, p, now, FALSE)
=============================================================================
