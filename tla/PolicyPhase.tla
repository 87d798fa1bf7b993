----------------------------- MODULE PolicyPhase -----------------------------
(***************************************************************************)
(* What one validation phase of the gateway promises, whichever engine     *)
(* runs it: rules reach their outcomes in any order and at any time, and   *)
(* the phase takes one decision, once.                                     *)
(*                                                                         *)
(*   deny      only because a rule in enforce mode evaluated to deny       *)
(*   allow     only when every rule in enforce mode evaluated, none of     *)
(*             them to deny and none in error                              *)
(*   failopen  the call proceeds although the rules in enforce mode do not *)
(*             all vouch for it; impossible when no rule is enforced       *)
(*   error     the engine refused to run at all                            *)
(*                                                                         *)
(* Rules in audit_only mode may end in any way, before or after the        *)
(* decision, and never influence it.                                       *)
(***************************************************************************)
CONSTANT Rules

VARIABLES mode,      \* mode[r]: "enforce", "audit_only" or "disabled"
          outcome,   \* outcome[r]: "pending", "allow", "deny" or "error"
          decision   \* "pending" or the decision of the phase

vars == <<mode, outcome, decision>>

Enforced == {r \in Rules : mode[r] = "enforce"}

Init ==
    /\ mode \in [Rules -> {"enforce", "audit_only", "disabled"}]
    /\ outcome = [r \in Rules |-> "pending"]
    /\ decision = "pending"

\* A rule that is loaded reaches its outcome.
Evaluate(r) ==
    /\ mode[r] # "disabled"
    /\ outcome[r] = "pending"
    /\ \E o \in {"allow", "deny", "error"} :
          outcome' = [outcome EXCEPT ![r] = o]
    /\ UNCHANGED <<mode, decision>>

\* A phase that takes d, given the outcomes o.
Justified(d, o) ==
    CASE d = "deny"     -> \E r \in Enforced : o[r] = "deny"
      [] d = "allow"    -> \A r \in Enforced : o[r] = "allow"
      [] d = "failopen" -> Enforced # {}
      [] d = "error"    -> Enforced # {}
      [] OTHER          -> FALSE

Decide(d) ==
    /\ decision = "pending"
    /\ Justified(d, outcome)
    /\ decision' = d
    /\ UNCHANGED <<mode, outcome>>

Next ==
    \/ \E r \in Rules : Evaluate(r)
    \/ \E d \in {"allow", "deny", "failopen", "error"} : Decide(d)

Spec == Init /\ [][Next]_vars
=============================================================================
