-------------------------------- MODULE Brain --------------------------------
(***************************************************************************)
(* What a model's text may become (elia/brain.py): a decision whose every  *)
(* item has the fields its operation needs, or else the noop that stands   *)
(* for a rejected text; and what may be done with a decision               *)
(* (elia/assurance.py).  One wrong item rejects the whole text.            *)
(***************************************************************************)
EXTENDS Agency

CONSTANTS Declared   \* capabilities of the catalog, enabled or not

GoalOps        == {"create", "update", "complete", "abandon", "block", "activate"}
OpportunityOps == {"create", "update", "profile_resource", "plan_work", "abandon_work"}

TypedSelfUpdate(u) ==
    /\ u.op \in {"create", "update"}
    /\ u.op = "update" => u.id # Absent
    /\ u.op = "create" => u.proposition # Absent
    /\ u.confidence \in Percent \cup {Absent}
    /\ u.status \in SelfStatuses \cup {Absent}

\* Mutant: a priority of any size.
TypedGoalUpdate_Unbounded(u) ==
    /\ u.op \in GoalOps
    /\ u.op # "create" => u.id # Absent
    /\ u.op = "create" => u.title # Absent
    /\ u.op \in {"complete", "abandon"} => u.evidence
    /\ u.status \in GoalStatuses \cup {Absent}

TypedGoalUpdate(u) ==
    /\ u.op \in GoalOps
    /\ u.op # "create" => u.id # Absent
    /\ u.op = "create" => u.title # Absent
    /\ u.op \in {"complete", "abandon"} => u.evidence
    /\ u.priority \in Percent \cup {Absent}
    /\ u.status \in GoalStatuses \cup {Absent}

\* "id" is the opportunity's id, or the work item's when work is abandoned.
TypedOpportunityUpdate(u) ==
    /\ u.op \in OpportunityOps
    /\ u.op # "create" => u.id # Absent
    /\ u.op = "create" => u.title # Absent
    /\ u.op \in {"create", "abandon_work"} => u.evidence
    /\ u.op = "profile_resource" => u.asset \in Assets
    /\ u.status \in OpenOpportunity \cup TerminalOpportunity \cup {Absent}

Typed(u) == CASE u.store = "self" -> TypedSelfUpdate(u)
              [] u.store = "goal" -> TypedGoalUpdate(u)
              [] u.store = "opportunity" -> TypedOpportunityUpdate(u)

\* No action of the model's, nothing applied, and the next cycle at once.
Noop(sleep) == [action |-> [name |-> "noop"], updates |-> <<>>, memories |-> 0,
                probability |-> 99, sleep |-> sleep]

SafeDecision(d) ==
    IF \A i \in DOMAIN d.updates : Typed(d.updates[i]) THEN d
    ELSE [Noop(0) EXCEPT !.probability = 50]

\* No finding of the assurance is an error.
Accepted(d, needs, enabled) ==
    /\ d.action.name \in Declared \cap enabled
    /\ DOMAIN needs \cap HardStop = {}

Reviewed(d, needs, enabled) == IF Accepted(d, needs, enabled) THEN d ELSE Noop(0)
=============================================================================
