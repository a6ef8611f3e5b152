-------------------------------- MODULE Needs --------------------------------
(***************************************************************************)
(* What the organism needs, derived from what it has and from nothing the  *)
(* model says: the maintenance pressures (elia/autonomy.py), the           *)
(* homeostatic signals (elia/homeostasis.py), the pressures of resources   *)
(* and work (elia/resource_status.py), and how the layers of the runtime   *)
(* put them together.  A need is a name; its severity is a percent.        *)
(***************************************************************************)
EXTENDS Metabolism, Memory, World

CONSTANTS SensorMinimum,   \* observations before a failure rate counts
          External         \* capabilities that act outside the private workspace

\* What the runtime reads of its surroundings: the chronicle and the lineage,
\* whether a checkpoint is anchored, percents of the weekly budget and of the
\* storage that remain, interrupted transactions, enabled capabilities.
Situation == [chronicle : BOOLEAN, checkpoint : BOOLEAN, drift : BOOLEAN, budget : Percent,
              storage : Percent, incomplete : Nat, enabled : SUBSET Capabilities]

NeedNames ==
    {"body_readiness", "capability_repair", "compute_conservation", "compute_survival",
     "continuity_integrity", "durable_checkpoint", "epistemic_conflict", "goal_formation",
     "goal_unblocking", "identity_drift", "opportunity_discovery", "opportunity_review",
     "resource_acquisition", "resource_discovery", "resource_execution", "resource_runway",
     "runtime_reliability", "sensorium_degradation", "state_reconciliation",
     "storage_conservation", "storage_survival", "uncovered_essential_obligation",
     "work_execution"}

When(condition, name, severity) == [n \in {m \in {name} : condition} |-> severity]

\* A layer adds the names the layers below it did not give.
below \uplus above ==
    [n \in DOMAIN below \cup DOMAIN above |-> IF n \in DOMAIN below THEN below[n] ELSE above[n]]

-----------------------------------------------------------------------------
(* Homeostasis.                                                            *)

RunwaySeverity(asset) ==
    CASE RunwayWithin(asset, 0) -> 100
      [] RunwayBelow(asset, 3)  -> 96
      [] RunwayBelow(asset, 7)  -> 86
      [] RunwayBelow(asset, 30) -> 64
      [] OTHER                  -> 0

\* First moments at which an essential due is not covered, at most a week
\* away: of the projections, or else of the first occurrences alone.
Uncovered ==
    LET projected == {CashflowProjection(a).essential : a \in Assets} \ {Never}
        upcoming  == {obligations[o].due :
                         o \in {q \in Upcoming : obligations[q].essential /\ ~CumulativeCovered(q)}}
        Soon(dues) == {d \in dues : d <= 7}
    IN IF Soon(projected) # {} THEN Soon(projected) ELSE Soon(upcoming)

ResourcePressure ==
    LET runway   == IF Bottleneck = NoAsset THEN 0 ELSE RunwaySeverity(Bottleneck)
        unknown  == IF \A a \in Assets : CashflowProjection(a).complete THEN 0 ELSE 90
    IN When(runway > 0 \/ unknown > 0, "resource_runway", Greater(runway, unknown))
       \uplus When(Uncovered # {}, "uncovered_essential_obligation",
               IF Min(Uncovered) <= 1 THEN 99 ELSE 92)

Signals(s) ==
    ResourcePressure
    \uplus When(s.storage <= 5, "storage_survival", 98)
    \uplus When(s.storage \in 6..15, "storage_conservation", 72)
    \uplus When(s.incomplete > 0, "state_reconciliation", Lesser(100, 88 + 2 * s.incomplete))
    \uplus When(/\ Cardinality(Observations) >= SensorMinimum
            /\ 2 * Cardinality(Failed) >= Cardinality(Observations),
            "sensorium_degradation",
            Lesser(90, 55 + (40 * Cardinality(Failed)) \div Greater(1, Cardinality(Observations))))
    \uplus When(Contradictions # {}, "epistemic_conflict", Lesser(78, 45 + 5 * Cardinality(Contradictions)))

-----------------------------------------------------------------------------
(* Maintenance pressures.                                                  *)

DerivedNeeds(s) ==
    LET active   == ActiveGoals(goals, ContextLimit)
        failures == {ConsecutiveFailures(c) : c \in {d \in Capabilities : Degraded(d)}}
        poor     == s.budget <= 25 /\ \A a \in Assets : balance[a] <= 0
    IN When(~s.chronicle, "continuity_integrity", 100)
       \uplus When(~s.checkpoint, "durable_checkpoint", 85)
       \uplus When(s.budget = 0, "compute_survival", 100)
       \uplus When(s.budget \in 1..25, "compute_conservation", IF s.budget <= 10 THEN 90 ELSE 70)
       \uplus When(poor, "resource_acquisition", IF s.budget > 10 THEN 62 ELSE 78)
       \uplus When(Promising # {}, "opportunity_review", 52)
       \uplus When(s.budget <= 50 /\ ActiveOpportunities(ContextLimit) = {}, "opportunity_discovery", 40)
       \uplus When(RecentErrors > 0, "runtime_reliability", Lesser(95, 55 + 10 * RecentErrors))
       \uplus When(failures # {}, "capability_repair", Lesser(95, 65 + 5 * Max(failures \cup {0})))
       \uplus When(active = {}, "goal_formation", 60)
       \uplus When(active # {} /\ \A g \in active : goals[g].status = "blocked", "goal_unblocking", 65)

BodyReadiness(s) == When(s.enabled \cap External = {}, "body_readiness", 55)

-----------------------------------------------------------------------------
(* Resources and work.                                                     *)

EcologyNeeds ==
    LET b == Bottleneck
        severity == CASE b = NoAsset         -> 0
                      [] RunwayWithin(b, 3)  -> 94
                      [] RunwayWithin(b, 7)  -> 84
                      [] RunwayWithin(b, 14) -> 72
                      [] RunwayWithin(b, 30) -> 58
                      [] OTHER               -> 42
    IN When(b # NoAsset,
            IF ExactCandidates(b) # {} THEN "resource_execution" ELSE "resource_discovery", severity)
       \uplus When(ActiveWork # {}, "work_execution",
               IF \E w \in ActiveWork : works[w].status \in {"staged", "submitted"} THEN 74 ELSE 62)

-----------------------------------------------------------------------------
Needs(s) ==
    When(s.drift, "identity_drift", 100)
    \uplus DerivedNeeds(s) \uplus Signals(s) \uplus EcologyNeeds \uplus BodyReadiness(s)
=============================================================================
