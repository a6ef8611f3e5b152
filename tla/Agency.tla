------------------------------- MODULE Agency -------------------------------
(***************************************************************************)
(* What deserves attention (elia/agency.py): needs become durable goals,   *)
(* goals whose need is gone are closed, one goal is the focus, one work    *)
(* item is continued, and none of them sleeps past its cap.  A goal that   *)
(* the kernel makes for a need has the need's name for its title.          *)
(***************************************************************************)
EXTENDS Needs

CONSTANT Slack   \* goals looked at beyond the limit: 8

ASSUME AgencyAssumption == Slack \in Nat /\ NeedNames \subseteq GoalTitles

HardStop == {"continuity_integrity", "identity_drift"}

Kept == {"resource_acquisition", "opportunity_review", "opportunity_discovery", "goal_formation"}

WakeCap ==
    [n \in NeedNames |->
        CASE n \in HardStop                                             -> 300
          [] n = "storage_survival"                                     -> 900
          [] n \in {"durable_checkpoint", "uncovered_essential_obligation",
                    "state_reconciliation"}                             -> 1800
          [] n \in {"resource_execution", "work_execution", "resource_runway",
                    "runtime_reliability", "capability_repair",
                    "sensorium_degradation"}                            -> 3600
          [] n \in {"resource_discovery", "storage_conservation",
                    "epistemic_conflict", "goal_unblocking"}            -> 7200
          [] OTHER                                                      -> 21600]

WorkWakeCap == [accepted |-> 3600, submitted |-> 3600, staged |-> 7200, planned |-> 21600]

\* The names in their order as strings, which breaks ties of severity.
Alphabet ==
    <<"body_readiness", "capability_repair", "compute_conservation", "compute_survival",
      "continuity_integrity", "durable_checkpoint", "epistemic_conflict", "goal_formation",
      "goal_unblocking", "identity_drift", "opportunity_discovery", "opportunity_review",
      "resource_acquisition", "resource_discovery", "resource_execution", "resource_runway",
      "runtime_reliability", "sensorium_degradation", "state_reconciliation",
      "storage_conservation", "storage_survival", "uncovered_essential_obligation",
      "work_execution">>

Place == [n \in NeedNames |-> CHOOSE i \in DOMAIN Alphabet : Alphabet[i] = n]

\* The most severe of some needs.
Top(needs, names) ==
    IF names = {} THEN Absent
    ELSE CHOOSE n \in names : \A m \in names \ {n} :
             \/ needs[n] > needs[m]
             \/ needs[n] = needs[m] /\ Place[n] < Place[m]

Looked(gs) == ActiveGoals(gs, MaxActiveGoals + Slack)

\* The first of the goals looked at that has this title.
Matching(gs, title) ==
    LET same == {g \in Looked(gs) : gs[g].title = title}
    IN IF same = {} THEN 0 ELSE CHOOSE g \in same : \A h \in same \ {g} : Ahead(gs, g, h)

ResolveAbsentMaintenance(gs, needs) ==
    [g \in DOMAIN gs |->
        IF /\ g \in Looked(gs) /\ gs[g].source = "agency_kernel"
           /\ gs[g].title \in NeedNames \ (Kept \cup DOMAIN needs)
        THEN [gs[g] EXCEPT !.status = "completed"] ELSE gs[g]]

\* Raises the kernel's own goal, or makes one while there is room; a hard
\* stop needs no room.
CreateNeedGoal(gs, need, severity) ==
    LET g == Matching(gs, need)
    IN CASE g # 0 /\ gs[g].source = "agency_kernel" ->
               [gs EXCEPT ![g].priority = Greater(@, severity)]
         [] g = 0 /\ (Cardinality(Looked(gs)) < MaxActiveGoals \/ need \in HardStop) ->
               NewGoal(gs, need, Greater(35, severity), "agency_kernel")
         [] OTHER -> gs

BaselineGoal(gs) ==
    IF Looked(gs) = {} THEN NewGoal(gs, "goal_formation", 60, "agency_kernel") ELSE gs

Score(gs, g, needs) ==
    (IF gs[g].title \in DOMAIN needs THEN Greater(gs[g].priority, needs[gs[g].title])
     ELSE gs[g].priority)
    - (IF gs[g].status = "blocked" THEN 10 ELSE 0)

Focus(gs, needs) ==
    CHOOSE g \in Looked(gs) : \A h \in Looked(gs) \ {g} :
        \/ Score(gs, g, needs) > Score(gs, h, needs)
        \/ Score(gs, g, needs) = Score(gs, h, needs) /\ Ahead(gs, g, h)

\* An urgent need that found no room is the focus without being a goal.
FocusTitle(gs, needs, selected) ==
    IF selected # Absent /\ (selected \in HardStop \/ needs[selected] >= 75) THEN selected
    ELSE IF Looked(gs) = {} THEN Absent ELSE gs[Focus(gs, needs)].title

Reconcile(gs, needs) ==
    LET actionable == DOMAIN needs \ {"goal_formation"}
        selected   == Top(needs, actionable)
        kept       == ResolveAbsentMaintenance(gs, needs)
        committed  == IF selected # Absent /\ (needs[selected] >= 75 \/ Looked(kept) = {})
                      THEN CreateNeedGoal(kept, selected, needs[selected]) ELSE kept
        formed     == BaselineGoal(committed)
    IN [goals    |-> formed,
        snapshot |-> [selected |-> selected, active |-> actionable,
                      focus    |-> FocusTitle(formed, needs, selected),
                      work     |-> ContinuationWork]]

\* The longest sleep the commitments allow.
WakePolicy(snapshot) ==
    LET caps == {WakeCap[n] : n \in snapshot.active}
                \cup (IF snapshot.work = NoWork THEN {} ELSE {WorkWakeCap[works[snapshot.work].status]})
    IN IF caps = {} THEN Absent ELSE Min(caps)
=============================================================================
