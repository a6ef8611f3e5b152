------------------------------ MODULE Executive ------------------------------
(***************************************************************************)
(* How much thought a cycle is worth (elia/executive.py): one plan before  *)
(* any inference, from the needs, the goals and what is left of the        *)
(* budget; and the feedback of what inference took, which can only make    *)
(* the next plan cheaper (elia/cognitive_energy.py).  Scores are percents. *)
(***************************************************************************)
EXTENDS Brain

CONSTANTS EnergyWindow,    \* plans that the feedback looks at: 12
          EnergyMinimum    \* measured ones it takes: 3

VARIABLE plans   \* the recorded plans, with the seconds their inference took

CriticalNeed    == 85
MaintenanceNeed == 60
LowBudget       == 10
DeepBudget      == 35

Seconds == [none |-> 0, low |-> 6, normal |-> 20, deep |-> 60]
Modes   == {"halt", "hibernate", "maintenance", "resource", "mission", "observe"}

PlanRows == [mode : Modes, tier : DOMAIN Seconds, sleep : Nat, spent : Nat \cup {Absent}]

ResourceNeeds ==
    {"compute_survival", "compute_conservation", "resource_acquisition", "resource_execution",
     "resource_discovery", "work_execution",
     "opportunity_review", "opportunity_discovery", "resource_runway",
     "uncovered_essential_obligation"}

GoalScore(g) ==
    IF goals[g].status = "active" THEN goals[g].priority + 12 ELSE goals[g].priority - 18

BestGoal(ids) ==
    CHOOSE g \in ids : \A h \in ids \ {g} :
        GoalScore(g) > GoalScore(h) \/ (GoalScore(g) = GoalScore(h) /\ g < h)

CognitiveBudget(budget, score, urgent) ==
    CASE budget <= LowBudget                                      -> "low"
      [] budget >= DeepBudget /\ score >= CriticalNeed /\ urgent  -> "deep"
      [] OTHER                                                    -> "normal"

NewPlan(mode, tier, sleep) == [mode |-> mode, tier |-> tier, sleep |-> sleep, spent |-> Absent]

Plan(s, needs) ==
    LET top      == Top(needs, DOMAIN needs)
        severity == needs[top]
        urgent   == severity >= CriticalNeed
        active   == ActiveGoals(goals, ContextLimit)
        best     == BestGoal(active)
        score    == Lesser(100, Greater(0, GoalScore(best)))
    IN CASE ~s.chronicle \/ s.drift \/ top \in HardStop ->
               NewPlan("halt", "none", 3600)
         [] s.budget = 0 -> NewPlan("hibernate", "none", 3600)
         [] top # Absent /\ severity >= MaintenanceNeed ->
               NewPlan(IF top \in ResourceNeeds THEN "resource" ELSE "maintenance",
                       CognitiveBudget(s.budget, severity, urgent),
                       IF s.budget <= LowBudget /\ ~urgent THEN 900 ELSE 0)
         [] active # {} ->
               NewPlan("mission",
                       CognitiveBudget(s.budget, score, goals[best].priority >= CriticalNeed), 0)
         [] top # Absent ->
               NewPlan("observe", CognitiveBudget(s.budget, severity, FALSE),
                       IF s.budget <= LowBudget THEN 300 ELSE 0)
         [] OTHER -> NewPlan("hibernate", "none", 300)

-----------------------------------------------------------------------------
(* Energy.                                                                 *)

Measured ==
    SelectSeq(LastOf(plans, EnergyWindow), LAMBDA p : p.tier # "none" /\ p.spent # Absent)

\* What the measured inferences took is at least so many percent of what was meant.
Overspent(percent) ==
    /\ Len(Measured) >= EnergyMinimum
    /\ 100 * FoldLeft(LAMBDA n, p : n + p.spent, 0, Measured)
       >= percent * FoldLeft(LAMBDA n, p : n + Seconds[p.tier], 0, Measured)

Constrain(plan) ==
    CASE plan.tier \in {"deep", "normal"} /\ Overspent(200) -> [plan EXCEPT !.tier = "low"]
      [] plan.tier = "deep" /\ Overspent(150) /\ ~Overspent(200) -> [plan EXCEPT !.tier = "normal"]
      [] OTHER -> plan

RecordPlan(plan) == plans' = Append(plans, plan)

\* The seconds of a cycle are written to its own plan.
ResolvePlan(spent) == plans' = [plans EXCEPT ![Len(plans)].spent = spent]
=============================================================================
