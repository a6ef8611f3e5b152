-------------------------------- MODULE Mind --------------------------------
(***************************************************************************)
(* One mind, a cycle at a time (elia/runtime.py, elia/executive_runtime.py,*)
(* elia/resource_runtime.py, elia/organism_runtime.py and                  *)
(* elia/continuity_runtime.py): it wakes and commits to what it needs,     *)
(* plans how much thought that is worth, takes a decision from a model     *)
(* that may say anything, applies it, acts, and says when it wakes next.   *)
(*                                                                         *)
(* A cycle is one accepted transition: nobody else moves within it, and    *)
(* one that fails leaves only its error (that is TransitionKernel's and    *)
(* Organism's subject).  Between cycles time passes, obligations and       *)
(* receipts arrive, work is taken or paid, and beliefs are adjudicated.    *)
(***************************************************************************)
EXTENDS Executive

CONSTANTS Situations,    \* surroundings
          Decisions,     \* what the model may say
          Receipts,      \* verified or not: [asset, amount, verified]
          ExternalIO,    \* EXTERNAL_IO_ACTIONS
          Exempt,        \* DEGRADATION_EXEMPT
          Spending,      \* percents of the target that inference may take
          Spans,         \* days that may pass
          DefaultSleep,  \* cycle_sleep_seconds
          MaxCycles, MaxMoves

ASSUME MindAssumption ==
    /\ Situations \subseteq Situation
    /\ Receipts \subseteq [asset : Assets, amount : Int, verified : BOOLEAN]
    /\ "check_resource_ingress" \in ExternalIO /\ "noop" \in Exempt \cap Capabilities
    /\ Spending \subseteq Nat /\ Spans \subseteq Nat
    /\ MaxCycles \in Nat /\ MaxMoves \in Nat /\ DefaultSleep \in Nat
    /\ Horizon >= 7         \* a week of the projected 30 days
    /\ Absent \notin Nat \cup NeedNames

\* What parsing leaves open of an update; Typed says what it checks.
SayableUpdate(u) ==
    /\ u.store = "self" => u.proposition \in Propositions \cup {Absent}
    /\ u.store = "goal" => u.title \in GoalTitles \cup {Absent}
    /\ u.store = "opportunity" =>
          /\ u.title \in Titles \cup {Absent}
          /\ u.estimate \in Estimates \cup {Absent}
          /\ u.op = "create" => u.estimate \in Estimates

Sayable(d) ==
    /\ d.memories \in Nat /\ d.probability \in Percent /\ d.sleep \in Nat \cup {Absent}
    /\ \A i \in DOMAIN d.updates : SayableUpdate(d.updates[i])
    /\ d.action.name = "world_model_propose" =>
          /\ d.action.topic \in Topics /\ d.action.answer \in Answers
          /\ d.action.confidence \in Nat

ASSUME DecisionAssumption == \A d \in Decisions : Sayable(d)

VARIABLES agency,     \* the snapshot of the agency kernel
          situation,
          phase, decision, pending, result,   \* the cycle that is running
          wake,       \* seconds until the next wake
          cycles, moves

mindVars == <<agency, situation, phase, decision, pending, result, wake, cycles, moves>>
vars     == <<economyVars, obligations, memoryVars, beliefs, plans, mindVars>>

Snapshots == [selected : NeedNames \cup {Absent}, active : SUBSET NeedNames,
              focus : GoalTitles \cup {Absent}, work : Nat \cup {NoWork}]

TypeOK ==
    /\ EconomyTypeOK /\ MetabolismTypeOK /\ MemoryTypeOK /\ WorldTypeOK
    /\ plans \in Seq(PlanRows)
    /\ agency \in Snapshots
    /\ situation \in Situations
    /\ phase \in {"rest", "woken", "apply", "act", "settle", "settled"}
    /\ result \in BOOLEAN
    /\ wake \in Nat /\ wake <= 86400
    /\ cycles \in 0..MaxCycles /\ moves \in 0..MaxMoves

Init ==
    /\ EconomyInit /\ MemoryInit
    /\ obligations = <<>> /\ beliefs = <<>> /\ plans = <<>>
    /\ agency = [selected |-> Absent, active |-> {}, focus |-> Absent, work |-> NoWork]
    /\ situation \in Situations
    /\ phase = "rest" /\ decision = Noop(0) /\ pending = {} /\ result = TRUE
    /\ wake = 0 /\ cycles = 0 /\ moves = 0

Others(n) == [i \in 1..n |-> "other"]

\* Reconciles the commitments with the needs; a new snapshot is remembered.
\* The cycle itself remembers so many things more.
Commit(more) ==
    LET made == Reconcile(goals, Needs(situation))
    IN /\ goals' = made.goals
       /\ agency' = made.snapshot
       /\ memories' = Remembering(memories, Others(more + (IF made.snapshot = agency THEN 0 ELSE 1)))

-----------------------------------------------------------------------------
(* A cycle.                                                                *)

AtRest == phase \in {"rest", "settled"}

Wake ==
    /\ AtRest /\ cycles < MaxCycles
    /\ Commit(0)
    /\ phase' = "woken" /\ cycles' = cycles + 1
    /\ UNCHANGED <<economyVars, obligations, events, hypotheses, forecasts, beliefs, plans,
                   situation, decision, pending, result, wake, moves>>

Think ==
    /\ phase = "woken"
    /\ LET needs == Needs(situation)
           plan  == Constrain(Plan(situation, needs))
       IN /\ RecordPlan(plan)
          /\ \E said \in Decisions :
                decision' = Reviewed(IF plan.tier = "none" THEN Noop(plan.sleep) ELSE SafeDecision(said),
                                     needs, situation.enabled)
    /\ pending' = DOMAIN decision'.updates
    /\ memories' = Remembering(memories, Others(decision'.memories))
    /\ phase' = "apply"
    /\ UNCHANGED <<economyVars, obligations, goals, events, hypotheses, forecasts, beliefs,
                   agency, situation, result, wake, cycles, moves>>

ApplyToOpportunity(u) ==
    \/ /\ u.op = "create" /\ CreateOpportunity(u.title, u.estimate) /\ UNCHANGED works
    \/ /\ u.op = "update"
       /\ UNCHANGED works
       /\ IF u.id \in DOMAIN opportunities
          THEN UpdateOpportunity(u.id, Said(u.status, opportunities[u.id].status),
                                 Said(u.estimate, opportunities[u.id].estimate), u.evidence)
          ELSE UNCHANGED opportunities
    \/ /\ u.op = "profile_resource" /\ UpsertProfile(u.id, u.asset) /\ UNCHANGED works
    \/ /\ u.op = "plan_work" /\ CreateWorkItem(u.id) /\ UNCHANGED opportunities
    \/ /\ u.op = "abandon_work" /\ AbandonWork(u.id) /\ UNCHANGED opportunities

\* After the memories the self, the goals, the opportunities, and the work.
Turn(u) == CASE u.store = "self"             -> 1
             [] u.store = "goal"             -> 2
             [] u.op \in {"create", "update"} -> 3
             [] OTHER                        -> 4

Due(i) ==
    LET TurnOf(j) == Turn(decision.updates[j])
    IN \A j \in pending \ {i} : TurnOf(i) < TurnOf(j) \/ (TurnOf(i) = TurnOf(j) /\ i < j)

ApplyTo(u) ==
    \/ /\ u.store = "self"
       /\ hypotheses' = IF u.op = "create" THEN CreateHypothesis(u) ELSE UpdateHypothesis(u)
       /\ UNCHANGED <<goals, opportunities, works>>
    \/ /\ u.store = "goal"
       /\ goals' = GoalUpdate(goals, u)
       /\ UNCHANGED <<hypotheses, opportunities, works>>
    \/ /\ u.store = "opportunity"
       /\ ApplyToOpportunity(u)
       /\ UNCHANGED <<hypotheses, goals>>

ApplyUpdate ==
    /\ phase = "apply"
    /\ \E i \in pending :
          /\ Due(i) /\ ApplyTo(decision.updates[i])
          /\ pending' = pending \ {i}
    /\ UNCHANGED <<balance, obligations, events, memories, forecasts, beliefs, plans, agency,
                   situation, phase, decision, result, wake, cycles, moves>>

\* The forecast is on record before the action.
Forecast ==
    /\ phase = "apply" /\ pending = {}
    /\ RecordForecast(decision.probability)
    /\ phase' = "act"
    /\ UNCHANGED <<economyVars, obligations, goals, events, memories, hypotheses, beliefs, plans,
                   agency, situation, decision, pending, result, wake, cycles, moves>>

-----------------------------------------------------------------------------
(* The action.  A row of the capability's health says whether it ran.      *)

Row(ok, executed) ==
    /\ events' = Append(events, [capability |-> decision.action.name, ok |-> ok, executed |-> executed])
    /\ result' = ok

Ran(ok) == Row(ok, TRUE)
Held    == Row(FALSE, FALSE)

Acting ==
    /\ phase = "act" /\ phase' = "settle"
    /\ UNCHANGED <<obligations, goals, memories, hypotheses, forecasts, opportunities, plans, agency,
                   situation, decision, pending, wake, cycles, moves>>

Suppressed == decision.action.name \notin Exempt /\ Degraded(decision.action.name)

\* What the owner does not allow; a refusal at the point of effect leaves no row.
ActDenied ==
    /\ Acting
    /\ decision.action.name \in ExternalIO
    /\ Held \/ (result' = FALSE /\ UNCHANGED events)
    /\ UNCHANGED <<balance, works, beliefs>>

\* A capability that keeps failing is not tried; only ingress is asked anyway.
ActSuppressed ==
    /\ Acting
    /\ decision.action.name # "check_resource_ingress" /\ Suppressed
    /\ Held
    /\ UNCHANGED <<balance, works, beliefs>>

ActIngress ==
    /\ Acting
    /\ decision.action.name = "check_resource_ingress"
    /\ \/ /\ Ran(TRUE)
          /\ \E r \in Receipts : r.verified /\ r.amount > 0 /\ RecordResourceEvent(r.asset, r.amount, TRUE)
       \/ Ran(FALSE) /\ UNCHANGED balance
    /\ UNCHANGED <<works, beliefs>>

\* Staging for an opportunity needs work that is planned for it.
ActStage ==
    /\ Acting
    /\ decision.action.name = "stage_deliverable"
    /\ IF PlannedFor(decision.action.opportunity) = {}
       THEN result' = FALSE /\ UNCHANGED <<events, works>>
       ELSE \/ Ran(TRUE) /\ AttachStagedDeliverable(decision.action.opportunity)
            \/ Ran(FALSE) /\ UNCHANGED works
    /\ UNCHANGED <<balance, beliefs>>

ActBelieve ==
    /\ Acting /\ ~Suppressed
    /\ \/ /\ decision.action.name = "world_model_propose"
          /\ Propose(decision.action.topic, decision.action.answer, decision.action.confidence)
          /\ Ran(TRUE)
       \/ /\ decision.action.name = "world_model_revise"
          /\ IF MayRevise(decision.action.belief, decision.action.status)
             THEN Revise(decision.action.belief, decision.action.status) /\ Ran(TRUE)
             ELSE UNCHANGED beliefs /\ Ran(FALSE)
    /\ UNCHANGED <<balance, works>>

Special == {"check_resource_ingress", "stage_deliverable", "world_model_propose", "world_model_revise"}

ActOtherwise ==
    /\ Acting /\ ~Suppressed
    /\ decision.action.name \notin Special
    /\ Ran(TRUE) \/ (decision.action.name # "noop" /\ Ran(FALSE))
    /\ UNCHANGED <<balance, works, beliefs>>

-----------------------------------------------------------------------------
(* The end of a cycle, and its failure.                                    *)

\* The needs are derived again from what the action left.
Settle ==
    /\ phase = "settle"
    /\ ResolveForecast(Len(forecasts), result)
    /\ Commit(2)
    /\ wake' = LET asked == Lesser(86400, Said(decision.sleep, DefaultSleep))
               IN Lesser(asked, Said(WakePolicy(agency'), asked))
    /\ \E percent \in Spending : ResolvePlan((Seconds[plans[Len(plans)].tier] * percent) \div 100)
    /\ phase' = "settled"
    /\ UNCHANGED <<economyVars, obligations, events, hypotheses, beliefs, situation, decision,
                   pending, result, cycles, moves>>

\* Rolled back whole; the error is remembered.
FailedCycle ==
    /\ AtRest /\ cycles < MaxCycles
    /\ memories' = Remembering(memories, <<"runtime_error">>)
    /\ phase' = "rest" /\ cycles' = cycles + 1
    /\ UNCHANGED <<economyVars, obligations, goals, events, hypotheses, forecasts, beliefs, plans,
                   agency, situation, decision, pending, result, wake, moves>>

-----------------------------------------------------------------------------
(* Between cycles.                                                         *)

Between ==
    /\ AtRest /\ moves < MaxMoves
    /\ phase' = "rest" /\ moves' = moves + 1
    /\ UNCHANGED <<memoryVars, plans, agency, decision, pending, result, wake, cycles>>

ObligationsChange ==
    /\ Between
    /\ \/ \E t \in Terms : RecordObligation(t)
       \/ \E o \in DOMAIN obligations : Deactivate(o) \/ AdvanceDue(o, 1)
    /\ UNCHANGED <<economyVars, beliefs, situation>>

TimePasses ==
    /\ Between
    /\ \E days \in Spans : DaysPass(days) /\ AgeWork(24 * days)
    /\ UNCHANGED <<balance, opportunities, beliefs, situation>>

ReceiptArrives ==
    /\ Between
    /\ \E r \in Receipts : RecordResourceEvent(r.asset, r.amount, r.verified)
    /\ UNCHANGED <<opportunities, works, obligations, beliefs, situation>>

WorkMoves ==
    /\ Between
    /\ \E w \in DOMAIN works, status \in OpenWork \cup ClosedWork : ProgressWork(w, status)
    /\ UNCHANGED <<balance, opportunities, obligations, beliefs, situation>>

BeliefAdjudicated ==
    /\ Between
    /\ \E b \in DOMAIN beliefs, status \in TrustedStatuses : Adjudicate(b, status)
    /\ UNCHANGED <<economyVars, obligations, situation>>

SituationChanges ==
    /\ Between
    /\ situation' \in Situations \ {situation}
    /\ UNCHANGED <<economyVars, obligations, beliefs>>

Done == AtRest /\ cycles = MaxCycles /\ UNCHANGED vars

Next ==
    \/ Wake \/ Think \/ ApplyUpdate \/ Forecast
    \/ ActDenied \/ ActSuppressed \/ ActIngress \/ ActStage \/ ActBelieve \/ ActOtherwise
    \/ Settle \/ FailedCycle
    \/ ObligationsChange \/ TimePasses \/ ReceiptArrives \/ WorkMoves \/ BeliefAdjudicated
    \/ SituationChanges \/ Done

Spec == Init /\ [][Next]_vars

-----------------------------------------------------------------------------
\* Fewer dues within the horizon than the projection counts.
Countable(asset) ==
    SumFunction([o \in Owed(asset) |-> DuesBy(o, Horizon)]) < MaxEvents

\* A need that is urgent as far as the stores say.
Urgent(n) == n \in DOMAIN Needs(situation) /\ Needs(situation)[n] >= 90

\* Whatever the model decided and did, an organism that will owe within a
\* week, on an essential obligation, what it does not hold ends its cycle with
\* an urgent need for its focus (a goal, or none for want of room) and wakes
\* within the hour, within the half hour when the dues can be counted: the
\* dues are counted here one by one, and the code reaches the same through a
\* projection of all of them, homeostasis, the merged needs, the agency kernel
\* and the wake policy.  (What the cycle remembers at its end may push the
\* errors that made a need urgent out of memory: urgent is what it was.)
AlarmHeeded ==
    [][phase' = "settled" /\ phase # "settled" =>
          \A asset \in Assets : ShortBy(asset, 7) =>
              /\ Urgent(agency'.focus)
              /\ wake' <= IF Countable(asset) THEN 1800 ELSE 3600]_vars

\* The projection sees that shortfall, or else it stopped counting.
Foreseen ==
    \A asset \in Assets : ShortBy(asset, 7) =>
        \/ Uncovered # {}
        \/ ~Countable(asset) /\ \E a \in Assets : ~CashflowProjection(a).complete
=============================================================================
