------------------------------- MODULE Memory -------------------------------
(***************************************************************************)
(* The autobiographical stores (elia/memory.py): durable goals, capability *)
(* events, and the recent memories; what the model is told to change of    *)
(* its goals (elia/runtime.py); its hypotheses about itself                *)
(* (elia/self_model.py); forecasts and their outcomes                      *)
(* (elia/metacognition.py).  Priorities and confidences are percents.      *)
(***************************************************************************)
EXTENDS Integers, FiniteSets, FiniteSetsExt, SequencesExt

CONSTANTS GoalTitles,        \* titles, two that fold to the same case being one
          Propositions,      \* of self hypotheses
          Capabilities,      \* names of capabilities
          MaxActiveGoals,    \* MAX_ACTIVE_GOALS
          HealthWindow,      \* capability events that health looks at
          SensorWindow,      \* observations that homeostasis looks at
          MemoryWindow,      \* memories that derive_needs looks at
          FailureThreshold,  \* CAPABILITY_FAILURE_THRESHOLD
          Absent             \* a field the model left out

ASSUME MemoryAssumption ==
    /\ MaxActiveGoals \in Nat \ {0} /\ HealthWindow \in Nat \ {0}
    /\ SensorWindow \in Nat \ {0} /\ MemoryWindow \in Nat \ {0}
    /\ FailureThreshold \in Nat \ {0}

VARIABLES goals,       \* sequence of rows; the id is the index
          events,      \* capability events
          memories,    \* the last MemoryWindow memories: "runtime_error" or "other"
          hypotheses,  \* self hypotheses
          forecasts    \* cognitive forecasts

memoryVars == <<goals, events, memories, hypotheses, forecasts>>

Percent       == 0..100
OpenGoal      == {"active", "blocked"}
GoalStatuses  == OpenGoal \cup {"completed", "abandoned"}
SelfStatuses  == {"active", "supported", "uncertain", "refuted", "retired"}

GoalRows == [title : GoalTitles, source : {"agency_kernel", "brain"}, priority : Percent,
             status : GoalStatuses]
EventRows == [capability : Capabilities, ok : BOOLEAN, executed : BOOLEAN]
HypothesisRows == [proposition : Propositions, confidence : Percent, status : SelfStatuses]
ForecastRows == [probability : Percent, resolved : BOOLEAN, success : BOOLEAN]

MemoryKinds == {"runtime_error", "other"}

MemoryTypeOK ==
    /\ goals \in Seq(GoalRows)
    /\ events \in Seq(EventRows)
    /\ memories \in Seq(MemoryKinds) /\ Len(memories) <= MemoryWindow
    /\ hypotheses \in Seq(HypothesisRows)
    /\ forecasts \in Seq(ForecastRows)

MemoryInit ==
    /\ goals = <<>> /\ events = <<>> /\ memories = <<>>
    /\ hypotheses = <<>> /\ forecasts = <<>>

Lesser(a, b)  == IF a < b THEN a ELSE b
Greater(a, b) == IF a < b THEN b ELSE a
Said(value, default) == IF value = Absent THEN default ELSE value
LastOf(s, n)  == SubSeq(s, Greater(1, Len(s) - n + 1), Len(s))

\* remember: older rows than the window are never looked at again.
Remembering(rows, kinds) == LastOf(rows \o kinds, MemoryWindow)

RecentErrors == Cardinality({i \in DOMAIN memories : memories[i] = "runtime_error"})

-----------------------------------------------------------------------------
(* Goals.                                                                  *)

OpenGoals(gs) == {g \in DOMAIN gs : gs[g].status \in OpenGoal}

\* active_goals: highest priority first, then oldest, at most so many.
Ahead(gs, g, h) == \/ gs[g].priority > gs[h].priority
                   \/ gs[g].priority = gs[h].priority /\ g < h

ActiveGoals(gs, limit) ==
    {g \in OpenGoals(gs) : Cardinality({h \in OpenGoals(gs) : Ahead(gs, h, g)}) < limit}

NewGoal(gs, title, priority, source) ==
    Append(gs, [title |-> title, source |-> source, priority |-> priority, status |-> "active"])

\* What the model's create, update, complete, abandon, block and activate
\* make of the goals; a refused update changes nothing.
NextStatus(u) ==
    CASE u.op = "complete" -> "completed"
      [] u.op = "abandon"  -> "abandoned"
      [] u.op = "block"    -> "blocked"
      [] u.op = "activate" -> "active"
      [] OTHER             -> u.status

GoalUpdate(gs, u) ==
    IF u.op = "create" THEN
        LET active == ActiveGoals(gs, MaxActiveGoals + 1)
        IN IF (\E g \in active : gs[g].title = u.title) \/ Cardinality(active) >= MaxActiveGoals
           THEN gs ELSE NewGoal(gs, u.title, Said(u.priority, 50), "brain")
    ELSE IF \/ u.id \notin DOMAIN gs
            \/ NextStatus(u) \in {"completed", "abandoned"} /\ ~u.evidence
         THEN gs
         ELSE [gs EXCEPT ![u.id].status   = Said(NextStatus(u), @),
                         ![u.id].priority = Said(u.priority, @)]

-----------------------------------------------------------------------------
(* Capability health.                                                      *)

\* The newest of some rows, at most so many.
Newest(ids, limit) == {i \in ids : Cardinality({j \in ids : j > i}) < limit}

\* The last events of one capability, those that were suppressed included.
Recent(c) == Newest({i \in DOMAIN events : events[i].capability = c}, HealthWindow)

Executed(c) == {i \in Recent(c) : events[i].executed}

ConsecutiveFailures(c) ==
    Cardinality({i \in Executed(c) : \A j \in Executed(c) : j >= i => ~events[j].ok})

Degraded(c) == ConsecutiveFailures(c) >= FailureThreshold

\* Every executed capability leaves an observation.
Observations == Newest({i \in DOMAIN events : events[i].executed}, SensorWindow)
Failed       == {i \in Observations : ~events[i].ok}

-----------------------------------------------------------------------------
(* Self hypotheses and forecasts.                                          *)

CreateHypothesis(u) ==
    IF \/ ~u.evidence
       \/ \E i \in DOMAIN hypotheses : /\ hypotheses[i].proposition = u.proposition
                                       /\ hypotheses[i].status \notin {"refuted", "retired"}
    THEN hypotheses
    ELSE Append(hypotheses, [proposition |-> u.proposition, status |-> "active",
                             confidence  |-> Lesser(75, Said(u.confidence, 50))])

\* The model cannot call its own claim supported.
UpdateHypothesis(u) ==
    IF u.id \notin DOMAIN hypotheses \/ ~u.evidence THEN hypotheses
    ELSE [hypotheses EXCEPT
             ![u.id].status     = IF u.status \in {"supported", Absent} THEN "active" ELSE u.status,
             ![u.id].confidence = IF u.confidence = Absent THEN @ ELSE Lesser(90, u.confidence)]

RecordForecast(probability) ==
    forecasts' = Append(forecasts, [probability |-> probability, resolved |-> FALSE,
                                    success |-> FALSE])

\* Resolved once, by whether the action ran.
ResolveForecast(f, success) ==
    /\ f \in DOMAIN forecasts
    /\ forecasts' = IF forecasts[f].resolved THEN forecasts
                    ELSE [forecasts EXCEPT ![f].resolved = TRUE, ![f].success = success]
=============================================================================
