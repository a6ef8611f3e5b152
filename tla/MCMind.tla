------------------------------- MODULE MCMind -------------------------------
(***************************************************************************)
(* A small mind: two resources, two obligations to choose from, a model    *)
(* with a dozen things to say, two cycles and two moves of the world.      *)
(***************************************************************************)
EXTENDS Mind

MCAssets == {"cash", "api"}
MCTitles == {"bounty"}

Worth  == [value |-> 9, cost |-> 1, probability |-> 50]
MCEstimates == {Worth}

\* Fewer than MaxEvents dues in the horizon, and more.
MCTerms == {[asset |-> "cash", amount |-> 1, cadence |-> 3, due |-> 2, essential |-> TRUE,  verified |-> TRUE],
            [asset |-> "cash", amount |-> 1, cadence |-> 1, due |-> 6, essential |-> FALSE, verified |-> TRUE],
            [asset |-> "api",  amount |-> 2, cadence |-> 9, due |-> 1, essential |-> TRUE,  verified |-> FALSE]}

MCReceipts == {[asset |-> "cash", amount |-> 2, verified |-> TRUE],
               [asset |-> "cash", amount |-> 9, verified |-> FALSE]}

MCCapabilities == {"noop", "stage_deliverable", "world_model_propose", "world_model_revise",
                   "check_resource_ingress", "submit_work"}

Healthy == [chronicle |-> TRUE, checkpoint |-> TRUE, drift |-> FALSE, budget |-> 80,
            storage |-> 60, incomplete |-> 0, enabled |-> MCCapabilities]

MCSituations ==
    {Healthy,
     [Healthy EXCEPT !.budget = 8, !.storage = 4, !.incomplete = 1, !.enabled = {"noop"}],
     [Healthy EXCEPT !.drift = TRUE, !.budget = 0]}

MCGoalTitles == NeedNames \cup {"learn"}

Goal(op, id, title, evidence, priority) ==
    [store |-> "goal", op |-> op, id |-> id, title |-> title, status |-> Absent,
     evidence |-> evidence, priority |-> priority]

Self(op, id, status) ==
    [store |-> "self", op |-> op, id |-> id, proposition |-> "careful", confidence |-> 90,
     status |-> status, evidence |-> TRUE]

Chance(op, id, title, status, asset) ==
    [store |-> "opportunity", op |-> op, id |-> id, title |-> title, estimate |-> Worth,
     status |-> status, evidence |-> TRUE, asset |-> asset]

Says(updates, action, sleep) ==
    [action |-> action, updates |-> updates, memories |-> 0, probability |-> 70, sleep |-> sleep]

Do(name) == [name |-> name]
Claim(answer) == [name |-> "world_model_propose", topic |-> "sky", answer |-> answer, confidence |-> 90]

MCDecisions ==
    {Says(<<>>, Do("noop"), 86400),
     Says(<<>>, Do("submit_work"), Absent),
     Says(<<>>, Do("check_resource_ingress"), 86400),
     Says(<<>>, Do("teleport"), 60),
     Says(<<>>, Claim("blue"), 60),
     Says(<<>>, Claim("grey"), 60),
     Says(<<>>, [name |-> "world_model_revise", belief |-> 1, status |-> "disputed"], 60),
     Says(<<Goal("create", Absent, "learn", FALSE, 95)>>, Do("noop"), Absent),
     Says(<<Goal("abandon", 1, Absent, TRUE, Absent),
            Goal("create", Absent, "resource_runway", FALSE, 5)>>, Do("noop"), 86400),
     Says(<<Goal("block", 1, Absent, FALSE, 100), Self("create", Absent, Absent)>>, Do("noop"), 86400),
     Says(<<Goal("update", 1, Absent, FALSE, 150)>>, Do("submit_work"), 86400),
     Says(<<Chance("create", Absent, "bounty", Absent, Absent),
            Chance("profile_resource", 1, Absent, Absent, "cash"),
            Chance("plan_work", 1, Absent, Absent, Absent)>>,
          [name |-> "stage_deliverable", opportunity |-> 1], 86400),
     Says(<<Self("update", 1, "supported"), Chance("update", 1, Absent, "lost", Absent),
            Chance("abandon_work", 1, Absent, Absent, Absent)>>, Do("noop"), 86400)}
=============================================================================
