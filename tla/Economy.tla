------------------------------ MODULE Economy ------------------------------
(***************************************************************************)
(* What the organism may earn and what it has: the ledger of resource      *)
(* events and the opportunities (elia/economy.py), their exact resource    *)
(* profiles and the work items planned for them                            *)
(* (elia/resource_ecology.py).  How a work item gets from staged to        *)
(* realized is ExternalWork's subject; here an outside party moves it.     *)
(***************************************************************************)
EXTENDS Integers, FiniteSets, FiniteSetsExt, SequencesExt

CONSTANTS Assets,            \* (asset, unit) pairs; no two are ever mixed
          Titles,            \* (title, source_url) pairs of opportunities
          Estimates,         \* what is said of one: [value, cost, probability], in percent
          MaxOpportunities,  \* MAX_ACTIVE_OPPORTUNITIES
          ContextLimit,      \* economy.snapshot(16)
          AgingQuantum,      \* _WORK_AGING_QUANTUM_SECONDS, in hours
          NoAsset, NoWork

ASSUME EconomyAssumption ==
    /\ MaxOpportunities \in Nat \ {0} /\ ContextLimit \in Nat \ {0} /\ AgingQuantum \in Nat \ {0}
    /\ Estimates \subseteq [value : Nat, cost : Nat, probability : 0..100]
    /\ NoAsset \notin Assets

VARIABLES balance,        \* verified balance of each asset
          opportunities,  \* sequence of rows; the id is the index
          works           \* sequence of work items, likewise

economyVars == <<balance, opportunities, works>>

OpenOpportunity     == {"discovered", "evaluating", "pursuing"}
TerminalOpportunity == {"won", "lost", "expired", "abandoned"}
OpenWork            == {"planned", "staged", "submitted", "accepted"}
ClosedWork          == {"rejected", "abandoned", "realized"}

OpportunityRows ==
    [title : Titles, estimate : Estimates, status : OpenOpportunity \cup TerminalOpportunity,
     target : Assets \cup {NoAsset}]
WorkRows == [opportunity : Nat \ {0}, status : OpenWork \cup ClosedWork, age : Nat]

EconomyTypeOK ==
    /\ balance \in [Assets -> Int]
    /\ opportunities \in Seq(OpportunityRows)
    /\ works \in Seq(WorkRows)
    /\ \A w \in DOMAIN works : works[w].opportunity \in DOMAIN opportunities

EconomyInit ==
    /\ balance = [a \in Assets |-> 0]
    /\ opportunities = <<>>
    /\ works = <<>>

-----------------------------------------------------------------------------
(* Queries.                                                                *)

\* expected_net_value, times a hundred.
Net(e) == e.value * e.probability - 100 * e.cost

\* The oldest open rows, at most so many.
Oldest(ids, limit) == {i \in ids : Cardinality({j \in ids : j < i}) < limit}

ActiveOpportunities(limit) ==
    Oldest({i \in DOMAIN opportunities : opportunities[i].status \in OpenOpportunity}, limit)

Promising == {i \in ActiveOpportunities(ContextLimit) : Net(opportunities[i].estimate) > 0}

\* Candidates that pay exactly the resource that runs out first.
ExactCandidates(bottleneck) ==
    {i \in ActiveOpportunities(256) : opportunities[i].target = bottleneck}

ActiveWork == {w \in DOMAIN works : works[w].status \in OpenWork}

StagePriority ==
    [accepted |-> 4, submitted |-> 3, staged |-> 2, planned |-> 1]

\* Waiting earns priority at the same rate at every stage.
EffectivePriority(w) == StagePriority[works[w].status] + works[w].age \div AgingQuantum

Precedes(v, w) ==
    \/ EffectivePriority(v) > EffectivePriority(w)
    \/ /\ EffectivePriority(v) = EffectivePriority(w)
       /\ \/ StagePriority[works[v].status] > StagePriority[works[w].status]
          \/ /\ StagePriority[works[v].status] = StagePriority[works[w].status]
             /\ \/ works[v].age > works[w].age
                \/ works[v].age = works[w].age /\ v < w

ContinuationWork ==
    IF ActiveWork = {} THEN NoWork
    ELSE CHOOSE w \in ActiveWork : \A v \in ActiveWork \ {w} : Precedes(w, v)

-----------------------------------------------------------------------------
(* Operations.                                                             *)

\* An unverified event never enters the balance.
RecordResourceEvent(asset, amount, verified) ==
    /\ amount # 0
    /\ balance' = IF verified THEN [balance EXCEPT ![asset] = @ + amount] ELSE balance

\* The model's create: an open row of the same title is the row.
CreateOpportunity(title, estimate) ==
    LET active == ActiveOpportunities(MaxOpportunities + 1)
    IN opportunities' =
         IF (\E i \in active : opportunities[i].title = title)
            \/ Cardinality(active) >= MaxOpportunities
         THEN opportunities
         ELSE Append(opportunities, [title |-> title, estimate |-> estimate,
                                     status |-> "discovered", target |-> NoAsset])

\* A terminal status needs evidence; leaving one does not.
UpdateOpportunity(i, status, estimate, evidence) ==
    opportunities' =
        IF \/ i \notin DOMAIN opportunities
           \/ /\ status \in TerminalOpportunity /\ ~evidence
              /\ status # opportunities[i].status
        THEN opportunities
        ELSE [opportunities EXCEPT ![i].status = status, ![i].estimate = estimate]

UpsertProfile(i, asset) ==
    opportunities' = IF i \in DOMAIN opportunities
                     THEN [opportunities EXCEPT ![i].target = asset]
                     ELSE opportunities

CreateWorkItem(i) ==
    works' = IF /\ i \in DOMAIN opportunities
                /\ opportunities[i].status \in OpenOpportunity
                /\ opportunities[i].target # NoAsset
                /\ ~ \E w \in ActiveWork : works[w].opportunity = i
             THEN Append(works, [opportunity |-> i, status |-> "planned", age |-> 0])
             ELSE works

AbandonWork(w) ==
    works' = IF w \in ActiveWork THEN [works EXCEPT ![w].status = "abandoned", ![w].age = 0]
             ELSE works

PlannedFor(i) == {w \in DOMAIN works : works[w].opportunity = i /\ works[w].status = "planned"}

AttachStagedDeliverable(i) ==
    works' = [works EXCEPT ![Max(PlannedFor(i))].status = "staged", ![Max(PlannedFor(i))].age = 0]

\* The outside world: a submission, its outcome, a payment.
Moved == [staged |-> {"submitted"}, submitted |-> {"accepted", "rejected"}, accepted |-> {"realized"}]

ProgressWork(w, status) ==
    /\ w \in ActiveWork /\ works[w].status \in DOMAIN Moved
    /\ status \in Moved[works[w].status]
    /\ works' = [works EXCEPT ![w].status = status, ![w].age = 0]

AgeWork(hours) == works' = [w \in DOMAIN works |-> [works[w] EXCEPT !.age = @ + hours]]
=============================================================================
