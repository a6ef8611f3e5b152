------------------------------ MODULE WorkLedger ------------------------------
(***************************************************************************)
(* The rows of external work and of the resources it earns, and the        *)
(* operations on them: work items (elia/resource_ecology.py), the outbox   *)
(* of submissions and their outcomes (elia/work_ports.py), the replay      *)
(* ledger of provider events (elia/resource_ingress.py) and the verified   *)
(* resource events they are booked as (elia/economy.py); and what a        *)
(* rollback of the accepted-transition guard makes of these rows           *)
(* (elia/transition_kernel.py).                                            *)
(*                                                                         *)
(* One record is the content of the tables.  Texts, amounts, timestamps    *)
(* and event histories are left out; a resource event is named by the      *)
(* provider event of its deterministic source.                             *)
(***************************************************************************)
EXTENDS Naturals

CONSTANTS Items,         \* ids of ecology_work_items rows
          Opportunities, \* ids of opportunities rows
          OpportunityOf, \* the opportunity of each item
          Events,        \* (verifier, external_event_id) pairs
          SignedFor,     \* the work_item_id the provider signed into the event
          NoItem,        \* no work item
          NoEvent        \* no resource event

ASSUME WorkAssumption ==
    /\ Items \subseteq Nat /\ NoItem \notin Items /\ NoEvent \notin Events
    /\ OpportunityOf \in [Items -> Opportunities]
    /\ SignedFor \in [Events -> Items \cup {NoItem}]

WorkStatuses     == {"none", "planned", "staged", "submitted", "accepted", "rejected",
                     "abandoned", "realized"}
TerminalWork     == {"rejected", "abandoned", "realized"}
IntentStatuses   == {"none", "prepared", "sending", "submitted", "indeterminate"}
Ambiguous        == {"sending", "indeterminate"}
RemoteStatuses   == {"none", "submitted", "pending", "accepted", "rejected"}
ActiveSubmission == {"submitted", "pending", "accepted"}

\* resource_ingress_events: unseen, or the item the event was observed for.
IngressRows == [status : {"unseen", "observed", "realized"}, item : Items \cup {NoItem}]

Databases ==
    [work : [Items -> WorkStatuses],                 \* ecology_work_items.status
     payer : [Items -> Events \cup {NoEvent}],       \* ... .resource_event_id
     intent : [Items -> IntentStatuses],             \* work_port_intents.status
     submission : [Items -> RemoteStatuses],         \* work_port_submissions.remote_status
     ingress : [Events -> IngressRows],              \* resource_ingress_events
     booked : [Events -> Nat]]                       \* resource_events rows of the source

EmptyDatabase ==
    [work |-> [w \in Items |-> "none"],
     payer |-> [w \in Items |-> NoEvent],
     intent |-> [w \in Items |-> "none"],
     submission |-> [w \in Items |-> "none"],
     ingress |-> [e \in Events |-> [status |-> "unseen", item |-> NoItem]],
     booked |-> [e \in Events |-> 0]]

SetWork(d, w, s)       == [d EXCEPT !.work[w] = s]
SetIntent(d, w, s)     == [d EXCEPT !.intent[w] = s]
SetSubmission(d, w, s) == [d EXCEPT !.submission[w] = s]

-----------------------------------------------------------------------------
(* Resource ecology.                                                       *)

\* create_work_item: a new id, and no other open item of the opportunity.
MayPlan(d, w) ==
    /\ \A v \in Items : v >= w => d.work[v] = "none"
    /\ \A v \in Items : OpportunityOf[v] = OpportunityOf[w] =>
          d.work[v] \in {"none"} \cup TerminalWork

\* attach_staged_deliverable: the newest planned item of the opportunity.
MayStage(d, w) ==
    /\ d.work[w] = "planned"
    /\ \A v \in Items : d.work[v] = "planned" /\ OpportunityOf[v] = OpportunityOf[w] => v <= w

MayAbandon(d, w) == d.work[w] \notin {"none"} \cup TerminalWork

\* record_submission raises unless the item is staged, and then updates the
\* row by its id alone, whatever its status has become.
UpdateSubmitted(d, w) == SetWork(d, w, "submitted")

\* The two in one step, for the process that holds the writer lock: only a
\* status command comes between them, and it writes the same status.
RecordSubmission(d, w) == IF d.work[w] = "staged" THEN UpdateSubmitted(d, w) ELSE d

\* record_external_outcome, of a submitted item only.
RecordExternalOutcome(d, w, s) == IF d.work[w] = "submitted" THEN SetWork(d, w, s) ELSE d

\* link_verified_resource_event.
LinkResource(d, w, e) == [d EXCEPT !.work[w] = "realized", !.payer[w] = e]

-----------------------------------------------------------------------------
(* The outbox.                                                             *)

MarkIndeterminate(d, w) ==
    IF d.intent[w] \in Ambiguous THEN SetIntent(d, w, "indeterminate") ELSE d

\* finalize_submission: one transaction over both tables; a row that is
\* already there is returned, an intent that was never sent raises.
MayFinalize(d, w) == d.submission[w] # "none" \/ d.intent[w] \in Ambiguous

FinalizeSubmission(d, w) ==
    IF d.submission[w] # "none" THEN d
    ELSE [d EXCEPT !.submission[w] = "submitted", !.intent[w] = "submitted"]

\* _recover_interrupted_intents, when a registry is constructed and after a
\* rollback.
RecoverInterruptedIntents(d) ==
    [d EXCEPT !.intent = [w \in Items |->
        IF @[w] = "sending" THEN "indeterminate" ELSE @[w]]]

\* Mutant: the intent is taken for the submission.
ReconcileLocalProjection_ByIntent(d) ==
    [d EXCEPT !.work = [w \in Items |->
        IF d.intent[w] \in {"indeterminate", "submitted"} /\ @[w] = "staged"
        THEN "submitted" ELSE @[w]]]

\* _reconcile_local_projection: an active submission whose item is still
\* staged.
ReconcileLocalProjection(d) ==
    [d EXCEPT !.work = [w \in Items |->
        IF d.submission[w] \in ActiveSubmission /\ @[w] = "staged"
        THEN "submitted" ELSE @[w]]]

-----------------------------------------------------------------------------
(* Resource ingress.                                                       *)

\* reserve() refuses a replay for another item.
MayReserve(d, e, w) == d.ingress[e].status = "unseen" \/ d.ingress[e].item = w

Reserve(d, e, w) ==
    IF d.ingress[e].status = "unseen"
    THEN [d EXCEPT !.ingress[e] = [status |-> "observed", item |-> w]] ELSE d

\* Mutant: the ledger row alone decides whether the event was booked.
Book_ByReservation(d, e) ==
    IF d.ingress[e].status # "realized" THEN [d EXCEPT !.booked[e] = @ + 1] ELSE d

\* _existing_resource_event, else record_resource_event with a new receipt.
Book(d, e) == IF d.booked[e] = 0 THEN [d EXCEPT !.booked[e] = 1] ELSE d

MarkRealized(d, e) == [d EXCEPT !.ingress[e].status = "realized"]

-----------------------------------------------------------------------------
(* Rollback: the tables of external truth come from the failed transition, *)
(* everything else from the copy.                                          *)

\* ecology_work_items rows exported because an ingress event paid for them.
Exported(dirty) == {w \in Items : dirty.payer[w] # NoEvent}

\* INSERT OR REPLACE of the saved rows over those of the restored copy.
Reinserted(saved, row, absent) == IF saved = absent THEN row ELSE saved

\* Every re-inserted row must find the rows its foreign keys name.
KeysSatisfied(dirty, before) ==
    /\ \A w \in Items : dirty.intent[w] # "none" \/ dirty.submission[w] # "none" =>
          before.work[w] # "none"
    /\ \A e \in Events : dirty.ingress[e].item \in Items =>
          before.work[dirty.ingress[e].item] # "none"

\* Mutant: the outbox goes back with the rest of the database.
RolledBack_WithoutOutbox(dirty, before) ==
    [before EXCEPT
        !.work = [w \in Items |-> IF w \in Exported(dirty) THEN dirty.work[w] ELSE @[w]],
        !.payer = [w \in Items |-> Reinserted(dirty.payer[w], @[w], NoEvent)],
        !.ingress = dirty.ingress, !.booked = dirty.booked]

\* Mutant: resource events are rewound, the replay ledger is kept.
RolledBack_WithoutBookings(dirty, before) ==
    [dirty EXCEPT
        !.work = [w \in Items |-> IF w \in Exported(dirty) THEN @[w] ELSE before.work[w]],
        !.payer = [w \in Items |-> Reinserted(@[w], before.payer[w], NoEvent)],
        !.booked = before.booked]

\* The work items are re-inserted after the outbox rows, with foreign keys
\* on: replacing a parent row deletes the child rows that name it (ON DELETE
\* CASCADE), so the outbox rows of an exported item are gone.
RolledBack(dirty, before) ==
    [work |-> [w \in Items |-> IF w \in Exported(dirty) THEN dirty.work[w] ELSE before.work[w]],
     payer |-> [w \in Items |-> Reinserted(dirty.payer[w], before.payer[w], NoEvent)],
     intent |-> [w \in Items |->
        IF w \in Exported(dirty) THEN "none"
        ELSE Reinserted(dirty.intent[w], before.intent[w], "none")],
     submission |-> [w \in Items |->
        IF w \in Exported(dirty) THEN "none"
        ELSE Reinserted(dirty.submission[w], before.submission[w], "none")],
     ingress |-> dirty.ingress, booked |-> dirty.booked]
=============================================================================
