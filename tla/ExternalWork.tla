----------------------------- MODULE ExternalWork -----------------------------
(***************************************************************************)
(* External work from plan to payment: the work ports, the resource        *)
(* ecology and the attested resource ingress of one organism, run inside   *)
(* accepted transitions (elia/external_work_runtime.py,                    *)
(* elia/continuity_runtime.py), against a remote side that loses, delays   *)
(* and decides.                                                            *)
(*                                                                         *)
(* A capability is a sequence of database transactions around one remote   *)
(* call, and each of them is an action here: the process may die, raise or *)
(* be interleaved with "elia --status" between any two.  The transition    *)
(* itself is one step (TransitionKernel shows that a rollback, interrupted *)
(* or not, ends as one): copy is the database it would restore.            *)
(***************************************************************************)
EXTENDS WorkLedger

CONSTANTS NoCopy,     \* no transition is journaled
          MaxSends,   \* bound: submit calls per item
          MaxFaults   \* bound: crashes, exceptions and failed repairs

ASSUME ExternalAssumption ==
    NoCopy \notin Databases /\ MaxSends \in Nat /\ MaxFaults \in Nat

VARIABLES
    db,       \* the tables of WorkLedger
    copy,     \* transition-kernel/state-before.sqlite3 while journaled
    pc,       \* where the organism process stands
    op,       \* the capability call in progress
    remote,   \* what the remote side made of each item's idempotency key
    inflight, \* a submit request the caller gave up on may still arrive
    sends,    \* submit calls made for each item
    absent,   \* a lookup proved that the last call had not arrived
    checked,  \* items a status command found staged, and may yet update
    reopened, \* history: paid items such an update made "submitted" again
    faults    \* crashes and exceptions so far

late  == <<checked, reopened>>
world == <<remote, inflight, sends, absent, late>>
vars  == <<db, copy, pc, op, world, faults>>

Submitting == {"prepared", "calling", "failed"}
Reading    == {"lookup", "notfound"}
Recording  == {"finalize", "project", "record", "outcome"}
Crediting  == {"reserve", "book", "mark", "link"}
InCycle    == {"cycle", "acted"} \cup Submitting \cup Reading \cup Recording \cup Crediting
Labels     == {"down", "idle", "rolledback"} \cup InCycle

Ops  == [item : Items \cup {NoItem}, event : Events \cup {NoEvent}, answer : RemoteStatuses]
NoOp == [item |-> NoItem, event |-> NoEvent, answer |-> "none"]

Init ==
    /\ db = EmptyDatabase /\ copy = NoCopy /\ pc = "down" /\ op = NoOp
    /\ remote = [w \in Items |-> "none"] /\ inflight = {}
    /\ sends = [w \in Items |-> 0] /\ absent = {} /\ faults = 0
    /\ checked = {} /\ reopened = {}

Goto(from, to) == pc = from /\ pc' = to

\* The capability returns its ToolResult; the cycle goes on to its end.
Return == pc' = "acted" /\ op' = NoOp

-----------------------------------------------------------------------------
(* The cycle: plans first, then at most one capability.                    *)

Begin ==
    /\ Goto("idle", "cycle")
    /\ copy' = db
    /\ UNCHANGED <<db, op, world, faults>>

PlanWork(w) ==
    /\ pc = "cycle" /\ MayPlan(db, w)
    /\ db' = SetWork(db, w, "planned")
    /\ UNCHANGED <<copy, pc, op, world, faults>>

AbandonWork(w) ==
    /\ pc = "cycle" /\ MayAbandon(db, w)
    /\ db' = SetWork(db, w, "abandoned")
    /\ UNCHANGED <<copy, pc, op, world, faults>>

\* Mutant: more than one capability per cycle.
StageDeliverable_Continues(w) ==
    /\ pc = "cycle" /\ MayStage(db, w)
    /\ db' = SetWork(db, w, "staged")
    /\ UNCHANGED <<copy, pc, op, world, faults>>

StageDeliverable(w) ==
    /\ pc = "cycle" /\ MayStage(db, w)
    /\ db' = SetWork(db, w, "staged")
    /\ Return
    /\ UNCHANGED <<copy, world, faults>>

\* Another action, or a capability refused before it wrote anything.
NoExternalWork ==
    /\ pc = "cycle"
    /\ Return
    /\ UNCHANGED <<db, copy, world, faults>>

\* Mutant: the copy of an accepted transition stays.
Accept_KeepsCopy ==
    /\ Goto("acted", "idle")
    /\ UNCHANGED <<db, copy, op, world, faults>>

Accept ==
    /\ Goto("acted", "idle")
    /\ copy' = NoCopy
    /\ UNCHANGED <<db, op, world, faults>>

-----------------------------------------------------------------------------
(* submit_work.                                                            *)

MaySubmit(w) == db.submission[w] = "none" /\ db.work[w] = "staged"

\* Mutant: an intent that was already sent is sent again.
PrepareIntent_Resends(w) ==
    /\ pc = "cycle" /\ MaySubmit(w)
    /\ db.intent[w] # "submitted"
    /\ db' = SetIntent(db, w, "prepared")
    /\ pc' = "prepared" /\ op' = [NoOp EXCEPT !.item = w]
    /\ UNCHANGED <<copy, world, faults>>

PrepareIntent(w) ==
    /\ pc = "cycle" /\ MaySubmit(w)
    /\ db.intent[w] \in {"none", "prepared"}
    /\ db' = SetIntent(db, w, "prepared")
    /\ pc' = "prepared" /\ op' = [NoOp EXCEPT !.item = w]
    /\ UNCHANGED <<copy, world, faults>>

\* An ambiguous intent is not sent again.
RefuseBlindSend(w) ==
    /\ pc = "cycle" /\ MaySubmit(w)
    /\ db.intent[w] \in Ambiguous
    /\ db' = MarkIndeterminate(db, w)
    /\ Return
    /\ UNCHANGED <<copy, world, faults>>

MarkSending ==
    /\ Goto("prepared", "calling")
    /\ db' = SetIntent(db, op.item, "sending")
    /\ UNCHANGED <<copy, op, world, faults>>

\* The remote side keeps one submission per idempotency key.
Received(w) == IF remote[w] = "none" THEN [remote EXCEPT ![w] = "submitted"] ELSE remote

\* The call is answered; or its answer, or the call, is lost or late.
CallSubmit ==
    /\ pc = "calling" /\ sends[op.item] < MaxSends
    /\ sends' = [sends EXCEPT ![op.item] = @ + 1]
    /\ absent' = absent \ {op.item}
    /\ \/ /\ remote' = Received(op.item)
          /\ pc' = "finalize" /\ op' = [op EXCEPT !.answer = "submitted"]
          /\ UNCHANGED inflight
       \/ /\ remote' \in {remote, Received(op.item)}
          /\ inflight' \in {inflight, inflight \cup {op.item}}
          /\ pc' = "failed" /\ UNCHANGED op
    /\ UNCHANGED <<db, copy, late, faults>>

SubmitFailed ==
    /\ pc = "failed"
    /\ db' = MarkIndeterminate(db, op.item)
    /\ Return
    /\ UNCHANGED <<copy, world, faults>>

-----------------------------------------------------------------------------
(* reconcile_work_submission and check_work_outcome.                       *)

Reconcile(w) ==
    /\ pc = "cycle" /\ db.intent[w] \in Ambiguous
    /\ db' = MarkIndeterminate(db, w)
    /\ pc' = "lookup" /\ op' = [NoOp EXCEPT !.item = w]
    /\ UNCHANGED <<copy, world, faults>>

\* What a truthful remote side answers about a submission it holds.
Answers(w) == IF remote[w] = "submitted" THEN {"submitted", "pending"} ELSE {remote[w]}

LookupNotFound ==
    /\ Goto("lookup", "notfound")
    /\ remote[op.item] = "none"
    /\ absent' = absent \cup {op.item}
    /\ UNCHANGED <<db, copy, op, remote, inflight, sends, late, faults>>

LookupFound ==
    /\ Goto("lookup", "finalize")
    /\ remote[op.item] # "none"
    /\ \E s \in Answers(op.item) : op' = [op EXCEPT !.answer = s]
    /\ UNCHANGED <<db, copy, world, faults>>

LookupFails ==
    /\ pc = "lookup"
    /\ Return
    /\ UNCHANGED <<db, copy, world, faults>>

MarkNotFound ==
    /\ pc = "notfound" /\ db.intent[op.item] \in Ambiguous
    /\ db' = SetIntent(db, op.item, "prepared")
    /\ Return
    /\ UNCHANGED <<copy, world, faults>>

Finalize ==
    /\ Goto("finalize", "project")
    /\ MayFinalize(db, op.item)
    /\ db' = FinalizeSubmission(db, op.item)
    /\ UNCHANGED <<copy, op, world, faults>>

Project ==
    /\ pc = "project"
    /\ db' = RecordSubmission(db, op.item)
    /\ IF op.answer = "submitted" THEN Return ELSE pc' = "record" /\ op' = op
    /\ UNCHANGED <<copy, world, faults>>

CheckOutcome(w) ==
    /\ pc = "cycle" /\ db.submission[w] # "none"
    /\ pc' = "record"
    /\ \E s \in Answers(w) \ {"none", "submitted"} :
         op' = [NoOp EXCEPT !.item = w, !.answer = s]
    /\ UNCHANGED <<db, copy, world, faults>>

RecordOutcome ==
    /\ pc = "record" /\ db.submission[op.item] # "none"
    /\ db' = SetSubmission(db, op.item, op.answer)
    /\ IF op.answer = "pending" THEN Return ELSE pc' = "outcome" /\ op' = op
    /\ UNCHANGED <<copy, world, faults>>

ApplyOutcome ==
    /\ pc = "outcome"
    /\ db' = RecordExternalOutcome(db, op.item, op.answer)
    /\ Return
    /\ UNCHANGED <<copy, world, faults>>

-----------------------------------------------------------------------------
(* check_resource_ingress, of the attested registry.                       *)

ValidTarget(w) == w = NoItem \/ (w \in Items /\ db.work[w] \in {"accepted", "realized"})

\* Mutant: the item the provider signed is not compared with the request.
CheckIngress_Unsigned(e, w) ==
    /\ pc = "cycle" /\ ValidTarget(w)
    /\ pc' = "reserve" /\ op' = [NoOp EXCEPT !.item = w, !.event = e]
    /\ UNCHANGED <<db, copy, world, faults>>

\* The verifier reports event e, signed for the item the check asked about.
CheckIngress(e, w) ==
    /\ pc = "cycle" /\ ValidTarget(w)
    /\ SignedFor[e] = w
    /\ pc' = "reserve" /\ op' = [NoOp EXCEPT !.item = w, !.event = e]
    /\ UNCHANGED <<db, copy, world, faults>>

ReserveEvent ==
    /\ pc = "reserve"
    /\ IF MayReserve(db, op.event, op.item)
       THEN db' = Reserve(db, op.event, op.item) /\ pc' = "book" /\ op' = op
       ELSE Return /\ db' = db
    /\ UNCHANGED <<copy, world, faults>>

BookEvent ==
    /\ Goto("book", "mark")
    /\ db' = Book(db, op.event)
    /\ UNCHANGED <<copy, op, world, faults>>

MarkEvent ==
    /\ pc = "mark"
    /\ db' = MarkRealized(db, op.event)
    /\ IF op.item = NoItem THEN Return ELSE pc' = "link" /\ op' = op
    /\ UNCHANGED <<copy, world, faults>>

\* An item that is realized already keeps its event: the same event is a
\* replay, another one is refused after it was booked.
LinkWork ==
    /\ pc = "link"
    /\ IF db.work[op.item] = "accepted"
       THEN /\ db' = LinkResource(db, op.item, op.event)
            /\ reopened' = reopened \ {op.item}
       ELSE UNCHANGED <<db, reopened>>
    /\ Return
    /\ UNCHANGED <<copy, remote, inflight, sends, absent, checked, faults>>

-----------------------------------------------------------------------------
(* Failures.                                                               *)

Fault == faults < MaxFaults /\ faults' = faults + 1

\* A step of a capability raises: an unsuccessful ToolResult, and for a
\* submission that was sent an attempt to mark it indeterminate.  (A
\* terminal answer without evidence raises at "outcome".)
CapabilityRaises ==
    /\ Fault
    /\ pc \in Submitting \cup Reading \cup Recording \cup Crediting
    /\ db' \in {db} \cup {MarkIndeterminate(db, w) : w \in {op.item} \cap Items}
    /\ Return
    /\ UNCHANGED <<copy, world>>

\* The cycle raises, and the guard rolls it back ...
CycleRaises ==
    /\ Fault
    /\ pc \in InCycle /\ KeysSatisfied(db, copy)
    /\ db' = RolledBack(db, copy) /\ copy' = NoCopy
    /\ pc' = "rolledback" /\ op' = NoOp
    /\ UNCHANGED world

\* ... after which the work ports repair what the rollback rewound.
Repaired(d) == ReconcileLocalProjection(RecoverInterruptedIntents(d))

AfterRollback ==
    /\ Goto("rolledback", "idle")
    /\ db' = Repaired(db)
    /\ UNCHANGED <<copy, op, world, faults>>

\* An exception of the repair is swallowed.
AfterRollbackRaises ==
    /\ Fault
    /\ Goto("rolledback", "idle")
    /\ db' \in {db, RecoverInterruptedIntents(db)}
    /\ UNCHANGED <<copy, op, world>>

Crash ==
    /\ Fault
    /\ pc # "down" /\ pc' = "down" /\ op' = NoOp
    /\ UNCHANGED <<db, copy, world>>

\* The session ends between two cycles.
Stop ==
    /\ Goto("idle", "down")
    /\ UNCHANGED <<db, copy, op, world, faults>>

\* The next process recovers the transition, and only a boot constructs the
\* registries that repair.
Recover ==
    /\ pc = "down" /\ copy # NoCopy /\ KeysSatisfied(db, copy)
    /\ db' = RolledBack(db, copy) /\ copy' = NoCopy
    /\ UNCHANGED <<pc, op, world, faults>>

\* Mutant: a boot closes interrupted sends only.
Boot_NoProjection ==
    /\ copy = NoCopy
    /\ Goto("down", "idle")
    /\ db' = RecoverInterruptedIntents(db)
    /\ UNCHANGED <<copy, op, world, faults>>

Boot ==
    /\ copy = NoCopy
    /\ Goto("down", "idle")
    /\ db' = Repaired(db)
    /\ UNCHANGED <<copy, op, world, faults>>

\* "elia --status" constructs a registry of its own, without the writer
\* lock, whatever the organism is doing.
StatusRecovers(w) ==
    /\ db.intent[w] = "sending"
    /\ db' = MarkIndeterminate(db, w)
    /\ UNCHANGED <<copy, pc, op, world, faults>>

\* The command lists the active submissions (every submission is active when
\* it is inserted), reads the item, and updates it in a later transaction:
\* any number of commands, each as slow as it likes.
StatusChecks(w) ==
    /\ db.submission[w] # "none" /\ db.work[w] = "staged"
    /\ checked' = checked \cup {w}
    /\ UNCHANGED <<db, copy, pc, op, remote, inflight, sends, absent, reopened, faults>>

StatusUpdates(w) ==
    /\ w \in checked
    /\ db' = UpdateSubmitted(db, w)
    /\ reopened' = IF db.work[w] = "realized" THEN reopened \cup {w} ELSE reopened
    /\ UNCHANGED <<copy, pc, op, remote, inflight, sends, absent, checked, faults>>

-----------------------------------------------------------------------------
(* The remote side.                                                        *)

LateRequest(w) ==
    /\ w \in inflight
    /\ inflight' = inflight \ {w} /\ remote' = Received(w)
    /\ UNCHANGED <<db, copy, pc, op, sends, absent, late, faults>>

RemoteDecides(w) ==
    /\ remote[w] = "submitted"
    /\ \E s \in {"accepted", "rejected"} : remote' = [remote EXCEPT ![w] = s]
    /\ UNCHANGED <<db, copy, pc, op, inflight, sends, absent, late, faults>>

-----------------------------------------------------------------------------
CapabilityStep ==
    \/ MarkSending \/ CallSubmit \/ SubmitFailed
    \/ LookupNotFound \/ LookupFound \/ LookupFails \/ MarkNotFound
    \/ Finalize \/ Project \/ RecordOutcome \/ ApplyOutcome
    \/ ReserveEvent \/ BookEvent \/ MarkEvent \/ LinkWork

CycleStep ==
    \/ Begin \/ NoExternalWork
    \/ \E w \in Items :
          \/ PlanWork(w) \/ AbandonWork(w) \/ StageDeliverable(w)
          \/ PrepareIntent(w) \/ RefuseBlindSend(w) \/ Reconcile(w) \/ CheckOutcome(w)
    \/ \E e \in Events, w \in Items \cup {NoItem} : CheckIngress(e, w)

RepairStep == AfterRollback \/ Recover \/ Boot

FaultStep == CapabilityRaises \/ CycleRaises \/ AfterRollbackRaises \/ Crash

Outside ==
    \E w \in Items :
        \/ StatusRecovers(w) \/ StatusChecks(w) \/ StatusUpdates(w)
        \/ LateRequest(w) \/ RemoteDecides(w)

Next == CycleStep \/ CapabilityStep \/ Accept \/ RepairStep \/ FaultStep \/ Stop \/ Outside

Spec == Init /\ [][Next]_vars

\* A capability in progress and an open cycle end, a process is started
\* again, and a session that keeps returning to its loop head is stopped
\* there sooner or later (its wall-clock budget).
Fairness ==
    /\ WF_vars(CapabilityStep) /\ WF_vars(NoExternalWork) /\ WF_vars(Accept)
    /\ WF_vars(RepairStep) /\ SF_vars(Stop)

FairSpec == Spec /\ Fairness

-----------------------------------------------------------------------------
(* Properties.                                                             *)

TypeOK ==
    /\ db \in Databases /\ copy \in Databases \cup {NoCopy}
    /\ pc \in Labels /\ op \in Ops
    /\ (pc \in Submitting \cup Reading \cup Recording \cup {"link"} => op.item \in Items)
    /\ (pc \in Recording => op.answer # "none")
    /\ (pc \in Crediting => op.event \in Events)
    /\ (pc \in InCycle => copy # NoCopy) /\ (pc \in {"idle", "rolledback"} => copy = NoCopy)
    /\ remote \in [Items -> {"none", "submitted", "accepted", "rejected"}]
    /\ inflight \subseteq Items /\ sends \in [Items -> 0..MaxSends] /\ absent \subseteq Items
    /\ checked \subseteq Items /\ reopened \subseteq Items /\ faults \in 0..MaxFaults

\* A second submit call for an item is made only after a lookup has shown that
\* the previous one had not arrived: no crash, rollback, exception or status
\* command turns a send of unknown outcome into one that may be repeated
\* (work_ports.py: "ordinary submission never blindly retries it").
NoBlindSend ==
    [][\A w \in Items : sends'[w] # sends[w] => sends[w] = 0 \/ w \in absent]_vars

\* The local lifecycle never runs ahead of the remote side: what counts as
\* submitted, accepted or rejected was received, accepted or rejected there,
\* in both tables (work_ports.py records the observed evidence first).
NotNarrated ==
    \A w \in Items :
        /\ db.submission[w] # "none" \/ db.work[w] \in {"submitted", "accepted", "rejected",
                                                        "realized"} => remote[w] # "none"
        /\ db.submission[w] \in {"accepted", "rejected"} => remote[w] = db.submission[w]
        /\ db.work[w] \in {"accepted", "rejected"} => remote[w] = db.work[w]
        /\ db.work[w] = "realized" => remote[w] = "accepted"

\* The event a work item names as its payment is in the verified balance
\* exactly once, the provider signed it for this item, and the replay ledger
\* has it as realized for it; no event is ever booked twice, however often it
\* is replayed across crashes and rollbacks.  A realized item names one, and an
\* item that names one is realized unless the late update of a status command
\* took it back (resource_ecology.py:520-541 has no status in its WHERE).
RealizedBacked ==
    /\ \A e \in Events : db.booked[e] <= 1
    /\ \A w \in Items :
          /\ db.work[w] = "realized" <=> db.payer[w] # NoEvent /\ w \notin reopened
          /\ db.payer[w] # NoEvent =>
                /\ SignedFor[db.payer[w]] = w
                /\ db.booked[db.payer[w]] = 1
                /\ db.ingress[db.payer[w]] = [status |-> "realized", item |-> w]

\* A rollback can always be completed: every row of external truth it has to
\* re-insert finds the work item its foreign key names in the restored copy
\* (transition_kernel._restore_external_safety_state runs with foreign keys on).
RollbackPossible == copy # NoCopy => KeysSatisfied(db, copy)

\* What is durably known of each submission: a paid item was accepted.
KnownStage ==
    [w \in Items |->
        IF db.payer[w] # NoEvent THEN "accepted"
        ELSE CASE db.submission[w] = "none" -> "local"
               [] db.submission[w] \in {"submitted", "pending"} -> "sent"
               [] OTHER -> db.submission[w]]

Truth == INSTANCE ExternalTruth
            WITH stage <- KnownStage, payer <- db.payer,
                 credited <- {e \in Events : db.booked[e] > 0}

\* The durable knowledge of the outside world implements ExternalTruth: it
\* only moves forward, also when the transition that learnt it is rolled back,
\* and a payment is replaced only after a late status update reopened the item
\* (README: "evidence of possible external effects is retained because the
\* external world cannot be rolled back by restoring a database").
TruthForward == Truth!Spec

\* A submission the outbox holds reaches the work item: an item left "staged"
\* behind an active submission does not stay so (work_ports.py:
\* "deterministically complete the local projection without another remote
\* send").  Not so when the remote side rejected it meanwhile.
SubmissionProjected ==
    \A w \in Items :
        (db.submission[w] \in ActiveSubmission /\ db.work[w] = "staged")
            ~> (db.work[w] # "staged" \/ db.submission[w] = "rejected")

\* The row of a submission the remote side holds is never lost
\* (README: "evidence of possible external effects is retained").
SubmissionKept ==
    [][\A w \in Items : db.submission[w] # "none" => db'.submission[w] # "none"]_vars
=============================================================================
