-------------------------- MODULE TransitionKernel --------------------------
(***************************************************************************)
(* The accepted-transition barrier of elia/transition_kernel.py around one *)
(* production cognitive cycle (elia/continuity_runtime.py), together with  *)
(* the external-effect pipeline stage that runs inside the cycle, the boot *)
(* recovery, and the operator commands that touch the same database.       *)
(*                                                                         *)
(* Every durable step of the guard is an action of its own, and the        *)
(* process may die before and after each of them: pc is where the holder   *)
(* of the organism writer lock stands, "free" when nobody holds it.  All   *)
(* memory of the holder (guard, action, intent) dies with it; the files do *)
(* not.                                                                    *)
(***************************************************************************)
EXTENDS EffectLedger, Sequences, FiniteSets

CONSTANTS Data,               \* contents of a mind, a Chronicle entry, a workspace
          NoFile,             \* "this path does not exist"
          None,               \* no action or intent in progress
          Approvals,          \* ids of human_approvals rows
          ApprovalFor,        \* the action each approval names
          ApprovalRequired,   \* mandate.approval_required_actions
          MaxChronicle,       \* bound: Chronicle length
          MaxFaults           \* bound: crashes and raised exceptions in a behaviour

ASSUME KernelAssumption ==
    /\ NoFile \notin Data
    /\ None \notin Intents /\ None \notin Actions
    /\ ApprovalFor \in [Approvals -> Actions]
    /\ ApprovalRequired \subseteq Actions
    /\ MaxChronicle \in Nat /\ MaxFaults \in Nat

ApprovalRows == [Approvals -> {"none", "granted", "consumed"}]

\* memory.sqlite3: cognition (mind) and the tables of external truth.
Databases == [mind : Data, effects : Rows, approvals : ApprovalRows]

\* What rollback-safety.json holds.
Evidence == [effects : Rows, approvals : ApprovalRows]

Workspaces == Data \cup {NoFile}

\* active.json: the Chronicle checkpoint and whether a workspace existed.
Journals == [checkpoint : Seq(Data), workspaceExisted : BOOLEAN]

ASSUME FilesAssumption ==
    NoFile \notin Databases /\ NoFile \notin Evidence /\ NoFile \notin Journals

VARIABLES
    db,               \* memory.sqlite3
    chronicle,        \* chronicle.jsonl; its hash chain identifies each prefix
    workspace,        \* workspace/
    backup,           \* transition-kernel/state-before.sqlite3
    workspaceBackup,  \* transition-kernel/workspace-before
    journal,          \* transition-kernel/active.json
    safety,           \* transition-kernel/rollback-safety.json
    pc,               \* where the writer-lock holder is
    guard,            \* attributes and locals of the holder's guard object
    action,           \* the external action the cycle was authorized for
    intent,           \* the ledger row of that action
    up,               \* the organism process runs
    calls,            \* how often each intent reached its adapter
    applied,          \* the intents the remote side really carried out
    spent,            \* how often each approval authorized an action
    reopened,         \* the intents whose observed effect a rollback made ambiguous again
    faults            \* crashes and exceptions so far

live  == <<db, chronicle, workspace>>
files == <<backup, workspaceBackup, journal, safety>>
world == <<calls, applied, spent, reopened>>
turn  == <<action, intent>>
vars  == <<live, files, pc, guard, turn, up, world, faults>>

Entering  == {"enter_backup", "enter_checkpoint", "enter_workspace", "enter_journal"}
InCycle   == {"cycle", "authorized", "prepared", "sending", "called", "acted"}
Accepting == {"accept_commit", "accept_backup", "accept_rest"}
Rolling   == {"rollback_read", "rollback_write", "rollback_db", "rollback_chronicle",
              "rollback_workspace_out", "rollback_workspace_in", "rollback_reapply",
              "rollback_unlink", "rollback_cleanup"}
Labels    == {"free", "boot"} \cup Entering \cup InCycle \cup Accepting \cup Rolling

Guards == [checkpoint : Seq(Data), workspaceExisted : BOOLEAN,
           evidence : Evidence \cup {NoFile}, quarantine : Workspaces,
           resume : {"free", "boot"}]

NoGuard == [checkpoint |-> << >>, workspaceExisted |-> FALSE, evidence |-> NoFile,
            quarantine |-> NoFile, resume |-> "free"]

\* contains_anchor: the checkpoint is still an exact prefix of the chain.
ContainsAnchor(log, checkpoint) ==
    /\ Len(checkpoint) <= Len(log)
    /\ SubSeq(log, 1, Len(checkpoint)) = checkpoint

EvidenceOf(database) == [effects |-> database.effects, approvals |-> database.approvals]

NoEvidence == [effects |-> [i \in Intents |-> "absent"], approvals |-> [a \in Approvals |-> "none"]]

-----------------------------------------------------------------------------
(* The initial state: a stopped organism at rest.                          *)

Init ==
    /\ db \in [mind : Data, effects : {NoEvidence.effects}, approvals : {NoEvidence.approvals}]
    /\ chronicle = << >>
    /\ workspace \in Workspaces
    /\ backup = NoFile /\ workspaceBackup = NoFile /\ journal = NoFile /\ safety = NoFile
    /\ pc = "free" /\ guard = NoGuard /\ action = None /\ intent = None
    /\ up = FALSE
    /\ calls = [i \in Intents |-> 0] /\ applied = {} /\ spent = [a \in Approvals |-> 0]
    /\ reopened = {} /\ faults = 0

Goto(from, to) == pc = from /\ pc' = to

\* The lock holder gives the lock back and forgets everything.
Release == pc' = "free" /\ guard' = NoGuard /\ action' = None /\ intent' = None

-----------------------------------------------------------------------------
(* __enter__: lock, refuse an unfinished transition, drop a stale safety   *)
(* file, copy everything, and only then publish the journal.  With a       *)
(* journal present it raises and changes nothing.                          *)

\* Mutant: a stale evidence file is not dropped.
Enter_KeepsSafety ==
    /\ up /\ Goto("free", "enter_backup")
    /\ journal = NoFile
    /\ UNCHANGED <<live, files, guard, turn, up, world, faults>>

Enter ==
    /\ up /\ Goto("free", "enter_backup")
    /\ journal = NoFile
    /\ safety' = NoFile
    /\ UNCHANGED <<live, backup, workspaceBackup, journal, guard, turn, up, world, faults>>

EnterBackup ==
    /\ Goto("enter_backup", "enter_checkpoint")
    /\ backup' = db
    /\ UNCHANGED <<live, workspaceBackup, journal, safety, guard, turn, up, world, faults>>

EnterCheckpoint ==
    /\ Goto("enter_checkpoint", "enter_workspace")
    /\ guard' = [guard EXCEPT !.checkpoint = chronicle]
    /\ UNCHANGED <<live, files, turn, up, world, faults>>

EnterWorkspace ==
    /\ Goto("enter_workspace", "enter_journal")
    /\ workspaceBackup' = workspace
    /\ guard' = [guard EXCEPT !.workspaceExisted = (workspace # NoFile)]
    /\ UNCHANGED <<live, backup, journal, safety, turn, up, world, faults>>

PublishedJournal ==
    [checkpoint |-> guard.checkpoint, workspaceExisted |-> guard.workspaceExisted]

EnterJournal ==
    /\ Goto("enter_journal", "cycle")
    /\ journal' = PublishedJournal
    /\ UNCHANGED <<live, backup, workspaceBackup, safety, guard, turn, up, world, faults>>

\* An exception before the journal exists removes the copies ...
EnterRaises ==
    /\ faults < MaxFaults /\ faults' = faults + 1
    /\ pc \in Entering
    /\ backup' = NoFile /\ workspaceBackup' = NoFile /\ safety' = NoFile
    /\ Release
    /\ UNCHANGED <<live, journal, up, world>>

\* ... and one after its rename (the directory fsync) leaves the journal.
EnterRaisesPublished ==
    /\ faults < MaxFaults /\ faults' = faults + 1
    /\ pc = "enter_journal"
    /\ journal' = PublishedJournal
    /\ Release
    /\ UNCHANGED <<live, backup, workspaceBackup, safety, up, world>>

-----------------------------------------------------------------------------
(* The cycle under the guard.  Cognition writes the three stores           *)
(* independently; at most one action is executed.                          *)

Think ==
    /\ pc \in {"cycle", "acted"}
    /\ \E d \in Data : db' = [db EXCEPT !.mind = d]
    /\ UNCHANGED <<chronicle, workspace, files, pc, guard, turn, up, world, faults>>

ChronicleAppend ==
    /\ pc \in {"cycle", "acted"}
    /\ Len(chronicle) < MaxChronicle
    /\ \E d \in Data : chronicle' = Append(chronicle, d)
    /\ UNCHANGED <<db, workspace, files, pc, guard, turn, up, world, faults>>

WriteWorkspace ==
    /\ pc \in {"cycle", "acted"}
    /\ workspace' \in Data
    /\ UNCHANGED <<db, chronicle, files, pc, guard, turn, up, world, faults>>

\* No external action, or the owner authority refuses it.
NoExternalAction ==
    /\ Goto("cycle", "acted")
    /\ UNCHANGED <<live, files, guard, turn, up, world, faults>>

\* The owner stage admits an action; one that needs approval consumes one.
AuthorizeAction(x) ==
    /\ Goto("cycle", "authorized")
    /\ action' = x
    /\ IF x \in ApprovalRequired
       THEN \E a \in Approvals :
              /\ ApprovalFor[a] = x /\ db.approvals[a] = "granted"
              /\ db' = [db EXCEPT !.approvals[a] = "consumed"]
              /\ spent' = [spent EXCEPT ![a] = @ + 1]
       ELSE UNCHANGED <<db, spent>>
    /\ UNCHANGED <<chronicle, workspace, files, guard, intent, up, calls, applied, reopened,
                   faults>>

\* prepare() hands out the row to send; a new effect_id is a fresh uuid4.
Prepares(x, i) ==
    \/ Reuses(db.effects, x, i)
    \/ Inserts(db.effects, x, i) /\ calls[i] = 0

\* The ledger stage: an ambiguous matching effect blocks the attempt (and,
\* bound of the model, so does the lack of another row id).
RefuseBlindRetry ==
    /\ Goto("authorized", "acted")
    /\ RetryBlocked(db.effects, action) \/ ~\E i \in Intents : Prepares(action, i)
    /\ action' = None
    /\ UNCHANGED <<live, files, guard, intent, up, world, faults>>

PrepareIntent(i) ==
    /\ Goto("authorized", "prepared")
    /\ ~RetryBlocked(db.effects, action)
    /\ Prepares(action, i)
    /\ db' = [db EXCEPT !.effects = Prepared(@, i)]
    /\ intent' = i /\ action' = None
    /\ UNCHANGED <<chronicle, workspace, files, guard, up, world, faults>>

MarkIntentSending ==
    /\ Goto("prepared", "sending")
    /\ db' = [db EXCEPT !.effects = MarkSending(@, intent)]
    /\ UNCHANGED <<chronicle, workspace, files, guard, turn, up, world, faults>>

FinishAction(rows) ==
    /\ db' = [db EXCEPT !.effects = rows]
    /\ pc' = "acted" /\ intent' = None

\* Kill, revocation or lease expiry at the point of effect, or a circuit
\* breaker that suppressed the call: closed as proven without effect.
CloseWithoutEffect ==
    /\ pc = "sending"
    /\ FinishAction(RecordResult(db.effects, intent, FALSE, TRUE))
    /\ UNCHANGED <<chronicle, workspace, files, guard, action, up, world, faults>>

\* The adapter is called; whether the remote side acts is not ours to choose.
CallAdapter ==
    /\ Goto("sending", "called")
    /\ calls' = [calls EXCEPT ![intent] = @ + 1]
    /\ applied' \in {applied, applied \cup {intent}}
    /\ UNCHANGED <<live, files, guard, turn, up, spent, reopened, faults>>

RecordAdapterResult ==
    /\ pc = "called"
    /\ \E ok \in BOOLEAN : FinishAction(RecordResult(db.effects, intent, ok, FALSE))
    /\ UNCHANGED <<chronicle, workspace, files, guard, action, up, world, faults>>

\* The adapter (or the point-of-effect check) raises: ambiguity, then rollback.
CallRaises ==
    /\ faults < MaxFaults /\ faults' = faults + 1
    /\ pc \in {"sending", "called"} /\ pc' = "rollback_read"
    /\ db' = [db EXCEPT !.effects = MarkIndeterminate(@, intent)]
    /\ UNCHANGED <<chronicle, workspace, files, guard, turn, up, world>>

\* Any other exception of the cycle or of accept() before its commit point.
CycleRaises ==
    /\ faults < MaxFaults /\ faults' = faults + 1
    /\ pc \in InCycle \cup {"accept_commit"} /\ pc' = "rollback_read"
    /\ UNCHANGED <<live, files, guard, turn, up, world>>

-----------------------------------------------------------------------------
(* accept(): the durable unlink of the journal is the commit point.        *)

AcceptCheck ==
    /\ pc = "acted"
    /\ pc' = IF ContainsAnchor(chronicle, guard.checkpoint)
             THEN "accept_commit" ELSE "rollback_read"
    /\ UNCHANGED <<live, files, guard, turn, up, world, faults>>

AcceptCommit ==
    /\ Goto("accept_commit", "accept_backup")
    /\ journal' = NoFile
    /\ UNCHANGED <<live, backup, workspaceBackup, safety, guard, turn, up, world, faults>>

AcceptRemoveBackup ==
    /\ Goto("accept_backup", "accept_rest")
    /\ backup' = NoFile
    /\ UNCHANGED <<live, workspaceBackup, journal, safety, guard, turn, up, world, faults>>

AcceptRemoveRest ==
    /\ pc = "accept_rest"
    /\ workspaceBackup' = NoFile /\ safety' = NoFile
    /\ Release
    /\ UNCHANGED <<live, backup, journal, up, world, faults>>

\* __exit__ sees an exception and rolls back although the journal is gone
\* (only in CleanupSpec).
AcceptCleanupRaises ==
    /\ faults < MaxFaults /\ faults' = faults + 1
    /\ pc \in {"accept_backup", "accept_rest"} /\ pc' = "rollback_read"
    /\ UNCHANGED <<live, files, guard, turn, up, world>>

-----------------------------------------------------------------------------
(* _rollback_locked, by __exit__ or by recovery: the evidence is saved     *)
(* outside the database before the database goes back.                     *)

\* What the failed transition leaves to preserve; a missing backup exports
\* as empty, so then every crossed row counts as changed.
ExportedEvidence ==
    LET before == IF backup = NoFile THEN NoEvidence.effects ELSE backup.effects
    IN  [effects |-> Quarantine(db.effects, before), approvals |-> db.approvals]

\* An effect the operator observed since the entry is quarantined like any
\* other changed row: his verdict is lost and the row unresolved again.
Reopens(rows, saved) == {i \in Intents : rows[i] = "reconciled_effect" /\ saved[i] # rows[i]}

ExportEvidence ==
    /\ guard' = [guard EXCEPT !.evidence = ExportedEvidence] /\ pc' = "rollback_write"
    /\ reopened' = reopened \cup Reopens(db.effects, ExportedEvidence.effects)

\* Mutant: every rollback exports again, also after an interrupted one.
RollbackRead_Reexports ==
    /\ pc = "rollback_read"
    /\ ExportEvidence
    /\ UNCHANGED <<live, files, turn, up, calls, applied, spent, faults>>

RollbackRead ==
    /\ pc = "rollback_read"
    /\ IF safety # NoFile
       THEN /\ guard' = [guard EXCEPT !.evidence = safety] /\ pc' = "rollback_db"
            /\ UNCHANGED reopened
       ELSE ExportEvidence
    /\ UNCHANGED <<live, files, turn, up, calls, applied, spent, faults>>

RollbackWriteSafety ==
    /\ Goto("rollback_write", "rollback_db")
    /\ safety' = guard.evidence
    /\ UNCHANGED <<live, backup, workspaceBackup, journal, guard, turn, up, world, faults>>

\* Mutant: the copy is moved over the database.
RollbackDatabase_Moves ==
    /\ Goto("rollback_db", "rollback_chronicle")
    /\ backup # NoFile
    /\ db' = backup /\ backup' = NoFile
    /\ UNCHANGED <<chronicle, workspace, workspaceBackup, journal, safety, guard, turn, up,
                   world, faults>>

RollbackDatabase ==
    /\ Goto("rollback_db", "rollback_chronicle")
    /\ backup # NoFile
    /\ db' = backup
    /\ UNCHANGED <<chronicle, workspace, files, guard, turn, up, world, faults>>

\* Mutant: the Chronicle is checked but its suffix is left.
RollbackChronicle_KeepsSuffix ==
    /\ Goto("rollback_chronicle", "rollback_workspace_out")
    /\ ContainsAnchor(chronicle, guard.checkpoint)
    /\ UNCHANGED <<live, files, guard, turn, up, world, faults>>

RollbackChronicle ==
    /\ Goto("rollback_chronicle", "rollback_workspace_out")
    /\ ContainsAnchor(chronicle, guard.checkpoint)
    /\ chronicle' = guard.checkpoint
    /\ UNCHANGED <<db, workspace, files, guard, turn, up, world, faults>>

\* Mutant: a missing workspace is an error, also between the two renames.
RollbackWorkspaceOut_NeedsWorkspace ==
    /\ Goto("rollback_workspace_out", "rollback_workspace_in")
    /\ guard.workspaceExisted => workspaceBackup # NoFile
    /\ workspace # NoFile
    /\ workspace' = NoFile
    /\ guard' = [guard EXCEPT !.quarantine = workspace]
    /\ UNCHANGED <<db, chronicle, files, turn, up, world, faults>>

\* The dirty workspace is renamed away ...
RollbackWorkspaceOut ==
    /\ Goto("rollback_workspace_out", "rollback_workspace_in")
    /\ guard.workspaceExisted => workspaceBackup # NoFile
    /\ workspace' = NoFile
    /\ guard' = [guard EXCEPT !.quarantine = workspace]
    /\ UNCHANGED <<db, chronicle, files, turn, up, world, faults>>

\* ... and the staged copy of the snapshot renamed in.
RollbackWorkspaceIn ==
    /\ Goto("rollback_workspace_in", "rollback_reapply")
    /\ workspace' = IF guard.workspaceExisted THEN workspaceBackup ELSE NoFile
    /\ guard' = [guard EXCEPT !.quarantine = NoFile]
    /\ UNCHANGED <<db, chronicle, files, turn, up, world, faults>>

\* Mutant: only the effect ledger is re-applied.
RollbackReapply_DropsApprovals ==
    /\ Goto("rollback_reapply", "rollback_unlink")
    /\ db' = [db EXCEPT !.effects = InsertOrReplace(@, guard.evidence.effects)]
    /\ UNCHANGED <<chronicle, workspace, files, guard, turn, up, world, faults>>

RollbackReapply ==
    /\ Goto("rollback_reapply", "rollback_unlink")
    /\ db' = [db EXCEPT
                !.effects = InsertOrReplace(@, guard.evidence.effects),
                !.approvals = [a \in Approvals |->
                    IF guard.evidence.approvals[a] = "none" THEN @[a]
                    ELSE guard.evidence.approvals[a]]]
    /\ UNCHANGED <<chronicle, workspace, files, guard, turn, up, world, faults>>

RollbackUnlinkJournal ==
    /\ Goto("rollback_unlink", "rollback_cleanup")
    /\ journal' = NoFile
    /\ UNCHANGED <<live, backup, workspaceBackup, safety, guard, turn, up, world, faults>>

\* The remaining files go; a boot continues with the lock held.
RollbackCleanup ==
    /\ pc = "rollback_cleanup"
    /\ backup' = NoFile /\ workspaceBackup' = NoFile /\ safety' = NoFile
    /\ pc' = guard.resume /\ guard' = NoGuard /\ action' = None /\ intent' = None
    /\ UNCHANGED <<live, journal, up, world, faults>>

\* A rollback step raises: the half-restored workspace is put back, the
\* journal and the evidence file stay for the next recovery.
RollbackRaises ==
    /\ faults < MaxFaults /\ faults' = faults + 1
    /\ pc \in Rolling
    /\ workspace' = IF pc = "rollback_workspace_in" THEN guard.quarantine ELSE workspace
    /\ Release
    /\ UNCHANGED <<db, chronicle, files, up, world>>

\* A step whose precondition fails raises without being injected.
RollbackBlocked ==
    \/ pc = "rollback_db" /\ backup = NoFile
    \/ pc = "rollback_chronicle" /\ ~ContainsAnchor(chronicle, guard.checkpoint)
    \/ pc = "rollback_workspace_out" /\ guard.workspaceExisted /\ workspaceBackup = NoFile

RollbackImpossible ==
    /\ RollbackBlocked
    /\ Release
    /\ UNCHANGED <<live, files, up, world, faults>>

RollbackStep ==
    \/ RollbackRead \/ RollbackWriteSafety \/ RollbackDatabase \/ RollbackChronicle
    \/ RollbackWorkspaceOut \/ RollbackWorkspaceIn \/ RollbackReapply
    \/ RollbackUnlinkJournal \/ RollbackCleanup

-----------------------------------------------------------------------------
(* recover_incomplete, by the boot of the organism and by every other      *)
(* command that opens the state directory (vitals, preflight, branching).  *)

Recover(next) ==
    /\ pc = "free"
    /\ IF journal = NoFile
       THEN /\ backup' = NoFile /\ workspaceBackup' = NoFile /\ safety' = NoFile
            /\ pc' = next /\ guard' = guard
       ELSE /\ pc' = "rollback_read"
            /\ guard' = [NoGuard EXCEPT !.checkpoint = journal.checkpoint,
                                        !.workspaceExisted = journal.workspaceExisted,
                                        !.resume = next]
            /\ UNCHANGED <<backup, workspaceBackup, safety>>
    /\ UNCHANGED <<live, journal, turn, up, world, faults>>

BootRecover == ~up /\ Recover("boot")

OtherRecover == Recover("free")

\* After recovery the boot closes interrupted sends, writes its own boot
\* records outside any guard, and releases the lock of the constructor.
BootLedger ==
    /\ pc = "boot"
    /\ \E d \in Data :
         /\ db' = [db EXCEPT !.effects = RecoverInterrupted(@), !.mind = d]
         /\ chronicle' \in {chronicle} \cup
              {log \in {Append(chronicle, d)} : Len(log) <= MaxChronicle}
    /\ up' = TRUE
    /\ Release
    /\ UNCHANGED <<workspace, files, world, faults>>

-----------------------------------------------------------------------------
(* Outside the guard.                                                      *)

\* The run loop records errors, hibernation and shutdown between cycles; it
\* does so too after a rollback that failed and left its journal behind.  These
\* writes take no lock; left out is one of them during the recovery of that
\* journal by another process.
RunLoopWrite ==
    /\ up /\ pc = "free"
    /\ Len(chronicle) < MaxChronicle
    /\ \E d \in Data :
         db' = [db EXCEPT !.mind = d] /\ chronicle' = Append(chronicle, d)
    /\ UNCHANGED <<workspace, files, pc, guard, turn, up, world, faults>>

Stop ==
    /\ up /\ pc = "free" /\ up' = FALSE
    /\ UNCHANGED <<live, files, pc, guard, turn, world, faults>>

\* Process death: the kernel frees the lock, memory is lost, files stay.
Crash ==
    /\ faults < MaxFaults /\ faults' = faults + 1
    /\ up' = FALSE
    /\ Release
    /\ UNCHANGED <<live, files, world>>

\* elia-control approve takes the writer lock.
ApproveOnce(a) ==
    /\ pc = "free"
    /\ db.approvals[a] = "none"
    /\ spent[a] = 0                                  \* a new row has a new id
    /\ db' = [db EXCEPT !.approvals[a] = "granted"]
    /\ UNCHANGED <<chronicle, workspace, files, pc, guard, turn, up, world, faults>>

\* elia-control reconcile-effect is one transaction of its own and takes no
\* lock, so it comes at any moment of a guard or a rollback; the operator
\* looks at the remote side and tells the truth.
ReconcileEffect(i) ==
    /\ db.effects[i] = "indeterminate"
    /\ db' = [db EXCEPT !.effects = Reconcile(@, i, i \in applied)]
    /\ UNCHANGED <<chronicle, workspace, files, pc, guard, turn, up, world, faults>>

-----------------------------------------------------------------------------
EnterStep == Enter \/ EnterBackup \/ EnterCheckpoint \/ EnterWorkspace \/ EnterJournal

EffectStep ==
    \/ NoExternalAction \/ \E x \in Actions : AuthorizeAction(x)
    \/ RefuseBlindRetry \/ \E i \in Intents : PrepareIntent(i)
    \/ MarkIntentSending \/ CloseWithoutEffect \/ CallAdapter \/ RecordAdapterResult

AcceptStep == AcceptCheck \/ AcceptCommit \/ AcceptRemoveBackup \/ AcceptRemoveRest

Raise ==
    \/ EnterRaises \/ EnterRaisesPublished \/ CallRaises \/ CycleRaises
    \/ RollbackRaises

Outside ==
    \/ RunLoopWrite \/ Stop \/ Crash
    \/ \E a \in Approvals : ApproveOnce(a)
    \/ \E i \in Intents : ReconcileEffect(i)

Next ==
    \/ EnterStep
    \/ Think \/ ChronicleAppend \/ WriteWorkspace
    \/ EffectStep \/ AcceptStep \/ RollbackStep
    \/ BootRecover \/ OtherRecover \/ BootLedger
    \/ Raise \/ Outside

Spec == Init /\ [][Next]_vars

\* The same with an accept() that raises after its commit point, while it
\* removes the copies: only then can a rollback find its copies gone.
NextWithCleanupFaults == Next \/ AcceptCleanupRaises \/ RollbackImpossible

CleanupSpec == Init /\ [][NextWithCleanupFaults]_vars

\* A stopped organism is booted again (supervisor, scheduled wake), and a
\* running rollback or boot proceeds.
Fairness == WF_vars(BootRecover) /\ WF_vars(RollbackStep) /\ WF_vars(BootLedger)

FairSpec == Spec /\ Fairness

-----------------------------------------------------------------------------
(* Properties.                                                             *)

TypeOK ==
    /\ db \in Databases /\ chronicle \in Seq(Data) /\ workspace \in Workspaces
    /\ backup \in Databases \cup {NoFile} /\ workspaceBackup \in Workspaces
    /\ journal \in Journals \cup {NoFile} /\ safety \in Evidence \cup {NoFile}
    /\ pc \in Labels
    /\ guard \in Guards
    /\ (pc \in Rolling \ {"rollback_read"} => guard.evidence # NoFile)
    /\ action \in Actions \cup {None} /\ intent \in Intents \cup {None}
    /\ (pc = "authorized" => action \in Actions)
    /\ (pc \in {"prepared", "sending", "called"} => intent \in Intents)
    /\ up \in BOOLEAN
    /\ calls \in [Intents -> Nat] /\ applied \subseteq Intents /\ spent \in [Approvals -> Nat]
    /\ reopened \subseteq Intents
    /\ faults \in 0..MaxFaults

\* As long as the journal exists, a process that dies now can be rolled back
\* completely: the database copy is there, the workspace copy is there if a
\* workspace existed, and the Chronicle still begins with the checkpoint
\* (transition_kernel.py: the journal is written last and unlinked first).
AlwaysRecoverable ==
    journal # NoFile =>
        /\ backup # NoFile
        /\ journal.workspaceExisted <=> workspaceBackup # NoFile
        /\ ContainsAnchor(chronicle, journal.checkpoint)

\* The ledger rows a rollback would leave: those already saved in the
\* evidence file win over those of the database it is about to replace.
DurableEffects ==
    IF journal # NoFile /\ safety # NoFile
    THEN InsertOrReplace(db.effects, safety.effects) ELSE db.effects

\* An intent that reached its adapter never looks as if it had not: whatever
\* crashes and rollbacks follow, its row survives and never reads "absent" or
\* "prepared" (README: "evidence of possible external effects is retained").
EvidenceKept ==
    \A i \in Intents : calls[i] > 0 => DurableEffects[i] \notin {"absent", "prepared"}

\* An action that needs a human approval reaches its adapter at most once per
\* approval given for it: a rollback neither resurrects a consumed approval nor
\* lets one approval serve two sends (continuity_runtime._owner_action_stage).
OneApprovalOneCall ==
    \A x \in ApprovalRequired :
        Cardinality({i \in Intents : ActionOf[i] = x /\ calls[i] > 0})
            <= Cardinality({a \in Approvals : ApprovalFor[a] = x /\ spent[a] > 0})

\* An adapter is called for an action only if every matching effect the
\* remote side already carried out is recorded as such: an ambiguous effect is
\* reconciled before it is repeated, and no row is ever sent twice
\* (external_effects.py: "an unresolved matching intent blocks blind retries").
\* The one exception is an effect whose reconciliation a rollback took back.
NoBlindRetry ==
    [][\A i \in Intents : calls'[i] # calls[i] =>
          \A j \in applied \ reopened :
              ActionOf[j] = ActionOf[i] =>
                  db.effects[j] \in {"succeeded", "reconciled_effect"}]_vars

\* The holder's memory agrees with the journal for as long as it is published.
JournalMatchesGuard ==
    /\ pc \in InCycle \cup {"accept_commit"} \cup (Rolling \ {"rollback_cleanup"})
          => journal = PublishedJournal
    /\ pc \in Entering \cup {"accept_backup", "accept_rest", "rollback_cleanup", "boot"}
          => journal = NoFile

\* What the entry has copied so far is still what the stores hold.
CopiesFresh ==
    /\ pc \in Entering \ {"enter_backup"} => backup # NoFile /\ backup.mind = db.mind
    /\ pc \in {"enter_workspace", "enter_journal"} => guard.checkpoint = chronicle
    /\ pc = "enter_journal" =>
          workspaceBackup = workspace /\ guard.workspaceExisted = (workspace # NoFile)

\* What the rollback has restored so far equals the copies.
RestoredSoFar ==
    /\ pc \in Rolling \ {"rollback_read", "rollback_write", "rollback_db", "rollback_cleanup"}
          => db.mind = backup.mind
    /\ pc \in {"rollback_workspace_out", "rollback_workspace_in", "rollback_reapply",
               "rollback_unlink"} => chronicle = guard.checkpoint
    /\ pc \in {"rollback_reapply", "rollback_unlink"}
          => workspace = IF guard.workspaceExisted THEN workspaceBackup ELSE NoFile

\* The inductive invariant behind AcceptedAtomically.
BarrierInv ==
    TypeOK /\ AlwaysRecoverable /\ JournalMatchesGuard /\ CopiesFresh /\ RestoredSoFar

\* The state a restart resumes from: the live stores, or the copies while a
\* transition is journaled.
Resumable ==
    IF journal = NoFile
    THEN [mind |-> db.mind, chronicle |-> chronicle, workspace |-> workspace]
    ELSE [mind |-> backup.mind, chronicle |-> journal.checkpoint,
          workspace |-> IF journal.workspaceExisted THEN workspaceBackup ELSE NoFile]

\* A transition is open while its journal exists, and proposed once accept()
\* has checked it.
Phase ==
    IF journal = NoFile THEN "closed"
    ELSE IF pc = "accept_commit" THEN "proposed" ELSE "open"

Barrier == INSTANCE AcceptedState WITH accepted <- Resumable, phase <- Phase

\* A cycle is all or nothing across the three stores: the state a restart
\* would resume from changes in one step, when the journal is unlinked by
\* accept() after its checks, and a rollback, interrupted anywhere, changes
\* nothing of it (README: "Failed local transitions restore the previous
\* accepted state").
AcceptedAtomically == Barrier!Spec

\* A journal left by a dead process does not survive the reboots: recovery
\* ends even when it is itself interrupted (bounded faults).
RecoveryCompletes == (journal # NoFile /\ ~up) ~> (journal = NoFile)
=============================================================================
