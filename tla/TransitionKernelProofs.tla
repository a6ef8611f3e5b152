----------------------- MODULE TransitionKernelProofs -----------------------
(***************************************************************************)
(* Theorems about TransitionKernel for every value of its constants.       *)
(***************************************************************************)
EXTENDS TransitionKernel, TLAPS

-----------------------------------------------------------------------------
(* The operators of the ledger stay inside its rows.                       *)

LEMMA LedgerTypes ==
    ASSUME NEW rows \in Rows, NEW i \in Intents
    PROVE  /\ Prepared(rows, i) \in Rows
           /\ MarkSending(rows, i) \in Rows
           /\ MarkIndeterminate(rows, i) \in Rows
  BY DEF Rows, Statuses, UnresolvedStatuses, TerminalStatuses, Prepared, MarkSending,
         MarkIndeterminate

LEMMA ResultTypes ==
    ASSUME NEW rows \in Rows, NEW i \in Intents, NEW ok, NEW proven
    PROVE  RecordResult(rows, i, ok, proven) \in Rows /\ Reconcile(rows, i, ok) \in Rows
  BY DEF Rows, Statuses, UnresolvedStatuses, TerminalStatuses, RecordResult, ResultStatus,
         Reconcile

LEMMA RollbackTypes ==
    ASSUME NEW rows \in Rows, NEW saved \in Rows
    PROVE  Quarantine(rows, saved) \in Rows /\ InsertOrReplace(rows, saved) \in Rows
  BY DEF Rows, Statuses, UnresolvedStatuses, TerminalStatuses, Quarantine, InsertOrReplace

LEMMA RecoverTypes == ASSUME NEW rows \in Rows PROVE RecoverInterrupted(rows) \in Rows
  BY DEF Rows, Statuses, UnresolvedStatuses, TerminalStatuses, RecoverInterrupted

-----------------------------------------------------------------------------
(* Field updates of the database and of the guard object.                  *)

LEMMA DatabaseTypes ==
    ASSUME NEW d \in Databases
    PROVE  /\ d.mind \in Data /\ d.effects \in Rows /\ d.approvals \in ApprovalRows
           /\ EvidenceOf(d) \in Evidence
           /\ d # NoFile
           /\ \A m \in Data : [d EXCEPT !.mind = m] \in Databases
           /\ \A r \in Rows : /\ [d EXCEPT !.effects = r] \in Databases
                              /\ [d EXCEPT !.effects = r].mind = d.mind
           /\ \A p \in ApprovalRows : [d EXCEPT !.approvals = p] \in Databases
           /\ \A r \in Rows, m \in Data : [d EXCEPT !.effects = r, !.mind = m] \in Databases
           /\ \A r \in Rows, p \in ApprovalRows :
                 /\ [d EXCEPT !.effects = r, !.approvals = p] \in Databases
                 /\ [d EXCEPT !.effects = r, !.approvals = p].mind = d.mind
  BY FilesAssumption DEF Databases, Evidence, EvidenceOf

LEMMA ApprovalTypes ==
    ASSUME NEW p \in ApprovalRows, NEW a \in Approvals, NEW s \in {"granted", "consumed"}
    PROVE  [p EXCEPT ![a] = s] \in ApprovalRows
  BY DEF ApprovalRows

LEMMA EvidenceTypes ==
    ASSUME NEW e \in Evidence
    PROVE  e.effects \in Rows /\ e.approvals \in ApprovalRows /\ e # NoFile
  BY FilesAssumption DEF Evidence

LEMMA NoEvidenceType == NoEvidence \in Evidence /\ NoEvidence.effects \in Rows
  BY DEF NoEvidence, Evidence, Rows, ApprovalRows, Statuses

LEMMA GuardTypes ==
    ASSUME NEW g \in Guards
    PROVE  /\ g.checkpoint \in Seq(Data) /\ g.workspaceExisted \in BOOLEAN
           /\ g.evidence \in Evidence \cup {NoFile} /\ g.quarantine \in Workspaces
           /\ g.resume \in {"free", "boot"}
           /\ \A s \in Seq(Data) : /\ [g EXCEPT !.checkpoint = s] \in Guards
                                   /\ [g EXCEPT !.checkpoint = s].checkpoint = s
           /\ \A b \in BOOLEAN : /\ [g EXCEPT !.workspaceExisted = b] \in Guards
                                 /\ [g EXCEPT !.workspaceExisted = b].workspaceExisted = b
           /\ \A e \in Evidence \cup {NoFile} : /\ [g EXCEPT !.evidence = e] \in Guards
                                                /\ [g EXCEPT !.evidence = e].evidence = e
           /\ \A w \in Workspaces : [g EXCEPT !.quarantine = w] \in Guards
  BY DEF Guards

LEMMA NoGuardType == NoGuard \in Guards
  BY DEF NoGuard, Guards, Workspaces

LEMMA JournalTypes ==
    ASSUME NEW j \in Journals
    PROVE  /\ j.checkpoint \in Seq(Data) /\ j.workspaceExisted \in BOOLEAN
           /\ j # NoFile
           /\ \A r \in {"free", "boot"} :
                [NoGuard EXCEPT !.checkpoint = j.checkpoint,
                                !.workspaceExisted = j.workspaceExisted,
                                !.resume = r] \in Guards
  BY FilesAssumption DEF Guards, Journals, NoGuard, Workspaces

LEMMA PublishedType == ASSUME guard \in Guards PROVE PublishedJournal \in Journals
  BY DEF Guards, Journals, PublishedJournal

-----------------------------------------------------------------------------
(* Type correctness.                                                       *)

LEMMA TypeInit == Init => TypeOK
<1> SUFFICES ASSUME Init PROVE TypeOK
  OBVIOUS
<1>1. db \in Databases
  BY DEF Init, Databases, NoEvidence, Rows, ApprovalRows, Statuses
<1>2. chronicle \in Seq(Data)
  BY DEF Init
<1>3. calls \in [Intents -> Nat] /\ spent \in [Approvals -> Nat] /\ faults \in 0..MaxFaults
  BY KernelAssumption DEF Init
<1>4. QED
  BY <1>1, <1>2, <1>3, NoGuardType DEF Init, TypeOK, Workspaces, Labels, Rolling

LEMMA TypeStep == TypeOK /\ [Next]_vars => TypeOK'
<1> SUFFICES ASSUME TypeOK, [Next]_vars PROVE TypeOK'
  OBVIOUS
<1>db. /\ db \in Databases /\ db.effects \in Rows /\ db.approvals \in ApprovalRows
       /\ \A m \in Data : [db EXCEPT !.mind = m] \in Databases
       /\ \A r \in Rows : [db EXCEPT !.effects = r] \in Databases
       /\ \A p \in ApprovalRows : [db EXCEPT !.approvals = p] \in Databases
       /\ \A r \in Rows, m \in Data : [db EXCEPT !.effects = r, !.mind = m] \in Databases
  BY DatabaseTypes DEF TypeOK
<1>g. /\ guard \in Guards /\ guard.checkpoint \in Seq(Data)
      /\ guard.workspaceExisted \in BOOLEAN /\ guard.evidence \in Evidence \cup {NoFile}
      /\ guard.quarantine \in Workspaces /\ guard.resume \in {"free", "boot"}
      /\ \A s \in Seq(Data) : [guard EXCEPT !.checkpoint = s] \in Guards
      /\ \A b \in BOOLEAN : [guard EXCEPT !.workspaceExisted = b] \in Guards
      /\ \A e \in Evidence \cup {NoFile} : /\ [guard EXCEPT !.evidence = e] \in Guards
                                           /\ [guard EXCEPT !.evidence = e].evidence = e
  BY GuardTypes DEF TypeOK
<1>ev. ExportedEvidence \in Evidence
  <2>1. backup # NoFile => backup.effects \in Rows
    BY DatabaseTypes DEF TypeOK
  <2>2. (IF backup = NoFile THEN NoEvidence.effects ELSE backup.effects) \in Rows
    BY <2>1, NoEvidenceType
  <2>3. QED
    BY <1>db, <2>2, RollbackTypes DEF ExportedEvidence, Evidence
<1>re. pc = "rollback_reapply" =>
          [db EXCEPT !.effects = InsertOrReplace(@, guard.evidence.effects),
                     !.approvals = [a \in Approvals |->
                         IF guard.evidence.approvals[a] = "none" THEN @[a]
                         ELSE guard.evidence.approvals[a]]] \in Databases
  <2> SUFFICES ASSUME pc = "rollback_reapply"
               PROVE  [db EXCEPT !.effects = InsertOrReplace(@, guard.evidence.effects),
                     !.approvals = [a \in Approvals |->
                         IF guard.evidence.approvals[a] = "none" THEN @[a]
                         ELSE guard.evidence.approvals[a]]] \in Databases
    OBVIOUS
  <2>1. guard.evidence \in Evidence
    BY <1>g DEF TypeOK, Rolling
  <2>2. guard.evidence.effects \in Rows /\ guard.evidence.approvals \in ApprovalRows
    BY <2>1, EvidenceTypes
  <2>3. InsertOrReplace(db.effects, guard.evidence.effects) \in Rows
    BY <1>db, <2>2, RollbackTypes
  <2>4. [a \in Approvals |-> IF guard.evidence.approvals[a] = "none" THEN db.approvals[a]
                             ELSE guard.evidence.approvals[a]] \in ApprovalRows
    BY <1>db, <2>2 DEF ApprovalRows
  <2>5. QED
    BY <1>db, <2>3, <2>4, DatabaseTypes
<1>f. faults < MaxFaults => faults + 1 \in 0..MaxFaults
  BY KernelAssumption DEF TypeOK
<1> USE KernelAssumption DEF TypeOK, Workspaces, Labels, Entering, InCycle, Accepting, Rolling,
        Goto, Release, live, files, world, turn
<1>1. CASE Enter
  BY <1>1 DEF Enter
<1>2. CASE EnterBackup
  BY <1>2, <1>db DEF EnterBackup
<1>3. CASE EnterCheckpoint
  BY <1>3, <1>g DEF EnterCheckpoint
<1>4. CASE EnterWorkspace
  BY <1>4, <1>g DEF EnterWorkspace
<1>5. CASE EnterJournal
  BY <1>5, <1>g, PublishedType DEF EnterJournal
<1>6. CASE Think
  BY <1>6, <1>db DEF Think
<1>7. CASE ChronicleAppend
  BY <1>7 DEF ChronicleAppend
<1>8. CASE WriteWorkspace
  BY <1>8 DEF WriteWorkspace
<1>9. CASE NoExternalAction
  BY <1>9 DEF NoExternalAction
<1>10. ASSUME NEW x \in Actions, AuthorizeAction(x) PROVE TypeOK'
  <2>1. db' \in Databases /\ spent' \in [Approvals -> Nat]
    <3>1. CASE x \in ApprovalRequired
      <4>1. PICK a \in Approvals : /\ db' = [db EXCEPT !.approvals[a] = "consumed"]
                                  /\ spent' = [spent EXCEPT ![a] = @ + 1]
        BY <1>10, <3>1 DEF AuthorizeAction
      <4>2. [db.approvals EXCEPT ![a] = "consumed"] \in ApprovalRows
        BY <1>db, ApprovalTypes
      <4>3. db' = [db EXCEPT !.approvals = [db.approvals EXCEPT ![a] = "consumed"]]
        BY <4>1
      <4>4. db' \in Databases
        BY <4>2, <4>3, <1>db
      <4>5. spent' \in [Approvals -> Nat]
        BY <4>1
      <4>6. QED
        BY <4>4, <4>5
    <3>2. CASE x \notin ApprovalRequired
      BY <1>10, <3>2 DEF AuthorizeAction
    <3>3. QED
      BY <3>1, <3>2
  <2>2. QED
    BY <1>10, <2>1 DEF AuthorizeAction
<1>11. CASE RefuseBlindRetry
  BY <1>11 DEF RefuseBlindRetry
<1>12. ASSUME NEW i \in Intents, PrepareIntent(i) PROVE TypeOK'
  BY <1>12, <1>db, LedgerTypes DEF PrepareIntent, Prepares
<1>13. CASE MarkIntentSending
  BY <1>13, <1>db, LedgerTypes DEF MarkIntentSending
<1>14. CASE CloseWithoutEffect
  BY <1>14, <1>db, ResultTypes DEF CloseWithoutEffect, FinishAction
<1>15. CASE CallAdapter
  BY <1>15 DEF CallAdapter
<1>16. CASE RecordAdapterResult
  <2>1. PICK ok \in BOOLEAN : FinishAction(RecordResult(db.effects, intent, ok, FALSE))
    BY <1>16 DEF RecordAdapterResult
  <2>2. intent \in Intents
    BY <1>16 DEF RecordAdapterResult
  <2>3. RecordResult(db.effects, intent, ok, FALSE) \in Rows
    BY <1>db, <2>2, ResultTypes
  <2>4. db' \in Databases
    BY <1>db, <2>1, <2>3 DEF FinishAction
  <2>5. QED
    BY <1>16, <2>1, <2>4 DEF RecordAdapterResult, FinishAction
<1>17. CASE AcceptCheck
  BY <1>17 DEF AcceptCheck
<1>18. CASE AcceptCommit
  BY <1>18 DEF AcceptCommit
<1>19. CASE AcceptRemoveBackup
  BY <1>19 DEF AcceptRemoveBackup
<1>20. CASE AcceptRemoveRest
  BY <1>20, NoGuardType DEF AcceptRemoveRest
<1>21. CASE RollbackRead
  <2>1. PICK e \in Evidence : /\ guard' = [guard EXCEPT !.evidence = e]
                            /\ pc' \in {"rollback_db", "rollback_write"}
    BY <1>21, <1>ev DEF RollbackRead, ExportEvidence
  <2>2. guard' \in Guards /\ guard'.evidence # NoFile
    BY <2>1, <1>g, EvidenceTypes
  <2>3. QED
    BY <1>21, <2>1, <2>2 DEF RollbackRead, ExportEvidence, Reopens
<1>22. CASE RollbackWriteSafety
  BY <1>22, <1>g DEF RollbackWriteSafety
<1>23. CASE RollbackDatabase
  BY <1>23 DEF RollbackDatabase
<1>24. CASE RollbackChronicle
  BY <1>24, <1>g DEF RollbackChronicle
<1>25. CASE RollbackWorkspaceOut
  BY <1>25, <1>g DEF RollbackWorkspaceOut, Guards
<1>26. CASE RollbackWorkspaceIn
  BY <1>26, <1>g DEF RollbackWorkspaceIn, Guards
<1>27. CASE RollbackReapply
  BY <1>27, <1>db, <1>g, <1>re DEF RollbackReapply
<1>28. CASE RollbackUnlinkJournal
  BY <1>28 DEF RollbackUnlinkJournal
<1>29. CASE RollbackCleanup
  BY <1>29, <1>g, NoGuardType DEF RollbackCleanup
<1>30. CASE BootRecover
  BY <1>30, JournalTypes, NoGuardType DEF BootRecover, Recover
<1>31. CASE OtherRecover
  BY <1>31, JournalTypes, NoGuardType DEF OtherRecover, Recover
<1>32. CASE BootLedger
  <2>1. PICK d \in Data :
           /\ db' = [db EXCEPT !.effects = RecoverInterrupted(@), !.mind = d]
           /\ chronicle' \in {chronicle} \cup
                {log \in {Append(chronicle, d)} : Len(log) <= MaxChronicle}
    BY <1>32 DEF BootLedger
  <2>2. RecoverInterrupted(db.effects) \in Rows
    BY <1>db, RecoverTypes
  <2>3. db' \in Databases
    BY <1>db, <2>1, <2>2
  <2>4. chronicle' \in Seq(Data)
    <3>1. chronicle' = chronicle \/ chronicle' = Append(chronicle, d)
      BY <2>1
    <3>2. chronicle \in Seq(Data)
      OBVIOUS
    <3>3. Append(chronicle, d) \in Seq(Data)
      BY <3>2
    <3>4. QED
      BY <3>1, <3>2, <3>3
  <2>5. QED
    BY <1>32, <2>3, <2>4, NoGuardType DEF BootLedger
<1>33. CASE EnterRaises
  BY <1>33, <1>f, NoGuardType DEF EnterRaises
<1>34. CASE EnterRaisesPublished
  BY <1>34, <1>f, <1>g, PublishedType, NoGuardType DEF EnterRaisesPublished
<1>35. CASE CallRaises
  BY <1>35, <1>f, <1>db, LedgerTypes DEF CallRaises
<1>36. CASE CycleRaises
  BY <1>36, <1>f DEF CycleRaises
<1>38. CASE RollbackRaises
  BY <1>38, <1>f, <1>g, NoGuardType DEF RollbackRaises
<1>40. CASE RunLoopWrite
  <2>1. PICK d \in Data : db' = [db EXCEPT !.mind = d] /\ chronicle' = Append(chronicle, d)
    BY <1>40 DEF RunLoopWrite
  <2>2. db' \in Databases
    BY <1>db, <2>1
  <2>3. chronicle' \in Seq(Data)
    BY <2>1
  <2>4. QED
    BY <1>40, <2>2, <2>3 DEF RunLoopWrite
<1>41. CASE Stop
  BY <1>41 DEF Stop
<1>42. CASE Crash
  BY <1>42, <1>f, NoGuardType DEF Crash
<1>43. ASSUME NEW a \in Approvals, ApproveOnce(a) PROVE TypeOK'
  BY <1>43, <1>db, ApprovalTypes DEF ApproveOnce
<1>44. ASSUME NEW i \in Intents, ReconcileEffect(i) PROVE TypeOK'
  <2>1. Reconcile(db.effects, i, i \in applied) \in Rows
    <3>1. CASE i \in applied
      BY <1>db, <3>1 DEF Reconcile, Rows, Statuses, TerminalStatuses
    <3>2. CASE i \notin applied
      BY <1>db, <3>2 DEF Reconcile, Rows, Statuses, TerminalStatuses
    <3>3. QED
      BY <3>1, <3>2
  <2>2. db' \in Databases
    BY <1>44, <1>db, <2>1 DEF ReconcileEffect
  <2>3. QED
    BY <1>44, <2>2 DEF ReconcileEffect
<1>45. CASE UNCHANGED vars
  BY <1>45 DEF vars
<1> QED
  BY <1>1, <1>2, <1>3, <1>4, <1>5, <1>6, <1>7, <1>8, <1>9, <1>10, <1>11, <1>12, <1>13, <1>14, <1>15, <1>16, <1>17, <1>18, <1>19, <1>20, <1>21, <1>22, <1>23, <1>24, <1>25, <1>26, <1>27, <1>28, <1>29, <1>30, <1>31, <1>32, <1>33, <1>34, <1>35, <1>36, <1>38, <1>40, <1>41, <1>42, <1>43, <1>44, <1>45
  DEF Next, EnterStep, EffectStep, AcceptStep, RollbackStep, Raise, Outside

\* Nor do the steps of an accept() that fails after its commit point break it.
LEMMA TypeStepCleanup == TypeOK /\ [NextWithCleanupFaults]_vars => TypeOK'
<1> SUFFICES ASSUME TypeOK, [NextWithCleanupFaults]_vars PROVE TypeOK'
  OBVIOUS
<1>f. faults < MaxFaults => faults + 1 \in 0..MaxFaults
  BY KernelAssumption DEF TypeOK
<1>1. CASE AcceptCleanupRaises
  BY <1>1, <1>f, KernelAssumption
  DEF AcceptCleanupRaises, TypeOK, Workspaces, Labels, Rolling, live, files, world, turn
<1>2. CASE RollbackImpossible
  BY <1>2, NoGuardType, KernelAssumption
  DEF RollbackImpossible, TypeOK, Workspaces, Labels, Rolling, Release, live, files, world, turn
<1>3. CASE [Next]_vars
  BY <1>3, TypeStep
<1> QED
  BY <1>1, <1>2, <1>3 DEF NextWithCleanupFaults
-----------------------------------------------------------------------------
(* The barrier: the journal, the copies and the live stores agree.         *)

LEMMA AnchorSelf == ASSUME NEW s \in Seq(Data) PROVE ContainsAnchor(s, s)
  BY DEF ContainsAnchor

LEMMA AnchorAppend ==
    ASSUME NEW s \in Seq(Data), NEW t \in Seq(Data), NEW d \in Data, ContainsAnchor(s, t)
    PROVE  ContainsAnchor(Append(s, d), t)
  BY DEF ContainsAnchor

LEMMA BarrierInit == Init => BarrierInv
  BY TypeInit DEF Init, BarrierInv, AlwaysRecoverable, JournalMatchesGuard, CopiesFresh,
     RestoredSoFar, InCycle, Rolling, Entering

LEMMA BarrierStep ==
    ASSUME BarrierInv, [Next]_vars
    PROVE  BarrierInv'
<1>t. TypeOK /\ TypeOK'
  BY TypeStep DEF BarrierInv
<1>db. /\ db \in Databases /\ db # NoFile
       /\ \A r : [db EXCEPT !.effects = r].mind = db.mind
       /\ \A p : [db EXCEPT !.approvals = p].mind = db.mind
  <2>1. db \in Databases
    BY <1>t DEF TypeOK
  <2>2. QED
    BY <2>1, FilesAssumption DEF Databases
<1>g. /\ guard \in Guards
      /\ \A s : [guard EXCEPT !.checkpoint = s].checkpoint = s
      /\ \A b : [guard EXCEPT !.workspaceExisted = b].workspaceExisted = b
      /\ \A b : [guard EXCEPT !.workspaceExisted = b].checkpoint = guard.checkpoint
      /\ \A e : [guard EXCEPT !.evidence = e].checkpoint = guard.checkpoint
      /\ \A e : [guard EXCEPT !.evidence = e].workspaceExisted = guard.workspaceExisted
      /\ \A w : [guard EXCEPT !.quarantine = w].checkpoint = guard.checkpoint
      /\ \A w : [guard EXCEPT !.quarantine = w].workspaceExisted = guard.workspaceExisted
      /\ guard.resume \in {"free", "boot"}
  BY <1>t DEF TypeOK, Guards
<1>anchor. chronicle \in Seq(Data) /\ ContainsAnchor(chronicle, chronicle)
  BY <1>t, AnchorSelf DEF TypeOK
<1>append. \A d \in Data :
              journal # NoFile => ContainsAnchor(Append(chronicle, d), journal.checkpoint)
  <2> SUFFICES ASSUME NEW d \in Data, journal # NoFile
               PROVE  ContainsAnchor(Append(chronicle, d), journal.checkpoint)
    OBVIOUS
  <2>1. journal.checkpoint \in Seq(Data)
    BY <1>t, JournalTypes DEF TypeOK
  <2>2. QED
    BY <1>anchor, <2>1, AnchorAppend DEF BarrierInv, AlwaysRecoverable
<1>pj. /\ PublishedJournal # NoFile
       /\ PublishedJournal.checkpoint = guard.checkpoint
       /\ PublishedJournal.workspaceExisted = guard.workspaceExisted
  BY <1>g, PublishedType, JournalTypes DEF PublishedJournal
<1>rec. journal # NoFile => \A r \in {"free", "boot"} :
          LET fresh == [NoGuard EXCEPT !.checkpoint = journal.checkpoint,
                                       !.workspaceExisted = journal.workspaceExisted,
                                       !.resume = r]
          IN  guard' = fresh => PublishedJournal' = journal
  <2> SUFFICES ASSUME journal # NoFile, NEW r \in {"free", "boot"},
                      guard' = [NoGuard EXCEPT !.checkpoint = journal.checkpoint,
                                       !.workspaceExisted = journal.workspaceExisted,
                                       !.resume = r]
               PROVE  PublishedJournal' = journal
    OBVIOUS
  <2>1. journal \in Journals
    BY <1>t DEF TypeOK
  <2>2. guard'.checkpoint = journal.checkpoint
        /\ guard'.workspaceExisted = journal.workspaceExisted
    BY DEF NoGuard
  <2>3. QED
    BY <2>1, <2>2 DEF PublishedJournal, Journals
<1>keep. /\ guard'.checkpoint = guard.checkpoint
         /\ guard'.workspaceExisted = guard.workspaceExisted
         => PublishedJournal' = PublishedJournal
  BY DEF PublishedJournal
<1> USE DEF BarrierInv, AlwaysRecoverable, JournalMatchesGuard, CopiesFresh, RestoredSoFar,
        Entering, InCycle, Accepting, Rolling, Goto, Release, live, files, world, turn
<1>1. CASE Enter
  BY <1>1, <1>t, <1>keep DEF Enter
<1>2. CASE EnterBackup
  BY <1>2, <1>t, <1>keep, <1>db DEF EnterBackup
<1>3. CASE EnterCheckpoint
  BY <1>3, <1>t, <1>keep, <1>g, <1>anchor DEF EnterCheckpoint
<1>4. CASE EnterWorkspace
  BY <1>4, <1>t, <1>keep, <1>g DEF EnterWorkspace
<1>5. CASE EnterJournal
  BY <1>5, <1>t, <1>keep, <1>anchor, <1>pj DEF EnterJournal, PublishedJournal
<1>6. CASE Think
  BY <1>6, <1>t, <1>keep, <1>db DEF Think
<1>7. CASE ChronicleAppend
  BY <1>7, <1>t, <1>keep, <1>append DEF ChronicleAppend
<1>8. CASE WriteWorkspace
  BY <1>8, <1>t, <1>keep DEF WriteWorkspace
<1>9. CASE NoExternalAction
  BY <1>9, <1>t, <1>keep DEF NoExternalAction
<1>10. ASSUME NEW x \in Actions, AuthorizeAction(x) PROVE BarrierInv'
  BY <1>10, <1>t, <1>keep, <1>db DEF AuthorizeAction
<1>11. CASE RefuseBlindRetry
  BY <1>11, <1>t, <1>keep DEF RefuseBlindRetry
<1>12. ASSUME NEW i \in Intents, PrepareIntent(i) PROVE BarrierInv'
  BY <1>12, <1>t, <1>keep, <1>db DEF PrepareIntent
<1>13. CASE MarkIntentSending
  BY <1>13, <1>t, <1>keep, <1>db DEF MarkIntentSending
<1>14. CASE CloseWithoutEffect
  BY <1>14, <1>t, <1>keep, <1>db DEF CloseWithoutEffect, FinishAction
<1>15. CASE CallAdapter
  BY <1>15, <1>t, <1>keep DEF CallAdapter
<1>16. CASE RecordAdapterResult
  BY <1>16, <1>t, <1>keep, <1>db DEF RecordAdapterResult, FinishAction
<1>17. CASE AcceptCheck
  BY <1>17, <1>t, <1>keep DEF AcceptCheck
<1>18. CASE AcceptCommit
  BY <1>18, <1>t, <1>keep DEF AcceptCommit
<1>19. CASE AcceptRemoveBackup
  BY <1>19, <1>t, <1>keep DEF AcceptRemoveBackup
<1>20. CASE AcceptRemoveRest
  BY <1>20, <1>t, <1>keep DEF AcceptRemoveRest
<1>21. CASE RollbackRead
  <2>1. PICK e : /\ guard' = [guard EXCEPT !.evidence = e]
                 /\ pc' \in {"rollback_db", "rollback_write"}
    BY <1>21 DEF RollbackRead, ExportEvidence
  <2>2. PublishedJournal' = PublishedJournal
    BY <2>1, <1>g, <1>keep
  <2>3. QED
    BY <1>21, <1>t, <2>1, <2>2 DEF RollbackRead, ExportEvidence
<1>22. CASE RollbackWriteSafety
  BY <1>22, <1>t, <1>keep DEF RollbackWriteSafety
<1>23. CASE RollbackDatabase
  BY <1>23, <1>t, <1>keep DEF RollbackDatabase
<1>24. CASE RollbackChronicle
  <2>1. ContainsAnchor(guard.checkpoint, guard.checkpoint)
    BY <1>g, AnchorSelf DEF Guards
  <2>2. journal.checkpoint = guard.checkpoint
    BY <1>24, <1>pj DEF RollbackChronicle
  <2>3. QED
    BY <1>24, <1>t, <1>keep, <2>1, <2>2 DEF RollbackChronicle
<1>25. CASE RollbackWorkspaceOut
  BY <1>25, <1>t, <1>keep, <1>g DEF RollbackWorkspaceOut
<1>26. CASE RollbackWorkspaceIn
  BY <1>26, <1>t, <1>keep, <1>g DEF RollbackWorkspaceIn
<1>27. CASE RollbackReapply
  BY <1>27, <1>t, <1>keep, <1>db DEF RollbackReapply
<1>28. CASE RollbackUnlinkJournal
  BY <1>28, <1>t, <1>keep DEF RollbackUnlinkJournal
<1>29. CASE RollbackCleanup
  BY <1>29, <1>t, <1>keep, <1>g DEF RollbackCleanup
<1>30. CASE BootRecover
  BY <1>30, <1>t, <1>keep, <1>rec DEF BootRecover, Recover
<1>31. CASE OtherRecover
  BY <1>31, <1>t, <1>keep, <1>rec DEF OtherRecover, Recover
<1>32. CASE BootLedger
  BY <1>32, <1>t, <1>keep DEF BootLedger
<1>33. CASE EnterRaises
  BY <1>33, <1>t, <1>keep DEF EnterRaises
<1>34. CASE EnterRaisesPublished
  BY <1>34, <1>t, <1>keep, <1>anchor, <1>pj DEF EnterRaisesPublished, PublishedJournal
<1>35. CASE CallRaises
  BY <1>35, <1>t, <1>keep, <1>db DEF CallRaises
<1>36. CASE CycleRaises
  BY <1>36, <1>t, <1>keep DEF CycleRaises
<1>38. CASE RollbackRaises
  BY <1>38, <1>t, <1>keep, <1>g DEF RollbackRaises
<1>40. CASE RunLoopWrite
  BY <1>40, <1>t, <1>keep, <1>append DEF RunLoopWrite
<1>41. CASE Stop
  BY <1>41, <1>t, <1>keep DEF Stop
<1>42. CASE Crash
  BY <1>42, <1>t, <1>keep DEF Crash
<1>43. ASSUME NEW a \in Approvals, ApproveOnce(a) PROVE BarrierInv'
  BY <1>43, <1>t, <1>keep, <1>db DEF ApproveOnce
<1>44. ASSUME NEW i \in Intents, ReconcileEffect(i) PROVE BarrierInv'
  BY <1>44, <1>t, <1>keep, <1>db DEF ReconcileEffect
<1>45. CASE UNCHANGED vars
  BY <1>45, <1>t DEF vars, PublishedJournal
<1> QED
  BY <1>1, <1>2, <1>3, <1>4, <1>5, <1>6, <1>7, <1>8, <1>9, <1>10, <1>11, <1>12, <1>13, <1>14, <1>15, <1>16, <1>17, <1>18, <1>19, <1>20, <1>21, <1>22, <1>23, <1>24, <1>25, <1>26, <1>27, <1>28, <1>29, <1>30, <1>31, <1>32, <1>33, <1>34, <1>35, <1>36, <1>38, <1>40, <1>41, <1>42, <1>43, <1>44, <1>45
  DEF Next, EnterStep, EffectStep, AcceptStep, RollbackStep, Raise, Outside
-----------------------------------------------------------------------------
(* Refinement of AcceptedState.                                            *)

LEMMA ResumableType == BarrierInv => Resumable \in Barrier!States
<1> SUFFICES ASSUME BarrierInv PROVE Resumable \in Barrier!States
  OBVIOUS
<1>1. CASE journal = NoFile
  <2>1. db.mind \in Data
    BY DatabaseTypes DEF BarrierInv, TypeOK
  <2>2. QED
    BY <1>1, <2>1 DEF BarrierInv, TypeOK, Resumable, Barrier!States
<1>2. CASE journal # NoFile
  <2>1. backup.mind \in Data
    BY <1>2, DatabaseTypes DEF BarrierInv, TypeOK, AlwaysRecoverable
  <2>2. journal.checkpoint \in Seq(Data)
    BY <1>2, JournalTypes DEF BarrierInv, TypeOK
  <2>3. QED
    BY <1>2, <2>1, <2>2 DEF BarrierInv, TypeOK, Resumable, Barrier!States, Workspaces
<1>3. QED
  BY <1>1, <1>2

\* The same fact of the next state.
LEMMA ResumableTypeNext == BarrierInv' => Resumable' \in Barrier!States
<1> SUFFICES ASSUME BarrierInv' PROVE Resumable' \in Barrier!States
  OBVIOUS
<1>1. CASE journal' = NoFile
  <2>1. db'.mind \in Data
    BY DatabaseTypes DEF BarrierInv, TypeOK
  <2>2. QED
    BY <1>1, <2>1 DEF BarrierInv, TypeOK, Resumable, Barrier!States
<1>2. CASE journal' # NoFile
  <2>1. backup'.mind \in Data
    BY <1>2, DatabaseTypes DEF BarrierInv, TypeOK, AlwaysRecoverable
  <2>2. journal'.checkpoint \in Seq(Data)
    BY <1>2, JournalTypes DEF BarrierInv, TypeOK
  <2>3. QED
    BY <1>2, <2>1, <2>2 DEF BarrierInv, TypeOK, Resumable, Barrier!States, Workspaces
<1>3. QED
  BY <1>1, <1>2

\* A step that keeps the phase and what a restart would resume from.
Invisible == Resumable' = Resumable /\ Phase' = Phase

LEMMA InvisibleStutters == Invisible => UNCHANGED Barrier!vars
  BY DEF Invisible, Barrier!vars

LEMMA RefinementInit == Init => Barrier!Init
<1> SUFFICES ASSUME Init PROVE Barrier!Init
  OBVIOUS
<1>1. BarrierInv
  BY BarrierInit
<1>2. QED
  BY <1>1, ResumableType DEF Init, Phase, Barrier!Init

LEMMA RefinementStep ==
    ASSUME BarrierInv, BarrierInv', [Next]_vars
    PROVE  [Barrier!Next]_(Barrier!vars)
<1>db. /\ \A r : [db EXCEPT !.effects = r].mind = db.mind
       /\ \A p : [db EXCEPT !.approvals = p].mind = db.mind
       /\ \A r, p : [db EXCEPT !.effects = r, !.approvals = p].mind = db.mind
  <2>1. db \in Databases
    BY DEF BarrierInv, TypeOK
  <2>2. QED
    BY <2>1 DEF Databases
<1>r. Resumable \in Barrier!States /\ Resumable' \in Barrier!States
  BY ResumableType, ResumableTypeNext
<1>c. /\ chronicle \in Seq(Data)
      /\ journal # NoFile => journal.checkpoint \in Seq(Data)
  BY JournalTypes DEF BarrierInv, TypeOK
<1>pj. /\ PublishedJournal # NoFile
       /\ PublishedJournal.checkpoint = guard.checkpoint
       /\ PublishedJournal.workspaceExisted = guard.workspaceExisted
  BY PublishedType, JournalTypes DEF PublishedJournal, BarrierInv, TypeOK
<1> USE DEF AlwaysRecoverable, JournalMatchesGuard, CopiesFresh, RestoredSoFar, BarrierInv,
        Entering, InCycle, Accepting, Rolling, Goto, Release, live, files, world, turn
<1>1. CASE Enter
  <2>1. Invisible
    BY <1>1, <1>db, <1>pj DEF Invisible, Resumable, Phase, Enter
  <2>2. QED
    BY <2>1, InvisibleStutters
<1>2. CASE EnterBackup
  <2>1. Invisible
    BY <1>2, <1>db, <1>pj DEF Invisible, Resumable, Phase, EnterBackup
  <2>2. QED
    BY <2>1, InvisibleStutters
<1>3. CASE EnterCheckpoint
  <2>1. Invisible
    BY <1>3, <1>db, <1>pj DEF Invisible, Resumable, Phase, EnterCheckpoint
  <2>2. QED
    BY <2>1, InvisibleStutters
<1>4. CASE EnterWorkspace
  <2>1. Invisible
    BY <1>4, <1>db, <1>pj DEF Invisible, Resumable, Phase, EnterWorkspace
  <2>2. QED
    BY <2>1, InvisibleStutters
<1>5. CASE EnterJournal
  <2>1. Phase = "closed" /\ Phase' = "open" /\ Resumable' = Resumable
    BY <1>5, <1>pj DEF EnterJournal, Resumable, Phase
  <2>2. Barrier!Begin
    BY <2>1 DEF Barrier!Begin, Barrier!Turn
  <2>3. QED
    BY <2>2 DEF Barrier!Next
<1>6. CASE Think
  <2>1. Invisible
    BY <1>6, <1>db, <1>pj DEF Invisible, Resumable, Phase, Think
  <2>2. QED
    BY <2>1, InvisibleStutters
<1>7. CASE ChronicleAppend
  <2>1. Invisible
    BY <1>7, <1>db, <1>pj DEF Invisible, Resumable, Phase, ChronicleAppend
  <2>2. QED
    BY <2>1, InvisibleStutters
<1>8. CASE WriteWorkspace
  <2>1. Invisible
    BY <1>8, <1>db, <1>pj DEF Invisible, Resumable, Phase, WriteWorkspace
  <2>2. QED
    BY <2>1, InvisibleStutters
<1>9. CASE NoExternalAction
  <2>1. Invisible
    BY <1>9, <1>db, <1>pj DEF Invisible, Resumable, Phase, NoExternalAction
  <2>2. QED
    BY <2>1, InvisibleStutters
<1>10. ASSUME NEW x \in Actions, AuthorizeAction(x) PROVE [Barrier!Next]_(Barrier!vars)
  <2>1. Invisible
    BY <1>10, <1>db, <1>pj DEF Invisible, Resumable, Phase, AuthorizeAction
  <2>2. QED
    BY <2>1, InvisibleStutters
<1>11. CASE RefuseBlindRetry
  <2>1. Invisible
    BY <1>11, <1>db, <1>pj DEF Invisible, Resumable, Phase, RefuseBlindRetry
  <2>2. QED
    BY <2>1, InvisibleStutters
<1>12. ASSUME NEW i \in Intents, PrepareIntent(i) PROVE [Barrier!Next]_(Barrier!vars)
  <2>1. Invisible
    BY <1>12, <1>db, <1>pj DEF Invisible, Resumable, Phase, PrepareIntent
  <2>2. QED
    BY <2>1, InvisibleStutters
<1>13. CASE MarkIntentSending
  <2>1. Invisible
    BY <1>13, <1>db, <1>pj DEF Invisible, Resumable, Phase, MarkIntentSending
  <2>2. QED
    BY <2>1, InvisibleStutters
<1>14. CASE CloseWithoutEffect
  <2>1. Invisible
    BY <1>14, <1>db, <1>pj DEF Invisible, Resumable, Phase, CloseWithoutEffect, FinishAction
  <2>2. QED
    BY <2>1, InvisibleStutters
<1>15. CASE CallAdapter
  <2>1. Invisible
    BY <1>15, <1>db, <1>pj DEF Invisible, Resumable, Phase, CallAdapter
  <2>2. QED
    BY <2>1, InvisibleStutters
<1>16. CASE RecordAdapterResult
  <2>1. Invisible
    BY <1>16, <1>db, <1>pj DEF Invisible, Resumable, Phase, RecordAdapterResult, FinishAction
  <2>2. QED
    BY <2>1, InvisibleStutters
<1>17. CASE AcceptCheck
  <2>1. Resumable' = Resumable /\ Phase = "open"
    BY <1>17, <1>pj DEF AcceptCheck, Resumable, Phase
  <2>2. CASE pc' = "accept_commit"
    <3>1. Phase' = "proposed"
      BY <1>17, <2>2, <1>pj DEF AcceptCheck, Phase
    <3>2. Barrier!Propose
      BY <2>1, <3>1 DEF Barrier!Propose, Barrier!Turn
    <3>3. QED
      BY <3>2 DEF Barrier!Next
  <2>3. CASE pc' # "accept_commit"
    <3>1. Invisible
      BY <1>17, <2>1, <2>3, <1>pj DEF AcceptCheck, Invisible, Phase
    <3>2. QED
      BY <3>1, InvisibleStutters
  <2>4. QED
    BY <2>2, <2>3
<1>18. CASE AcceptCommit
  <2>1. journal # NoFile /\ journal' = NoFile
    BY <1>18, <1>pj DEF AcceptCommit
  <2>2. Resumable.chronicle = journal.checkpoint /\ Resumable'.chronicle = chronicle
    BY <1>18, <2>1 DEF AcceptCommit, Resumable
  <2>3. Barrier!Descends(Resumable', Resumable)
    BY <2>1, <2>2 DEF Barrier!Descends, ContainsAnchor
  <2>4. Phase = "proposed" /\ Phase' = "closed"
    BY <1>18, <2>1 DEF AcceptCommit, Phase
  <2>5. Barrier!Accept
    BY <2>3, <2>4, <1>r DEF Barrier!Accept, Barrier!Turn
  <2>6. QED
    BY <2>5 DEF Barrier!Next
<1>19. CASE AcceptRemoveBackup
  <2>1. Invisible
    BY <1>19, <1>db, <1>pj DEF Invisible, Resumable, Phase, AcceptRemoveBackup
  <2>2. QED
    BY <2>1, InvisibleStutters
<1>20. CASE AcceptRemoveRest
  <2>1. Invisible
    BY <1>20, <1>db, <1>pj DEF Invisible, Resumable, Phase, AcceptRemoveRest
  <2>2. QED
    BY <2>1, InvisibleStutters
<1>21. CASE RollbackRead
  <2>1. Invisible
    BY <1>21, <1>db, <1>pj DEF Invisible, Resumable, Phase, RollbackRead,
       ExportEvidence
  <2>2. QED
    BY <2>1, InvisibleStutters
<1>22. CASE RollbackWriteSafety
  <2>1. Invisible
    BY <1>22, <1>db, <1>pj DEF Invisible, Resumable, Phase, RollbackWriteSafety
  <2>2. QED
    BY <2>1, InvisibleStutters
<1>23. CASE RollbackDatabase
  <2>1. Invisible
    BY <1>23, <1>db, <1>pj DEF Invisible, Resumable, Phase, RollbackDatabase
  <2>2. QED
    BY <2>1, InvisibleStutters
<1>24. CASE RollbackChronicle
  <2>1. Invisible
    BY <1>24, <1>db, <1>pj DEF Invisible, Resumable, Phase, RollbackChronicle
  <2>2. QED
    BY <2>1, InvisibleStutters
<1>25. CASE RollbackWorkspaceOut
  <2>1. Invisible
    BY <1>25, <1>db, <1>pj DEF Invisible, Resumable, Phase, RollbackWorkspaceOut
  <2>2. QED
    BY <2>1, InvisibleStutters
<1>26. CASE RollbackWorkspaceIn
  <2>1. Invisible
    BY <1>26, <1>db, <1>pj DEF Invisible, Resumable, Phase, RollbackWorkspaceIn
  <2>2. QED
    BY <2>1, InvisibleStutters
<1>27. CASE RollbackReapply
  <2>1. Invisible
    BY <1>27, <1>db, <1>pj DEF Invisible, Resumable, Phase, RollbackReapply
  <2>2. QED
    BY <2>1, InvisibleStutters
<1>28. CASE RollbackUnlinkJournal
  <2>1. journal # NoFile /\ journal' = NoFile /\ journal = PublishedJournal
    BY <1>28, <1>pj DEF RollbackUnlinkJournal
  <2>2. Resumable' = Resumable
    BY <1>28, <2>1, <1>pj DEF RollbackUnlinkJournal, Resumable
  <2>3. Phase = "open" /\ Phase' = "closed"
    BY <1>28, <2>1 DEF RollbackUnlinkJournal, Phase
  <2>4. Barrier!Abort
    BY <2>2, <2>3 DEF Barrier!Abort, Barrier!Turn
  <2>5. QED
    BY <2>4 DEF Barrier!Next
<1>29. CASE RollbackCleanup
  <2>1. Invisible
    BY <1>29, <1>db, <1>pj DEF Invisible, Resumable, Phase, RollbackCleanup
  <2>2. QED
    BY <2>1, InvisibleStutters
<1>30. CASE BootRecover
  <2>1. Invisible
    BY <1>30, <1>db, <1>pj DEF Invisible, Resumable, Phase, BootRecover, Recover
  <2>2. QED
    BY <2>1, InvisibleStutters
<1>31. CASE OtherRecover
  <2>1. Invisible
    BY <1>31, <1>db, <1>pj DEF Invisible, Resumable, Phase, OtherRecover, Recover
  <2>2. QED
    BY <2>1, InvisibleStutters
<1>32. CASE BootLedger
  <2>1. journal = NoFile /\ journal' = NoFile /\ workspace' = workspace
    BY <1>32 DEF BootLedger
  <2>2. PICK d \in Data : chronicle' = chronicle \/ chronicle' = Append(chronicle, d)
    BY <1>32 DEF BootLedger
  <2>3. Barrier!Descends(Resumable', Resumable)
    BY <2>1, <2>2, <1>c DEF Barrier!Descends, Resumable
  <2>4. Barrier!WriteDirectly
    BY <2>1, <2>3, <1>r DEF Barrier!WriteDirectly, Resumable, Phase
  <2>5. QED
    BY <2>4 DEF Barrier!Next
<1>33. CASE EnterRaises
  <2>1. Invisible
    BY <1>33, <1>db, <1>pj DEF Invisible, Resumable, Phase, EnterRaises
  <2>2. QED
    BY <2>1, InvisibleStutters
<1>34. CASE EnterRaisesPublished
  <2>1. Phase = "closed" /\ Phase' = "open" /\ Resumable' = Resumable
    BY <1>34, <1>pj DEF EnterRaisesPublished, Resumable, Phase
  <2>2. Barrier!Begin
    BY <2>1 DEF Barrier!Begin, Barrier!Turn
  <2>3. QED
    BY <2>2 DEF Barrier!Next
<1>35. CASE CallRaises
  <2>1. Invisible
    BY <1>35, <1>db, <1>pj DEF Invisible, Resumable, Phase, CallRaises
  <2>2. QED
    BY <2>1, InvisibleStutters
<1>36. CASE CycleRaises
  <2>1. Resumable' = Resumable /\ journal' = journal /\ pc' # "accept_commit"
    BY <1>36 DEF CycleRaises, Resumable
  <2>2. CASE pc = "accept_commit"
    <3>1. Phase = "proposed" /\ Phase' = "open"
      BY <2>1, <2>2, <1>pj DEF Phase
    <3>2. Barrier!Withdraw
      BY <2>1, <3>1 DEF Barrier!Withdraw, Barrier!Turn
    <3>3. QED
      BY <3>2 DEF Barrier!Next
  <2>3. CASE pc # "accept_commit"
    <3>1. Invisible
      BY <2>1, <2>3 DEF Invisible, Phase
    <3>2. QED
      BY <3>1, InvisibleStutters
  <2>4. QED
    BY <2>2, <2>3
<1>38. CASE RollbackRaises
  <2>1. Invisible
    BY <1>38, <1>db, <1>pj DEF Invisible, Resumable, Phase, RollbackRaises
  <2>2. QED
    BY <2>1, InvisibleStutters
<1>40. CASE RunLoopWrite
  <2>1. CASE journal # NoFile
    <3>1. Invisible
      BY <1>40, <2>1 DEF RunLoopWrite, Resumable, Phase, Invisible
    <3>2. QED
      BY <3>1, InvisibleStutters
  <2>2. CASE journal = NoFile
    <3>1. journal' = NoFile /\ workspace' = workspace
      BY <1>40, <2>2 DEF RunLoopWrite
    <3>2. PICK d \in Data : chronicle' = Append(chronicle, d)
      BY <1>40 DEF RunLoopWrite
    <3>3. Barrier!Descends(Resumable', Resumable)
      BY <2>2, <3>1, <3>2, <1>c DEF Barrier!Descends, Resumable
    <3>4. Barrier!WriteDirectly
      BY <2>2, <3>1, <3>3, <1>r DEF Barrier!WriteDirectly, Resumable, Phase
    <3>5. QED
      BY <3>4 DEF Barrier!Next
  <2>3. QED
    BY <2>1, <2>2
<1>41. CASE Stop
  <2>1. Invisible
    BY <1>41, <1>db, <1>pj DEF Invisible, Resumable, Phase, Stop
  <2>2. QED
    BY <2>1, InvisibleStutters
<1>42. CASE Crash
  <2>1. Resumable' = Resumable /\ journal' = journal /\ pc' # "accept_commit"
    BY <1>42 DEF Crash, Resumable
  <2>2. CASE pc = "accept_commit"
    <3>1. Phase = "proposed" /\ Phase' = "open"
      BY <2>1, <2>2, <1>pj DEF Phase
    <3>2. Barrier!Withdraw
      BY <2>1, <3>1 DEF Barrier!Withdraw, Barrier!Turn
    <3>3. QED
      BY <3>2 DEF Barrier!Next
  <2>3. CASE pc # "accept_commit"
    <3>1. Invisible
      BY <2>1, <2>3 DEF Invisible, Phase
    <3>2. QED
      BY <3>1, InvisibleStutters
  <2>4. QED
    BY <2>2, <2>3
<1>43. ASSUME NEW a \in Approvals, ApproveOnce(a) PROVE [Barrier!Next]_(Barrier!vars)
  <2>1. Invisible
    BY <1>43, <1>db, <1>pj DEF Invisible, Resumable, Phase, ApproveOnce
  <2>2. QED
    BY <2>1, InvisibleStutters
<1>44. ASSUME NEW i \in Intents, ReconcileEffect(i) PROVE [Barrier!Next]_(Barrier!vars)
  <2>1. Invisible
    BY <1>44, <1>db, <1>pj DEF Invisible, Resumable, Phase, ReconcileEffect
  <2>2. QED
    BY <2>1, InvisibleStutters
<1>45. CASE UNCHANGED vars
  <2>1. Invisible
    BY <1>45 DEF vars, Invisible, Resumable, Phase
  <2>2. QED
    BY <2>1, InvisibleStutters
<1> QED
  BY <1>1, <1>2, <1>3, <1>4, <1>5, <1>6, <1>7, <1>8, <1>9, <1>10, <1>11, <1>12, <1>13, <1>14, <1>15, <1>16, <1>17, <1>18, <1>19, <1>20, <1>21, <1>22, <1>23, <1>24, <1>25, <1>26, <1>27, <1>28, <1>29, <1>30, <1>31, <1>32, <1>33, <1>34, <1>35, <1>36, <1>38, <1>40, <1>41, <1>42, <1>43, <1>44, <1>45
  DEF Next, EnterStep, EffectStep, AcceptStep, RollbackStep, Raise, Outside

\* The type invariant holds in every reachable state, for all constants.
THEOREM TypeCorrect == Spec => []TypeOK
<1>1. TypeOK /\ [Next]_vars => TypeOK'
  BY TypeStep
<1>2. QED
  BY <1>1, TypeInit, PTL DEF Spec

\* So it does when accept() fails in its cleanup.
THEOREM TypeCorrectCleanup == CleanupSpec => []TypeOK
<1>1. TypeOK /\ [NextWithCleanupFaults]_vars => TypeOK'
  BY TypeStepCleanup
<1>2. QED
  BY <1>1, TypeInit, PTL DEF CleanupSpec

LEMMA BarrierCorrect == Spec => []BarrierInv
<1>1. BarrierInv /\ [Next]_vars => BarrierInv'
  BY BarrierStep
<1>2. QED
  BY <1>1, BarrierInit, PTL DEF Spec

\* Whenever the journal of an open transition exists, the copies a rollback
\* needs exist and the Chronicle still begins with its checkpoint, wherever
\* the process dies (unless accept() itself fails after its commit point).
THEOREM AlwaysRecoverableHolds ==
    Spec => []AlwaysRecoverable
<1>1. BarrierInv => AlwaysRecoverable
  BY DEF BarrierInv
<1>2. QED
  BY <1>1, BarrierCorrect, PTL

\* The guard implements the abstract barrier: across the database, the
\* Chronicle and the workspace a cycle is accepted in one step or leaves no
\* trace, whatever crashes and exceptions interrupt it and its rollbacks.
THEOREM AtomicityHolds ==
    Spec => AcceptedAtomically
<1>1. BarrierInv /\ BarrierInv' /\ [Next]_vars => [Barrier!Next]_(Barrier!vars)
  BY RefinementStep
<1>2. QED
  BY <1>1, RefinementInit, BarrierCorrect, PTL DEF Spec, AcceptedAtomically, Barrier!Spec
=============================================================================
