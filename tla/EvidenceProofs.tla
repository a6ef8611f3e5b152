--------------------------- MODULE EvidenceProofs ---------------------------
(***************************************************************************)
(* What TransitionKernel knows of external effects, for every value of its *)
(* constants: evidence outlives every rollback, one approval serves one    *)
(* call, and nothing is sent while an earlier send is unknown.             *)
(***************************************************************************)
EXTENDS TransitionKernelProofs, FiniteSets, FiniteSetTheorems

-----------------------------------------------------------------------------
(* The inductive invariant.  Rows and approvals keep what happened outside *)
(* when no called row looks untouched, no row that was carried out looks   *)
(* as if it was not, and no spent approval can be spent again.             *)

Untouched == {"absent", "prepared"}

Carried == {"sending", "indeterminate", "succeeded", "reconciled_effect"}

Records(rows, approvals, called, carried, used) ==
    /\ \A i \in Intents : called[i] > 0 => rows[i] \notin Untouched
    /\ \A i \in carried : rows[i] \in Carried
    /\ \A a \in Approvals : used[a] > 0 => approvals[a] = "consumed"

Kept(rows, approvals) == Records(rows, approvals, calls, applied, spent)

\* The database keeps it, or else the evidence file of an open transition.
Durable ==
    /\ journal = NoFile \/ safety = NoFile => Kept(db.effects, db.approvals)
    /\ journal # NoFile /\ safety # NoFile => Kept(safety.effects, safety.approvals)

Rewinding == {"rollback_db", "rollback_chronicle", "rollback_workspace_out",
              "rollback_workspace_in", "rollback_reapply", "rollback_unlink"}

\* There is no evidence file while a transition runs; a rollback has one
\* before it rewinds the database, and has applied it before it unlinks.
Phases ==
    /\ pc \in Entering \cup InCycle \cup Accepting => safety = NoFile
    /\ pc = "rollback_write" =>
          safety = NoFile /\ Kept(guard.evidence.effects, guard.evidence.approvals)
    /\ pc \in Rewinding => safety = guard.evidence
    /\ pc = "rollback_unlink" => Kept(db.effects, db.approvals)

\* The row of the action in progress.
Attempt ==
    /\ \A i \in applied : calls[i] > 0
    /\ pc = "prepared" => db.effects[intent] = "prepared"
    /\ pc \in {"sending", "called"} => db.effects[intent] = "sending"
    /\ pc \in {"prepared", "sending"} => calls[intent] = 0

KeptInv == Durable /\ Phases /\ Attempt

-----------------------------------------------------------------------------
(* The operators of the ledger keep what happened.                         *)

LEMMA QuarantineKeeps ==
    ASSUME NEW c, NEW d \in SUBSET Intents, NEW u, NEW rows, NEW saved, NEW p,
           Records(rows, p, c, d, u)
    PROVE  Records(Quarantine(rows, saved), p, c, d, u)
  BY DEF Records, Quarantine, Untouched, Carried, CrossedStatuses

LEMMA ReapplyKeeps ==
    ASSUME NEW c, NEW d \in SUBSET Intents, NEW u, NEW rows, NEW saved, NEW p, NEW q,
           Records(saved, q, c, d, u)
    PROVE  Records(InsertOrReplace(rows, saved),
                   [a \in Approvals |-> IF q[a] = "none" THEN p[a] ELSE q[a]], c, d, u)
  BY DEF Records, InsertOrReplace, Untouched, Carried

LEMMA BootKeeps ==
    ASSUME NEW c, NEW d \in SUBSET Intents, NEW u, NEW rows, NEW p, Records(rows, p, c, d, u)
    PROVE  Records(RecoverInterrupted(rows), p, c, d, u)
  BY DEF Records, RecoverInterrupted, Untouched, Carried

\* A row that was never called may become anything; one that was, anything
\* that is true of it.
LEMMA RowKeeps ==
    ASSUME NEW c \in [Intents -> Nat], NEW d \in SUBSET Intents, NEW u, NEW rows \in Rows,
           NEW p, NEW i \in Intents, NEW s, Records(rows, p, c, d, u),
           c[i] = 0 \/ s \notin Untouched,
           i \in d => s \in Carried
    PROVE  Records([rows EXCEPT ![i] = s], p, c, d, u)
  BY DEF Records, Rows

\* The row of a call is no longer untouched, and says it may have been carried out.
LEMMA CallKeeps ==
    ASSUME NEW c \in [Intents -> Nat], NEW d \in SUBSET Intents, NEW u, NEW rows \in Rows,
           NEW p, NEW i \in Intents, Records(rows, p, c, d, u), rows[i] = "sending"
    PROVE  /\ Records(rows, p, [c EXCEPT ![i] = @ + 1], d, u)
           /\ Records(rows, p, [c EXCEPT ![i] = @ + 1], d \cup {i}, u)
  BY DEF Records, Rows, Untouched, Carried

\* An approval is granted before it was ever used, and consumed when it is.
LEMMA ApprovalKeeps ==
    ASSUME NEW c, NEW d, NEW u \in [Approvals -> Nat], NEW rows, NEW p \in ApprovalRows,
           NEW a \in Approvals, Records(rows, p, c, d, u)
    PROVE  /\ u[a] = 0 => \A s : Records(rows, [p EXCEPT ![a] = s], c, d, u)
           /\ Records(rows, [p EXCEPT ![a] = "consumed"], c, d, [u EXCEPT ![a] = @ + 1])
           /\ p[a] # "consumed" => u[a] = 0
  BY DEF Records, ApprovalRows

-----------------------------------------------------------------------------
(* The invariant is inductive.                                             *)

LEMMA KeptInit == Init => KeptInv
<1> SUFFICES ASSUME Init PROVE KeptInv
  OBVIOUS
<1>1. Records(db.effects, db.approvals, calls, applied, spent)
  BY DEF Init, Records
<1> QED
  BY <1>1 DEF Init, KeptInv, Durable, Phases, Attempt, Kept, Entering, InCycle, Accepting,
     Rewinding

\* Where the holder of the lock stands tells whether the journal exists.
LEMMA JournalByPhase ==
    ASSUME BarrierInv
    PROVE  /\ pc \in InCycle \cup {"accept_commit"} \cup (Rolling \ {"rollback_cleanup"})
                 => journal # NoFile
           /\ pc \in Entering \cup {"accept_backup", "accept_rest", "rollback_cleanup", "boot"}
                 => journal = NoFile
<1>1. PublishedJournal # NoFile
  BY PublishedType, JournalTypes DEF BarrierInv, TypeOK
<1> QED
  BY <1>1 DEF BarrierInv, JournalMatchesGuard

LEMMA LedgerShape ==
    ASSUME TypeOK
    PROVE  /\ db.effects \in Rows /\ db.approvals \in ApprovalRows
           /\ calls \in [Intents -> Nat] /\ applied \in SUBSET Intents
           /\ spent \in [Approvals -> Nat]
           /\ \A m : /\ [db EXCEPT !.mind = m].effects = db.effects
                     /\ [db EXCEPT !.mind = m].approvals = db.approvals
           /\ \A r : /\ [db EXCEPT !.effects = r].effects = r
                     /\ [db EXCEPT !.effects = r].approvals = db.approvals
           /\ \A r, m : /\ [db EXCEPT !.effects = r, !.mind = m].effects = r
                        /\ [db EXCEPT !.effects = r, !.mind = m].approvals = db.approvals
           /\ \A q : /\ [db EXCEPT !.approvals = q].approvals = q
                     /\ [db EXCEPT !.approvals = q].effects = db.effects
           /\ \A r, q : /\ [db EXCEPT !.effects = r, !.approvals = q].effects = r
                        /\ [db EXCEPT !.effects = r, !.approvals = q].approvals = q
           /\ \A e : [guard EXCEPT !.evidence = e].evidence = e
  BY DEF TypeOK, Databases, Guards

\* The guard, its copies and the run loop leave the ledger alone.
LEMMA KeptBesideLedger ==
    ASSUME BarrierInv, KeptInv, TypeOK',
           \/ EnterStep \/ Think \/ ChronicleAppend \/ WriteWorkspace \/ NoExternalAction
           \/ RefuseBlindRetry \/ AcceptStep \/ BootRecover \/ OtherRecover
           \/ EnterRaises \/ EnterRaisesPublished \/ CycleRaises \/ RollbackRaises
           \/ RunLoopWrite \/ Stop \/ Crash \/ UNCHANGED vars
    PROVE  KeptInv'
<1>l. TypeOK
  BY DEF BarrierInv
<1>s. /\ \A m : /\ [db EXCEPT !.mind = m].effects = db.effects
                /\ [db EXCEPT !.mind = m].approvals = db.approvals
  BY <1>l, LedgerShape
<1>j. /\ pc \in InCycle \cup {"accept_commit"} \cup (Rolling \ {"rollback_cleanup"})
            => journal # NoFile
      /\ pc \in Entering \cup {"accept_backup", "accept_rest", "rollback_cleanup", "boot"}
            => journal = NoFile
  BY JournalByPhase
<1> USE DEF KeptInv, Durable, Phases, Attempt, Kept, Entering, InCycle, Accepting, Rolling,
        Rewinding, Goto, Release, live, files, world, turn
<1>1. CASE EnterStep
  BY <1>1, <1>j DEF EnterStep, Enter, EnterBackup, EnterCheckpoint, EnterWorkspace, EnterJournal
<1>2. CASE Think
  BY <1>2, <1>j, <1>s DEF Think
<1>3. CASE ChronicleAppend \/ WriteWorkspace \/ NoExternalAction \/ RefuseBlindRetry
  BY <1>3, <1>j DEF ChronicleAppend, WriteWorkspace, NoExternalAction, RefuseBlindRetry
<1>4. CASE AcceptStep
  BY <1>4, <1>j DEF AcceptStep, AcceptCheck, AcceptCommit, AcceptRemoveBackup, AcceptRemoveRest
<1>5. CASE BootRecover
  BY <1>5, <1>j DEF BootRecover, Recover
<1>6. CASE OtherRecover
  BY <1>6, <1>j DEF OtherRecover, Recover
<1>7. CASE EnterRaises \/ EnterRaisesPublished
  BY <1>7, <1>j DEF EnterRaises, EnterRaisesPublished
<1>8. CASE CycleRaises \/ RollbackRaises
  BY <1>8, <1>j DEF CycleRaises, RollbackRaises
<1>9. CASE RunLoopWrite
  BY <1>9, <1>j, <1>s DEF RunLoopWrite
<1>10. CASE Stop \/ Crash
  BY <1>10, <1>j DEF Stop, Crash
<1>11. CASE UNCHANGED vars
  BY <1>11 DEF vars
<1> QED
  BY <1>1, <1>2, <1>3, <1>4, <1>5, <1>6, <1>7, <1>8, <1>9, <1>10, <1>11

\* The cycle's own writes to the ledger and to the approvals.
LEMMA KeptInAction ==
    ASSUME BarrierInv, KeptInv, TypeOK',
           \/ \E x \in Actions : AuthorizeAction(x)
           \/ \E i \in Intents : PrepareIntent(i)
           \/ MarkIntentSending \/ CloseWithoutEffect \/ CallAdapter \/ RecordAdapterResult
           \/ CallRaises
    PROVE  KeptInv'
<1>l. TypeOK
  BY DEF BarrierInv
<1>t. /\ db.effects \in Rows /\ db.approvals \in ApprovalRows
      /\ calls \in [Intents -> Nat] /\ applied \in SUBSET Intents
      /\ spent \in [Approvals -> Nat]
      /\ \A r : /\ [db EXCEPT !.effects = r].effects = r
                /\ [db EXCEPT !.effects = r].approvals = db.approvals
      /\ \A q : /\ [db EXCEPT !.approvals = q].approvals = q
                /\ [db EXCEPT !.approvals = q].effects = db.effects
  BY <1>l, LedgerShape
<1>c. pc \in InCycle => /\ journal # NoFile /\ safety = NoFile
                        /\ Records(db.effects, db.approvals, calls, applied, spent)
  BY JournalByPhase DEF KeptInv, Durable, Phases, Kept
<1>i. pc \in {"prepared", "sending", "called"} => intent \in Intents
  BY <1>l DEF TypeOK
<1>a. /\ \A i \in applied : calls[i] > 0
      /\ pc = "prepared" => db.effects[intent] = "prepared"
      /\ pc \in {"sending", "called"} => db.effects[intent] = "sending"
      /\ pc \in {"prepared", "sending"} => calls[intent] = 0
  BY DEF KeptInv, Attempt
\* It is enough that the new database keeps what happened.
<1>k. ASSUME Records(db'.effects, db'.approvals, calls', applied', spent'),
             safety' = NoFile, Attempt',
             pc' \in InCycle \cup {"rollback_read"}
      PROVE  KeptInv'
  BY <1>k DEF KeptInv, Durable, Phases, Kept, Entering, InCycle, Accepting, Rewinding
<1>row. ASSUME NEW i \in Intents, NEW s, calls[i] = 0 \/ s \notin Untouched,
               i \in applied => s \in Carried, pc \in InCycle
        PROVE  Records([db.effects EXCEPT ![i] = s], db.approvals, calls, applied, spent)
  BY <1>row, <1>t, <1>c, RowKeeps
<1>1. ASSUME NEW x \in Actions, AuthorizeAction(x) PROVE KeptInv'
  <2>1. pc = "cycle" /\ pc' = "authorized" /\ safety' = safety /\ pc \in InCycle
        /\ calls' = calls /\ applied' = applied
    BY <1>1 DEF AuthorizeAction, Goto, files, InCycle
  <2>2. Records(db'.effects, db'.approvals, calls', applied', spent')
    <3>1. CASE x \in ApprovalRequired
      <4>1. PICK a \in Approvals :
              /\ db' = [db EXCEPT !.approvals[a] = "consumed"]
              /\ spent' = [spent EXCEPT ![a] = @ + 1]
        BY <1>1, <3>1 DEF AuthorizeAction
      <4>2. db' = [db EXCEPT !.approvals = [db.approvals EXCEPT ![a] = "consumed"]]
        BY <4>1, <1>l DEF TypeOK, Databases
      <4>3. Records(db.effects, [db.approvals EXCEPT ![a] = "consumed"], calls, applied,
                    [spent EXCEPT ![a] = @ + 1])
        BY <2>1, <1>c, <1>t, ApprovalKeeps
      <4>4. /\ db'.effects = db.effects
            /\ db'.approvals = [db.approvals EXCEPT ![a] = "consumed"]
        BY <4>2, <1>t
      <4> QED
        BY <4>1, <4>3, <4>4, <2>1
    <3>2. CASE x \notin ApprovalRequired
      BY <1>1, <3>2, <2>1, <1>c DEF AuthorizeAction
    <3> QED
      BY <3>1, <3>2
  <2>3. Attempt'
    BY <2>1, <1>a DEF Attempt
  <2> QED
    BY <1>k, <2>1, <2>2, <2>3, <1>c DEF InCycle
<1>2. ASSUME NEW i \in Intents, PrepareIntent(i) PROVE KeptInv'
  <2>1. /\ pc = "authorized" /\ pc' = "prepared" /\ safety' = safety /\ pc \in InCycle
        /\ calls' = calls /\ applied' = applied /\ spent' = spent /\ intent' = i
        /\ Prepares(action, i)
        /\ db' = [db EXCEPT !.effects = [db.effects EXCEPT ![i] = "prepared"]]
    BY <1>2 DEF PrepareIntent, Goto, files, InCycle, world, Prepared
  <2>2. calls[i] = 0
    <3>1. db.effects[i] = "prepared" => calls[i] = 0
      BY <2>1, <1>c, <1>t DEF Records, Untouched
    <3> QED
      BY <2>1, <3>1 DEF Prepares, Reuses
  <2>3. i \notin applied
    BY <2>2, <1>a
  <2>4. Records([db.effects EXCEPT ![i] = "prepared"], db.approvals, calls, applied, spent)
    BY <2>1, <2>2, <2>3, <1>row
  <2>5. /\ db'.effects = [db.effects EXCEPT ![i] = "prepared"]
        /\ db'.approvals = db.approvals
    BY <2>1, <1>t
  <2>6. Attempt'
    BY <2>1, <2>2, <2>5, <1>a, <1>t DEF Attempt, Rows
  <2> QED
    BY <1>k, <2>1, <2>4, <2>5, <2>6, <1>c DEF InCycle
<1>3. CASE MarkIntentSending
  <2>1. /\ pc = "prepared" /\ pc' = "sending" /\ safety' = safety /\ pc \in InCycle
        /\ calls' = calls /\ applied' = applied /\ spent' = spent /\ intent' = intent
        /\ db' = [db EXCEPT !.effects = [db.effects EXCEPT ![intent] = "sending"]]
    BY <1>3 DEF MarkIntentSending, Goto, files, InCycle, world, turn, MarkSending
  <2>2. Records([db.effects EXCEPT ![intent] = "sending"], db.approvals, calls, applied, spent)
    BY <2>1, <1>i, <1>row DEF Untouched, Carried
  <2>3. /\ db'.effects = [db.effects EXCEPT ![intent] = "sending"]
        /\ db'.approvals = db.approvals
    BY <2>1, <1>t
  <2>4. Attempt'
    BY <2>1, <2>3, <1>a, <1>t, <1>i DEF Attempt, Rows
  <2> QED
    BY <1>k, <2>1, <2>2, <2>3, <2>4, <1>c DEF InCycle
<1>4. CASE CloseWithoutEffect
  <2>1. /\ pc = "sending" /\ pc' = "acted" /\ safety' = safety /\ pc \in InCycle
        /\ calls' = calls /\ applied' = applied /\ spent' = spent
        /\ db' = [db EXCEPT !.effects =
                    [db.effects EXCEPT ![intent] = "reconciled_no_effect"]]
    BY <1>4 DEF CloseWithoutEffect, FinishAction, RecordResult, ResultStatus, files, InCycle,
       world
  <2>2. intent \in Intents /\ intent \notin applied
    BY <2>1, <1>a, <1>i
  <2>3. Records([db.effects EXCEPT ![intent] = "reconciled_no_effect"], db.approvals, calls,
                applied, spent)
    BY <2>1, <2>2, <1>row DEF Untouched
  <2>4. /\ db'.effects = [db.effects EXCEPT ![intent] = "reconciled_no_effect"]
        /\ db'.approvals = db.approvals
    BY <2>1, <1>t
  <2>5. Attempt'
    BY <2>1, <1>a DEF Attempt
  <2> QED
    BY <1>k, <2>1, <2>3, <2>4, <2>5, <1>c DEF InCycle
<1>5. CASE CallAdapter
  <2>1. /\ pc = "sending" /\ pc' = "called" /\ safety' = safety /\ pc \in InCycle
        /\ calls' = [calls EXCEPT ![intent] = @ + 1] /\ spent' = spent /\ intent' = intent
        /\ (applied' = applied \/ applied' = applied \cup {intent})
        /\ db' = db
    BY <1>5 DEF CallAdapter, Goto, files, live, InCycle, turn
  <2>2. intent \in Intents /\ db.effects[intent] = "sending"
    BY <2>1, <1>a, <1>i
  <2>3. /\ Records(db.effects, db.approvals, [calls EXCEPT ![intent] = @ + 1], applied, spent)
        /\ Records(db.effects, db.approvals, [calls EXCEPT ![intent] = @ + 1],
                   applied \cup {intent}, spent)
    BY <2>1, <2>2, <1>c, <1>t, CallKeeps
  <2>4. Attempt'
    <3>1. \A i \in applied' : calls'[i] > 0
      BY <2>1, <2>2, <1>a, <1>t
    <3> QED
      BY <3>1, <2>1, <2>2 DEF Attempt
  <2> QED
    BY <1>k, <2>1, <2>3, <2>4, <1>c DEF InCycle
<1>6. CASE RecordAdapterResult
  <2>1. PICK ok \in BOOLEAN :
          /\ pc = "called" /\ pc' = "acted" /\ safety' = safety /\ pc \in InCycle
          /\ calls' = calls /\ applied' = applied /\ spent' = spent
          /\ db' = [db EXCEPT !.effects =
                      [db.effects EXCEPT ![intent] = ResultStatus(ok, FALSE)]]
    BY <1>6 DEF RecordAdapterResult, FinishAction, RecordResult, files, InCycle, world
  <2>2. ResultStatus(ok, FALSE) \notin Untouched /\ ResultStatus(ok, FALSE) \in Carried
    BY DEF ResultStatus, Untouched, Carried
  <2>3. Records([db.effects EXCEPT ![intent] = ResultStatus(ok, FALSE)], db.approvals, calls,
                applied, spent)
    BY <2>1, <2>2, <1>i, <1>row
  <2>4. /\ db'.effects = [db.effects EXCEPT ![intent] = ResultStatus(ok, FALSE)]
        /\ db'.approvals = db.approvals
    BY <2>1, <1>t
  <2>5. Attempt'
    BY <2>1, <1>a DEF Attempt
  <2> QED
    BY <1>k, <2>1, <2>3, <2>4, <2>5, <1>c DEF InCycle
<1>7. CASE CallRaises
  <2>1. /\ pc \in {"sending", "called"} /\ pc' = "rollback_read" /\ safety' = safety
        /\ pc \in InCycle /\ calls' = calls /\ applied' = applied /\ spent' = spent
        /\ db' = [db EXCEPT !.effects = MarkIndeterminate(db.effects, intent)]
    BY <1>7 DEF CallRaises, files, InCycle, world
  <2>2. MarkIndeterminate(db.effects, intent) = [db.effects EXCEPT ![intent] = "indeterminate"]
    BY <2>1, <1>a DEF MarkIndeterminate
  <2>3. Records([db.effects EXCEPT ![intent] = "indeterminate"], db.approvals, calls, applied,
                spent)
    BY <2>1, <1>i, <1>row DEF Untouched, Carried
  <2>4. /\ db'.effects = [db.effects EXCEPT ![intent] = "indeterminate"]
        /\ db'.approvals = db.approvals
    BY <2>1, <2>2, <1>t
  <2>5. Attempt'
    BY <2>1, <1>a DEF Attempt
  <2> QED
    BY <1>k, <2>1, <2>3, <2>4, <2>5, <1>c DEF InCycle
<1> QED
  BY <1>1, <1>2, <1>3, <1>4, <1>5, <1>6, <1>7

LEMMA KeptInRollback ==
    ASSUME BarrierInv, KeptInv, TypeOK', RollbackStep
    PROVE  KeptInv'
<1>l. TypeOK
  BY DEF BarrierInv
<1>t. /\ db.effects \in Rows /\ db.approvals \in ApprovalRows
      /\ calls \in [Intents -> Nat] /\ applied \in SUBSET Intents
      /\ spent \in [Approvals -> Nat]
      /\ \A r, q : /\ [db EXCEPT !.effects = r, !.approvals = q].effects = r
                   /\ [db EXCEPT !.effects = r, !.approvals = q].approvals = q
      /\ \A e : [guard EXCEPT !.evidence = e].evidence = e
  BY <1>l, LedgerShape
<1>j. /\ pc \in Rolling \ {"rollback_cleanup"} => journal # NoFile
      /\ pc = "rollback_cleanup" => journal = NoFile
  BY JournalByPhase
<1>g. pc \in Rolling \ {"rollback_read"} => guard.evidence # NoFile
  BY <1>l DEF TypeOK
<1>r. guard.resume \in {"free", "boot"}
  BY <1>l DEF TypeOK, Guards
\* The quarantined database keeps what happened while no evidence file does.
<1>e. safety = NoFile => Records(ExportedEvidence.effects, ExportedEvidence.approvals,
                                 calls, applied, spent)
  <2>1. safety = NoFile => Records(db.effects, db.approvals, calls, applied, spent)
    BY DEF KeptInv, Durable, Kept
  <2>2. ASSUME safety = NoFile, NEW before
        PROVE  Records(Quarantine(db.effects, before), db.approvals, calls, applied, spent)
    BY <2>1, <2>2, <1>t, QuarantineKeeps
  <2> QED
    BY <2>2 DEF ExportedEvidence
<1>b. Attempt'
  <2>1. /\ calls' = calls /\ applied' = applied
        /\ pc' \in Rolling \cup {"free", "boot"}
    BY <1>r DEF RollbackStep, RollbackRead, ExportEvidence, RollbackWriteSafety, RollbackDatabase,
       RollbackChronicle, RollbackWorkspaceOut, RollbackWorkspaceIn, RollbackReapply,
       RollbackUnlinkJournal, RollbackCleanup, Goto, Rolling, world
  <2> QED
    BY <2>1 DEF KeptInv, Attempt, Rolling, world
<1> USE DEF KeptInv, Durable, Phases, Kept, Entering, InCycle, Accepting, Rolling, Rewinding,
        Goto, live, files, world, turn
<1>1. CASE RollbackRead
  <2>1. CASE safety # NoFile
    BY <1>1, <2>1, <1>b, <1>j, <1>t DEF RollbackRead
  <2>2. CASE safety = NoFile
    <3>1. guard'.evidence = ExportedEvidence
      BY <1>1, <2>2, <1>t DEF RollbackRead, ExportEvidence
    <3> QED
      BY <1>1, <2>2, <3>1, <1>b, <1>e DEF RollbackRead, ExportEvidence
  <2> QED
    BY <2>1, <2>2
<1>2. CASE RollbackWriteSafety
  BY <1>2, <1>b, <1>j, <1>g DEF RollbackWriteSafety
<1>3. CASE RollbackDatabase
  BY <1>3, <1>b, <1>j, <1>g DEF RollbackDatabase
<1>4. CASE RollbackChronicle
  BY <1>4, <1>b, <1>j, <1>g DEF RollbackChronicle
<1>5. CASE RollbackWorkspaceOut
  <2>1. guard'.evidence = guard.evidence
    BY <1>5, <1>l DEF RollbackWorkspaceOut, TypeOK, Guards
  <2> QED
    BY <1>5, <2>1, <1>b, <1>j, <1>g DEF RollbackWorkspaceOut
<1>6. CASE RollbackWorkspaceIn
  <2>1. guard'.evidence = guard.evidence
    BY <1>6, <1>l DEF RollbackWorkspaceIn, TypeOK, Guards
  <2> QED
    BY <1>6, <2>1, <1>b, <1>j, <1>g DEF RollbackWorkspaceIn
<1>7. CASE RollbackReapply
  <2> DEFINE e == guard.evidence
             q == [a \in Approvals |-> IF e.approvals[a] = "none" THEN db.approvals[a]
                                       ELSE e.approvals[a]]
  <2>1. Records(e.effects, e.approvals, calls, applied, spent)
    BY <1>7, <1>j, <1>g DEF RollbackReapply
  <2>2. Records(InsertOrReplace(db.effects, e.effects), q, calls, applied, spent)
    BY <2>1, <1>t, ReapplyKeeps
  <2>3. db' = [db EXCEPT !.effects = InsertOrReplace(db.effects, e.effects), !.approvals = q]
    BY <1>7 DEF RollbackReapply
  <2>4. db'.effects = InsertOrReplace(db.effects, e.effects) /\ db'.approvals = q
    BY <2>3, <1>t
  <2>5. Records(db'.effects, db'.approvals, calls', applied', spent')
    BY <2>2, <2>4, <1>7 DEF RollbackReapply
  <2> HIDE DEF e, q
  <2> QED
    BY <1>7, <2>5, <1>b, <1>j, <1>g DEF RollbackReapply
<1>8. CASE RollbackUnlinkJournal
  BY <1>8, <1>b, <1>j, <1>g DEF RollbackUnlinkJournal
<1>9. CASE RollbackCleanup
  BY <1>9, <1>b, <1>j, <1>r DEF RollbackCleanup
<1> QED
  BY <1>1, <1>2, <1>3, <1>4, <1>5, <1>6, <1>7, <1>8, <1>9 DEF RollbackStep

\* The boot closes interrupted sends, and the operator decides.
LEMMA KeptOutside ==
    ASSUME BarrierInv, KeptInv, TypeOK',
           \/ BootLedger
           \/ \E a \in Approvals : ApproveOnce(a)
           \/ \E i \in Intents : ReconcileEffect(i)
    PROVE  KeptInv'
<1>l. TypeOK
  BY DEF BarrierInv
<1>t. /\ db.effects \in Rows /\ db.approvals \in ApprovalRows
      /\ calls \in [Intents -> Nat] /\ applied \in SUBSET Intents
      /\ spent \in [Approvals -> Nat]
      /\ \A r : /\ [db EXCEPT !.effects = r].effects = r
                /\ [db EXCEPT !.effects = r].approvals = db.approvals
      /\ \A r, m : /\ [db EXCEPT !.effects = r, !.mind = m].effects = r
                   /\ [db EXCEPT !.effects = r, !.mind = m].approvals = db.approvals
      /\ \A q : /\ [db EXCEPT !.approvals = q].approvals = q
                /\ [db EXCEPT !.approvals = q].effects = db.effects
  BY <1>l, LedgerShape
<1>i. pc \in {"prepared", "sending", "called"} => intent \in Intents
  BY <1>l DEF TypeOK
\* A change of the database that keeps what happened wherever it did before.
<1>k. ASSUME Records(db.effects, db.approvals, calls, applied, spent)
                => Records(db'.effects, db'.approvals, calls, applied, spent),
             Attempt', UNCHANGED <<journal, safety, guard, world>>, pc' = pc
      PROVE  KeptInv'
  BY <1>k DEF KeptInv, Durable, Phases, Kept, world
<1>1. CASE BootLedger
  <2>1. pc = "boot" /\ pc' = "free" /\ UNCHANGED <<safety, journal, world>>
    BY <1>1 DEF BootLedger, Release, files
  <2>2. journal = NoFile
    BY <2>1, JournalByPhase
  <2>3. PICK d \in Data :
          db' = [db EXCEPT !.effects = RecoverInterrupted(db.effects), !.mind = d]
    BY <1>1 DEF BootLedger
  <2>4. Records(RecoverInterrupted(db.effects), db.approvals, calls, applied, spent)
    BY <2>2, <1>t, BootKeeps DEF KeptInv, Durable, Kept
  <2>5. /\ db'.effects = RecoverInterrupted(db.effects)
        /\ db'.approvals = db.approvals
    BY <2>3, <1>t
  <2>6. Attempt'
    BY <2>1 DEF KeptInv, Attempt, world
  <2> QED
    BY <2>1, <2>2, <2>4, <2>5, <2>6
    DEF KeptInv, Durable, Phases, Kept, Entering, InCycle, Accepting, Rewinding, world
<1>2. ASSUME NEW a \in Approvals, ApproveOnce(a) PROVE KeptInv'
  <2>1. /\ pc = "free" /\ pc' = pc /\ spent[a] = 0
        /\ UNCHANGED <<journal, safety, guard, world, intent>>
        /\ db' = [db EXCEPT !.approvals[a] = "granted"]
    BY <1>2 DEF ApproveOnce, files, turn
  <2>2. db' = [db EXCEPT !.approvals = [db.approvals EXCEPT ![a] = "granted"]]
    BY <2>1, <1>l DEF TypeOK, Databases
  <2>3. /\ db'.effects = db.effects
        /\ db'.approvals = [db.approvals EXCEPT ![a] = "granted"]
    BY <2>2, <1>t
  <2>4. ASSUME Records(db.effects, db.approvals, calls, applied, spent)
        PROVE  Records(db.effects, [db.approvals EXCEPT ![a] = "granted"], calls, applied, spent)
    BY <2>1, <2>4, <1>t, ApprovalKeeps
  <2>5. Attempt'
    BY <2>1 DEF KeptInv, Attempt, world
  <2> QED
    BY <1>k, <2>1, <2>3, <2>4, <2>5
<1>3. ASSUME NEW i \in Intents, ReconcileEffect(i) PROVE KeptInv'
  <2> DEFINE s == IF i \in applied THEN "reconciled_effect" ELSE "reconciled_no_effect"
  <2>1. /\ pc' = pc /\ db.effects[i] = "indeterminate"
        /\ UNCHANGED <<journal, safety, guard, world, intent>>
        /\ db' = [db EXCEPT !.effects = [db.effects EXCEPT ![i] = s]]
    BY <1>3 DEF ReconcileEffect, files, turn, Reconcile
  <2>2. /\ db'.effects = [db.effects EXCEPT ![i] = s]
        /\ db'.approvals = db.approvals
    BY <2>1, <1>t
  <2>3. ASSUME Records(db.effects, db.approvals, calls, applied, spent)
        PROVE  Records([db.effects EXCEPT ![i] = s], db.approvals, calls, applied, spent)
    <3>1. s \notin Untouched /\ (i \in applied => s \in Carried)
      BY DEF Untouched, Carried
    <3> HIDE DEF s
    <3> QED
      BY <2>3, <3>1, <1>t, RowKeeps
  <2>4. Attempt'
    <3>1. pc \in {"prepared", "sending", "called"} => intent # i
      BY <2>1 DEF KeptInv, Attempt
    <3>2. pc \in {"prepared", "sending", "called"} =>
             [db.effects EXCEPT ![i] = s][intent] = db.effects[intent]
      BY <3>1, <1>i, <1>t DEF Rows
    <3> HIDE DEF s
    <3> QED
      BY <2>1, <2>2, <3>2 DEF KeptInv, Attempt, world
  <2> HIDE DEF s
  <2> QED
    BY <1>k, <2>1, <2>2, <2>3, <2>4
<1> QED
  BY <1>1, <1>2, <1>3

LEMMA KeptStep == BarrierInv /\ KeptInv /\ [Next]_vars => KeptInv'
<1> SUFFICES ASSUME BarrierInv, KeptInv, [Next]_vars PROVE KeptInv'
  OBVIOUS
<1>1. TypeOK'
  BY TypeStep DEF BarrierInv
<1> QED
  BY <1>1, KeptBesideLedger, KeptInAction, KeptInRollback, KeptOutside
  DEF Next, EffectStep, Raise, Outside

LEMMA KeptInvariant == Spec => []KeptInv
<1>1. Init => KeptInv
  BY KeptInit
<1>2. BarrierInv /\ KeptInv /\ [Next]_vars => KeptInv'
  BY KeptStep
<1>3. Spec => []BarrierInv
  BY BarrierCorrect
<1> QED
  BY <1>1, <1>2, <1>3, PTL DEF Spec

-----------------------------------------------------------------------------
(* Theorems.                                                               *)

\* A row whose intent reached its adapter is in the ledger a rollback would
\* leave, and does not read as if nothing had happened, however many crashes
\* and interrupted rollbacks there were (transition_kernel._rollback_locked).
THEOREM EvidenceKeptHolds == Spec => []EvidenceKept
<1>1. KeptInv => EvidenceKept
  <2> SUFFICES ASSUME KeptInv, NEW i \in Intents, calls[i] > 0
      PROVE  DurableEffects[i] \notin {"absent", "prepared"}
    BY DEF EvidenceKept
  <2>1. CASE journal # NoFile /\ safety # NoFile
    BY <2>1 DEF KeptInv, Durable, Kept, Records, Untouched, DurableEffects, InsertOrReplace
  <2>2. CASE journal = NoFile \/ safety = NoFile
    BY <2>2 DEF KeptInv, Durable, Kept, Records, Untouched, DurableEffects
  <2> QED
    BY <2>1, <2>2
<1> QED
  BY <1>1, KeptInvariant, PTL

-----------------------------------------------------------------------------
(* One approval serves one call: the approvals spent on an action outnumber *)
(* its called rows while an authorized attempt has not been sent.          *)

CalledFor(x, called) == {i \in Intents : ActionOf[i] = x /\ called[i] > 0}

SpentOn(x, used) == {a \in Approvals : ApprovalFor[a] = x /\ used[a] > 0}

InFlight(x, where, act, row) ==
    \/ where = "authorized" /\ act = x
    \/ where \in {"prepared", "sending"} /\ ActionOf[row] = x

Counting(called, used, where, act, row) ==
    \A x \in ApprovalRequired :
        /\ Cardinality(CalledFor(x, called)) <= Cardinality(SpentOn(x, used))
        /\ InFlight(x, where, act, row) =>
              Cardinality(CalledFor(x, called)) < Cardinality(SpentOn(x, used))

CountingInv == Counting(calls, spent, pc, action, intent)

LEMMA CountsAreNaturals ==
    ASSUME IsFiniteSet(Intents), IsFiniteSet(Approvals), NEW c, NEW u, NEW x
    PROVE  /\ IsFiniteSet(CalledFor(x, c)) /\ Cardinality(CalledFor(x, c)) \in Nat
           /\ IsFiniteSet(SpentOn(x, u)) /\ Cardinality(SpentOn(x, u)) \in Nat
<1>1. CalledFor(x, c) \subseteq Intents /\ SpentOn(x, u) \subseteq Approvals
  BY DEF CalledFor, SpentOn
<1>2. IsFiniteSet(CalledFor(x, c)) /\ IsFiniteSet(SpentOn(x, u))
  BY <1>1, FS_Subset
<1> QED
  BY <1>2, FS_CardinalityType

\* A fresh approval spent on x is one more for x, and for no other action.
LEMMA SpendCounts ==
    ASSUME IsFiniteSet(Approvals), NEW u \in [Approvals -> Nat], NEW a \in Approvals,
           u[a] = 0
    PROVE  LET v == [u EXCEPT ![a] = @ + 1]
           IN  /\ Cardinality(SpentOn(ApprovalFor[a], v))
                    = Cardinality(SpentOn(ApprovalFor[a], u)) + 1
               /\ \A x : x # ApprovalFor[a] => SpentOn(x, v) = SpentOn(x, u)
<1> DEFINE v == [u EXCEPT ![a] = @ + 1]
<1>1. v[a] > 0 /\ \A b \in Approvals : b # a => v[b] = u[b]
  OBVIOUS
<1>2. SpentOn(ApprovalFor[a], v) = SpentOn(ApprovalFor[a], u) \cup {a}
  BY <1>1 DEF SpentOn
<1>3. a \notin SpentOn(ApprovalFor[a], u)
  BY DEF SpentOn
<1>4. IsFiniteSet(SpentOn(ApprovalFor[a], u))
  <2>1. SpentOn(ApprovalFor[a], u) \subseteq Approvals
    BY DEF SpentOn
  <2> QED
    BY <2>1, FS_Subset
<1>5. \A x : x # ApprovalFor[a] => SpentOn(x, v) = SpentOn(x, u)
  BY <1>1 DEF SpentOn
<1>6. Cardinality(SpentOn(ApprovalFor[a], v)) = Cardinality(SpentOn(ApprovalFor[a], u)) + 1
  BY <1>2, <1>3, <1>4, FS_AddElement
<1> QED
  BY <1>5, <1>6

\* A call adds at most one called row, of its own action.
LEMMA CallCounts ==
    ASSUME IsFiniteSet(Intents), NEW c \in [Intents -> Nat], NEW i \in Intents, c[i] = 0
    PROVE  LET d == [c EXCEPT ![i] = @ + 1]
           IN  /\ Cardinality(CalledFor(ActionOf[i], d))
                    = Cardinality(CalledFor(ActionOf[i], c)) + 1
               /\ \A x : x # ActionOf[i] => CalledFor(x, d) = CalledFor(x, c)
<1> DEFINE d == [c EXCEPT ![i] = @ + 1]
<1>1. d[i] > 0 /\ \A j \in Intents : j # i => d[j] = c[j]
  OBVIOUS
<1>2. CalledFor(ActionOf[i], d) = CalledFor(ActionOf[i], c) \cup {i}
  BY <1>1 DEF CalledFor
<1>3. i \notin CalledFor(ActionOf[i], c)
  BY DEF CalledFor
<1>4. IsFiniteSet(CalledFor(ActionOf[i], c))
  <2>1. CalledFor(ActionOf[i], c) \subseteq Intents
    BY DEF CalledFor
  <2> QED
    BY <2>1, FS_Subset
<1>5. \A x : x # ActionOf[i] => CalledFor(x, d) = CalledFor(x, c)
  BY <1>1 DEF CalledFor
<1>6. Cardinality(CalledFor(ActionOf[i], d)) = Cardinality(CalledFor(ActionOf[i], c)) + 1
  BY <1>2, <1>3, <1>4, FS_AddElement
<1> QED
  BY <1>5, <1>6

\* Every step but an authorization and a call leaves the counts, and puts no
\* other attempt in flight.
LEMMA CountsElse ==
    ASSUME TypeOK, [Next]_vars,
           ~\E x \in Actions : AuthorizeAction(x), ~CallAdapter
    PROVE  /\ calls' = calls /\ spent' = spent
           /\ \A x : InFlight(x, pc', action', intent') => InFlight(x, pc, action, intent)
<1>r. guard.resume \in {"free", "boot"}
  BY DEF TypeOK, Guards
<1> USE DEF InFlight, Goto, Release, world, turn
<1>1. CASE EnterStep
  BY <1>1 DEF EnterStep, Enter, EnterBackup, EnterCheckpoint, EnterWorkspace, EnterJournal
<1>2. CASE Think \/ ChronicleAppend \/ WriteWorkspace
  BY <1>2 DEF Think, ChronicleAppend, WriteWorkspace
<1>3. CASE \E i \in Intents : PrepareIntent(i)
  BY <1>3 DEF PrepareIntent, Prepares, Reuses, Inserts, UnresolvedFor, MatchingUnresolved
<1>4. CASE NoExternalAction \/ RefuseBlindRetry \/ MarkIntentSending
  BY <1>4 DEF NoExternalAction, RefuseBlindRetry, MarkIntentSending
<1>5. CASE CloseWithoutEffect \/ RecordAdapterResult
  BY <1>5 DEF CloseWithoutEffect, RecordAdapterResult, FinishAction
<1>6. CASE AcceptStep
  BY <1>6 DEF AcceptStep, AcceptCheck, AcceptCommit, AcceptRemoveBackup, AcceptRemoveRest
<1>7. CASE RollbackStep
  BY <1>7, <1>r DEF RollbackStep, RollbackRead, ExportEvidence, RollbackWriteSafety, RollbackDatabase,
     RollbackChronicle, RollbackWorkspaceOut, RollbackWorkspaceIn, RollbackReapply,
     RollbackUnlinkJournal, RollbackCleanup
<1>8. CASE BootRecover \/ OtherRecover \/ BootLedger
  BY <1>8 DEF BootRecover, OtherRecover, Recover, BootLedger
<1>9. CASE Raise
  BY <1>9 DEF Raise, EnterRaises, EnterRaisesPublished, CallRaises, CycleRaises, RollbackRaises
<1>10. CASE Outside
  BY <1>10 DEF Outside, RunLoopWrite, Stop, Crash, ApproveOnce, ReconcileEffect
<1>11. CASE UNCHANGED vars
  BY <1>11 DEF vars
<1> QED
  BY <1>1, <1>2, <1>3, <1>4, <1>5, <1>6, <1>7, <1>8, <1>9, <1>10, <1>11 DEF Next, EffectStep

LEMMA CountingStep ==
    ASSUME IsFiniteSet(Intents), IsFiniteSet(Approvals), BarrierInv, KeptInv, CountingInv,
           [Next]_vars
    PROVE  CountingInv'
<1>l. TypeOK
  BY DEF BarrierInv
<1>t. /\ db.approvals \in ApprovalRows /\ calls \in [Intents -> Nat]
      /\ spent \in [Approvals -> Nat]
  BY <1>l, LedgerShape
<1>f. \A x, c, u : /\ Cardinality(CalledFor(x, c)) \in Nat
                   /\ Cardinality(SpentOn(x, u)) \in Nat
  BY CountsAreNaturals
<1>1. ASSUME NEW y \in Actions, AuthorizeAction(y) PROVE CountingInv'
  <2>1. pc = "cycle" /\ pc' = "authorized" /\ action' = y /\ calls' = calls
    BY <1>1 DEF AuthorizeAction, Goto
  <2>2. Records(db.effects, db.approvals, calls, applied, spent)
    BY <2>1 DEF KeptInv, Durable, Phases, Kept, InCycle
  <2>3. CASE y \in ApprovalRequired
    <3>1. PICK a \in Approvals :
            /\ ApprovalFor[a] = y /\ db.approvals[a] = "granted"
            /\ spent' = [spent EXCEPT ![a] = @ + 1]
      BY <1>1, <2>3 DEF AuthorizeAction
    <3>2. spent[a] = 0
      BY <3>1, <2>2, <1>t DEF Records
    <3>3. /\ Cardinality(SpentOn(y, spent')) = Cardinality(SpentOn(y, spent)) + 1
          /\ \A x : x # y => SpentOn(x, spent') = SpentOn(x, spent)
      <4>1. /\ Cardinality(SpentOn(ApprovalFor[a], [spent EXCEPT ![a] = @ + 1]))
                 = Cardinality(SpentOn(ApprovalFor[a], spent)) + 1
            /\ \A x : x # ApprovalFor[a] =>
                  SpentOn(x, [spent EXCEPT ![a] = @ + 1]) = SpentOn(x, spent)
        BY <3>2, <1>t, SpendCounts
      <4> QED
        BY <3>1, <4>1
    <3>4. SUFFICES ASSUME NEW x \in ApprovalRequired
                   PROVE  /\ Cardinality(CalledFor(x, calls)) <= Cardinality(SpentOn(x, spent'))
                          /\ x = y => Cardinality(CalledFor(x, calls))
                                        < Cardinality(SpentOn(x, spent'))
      BY <2>1, <3>4 DEF CountingInv, Counting, InFlight
    <3>5. Cardinality(CalledFor(x, calls)) <= Cardinality(SpentOn(x, spent))
      BY DEF CountingInv, Counting
    <3>6. /\ Cardinality(CalledFor(x, calls)) \in Nat /\ Cardinality(SpentOn(x, spent)) \in Nat
          /\ Cardinality(SpentOn(x, spent')) \in Nat
      BY <1>f
    <3>7. CASE x = y
      BY <3>3, <3>5, <3>6, <3>7
    <3>8. CASE x # y
      BY <3>3, <3>5, <3>8
    <3> QED
      BY <3>7, <3>8
  <2>4. CASE y \notin ApprovalRequired
    <3>1. spent' = spent
      BY <1>1, <2>4 DEF AuthorizeAction
    <3> QED
      BY <2>1, <2>4, <3>1 DEF CountingInv, Counting, InFlight
  <2> QED
    BY <2>3, <2>4
<1>2. CASE CallAdapter
  <2>1. /\ pc = "sending" /\ pc' = "called" /\ intent \in Intents /\ spent' = spent
        /\ calls' = [calls EXCEPT ![intent] = @ + 1]
    BY <1>2, <1>l DEF CallAdapter, Goto, TypeOK
  <2>2. calls[intent] = 0
    BY <2>1 DEF KeptInv, Attempt
  <2>3. /\ Cardinality(CalledFor(ActionOf[intent], calls'))
             = Cardinality(CalledFor(ActionOf[intent], calls)) + 1
        /\ \A x : x # ActionOf[intent] => CalledFor(x, calls') = CalledFor(x, calls)
    BY <2>1, <2>2, <1>t, CallCounts
  <2>4. SUFFICES ASSUME NEW x \in ApprovalRequired
                 PROVE  Cardinality(CalledFor(x, calls')) <= Cardinality(SpentOn(x, spent))
    BY <2>1 DEF CountingInv, Counting, InFlight
  <2>5. /\ Cardinality(CalledFor(x, calls)) \in Nat /\ Cardinality(SpentOn(x, spent)) \in Nat
        /\ Cardinality(CalledFor(x, calls')) \in Nat
    BY <1>f
  <2>6. CASE x = ActionOf[intent]
    <3>1. Cardinality(CalledFor(x, calls)) < Cardinality(SpentOn(x, spent))
      BY <2>1, <2>6 DEF CountingInv, Counting, InFlight
    <3> QED
      BY <2>3, <2>5, <2>6, <3>1
  <2>7. CASE x # ActionOf[intent]
    BY <2>3, <2>7 DEF CountingInv, Counting
  <2> QED
    BY <2>6, <2>7
<1>3. CASE ~(\E x \in Actions : AuthorizeAction(x)) /\ ~CallAdapter
  BY <1>3, <1>l, CountsElse DEF CountingInv, Counting
<1> QED
  BY <1>1, <1>2, <1>3

\* Whatever crashes and rollbacks there are, an action that needs approval has
\* no more called rows than approvals spent on it: the evidence of a
\* rolled-back attempt consumes its approval again (continuity_runtime._owner_action_stage,
\* transition_kernel._rollback_locked).
THEOREM OneApprovalOneCallHolds ==
    ASSUME IsFiniteSet(Intents), IsFiniteSet(Approvals)
    PROVE  Spec => []OneApprovalOneCall
<1>1. Init => CountingInv
  <2> SUFFICES ASSUME Init PROVE CountingInv
    OBVIOUS
  <2>1. \A x : CalledFor(x, calls) = {} /\ SpentOn(x, spent) = {}
    BY DEF Init, CalledFor, SpentOn
  <2>2. Cardinality({}) = 0
    BY FS_EmptySet
  <2>3. pc = "free"
    BY DEF Init
  <2> QED
    BY <2>1, <2>2, <2>3 DEF CountingInv, Counting, InFlight
<1>2. BarrierInv /\ KeptInv /\ CountingInv /\ [Next]_vars => CountingInv'
  BY CountingStep
<1>3. CountingInv => OneApprovalOneCall
  BY DEF CountingInv, Counting, OneApprovalOneCall, CalledFor, SpentOn
<1> QED
  BY <1>1, <1>2, <1>3, BarrierCorrect, KeptInvariant, PTL DEF Spec

-----------------------------------------------------------------------------
(* No blind retry: of two unresolved rows of one action, the older is one  *)
(* whose reconciliation a rollback took back.  It holds of the ledger a    *)
(* rollback would leave as much as of the database, with reconcile-effect  *)
(* at any moment.                                                          *)

Single(rows, excused) ==
    \A i, j \in Intents :
        rows[i] \in UnresolvedStatuses /\ rows[j] \in UnresolvedStatuses
            /\ ActionOf[i] = ActionOf[j] /\ j < i => j \in excused

Covers(saved, rows) == \A i \in Intents : saved[i] = "absent" => rows[i] = "absent"

\* The rows differ from the copy by verdicts of the operator only.
Settled(rows, copy) ==
    \A i \in Intents :
        \/ rows[i] = copy[i]
        \/ copy[i] = "indeterminate" /\ rows[i] \in {"reconciled_effect", "reconciled_no_effect"}

\* No matching row newer than i is unresolved, and of those a rollback would
\* leave unresolved every older one is excused, or else i is.
Newest(rows, copy, i, excused) ==
    \A j \in Intents \ {i} :
        ActionOf[j] = ActionOf[i] =>
            /\ rows[j] \in UnresolvedStatuses => j < i
            /\ Quarantine(rows, copy)[j] \in UnresolvedStatuses =>
                  IF j < i THEN j \in excused \cup Reopens(rows, copy) ELSE i \in excused

\* A rollback that starts now would leave no blind retry.
Exportable(rows, copy, excused) ==
    /\ Single(Quarantine(rows, copy), excused \cup Reopens(rows, copy))
    /\ Covers(rows, copy)

Rests ==
    /\ journal = NoFile => Single(db.effects, reopened)
    /\ journal # NoFile => Single(backup.effects, reopened)
    /\ journal # NoFile /\ safety = NoFile => Exportable(db.effects, backup.effects, reopened)
    /\ journal # NoFile /\ safety # NoFile =>
          /\ Single(safety.effects, reopened)
          /\ Covers(safety.effects, db.effects) /\ Covers(safety.effects, backup.effects)

Running ==
    /\ pc \in Entering \ {"enter_backup"} => Single(backup.effects, reopened)
    /\ pc \in (Entering \ {"enter_backup"}) \cup {"cycle", "authorized"}
          => Settled(db.effects, backup.effects)
    /\ pc \in {"prepared", "sending", "called"} =>
          Newest(db.effects, backup.effects, intent, reopened)
    /\ pc = "rollback_write" =>
          /\ Single(guard.evidence.effects, reopened)
          /\ Covers(guard.evidence.effects, db.effects)
          /\ Covers(guard.evidence.effects, backup.effects)
    /\ pc = "rollback_unlink" => Single(db.effects, reopened)

UniqueInv == Rests /\ Running

LEMMA SettledSelf == ASSUME NEW rows PROVE Settled(rows, rows)
  BY DEF Settled

LEMMA SingleFewer ==
    ASSUME NEW rows, NEW fewer, NEW excused, Single(rows, excused),
           \A i \in Intents : fewer[i] \in UnresolvedStatuses => rows[i] \in UnresolvedStatuses
    PROVE  Single(fewer, excused)
  BY DEF Single

\* What a quarantine makes of a row.
LEMMA QuarantineRow ==
    ASSUME NEW rows, NEW copy
    PROVE  /\ \A i \in Intents :
                 /\ rows[i] \in UnresolvedStatuses =>
                       /\ Quarantine(rows, copy)[i] \in UnresolvedStatuses
                       /\ i \notin Reopens(rows, copy)
                 /\ Quarantine(rows, copy)[i] \in UnresolvedStatuses =>
                       \/ rows[i] \in UnresolvedStatuses
                       \/ rows[i] # copy[i] /\ rows[i] \in {"succeeded", "reconciled_effect"}
                 /\ Quarantine(rows, copy)[i] = "absent" => rows[i] = "absent"
                 /\ i \in Reopens(rows, copy) <=>
                       rows[i] = "reconciled_effect" /\ rows[i] # copy[i]
           /\ Reopens(rows, Quarantine(rows, copy)) = Reopens(rows, copy)
           /\ Covers(rows, copy) => Covers(Quarantine(rows, copy), rows)
                                       /\ Covers(Quarantine(rows, copy), copy)
<1>1. \A i \in Intents :
        /\ rows[i] \in UnresolvedStatuses =>
              /\ Quarantine(rows, copy)[i] \in UnresolvedStatuses
              /\ i \notin Reopens(rows, copy)
        /\ Quarantine(rows, copy)[i] \in UnresolvedStatuses =>
              \/ rows[i] \in UnresolvedStatuses
              \/ rows[i] # copy[i] /\ rows[i] \in {"succeeded", "reconciled_effect"}
        /\ Quarantine(rows, copy)[i] = "absent" => rows[i] = "absent"
        /\ i \in Reopens(rows, copy) <=> rows[i] = "reconciled_effect" /\ rows[i] # copy[i]
  BY DEF Quarantine, UnresolvedStatuses, CrossedStatuses, Reopens
<1>2. Reopens(rows, Quarantine(rows, copy)) = Reopens(rows, copy)
  BY DEF Quarantine, CrossedStatuses, Reopens
<1>3. Covers(rows, copy) => Covers(Quarantine(rows, copy), rows)
                               /\ Covers(Quarantine(rows, copy), copy)
  BY <1>1 DEF Covers
<1> QED
  BY <1>1, <1>2, <1>3

\* accept() keeps the rows as they are: what is unresolved was not observed.
LEMMA AcceptSingle ==
    ASSUME NEW rows, NEW copy, NEW excused, Exportable(rows, copy, excused)
    PROVE  Single(rows, excused)
<1>1. \A i \in Intents :
        rows[i] \in UnresolvedStatuses => /\ Quarantine(rows, copy)[i] \in UnresolvedStatuses
                                          /\ i \notin Reopens(rows, copy)
  BY QuarantineRow
<1> QED
  BY <1>1 DEF Exportable, Single

\* A ledger at rest, with a fresh copy and verdicts given since.
LEMMA SettledExportable ==
    ASSUME NEW rows, NEW copy, NEW excused, Settled(rows, copy), Single(copy, excused)
    PROVE  Exportable(rows, copy, excused)
<1>1. \A i \in Intents : Quarantine(rows, copy)[i] \in UnresolvedStatuses =>
                            copy[i] \in UnresolvedStatuses
  BY DEF Settled, Quarantine, UnresolvedStatuses, CrossedStatuses
<1>2. Single(Quarantine(rows, copy), excused)
  BY <1>1, SingleFewer
<1>3. Single(Quarantine(rows, copy), excused \cup Reopens(rows, copy))
  BY <1>2 DEF Single
<1>4. Covers(rows, copy)
  BY DEF Settled, Covers
<1> QED
  BY <1>3, <1>4 DEF Exportable

\* Whatever becomes of the row in progress, it stays the newest.
LEMMA WriteExportable ==
    ASSUME NEW rows \in Rows, NEW copy, NEW excused, NEW i \in Intents, NEW s, s # "absent",
           Newest(rows, copy, i, excused), Exportable(rows, copy, excused)
    PROVE  LET new == [rows EXCEPT ![i] = s]
           IN  Newest(new, copy, i, excused) /\ Exportable(new, copy, excused)
<1> DEFINE new == [rows EXCEPT ![i] = s]
<1>1. new[i] = s /\ \A j \in Intents \ {i} : new[j] = rows[j]
  BY DEF Rows
<1> HIDE DEF new
<1>2. \A j \in Intents \ {i} : /\ Quarantine(new, copy)[j] = Quarantine(rows, copy)[j]
                               /\ j \in Reopens(new, copy) <=> j \in Reopens(rows, copy)
  BY <1>1 DEF Quarantine, Reopens
<1>3. Newest(new, copy, i, excused)
  BY <1>1, <1>2 DEF Newest
<1>4. Single(Quarantine(new, copy), excused \cup Reopens(new, copy))
  <2> SUFFICES ASSUME NEW k \in Intents, NEW j \in Intents, ActionOf[k] = ActionOf[j], j < k,
                      Quarantine(new, copy)[k] \in UnresolvedStatuses,
                      Quarantine(new, copy)[j] \in UnresolvedStatuses
               PROVE  j \in excused \cup Reopens(new, copy)
    BY DEF Single
  <2>0. Intents \subseteq Nat
    BY LedgerAssumption
  <2>1. CASE k = i
    <3>1. j # i
      BY <2>0, <2>1
    <3> QED
      BY <2>1, <3>1, <1>3 DEF Newest
  <2>2. CASE j = i
    <3>1. k # i /\ ~(k < i)
      BY <2>0, <2>2
    <3> QED
      BY <2>2, <3>1, <1>3 DEF Newest
  <2>3. CASE k # i /\ j # i
    BY <2>3, <1>2 DEF Exportable, Single
  <2> QED
    BY <2>1, <2>2, <2>3
<1>5. Covers(new, copy)
  BY <1>1 DEF Exportable, Covers
<1> QED
  BY <1>3, <1>4, <1>5 DEF Exportable, new

\* A verdict of the operator, given at any moment.
LEMMA ReconcileSingle ==
    ASSUME NEW rows \in Rows, NEW i \in Intents, NEW seen, NEW excused,
           rows[i] = "indeterminate"
    PROVE  LET new == Reconcile(rows, i, seen)
           IN  /\ Single(rows, excused) => Single(new, excused)
               /\ \A copy :
                     /\ Exportable(rows, copy, excused) => Exportable(new, copy, excused)
                     /\ Covers(copy, rows) => Covers(copy, new)
                     /\ Settled(rows, copy) => Settled(new, copy)
                     /\ \A k \in Intents \ {i} :
                           Newest(rows, copy, k, excused) => Newest(new, copy, k, excused)
<1> DEFINE new == Reconcile(rows, i, seen)
<1>1. /\ new[i] \in {"reconciled_effect", "reconciled_no_effect"}
      /\ \A j \in Intents \ {i} : new[j] = rows[j]
  BY DEF Rows, Reconcile
<1> HIDE DEF new
<1>2. \A j \in Intents : new[j] \in UnresolvedStatuses => rows[j] \in UnresolvedStatuses
  BY <1>1 DEF UnresolvedStatuses
<1>3. ASSUME NEW copy, NEW j \in Intents
      PROVE  /\ Quarantine(new, copy)[j] \in UnresolvedStatuses =>
                   Quarantine(rows, copy)[j] \in UnresolvedStatuses
             /\ j \in Reopens(rows, copy) => j \in Reopens(new, copy)
  <2>1. CASE j = i
    BY <2>1 DEF Quarantine, UnresolvedStatuses, CrossedStatuses, Reopens
  <2>2. CASE j # i
    BY <1>1, <2>2 DEF Quarantine, Reopens
  <2> QED
    BY <2>1, <2>2
<1>4. \A j \in Intents : new[j] = "absent" <=> rows[j] = "absent"
  BY <1>1
<1>5. Single(rows, excused) => Single(new, excused)
  BY <1>2, SingleFewer
<1>6. ASSUME NEW copy, Exportable(rows, copy, excused) PROVE Exportable(new, copy, excused)
  <2>1. Covers(new, copy)
    BY <1>6, <1>4 DEF Exportable, Covers
  <2>2. Single(Quarantine(new, copy), excused \cup Reopens(new, copy))
    BY <1>6, <1>3 DEF Exportable, Single
  <2> QED
    BY <2>1, <2>2 DEF Exportable
<1>7. ASSUME NEW copy, NEW k \in Intents \ {i}, Newest(rows, copy, k, excused)
      PROVE  Newest(new, copy, k, excused)
  BY <1>7, <1>2, <1>3 DEF Newest
<1>8. ASSUME NEW copy, Settled(rows, copy) PROVE Settled(new, copy)
  BY <1>8, <1>1 DEF Settled
<1>9. ASSUME NEW copy, Covers(copy, rows) PROVE Covers(copy, new)
  BY <1>9, <1>4 DEF Covers
<1> QED
  BY <1>5, <1>6, <1>7, <1>8, <1>9 DEF new

LEMMA ReapplySingle ==
    ASSUME NEW rows, NEW saved, NEW excused, Covers(saved, rows), Single(saved, excused)
    PROVE  /\ Single(InsertOrReplace(rows, saved), excused)
           /\ Covers(saved, InsertOrReplace(rows, saved))
<1>1. \A i \in Intents : InsertOrReplace(rows, saved)[i] = saved[i]
  BY DEF Covers, InsertOrReplace
<1> QED
  BY <1>1 DEF Single, Covers

LEMMA BootSingle ==
    ASSUME NEW rows, NEW excused, Single(rows, excused)
    PROVE  Single(RecoverInterrupted(rows), excused)
<1>1. \A i \in Intents : RecoverInterrupted(rows)[i] \in UnresolvedStatuses =>
                            rows[i] \in UnresolvedStatuses
  BY DEF RecoverInterrupted, UnresolvedStatuses
<1> QED
  BY <1>1, SingleFewer

LEMMA UniqueInit == Init => UniqueInv
<1> SUFFICES ASSUME Init PROVE UniqueInv
  OBVIOUS
<1>1. Single(db.effects, reopened)
  BY DEF Init, Single, NoEvidence, UnresolvedStatuses
<1> QED
  BY <1>1 DEF Init, UniqueInv, Rests, Running, Entering

LEMMA UniqueBesideLedger ==
    ASSUME BarrierInv, KeptInv, UniqueInv,
           \/ EnterStep \/ Think \/ ChronicleAppend \/ WriteWorkspace \/ NoExternalAction
           \/ RefuseBlindRetry \/ AcceptStep \/ BootRecover \/ OtherRecover
           \/ EnterRaises \/ EnterRaisesPublished \/ CycleRaises \/ RollbackRaises
           \/ RunLoopWrite \/ Stop \/ Crash \/ UNCHANGED vars
    PROVE  UniqueInv'
<1>s. \A m : [db EXCEPT !.mind = m].effects = db.effects
  BY LedgerShape DEF BarrierInv
<1>j. /\ pc \in InCycle \cup {"accept_commit"} \cup (Rolling \ {"rollback_cleanup"})
            => journal # NoFile
      /\ pc \in Entering \cup {"accept_backup", "accept_rest", "rollback_cleanup", "boot"}
            => journal = NoFile
  BY JournalByPhase
<1>k. pc \in Entering \cup InCycle \cup Accepting => safety = NoFile
  BY DEF KeptInv, Phases
<1>e. Settled(db.effects, db.effects)
  BY SettledSelf
<1>q. Exportable(db.effects, backup.effects, reopened) => Single(db.effects, reopened)
  BY AcceptSingle
<1> USE DEF UniqueInv, Rests, Running, Entering, InCycle, Accepting, Rolling, Goto, Release,
        live, files, world, turn
<1>1. CASE Enter \/ EnterBackup \/ EnterCheckpoint \/ EnterWorkspace
  BY <1>1, <1>j, <1>e DEF Enter, EnterBackup, EnterCheckpoint, EnterWorkspace
<1>2. CASE EnterJournal \/ EnterRaisesPublished
  <2>1. /\ pc = "enter_journal" /\ pc' \in {"cycle", "free"}
        /\ UNCHANGED <<db, backup, safety, reopened>>
    BY <1>2 DEF EnterJournal, EnterRaisesPublished
  <2>2. /\ Settled(db.effects, backup.effects) /\ Single(backup.effects, reopened)
        /\ Single(db.effects, reopened) /\ safety = NoFile
    BY <2>1, <1>j, <1>k
  <2>3. Exportable(db.effects, backup.effects, reopened)
    BY <2>2, SettledExportable
  <2> QED
    BY <2>1, <2>2, <2>3
<1>3. CASE Think \/ RunLoopWrite
  <2>0. PICK d \in Data : db' = [db EXCEPT !.mind = d]
    BY <1>3 DEF Think, RunLoopWrite
  <2>1. db'.effects = db.effects
    BY <2>0, <1>s
  <2> QED
    BY <1>3, <2>1, <1>j DEF Think, RunLoopWrite
<1>4. CASE ChronicleAppend \/ WriteWorkspace \/ NoExternalAction \/ RefuseBlindRetry
  BY <1>4, <1>j DEF ChronicleAppend, WriteWorkspace, NoExternalAction, RefuseBlindRetry
<1>5. CASE AcceptCommit
  BY <1>5, <1>j, <1>k, <1>q DEF AcceptCommit
<1>6. CASE AcceptCheck \/ AcceptRemoveBackup \/ AcceptRemoveRest
  BY <1>6, <1>j DEF AcceptCheck, AcceptRemoveBackup, AcceptRemoveRest
<1>7. CASE BootRecover
  BY <1>7, <1>j DEF BootRecover, Recover
<1>8. CASE OtherRecover
  BY <1>8, <1>j DEF OtherRecover, Recover
<1>9. CASE EnterRaises
  BY <1>9, <1>j DEF EnterRaises
<1>10. CASE CycleRaises \/ RollbackRaises
  BY <1>10, <1>j DEF CycleRaises, RollbackRaises
<1>11. CASE Stop \/ Crash
  BY <1>11, <1>j DEF Stop, Crash
<1>12. CASE UNCHANGED vars
  BY <1>12 DEF vars
<1> QED
  BY <1>1, <1>2, <1>3, <1>4, <1>5, <1>6, <1>7, <1>8, <1>9, <1>10, <1>11, <1>12
  DEF EnterStep, AcceptStep

\* The row prepare() hands out is the newest, also for a rollback.
LEMMA PreparesNewest ==
    ASSUME NEW rows, NEW copy, NEW excused, NEW x, NEW i \in Intents,
           Reuses(rows, x, i) \/ Inserts(rows, x, i),
           Settled(rows, copy), Exportable(rows, copy, excused)
    PROVE  Newest(rows, copy, i, excused)
<1>n. Intents \subseteq Nat
  BY LedgerAssumption
<1> SUFFICES ASSUME NEW j \in Intents \ {i}, ActionOf[j] = ActionOf[i]
             PROVE  /\ rows[j] \in UnresolvedStatuses => j < i
                    /\ Quarantine(rows, copy)[j] \in UnresolvedStatuses =>
                          IF j < i THEN j \in excused \cup Reopens(rows, copy)
                          ELSE i \in excused
  BY DEF Newest
<1>q. /\ rows[i] \in UnresolvedStatuses =>
            /\ Quarantine(rows, copy)[i] \in UnresolvedStatuses
            /\ i \notin Reopens(rows, copy)
      /\ Quarantine(rows, copy)[j] \in UnresolvedStatuses =>
            \/ rows[j] \in UnresolvedStatuses
            \/ rows[j] # copy[j] /\ rows[j] \in {"succeeded", "reconciled_effect"}
      /\ j \in Reopens(rows, copy) <=> rows[j] = "reconciled_effect" /\ rows[j] # copy[j]
  BY QuarantineRow
<1>1. CASE Reuses(rows, x, i)
  <2>1. /\ rows[i] \in UnresolvedStatuses
        /\ rows[j] \in UnresolvedStatuses => j <= i
    BY <1>1 DEF Reuses, UnresolvedFor, MatchingUnresolved
  <2>2. j < i \/ i < j
    BY <1>n
  <2>3. rows[j] \in UnresolvedStatuses => j < i
    BY <2>1, <2>2, <1>n
  <2>4. ASSUME Quarantine(rows, copy)[j] \in UnresolvedStatuses
        PROVE  /\ j < i => j \in excused \cup Reopens(rows, copy)
               /\ i < j => i \in excused \cup Reopens(rows, copy)
    BY <2>1, <2>4, <1>q DEF Exportable, Single
  <2> QED
    BY <2>1, <2>2, <2>3, <2>4, <1>q, <1>n
<1>2. CASE Inserts(rows, x, i)
  <2>1. rows[j] \notin UnresolvedStatuses /\ (j >= i => rows[j] = "absent")
    BY <1>2 DEF Inserts, MatchingUnresolved
  <2>2. ASSUME Quarantine(rows, copy)[j] \in UnresolvedStatuses
        PROVE  rows[j] = "reconciled_effect" /\ rows[j] # copy[j]
    BY <2>1, <2>2, <1>q DEF Settled
  <2>3. Quarantine(rows, copy)[j] \in UnresolvedStatuses => j < i
    BY <2>1, <2>2, <1>n
  <2> QED
    BY <2>1, <2>2, <2>3, <1>q
<1> QED
  BY <1>1, <1>2

LEMMA UniqueInAction ==
    ASSUME BarrierInv, KeptInv, UniqueInv,
           \/ \E x \in Actions : AuthorizeAction(x)
           \/ \E i \in Intents : PrepareIntent(i)
           \/ MarkIntentSending \/ CloseWithoutEffect \/ CallAdapter \/ RecordAdapterResult
           \/ CallRaises
    PROVE  UniqueInv'
<1>l. TypeOK
  BY DEF BarrierInv
<1>t. /\ db.effects \in Rows
      /\ \A r : [db EXCEPT !.effects = r].effects = r
      /\ \A q : [db EXCEPT !.approvals = q].effects = db.effects
  BY <1>l, LedgerShape
<1>c. pc \in InCycle => /\ journal # NoFile /\ safety = NoFile
                        /\ Single(backup.effects, reopened)
                        /\ Exportable(db.effects, backup.effects, reopened)
  BY JournalByPhase DEF KeptInv, Phases, UniqueInv, Rests
<1>i. pc \in {"prepared", "sending", "called"} =>
         intent \in Intents /\ Newest(db.effects, backup.effects, intent, reopened)
  BY <1>l DEF TypeOK, UniqueInv, Running
<1>p. pc \in {"prepared", "sending", "called"} => db.effects[intent] \in {"prepared", "sending"}
  BY DEF KeptInv, Attempt
\* Writing the row in progress, before and after the call.
<1>row. ASSUME NEW i \in Intents, NEW s, s # "absent", pc \in InCycle,
               Newest(db.effects, backup.effects, i, reopened),
               db' = [db EXCEPT !.effects = [db.effects EXCEPT ![i] = s]],
               UNCHANGED <<backup, journal, safety, reopened>>,
               \/ pc' \in {"prepared", "sending", "called"} /\ intent' = i
               \/ pc' \in {"acted", "rollback_read"}
        PROVE  UniqueInv'
  <2> DEFINE new == [db.effects EXCEPT ![i] = s]
  <2>1. db'.effects = new
    BY <1>row, <1>t
  <2>2. Newest(new, backup.effects, i, reopened) /\ Exportable(new, backup.effects, reopened)
    BY <1>row, <1>c, <1>t, WriteExportable
  <2> HIDE DEF new
  <2> QED
    BY <1>row, <1>c, <2>1, <2>2 DEF UniqueInv, Rests, Running, Entering
<1>1. ASSUME NEW x \in Actions, AuthorizeAction(x) PROVE UniqueInv'
  <2>1. /\ pc = "cycle" /\ pc' = "authorized" /\ pc \in InCycle
        /\ UNCHANGED <<backup, journal, safety, reopened>>
    BY <1>1 DEF AuthorizeAction, Goto, files, InCycle
  <2>2. db'.effects = db.effects
    <3>1. CASE x \in ApprovalRequired
      <4>1. PICK a \in Approvals : db' = [db EXCEPT !.approvals[a] = "consumed"]
        BY <1>1, <3>1 DEF AuthorizeAction
      <4>2. db' = [db EXCEPT !.approvals = [db.approvals EXCEPT ![a] = "consumed"]]
        BY <4>1, <1>l DEF TypeOK, Databases
      <4> QED
        BY <4>2, <1>t
    <3>2. CASE x \notin ApprovalRequired
      BY <1>1, <3>2 DEF AuthorizeAction
    <3> QED
      BY <3>1, <3>2
  <2>3. Settled(db.effects, backup.effects)
    BY <2>1 DEF UniqueInv, Running
  <2> QED
    BY <2>1, <2>2, <2>3, <1>c DEF UniqueInv, Rests, Running, Entering
<1>2. ASSUME NEW i \in Intents, PrepareIntent(i) PROVE UniqueInv'
  <2>1. /\ pc = "authorized" /\ pc' = "prepared" /\ pc \in InCycle /\ intent' = i
        /\ UNCHANGED <<backup, journal, safety, reopened>>
        /\ (Reuses(db.effects, action, i) \/ Inserts(db.effects, action, i))
        /\ db' = [db EXCEPT !.effects = [db.effects EXCEPT ![i] = "prepared"]]
    BY <1>2 DEF PrepareIntent, Goto, files, world, InCycle, Prepares, Prepared
  <2>2. Settled(db.effects, backup.effects)
    BY <2>1 DEF UniqueInv, Running
  <2>3. Newest(db.effects, backup.effects, i, reopened)
    BY <2>1, <2>2, <1>c, PreparesNewest
  <2> QED
    BY <2>1, <2>3, <1>row
<1>3. CASE MarkIntentSending
  BY <1>3, <1>i, <1>row DEF MarkIntentSending, Goto, files, world, turn, MarkSending,
     InCycle
<1>4. CASE CloseWithoutEffect
  BY <1>4, <1>i, <1>row DEF CloseWithoutEffect, FinishAction, RecordResult, ResultStatus, files,
     world, InCycle
<1>5. CASE CallAdapter
  <2>1. /\ pc = "sending" /\ pc' = "called" /\ intent' = intent /\ pc \in InCycle
        /\ UNCHANGED <<db, backup, journal, safety, reopened>>
    BY <1>5 DEF CallAdapter, Goto, files, live, turn, InCycle
  <2> QED
    BY <2>1, <1>c, <1>i DEF UniqueInv, Rests, Running, Entering
<1>6. CASE RecordAdapterResult
  <2>1. PICK ok \in BOOLEAN :
          /\ pc = "called" /\ pc' = "acted" /\ UNCHANGED <<backup, journal, safety, reopened>>
          /\ db' = [db EXCEPT !.effects =
                      [db.effects EXCEPT ![intent] = ResultStatus(ok, FALSE)]]
    BY <1>6 DEF RecordAdapterResult, FinishAction, RecordResult, files, world
  <2>2. ResultStatus(ok, FALSE) # "absent"
    BY DEF ResultStatus
  <2>3. pc \in InCycle
    BY <2>1 DEF InCycle
  <2> QED
    BY <2>1, <2>2, <2>3, <1>i, <1>row
<1>7. CASE CallRaises
  <2>1. /\ pc \in {"sending", "called"} /\ pc' = "rollback_read"
        /\ UNCHANGED <<backup, journal, safety, reopened>>
        /\ db' = [db EXCEPT !.effects = MarkIndeterminate(db.effects, intent)]
    BY <1>7 DEF CallRaises, files, world
  <2>2. MarkIndeterminate(db.effects, intent) = [db.effects EXCEPT ![intent] = "indeterminate"]
    BY <2>1, <1>p DEF MarkIndeterminate
  <2>3. pc \in InCycle
    BY <2>1 DEF InCycle
  <2> QED
    BY <2>1, <2>2, <2>3, <1>i, <1>row
<1> QED
  BY <1>1, <1>2, <1>3, <1>4, <1>5, <1>6, <1>7

LEMMA UniqueInRollback ==
    ASSUME BarrierInv, KeptInv, UniqueInv, RollbackStep
    PROVE  UniqueInv'
<1>l. TypeOK
  BY DEF BarrierInv
<1>t. /\ \A r, q : [db EXCEPT !.effects = r, !.approvals = q].effects = r
      /\ \A e : [guard EXCEPT !.evidence = e].evidence = e
  BY <1>l, LedgerShape
<1>j. /\ pc \in Rolling \ {"rollback_cleanup"} => journal # NoFile
      /\ pc = "rollback_cleanup" => journal = NoFile
  BY JournalByPhase
<1>b. journal # NoFile => backup # NoFile
  BY DEF BarrierInv, AlwaysRecoverable
<1>g. pc \in Rolling \ {"rollback_read"} => guard.evidence # NoFile
  BY <1>l DEF TypeOK
<1>h. pc \in Rewinding => safety = guard.evidence
  BY DEF KeptInv, Phases
<1>w. pc = "rollback_write" => safety = NoFile
  BY DEF KeptInv, Phases
<1>r. guard.resume \in {"free", "boot"}
  BY <1>l DEF TypeOK, Guards
<1> USE DEF UniqueInv, Rests, Running, Entering, Rolling, Rewinding, Goto, live, files, world,
        turn
<1>1. CASE RollbackRead
  <2>1. CASE safety # NoFile
    BY <1>1, <2>1, <1>j, <1>t DEF RollbackRead
  <2>2. CASE safety = NoFile
    <3>1. /\ guard'.evidence = ExportedEvidence /\ pc' = "rollback_write"
          /\ reopened' = reopened \cup Reopens(db.effects, ExportedEvidence.effects)
          /\ UNCHANGED <<db, backup, journal, safety>> /\ journal # NoFile
      BY <1>1, <2>2, <1>t, <1>j DEF RollbackRead, ExportEvidence
    <3>2. ExportedEvidence.effects = Quarantine(db.effects, backup.effects)
      BY <3>1, <1>b DEF ExportedEvidence
    <3>3. reopened' = reopened \cup Reopens(db.effects, backup.effects)
      BY <3>1, <3>2, QuarantineRow
    <3>4. Exportable(db.effects, backup.effects, reopened)
      BY <3>1, <2>2
    <3>5. /\ Single(Quarantine(db.effects, backup.effects), reopened')
          /\ Covers(Quarantine(db.effects, backup.effects), db.effects)
          /\ Covers(Quarantine(db.effects, backup.effects), backup.effects)
      BY <3>3, <3>4, QuarantineRow DEF Exportable
    <3>6. /\ Exportable(db.effects, backup.effects, reopened')
          /\ Single(backup.effects, reopened')
      BY <3>1, <3>3, <3>4 DEF Exportable, Single
    <3> QED
      BY <3>1, <3>2, <3>5, <3>6, <2>2
  <2> QED
    BY <2>1, <2>2
<1>2. CASE RollbackWriteSafety
  BY <1>2, <1>j, <1>g, <1>w DEF RollbackWriteSafety
<1>3. CASE RollbackDatabase
  BY <1>3, <1>j, <1>g, <1>h DEF RollbackDatabase
<1>4. CASE RollbackChronicle
  BY <1>4, <1>j, <1>g DEF RollbackChronicle
<1>5. CASE RollbackWorkspaceOut
  BY <1>5, <1>j, <1>g DEF RollbackWorkspaceOut
<1>6. CASE RollbackWorkspaceIn
  BY <1>6, <1>j, <1>g DEF RollbackWorkspaceIn
<1>7. CASE RollbackReapply
  <2>1. PICK q :
          db' = [db EXCEPT !.effects = InsertOrReplace(db.effects, guard.evidence.effects),
                           !.approvals = q]
    BY <1>7 DEF RollbackReapply
  <2>2. db'.effects = InsertOrReplace(db.effects, safety.effects)
    BY <2>1, <1>t, <1>7, <1>h DEF RollbackReapply
  <2>3. /\ Single(safety.effects, reopened) /\ Covers(safety.effects, db.effects)
        /\ journal # NoFile /\ safety # NoFile
    BY <1>7, <1>j, <1>g, <1>h DEF RollbackReapply
  <2>4. Single(db'.effects, reopened) /\ Covers(safety.effects, db'.effects)
    BY <2>2, <2>3, ReapplySingle
  <2> QED
    BY <1>7, <2>3, <2>4 DEF RollbackReapply
<1>8. CASE RollbackUnlinkJournal
  BY <1>8, <1>j, <1>g DEF RollbackUnlinkJournal
<1>9. CASE RollbackCleanup
  BY <1>9, <1>j, <1>r DEF RollbackCleanup
<1> QED
  BY <1>1, <1>2, <1>3, <1>4, <1>5, <1>6, <1>7, <1>8, <1>9 DEF RollbackStep

LEMMA UniqueOutside ==
    ASSUME BarrierInv, KeptInv, UniqueInv,
           \/ BootLedger
           \/ \E a \in Approvals : ApproveOnce(a)
           \/ \E i \in Intents : ReconcileEffect(i)
    PROVE  UniqueInv'
<1>l. TypeOK
  BY DEF BarrierInv
<1>t. /\ db.effects \in Rows
      /\ \A r : [db EXCEPT !.effects = r].effects = r
      /\ \A r, m : [db EXCEPT !.effects = r, !.mind = m].effects = r
      /\ \A q : [db EXCEPT !.approvals = q].effects = db.effects
  BY <1>l, LedgerShape
<1>1. CASE BootLedger
  <2>1. /\ pc = "boot" /\ pc' = "free" /\ UNCHANGED <<safety, journal, reopened>>
    BY <1>1 DEF BootLedger, Release, files, world
  <2>2. PICK d \in Data :
          db' = [db EXCEPT !.effects = RecoverInterrupted(db.effects), !.mind = d]
    BY <1>1 DEF BootLedger
  <2>3. journal = NoFile
    BY <2>1, JournalByPhase
  <2>4. Single(RecoverInterrupted(db.effects), reopened)
    BY <2>3, BootSingle DEF UniqueInv, Rests
  <2>5. db'.effects = RecoverInterrupted(db.effects)
    BY <2>2, <1>t
  <2> QED
    BY <2>1, <2>3, <2>4, <2>5 DEF UniqueInv, Rests, Running, Entering
<1>2. ASSUME NEW a \in Approvals, ApproveOnce(a) PROVE UniqueInv'
  <2>1. /\ pc = "free" /\ pc' = pc /\ UNCHANGED <<backup, journal, safety, reopened>>
        /\ db' = [db EXCEPT !.approvals[a] = "granted"]
    BY <1>2 DEF ApproveOnce, files, world
  <2>2. db' = [db EXCEPT !.approvals = [db.approvals EXCEPT ![a] = "granted"]]
    BY <2>1, <1>l DEF TypeOK, Databases
  <2>3. db'.effects = db.effects
    BY <2>2, <1>t
  <2> QED
    BY <2>1, <2>3 DEF UniqueInv, Rests, Running, Entering
<1>3. ASSUME NEW i \in Intents, ReconcileEffect(i) PROVE UniqueInv'
  <2>1. /\ pc' = pc
        /\ UNCHANGED <<backup, journal, safety, guard, intent, reopened>>
        /\ db.effects[i] = "indeterminate"
        /\ db' = [db EXCEPT !.effects = Reconcile(db.effects, i, i \in applied)]
    BY <1>3 DEF ReconcileEffect, files, turn, world
  <2>2. pc \in {"prepared", "sending", "called"} => intent \in Intents \ {i}
    BY <2>1, <1>l DEF KeptInv, Attempt, TypeOK
  <2> DEFINE new == Reconcile(db.effects, i, i \in applied)
  <2>3. db'.effects = new
    BY <2>1, <1>t
  <2>4. /\ Single(db.effects, reopened) => Single(new, reopened)
        /\ \A copy :
              /\ Exportable(db.effects, copy, reopened) => Exportable(new, copy, reopened)
              /\ Covers(copy, db.effects) => Covers(copy, new)
              /\ Settled(db.effects, copy) => Settled(new, copy)
              /\ \A k \in Intents \ {i} :
                    Newest(db.effects, copy, k, reopened) => Newest(new, copy, k, reopened)
    BY <2>1, <1>t, ReconcileSingle
  <2> HIDE DEF new
  <2>5. Rests'
    BY <2>1, <2>3, <2>4 DEF UniqueInv, Rests
  <2>6. Running'
    BY <2>1, <2>2, <2>3, <2>4 DEF UniqueInv, Running
  <2> QED
    BY <2>5, <2>6 DEF UniqueInv
<1> QED
  BY <1>1, <1>2, <1>3

LEMMA UniqueStep ==
    ASSUME BarrierInv, KeptInv, UniqueInv, [Next]_vars
    PROVE  UniqueInv'
  BY UniqueBesideLedger, UniqueInAction, UniqueInRollback, UniqueOutside
  DEF Next, EffectStep, Raise, Outside

\* Only a call changes what was called.
LEMMA CallsOnlyByAdapter ==
    ASSUME TypeOK, [Next]_vars, ~CallAdapter
    PROVE  calls' = calls
<1>1. ASSUME NEW x \in Actions, AuthorizeAction(x) PROVE calls' = calls
  BY <1>1 DEF AuthorizeAction
<1> QED
  BY <1>1, CountsElse

\* An adapter is called only when every matching effect the remote side
\* carried out is recorded as such, for any number of rows, actions, crashes
\* and interrupted rollbacks, and with reconcile-effect at any moment of them
\* (external_effects.prepare).  Excused are the effects whose reconciliation,
\* given while a transition was open, its rollback took back.
THEOREM NoBlindRetryHolds == Spec => NoBlindRetry
<1>1. Init => UniqueInv
  BY UniqueInit
<1>2. BarrierInv /\ KeptInv /\ UniqueInv /\ [Next]_vars => UniqueInv'
  BY UniqueStep
<1>3. ASSUME BarrierInv, KeptInv, UniqueInv, [Next]_vars
      PROVE  [\A i \in Intents : calls'[i] # calls[i] =>
                \A j \in applied \ reopened :
                    ActionOf[j] = ActionOf[i] =>
                        db.effects[j] \in {"succeeded", "reconciled_effect"}]_vars
  <2>l. TypeOK
    BY <1>3 DEF BarrierInv
  <2> SUFFICES ASSUME NEW i \in Intents, calls'[i] # calls[i],
                      NEW j \in applied \ reopened, ActionOf[j] = ActionOf[i]
               PROVE  db.effects[j] \in {"succeeded", "reconciled_effect"}
    OBVIOUS
  <2>1. CallAdapter
    BY <2>l, <1>3, CallsOnlyByAdapter
  <2>2. /\ pc = "sending" /\ calls' = [calls EXCEPT ![intent] = @ + 1]
        /\ intent \in Intents /\ calls \in [Intents -> Nat] /\ j \in Intents
    BY <2>1, <2>l DEF CallAdapter, Goto, TypeOK
  <2>3. i = intent
    BY <2>2
  <2>4. j # intent
    BY <2>2, <1>3 DEF KeptInv, Attempt
  <2>5. db.effects[j] \in Carried
    BY <2>2, <1>3 DEF KeptInv, Durable, Phases, Kept, Records, InCycle
  <2>6. db.effects[j] \notin UnresolvedStatuses
    <3>1. Newest(db.effects, backup.effects, intent, reopened)
      BY <2>2, <1>3 DEF UniqueInv, Running
    <3>2. ASSUME db.effects[j] \in UnresolvedStatuses PROVE FALSE
      <4>1. /\ Quarantine(db.effects, backup.effects)[j] \in UnresolvedStatuses
            /\ j \notin Reopens(db.effects, backup.effects)
        BY <2>2, <3>2, QuarantineRow
      <4> QED
        BY <2>2, <2>3, <2>4, <3>1, <3>2, <4>1 DEF Newest
    <3> QED
      BY <3>2
  <2> QED
    BY <2>5, <2>6 DEF Carried, UnresolvedStatuses
<1>4. Spec => []BarrierInv
  BY BarrierCorrect
<1>5. Spec => []KeptInv
  BY KeptInvariant
<1> QED
  BY <1>1, <1>2, <1>3, <1>4, <1>5, PTL DEF Spec, NoBlindRetry
=============================================================================
