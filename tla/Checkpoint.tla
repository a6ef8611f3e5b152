----------------------------- MODULE Checkpoint -----------------------------
(***************************************************************************)
(* Authenticated checkpoints of one state directory (elia/checkpoint.py):  *)
(* export publishes an archive, then the checkpoint metadata inside the    *)
(* database, then the anchor file, under a publish journal; restore stages *)
(* a verified replacement and swaps whole directories under a restore      *)
(* journal.  Both run under the organism writer lock and may die between   *)
(* any two durable steps; every command that opens the directory first     *)
(* recovers an interrupted restore.  Neither export nor restore asks for   *)
(* an unfinished transition, and an export overwrites what stood at its    *)
(* destination.                                                            *)
(*                                                                         *)
(* An archive is named by its digest, here its index in archives; 0 is     *)
(* "no checkpoint".  Cryptography, file trees and limits are abstracted:   *)
(* an archive is what was captured.  The accepted transition appears with  *)
(* the durable states a checkpoint command can find it in; TransitionKernel*)
(* has all of its steps.                                                   *)
(***************************************************************************)
EXTENDS Naturals, Sequences, FiniteSets

CONSTANTS Minds,          \* contents of cognition
          Approvals,      \* one-time approvals, all granted by the owner
          NoFile,         \* "this path does not exist"
          Places,         \* paths an export is given; auto-checkpoint has one
          MaxArchives,    \* bound: archives ever made
          MaxForks,       \* bound: archives made on other machines
          MaxFaults       \* bound: crashes and exceptions

ASSUME CheckpointAssumption ==
    MaxArchives \in Nat /\ MaxForks \in Nat /\ MaxFaults \in Nat

Digests == 0..MaxArchives

\* External truth: human_approvals, and the evidence of the calls they paid for.
Truths == [approvals : [Approvals -> {"granted", "consumed"}], sent : SUBSET Approvals]

\* memory.sqlite3; head is checkpoint_counter and checkpoint_digest in meta.
Databases == [mind : Minds, truth : Truths, head : Digests]

\* A state directory: database, anchor file, and of transition-kernel/ the
\* database copy (present as long as the journal) and the evidence file.
Dirs == [db : Databases, anchor : Digests,
         backup : Databases \cup {NoFile}, safety : Truths \cup {NoFile}]

\* place: its destination; an archive made on another machine has none here.
Archives == [counter : Nat \ {0}, previous : Digests, place : Places \cup {NoFile},
             db : Databases]

RestoreJournals == [status : {"prepared", "old_moved", "new_moved"}, hadOriginal : BOOLEAN]

ASSUME NoFileAssumption ==
    NoFile \notin Databases \cup Truths \cup Dirs \cup RestoreJournals \cup Places

\* archive: what stood at the path a restore was given; place: where to export.
Goals == [op : {"open", "export", "captured", "restore"}, archive : Digests,
          place : Places \cup {NoFile}]

VARIABLES
    state,           \* the state directory
    staging,         \* .<state>.restore-*
    old,             \* .<state>.backup-*
    restoreJournal,  \* restore.json
    publishJournal,  \* publish.json: the digest it publishes
    archives,        \* every archive ever written, by digest
    published,       \* those at their destination
    pc,              \* where the holder of the writer lock is
    goal,            \* what the holder was started for
    home,            \* the archive the last session on a machine ended with
    verified,        \* history: the replacement of the restore in progress
    over,            \* history: archives published into a transition to rewind
    spent,           \* history: how often each approval not in left was consumed here
    called,          \* history: approvals whose external call was made here
    left,            \* history: approvals a restore left the evidence of behind
    faults           \* crashes and exceptions so far

dirs     == <<state, staging, old>>
journals == <<restoreJournal, publishJournal>>
records  == <<archives, published>>
history  == <<home, verified, over, spent, called, left>>
vars     == <<dirs, journals, records, pc, goal, history, faults>>

Restoring  == {"stage", "prepare", "move_old", "mark_old", "move_new", "mark_new",
               "drop_old", "finish"}
Recovering == {"recover", "put_back", "drop_staging", "recovered"}
Publishing == {"artifact", "metadata", "anchor", "unpublish"}
Cycling    == {"cycle", "save", "rewind", "reapply"}
Labels     == {"free", "capture"} \cup Restoring \cup Recovering \cup Publishing \cup Cycling

NoGoal == [op |-> "open", archive |-> 0, place |-> NoFile]

CounterOf(d) == IF d = 0 THEN 0 ELSE archives[d].counter

PreviousOf(d) == IF d = 0 THEN 0 ELSE archives[d].previous

Exists(dir) == dir # NoFile

SamePlace(d, e) == archives[d].place = archives[e].place /\ archives[d].place # NoFile

\* active.json is there.
Unfinished(dir) == Exists(dir) /\ dir.backup # NoFile

-----------------------------------------------------------------------------
Init ==
    /\ \E m \in Minds :
         state = [db |-> [mind |-> m, head |-> 0,
                          truth |-> [approvals |-> [a \in Approvals |-> "granted"], sent |-> {}]],
                  anchor |-> 0, backup |-> NoFile, safety |-> NoFile]
    /\ staging = NoFile /\ old = NoFile
    /\ restoreJournal = NoFile /\ publishJournal = 0
    /\ archives = << >> /\ published = {}
    /\ pc = "free" /\ goal = NoGoal
    /\ home = 0 /\ verified = NoFile /\ over = {}
    /\ spent = [a \in Approvals |-> 0] /\ called = {} /\ left = {}
    /\ faults = 0

Goto(from, to) == pc = from /\ pc' = to

\* The holder gives the lock back.
Release == pc' = "free" /\ goal' = NoGoal

-----------------------------------------------------------------------------
(* One accepted transition, as far as a checkpoint can see it.             *)

\* The organism constructed its stores after recovery, so no restore is open.
Begin ==
    /\ Goto("free", "cycle")
    /\ Exists(state) /\ ~Unfinished(state) /\ restoreJournal = NoFile
    /\ state' = [state EXCEPT !.backup = state.db, !.safety = NoFile]
    /\ UNCHANGED <<staging, old, journals, records, goal, history, faults>>

Think ==
    /\ pc = "cycle"
    /\ \E m \in Minds : state' = [state EXCEPT !.db.mind = m]
    /\ UNCHANGED <<staging, old, journals, records, pc, goal, history, faults>>

\* An approved external action: approval consumed, call made and recorded.
Act(a) ==
    /\ pc = "cycle"
    /\ state.db.truth.approvals[a] = "granted"
    /\ state' = [state EXCEPT !.db.truth.approvals[a] = "consumed",
                              !.db.truth.sent = @ \cup {a}]
    /\ spent' = [spent EXCEPT ![a] = IF a \in left THEN @ ELSE @ + 1]
    /\ called' = called \cup {a}
    /\ UNCHANGED <<staging, old, journals, records, pc, goal, home, verified, over, left, faults>>

Accept ==
    /\ pc = "cycle"
    /\ state' = [state EXCEPT !.backup = NoFile, !.safety = NoFile]
    /\ Release
    /\ UNCHANGED <<staging, old, journals, records, history, faults>>

CycleRaises ==
    /\ faults < MaxFaults /\ faults' = faults + 1
    /\ Goto("cycle", "save")
    /\ UNCHANGED <<dirs, journals, records, goal, history>>

\* Rollback: save the external truth once, rewind the database, re-apply.
Save ==
    /\ Goto("save", "rewind")
    /\ state' = [state EXCEPT !.safety = IF @ = NoFile THEN state.db.truth ELSE @]
    /\ UNCHANGED <<staging, old, journals, records, goal, history, faults>>

Rewind ==
    /\ Goto("rewind", "reapply")
    /\ state' = [state EXCEPT !.db = state.backup]
    /\ UNCHANGED <<staging, old, journals, records, goal, history, faults>>

Reapply ==
    /\ pc = "reapply"
    /\ state' = [state EXCEPT !.db.truth = state.safety, !.backup = NoFile, !.safety = NoFile]
    /\ Release
    /\ UNCHANGED <<staging, old, journals, records, history, faults>>

-----------------------------------------------------------------------------
(* Commands take the writer lock and recover an interrupted restore first. *)

\* Boot, vital signs and preflight: recovery only.
Open ==
    /\ Goto("free", "recover")
    /\ goal' = NoGoal
    /\ Unfinished(state) \/ restoreJournal # NoFile
    /\ UNCHANGED <<dirs, journals, records, history, faults>>

Export(p) ==
    /\ Goto("free", "recover")
    /\ goal' = [op |-> "export", archive |-> 0, place |-> p]
    /\ UNCHANGED <<dirs, journals, records, history, faults>>

Restore(d) ==
    /\ Goto("free", "recover")
    /\ d \in published
    /\ goal' = [op |-> "restore", archive |-> d, place |-> NoFile]
    /\ UNCHANGED <<dirs, journals, records, history, faults>>

-----------------------------------------------------------------------------
(* recover_interrupted_restore.                                            *)

\* Where a command continues once no restore is pending.
AfterRecovery ==
    CASE goal.op = "open" /\ Unfinished(state) -> "save"
      [] goal.op = "open" /\ ~Unfinished(state) -> "free"
      [] goal.op # "open" /\ publishJournal # 0 -> "artifact"
      [] goal.op = "export" /\ publishJournal = 0 -> "capture"
      [] goal.op = "restore" /\ publishJournal = 0 -> "stage"

NothingToRecover ==
    /\ pc = "recover" /\ restoreJournal = NoFile
    /\ pc' = AfterRecovery
    /\ UNCHANGED <<dirs, journals, records, goal, history, faults>>

\* The durable state from which recovery raises instead of recovering.
Stuck ==
    /\ restoreJournal # NoFile
    /\ IF restoreJournal.status = "new_moved" THEN ~Exists(state)
       ELSE /\ restoreJournal.hadOriginal /\ ~Exists(old)
            /\ ~(restoreJournal.status = "prepared" /\ Exists(state))

RecoverRaises ==
    /\ pc = "recover" /\ Stuck
    /\ Release
    /\ UNCHANGED <<dirs, journals, records, history, faults>>

\* The replacement was published: only the leftovers go.
RecoverForward ==
    /\ Goto("recover", "recovered")
    /\ restoreJournal # NoFile /\ restoreJournal.status = "new_moved" /\ Exists(state)
    /\ staging' = NoFile /\ old' = NoFile
    /\ UNCHANGED <<state, journals, records, goal, history, faults>>

\* The original was never moved.
RecoverUntouched ==
    /\ Goto("recover", "recovered")
    /\ restoreJournal # NoFile /\ restoreJournal.status = "prepared"
    /\ restoreJournal.hadOriginal /\ ~Exists(old) /\ Exists(state)
    /\ staging' = NoFile
    /\ UNCHANGED <<state, old, journals, records, goal, history, faults>>

\* What stands at the target, if anything, is displaced ...
RecoverDisplace ==
    /\ Goto("recover", "put_back")
    /\ restoreJournal # NoFile /\ restoreJournal.status # "new_moved"
    /\ restoreJournal.hadOriginal /\ Exists(old)
    /\ state' = NoFile
    /\ UNCHANGED <<staging, old, journals, records, goal, history, faults>>

\* ... the original goes back ...
RecoverPutBack ==
    /\ Goto("put_back", "drop_staging")
    /\ state' = old /\ old' = NoFile
    /\ UNCHANGED <<staging, journals, records, goal, history, faults>>

\* ... and the replacement is dropped.
RecoverDropStaging ==
    /\ Goto("drop_staging", "recovered")
    /\ staging' = NoFile
    /\ UNCHANGED <<state, old, journals, records, goal, history, faults>>

\* On a machine that had no state the replacement is moved in, or dropped.
RecoverFresh ==
    /\ Goto("recover", "recovered")
    /\ restoreJournal # NoFile /\ restoreJournal.status # "new_moved"
    /\ ~restoreJournal.hadOriginal
    /\ state' = IF restoreJournal.status = "old_moved" /\ Exists(staging) /\ ~Exists(state)
                THEN staging ELSE state
    /\ staging' = NoFile /\ old' = NoFile
    /\ UNCHANGED <<journals, records, goal, history, faults>>

\* Mutant: the restore journal is left behind.
RecoverUnlink_Keeps ==
    /\ pc = "recovered" /\ pc' = AfterRecovery
    /\ UNCHANGED <<dirs, journals, records, goal, history, faults>>

RecoverUnlink ==
    /\ pc = "recovered"
    /\ restoreJournal' = NoFile
    /\ pc' = AfterRecovery
    /\ UNCHANGED <<dirs, publishJournal, records, goal, history, faults>>

-----------------------------------------------------------------------------
(* export: capture, journal, then artifact, metadata, anchor.              *)

\* Mutant: the counter is not advanced.
Captured_SameCounter ==
    [counter |-> CounterOf(state.db.head), previous |-> state.db.head, place |-> goal.place,
     db |-> state.db]

Captured ==
    [counter |-> CounterOf(state.db.head) + 1, previous |-> state.db.head, place |-> goal.place,
     db |-> state.db]

\* Metadata and anchor must agree (and, bound of the model, a digest be left).
Exportable ==
    Exists(state) /\ state.db.head = state.anchor /\ Len(archives) < MaxArchives

\* The archive is written to a temporary file and the journal names it.
Capture ==
    /\ Goto("capture", "artifact")
    /\ Exportable
    /\ archives' = Append(archives, Captured)
    /\ publishJournal' = Len(archives) + 1
    /\ goal' = [goal EXCEPT !.op = "captured"]
    /\ UNCHANGED <<dirs, restoreJournal, published, history, faults>>

CaptureRefused ==
    /\ pc = "capture" /\ ~Exportable
    /\ Release
    /\ UNCHANGED <<dirs, journals, records, history, faults>>

\* Mutant: the artifact stays at its temporary name.
PublishArtifact_Later ==
    /\ Goto("artifact", "metadata")
    /\ UNCHANGED <<dirs, journals, records, goal, history, faults>>

\* _finish_pending_publish: rename the artifact to its destination, over what
\* stands there ...
PublishArtifact ==
    /\ Goto("artifact", "metadata")
    /\ published' = {d \in published : ~SamePlace(d, publishJournal)} \cup {publishJournal}
    /\ UNCHANGED <<dirs, journals, archives, goal, history, faults>>

\* ... check that anchor and metadata are the target or its predecessor ...
Continues(head) == head \in {publishJournal, PreviousOf(publishJournal)}

\* The copy of an unfinished transition still names the predecessor.
RewindsHead == Unfinished(state) /\ state.backup.head # publishJournal

\* ... write the metadata; or refuse, and leave the journal.
PublishMetadata ==
    /\ pc = "metadata"
    /\ IF Exists(state) /\ Continues(state.anchor) /\ Continues(state.db.head)
       THEN /\ state' = [state EXCEPT !.db.head = publishJournal]
            /\ over' = IF RewindsHead THEN over \cup {publishJournal} ELSE over
            /\ pc' = "anchor" /\ UNCHANGED goal
       ELSE Release /\ UNCHANGED <<state, over>>
    /\ UNCHANGED <<staging, old, journals, records, home, verified, spent, called, left, faults>>

\* Mutant: the anchor is left at the predecessor.
PublishAnchor_Stale ==
    /\ Goto("anchor", "unpublish")
    /\ UNCHANGED <<dirs, journals, records, goal, history, faults>>

PublishAnchor ==
    /\ Goto("anchor", "unpublish")
    /\ state' = [state EXCEPT !.anchor = publishJournal]
    /\ UNCHANGED <<staging, old, journals, records, goal, history, faults>>

\* A publication completed for an earlier export ends this one only when it
\* names the same destination.
Unpublish ==
    /\ pc = "unpublish"
    /\ publishJournal' = 0
    /\ \/ goal.op = "captured" /\ Release
       \/ goal.op = "export" /\ archives[publishJournal].place = goal.place /\ Release
       \/ /\ goal.op = "export" /\ archives[publishJournal].place # goal.place
          /\ pc' = "capture" /\ UNCHANGED goal
       \/ goal.op = "restore" /\ pc' = "stage" /\ UNCHANGED goal
    /\ UNCHANGED <<dirs, restoreJournal, records, history, faults>>

-----------------------------------------------------------------------------
(* restore: stage the verified replacement, then swap directories.         *)

\* Mutant: only the counter is compared with the anchor's.
Trusted_ByCounter(d) ==
    IF ~Exists(state) \/ state.anchor = 0 THEN d = goal.archive
    ELSE CounterOf(d) >= CounterOf(state.anchor)

\* Without an anchor the operator vouches for a digest, any; with one, the
\* archive is the anchor's own or its direct successor.
Trusted(d) ==
    IF ~Exists(state) \/ state.anchor = 0 THEN d = goal.archive
    ELSE \/ CounterOf(d) = CounterOf(state.anchor) /\ d = state.anchor
         \/ CounterOf(d) = CounterOf(state.anchor) + 1 /\ PreviousOf(d) = state.anchor

\* Mutant: the archive's external truth replaces the current one.
MergedTruth_Archived(archived) == archived

\* The rows of the current database win over those of the archive.
MergedTruth(archived) ==
    IF ~Exists(state) THEN archived
    ELSE [approvals |-> state.db.truth.approvals, sent |-> archived.sent \cup state.db.truth.sent]

Replacement(d) ==
    [db |-> [archives[d].db EXCEPT !.truth = MergedTruth(@), !.head = d],
     anchor |-> d, backup |-> NoFile, safety |-> NoFile]

\* What stands now at the path the restore was given: the publication it
\* finished first may have overwritten it.
Found == {d \in published : d = goal.archive \/ SamePlace(d, goal.archive)}

Stage ==
    /\ Goto("stage", "prepare")
    /\ \E d \in Found :
         /\ Trusted(d)
         /\ staging' = Replacement(d) /\ verified' = Replacement(d)
    /\ UNCHANGED <<state, old, journals, records, goal, home, over, spent, called, left, faults>>

\* Not trusted; or another digest was expected than the archive found has.
StageRefused ==
    /\ pc = "stage"
    /\ \E d \in Found : ~Trusted(d) \/ d # goal.archive
    /\ Release
    /\ UNCHANGED <<dirs, journals, records, history, faults>>

Prepare ==
    /\ Goto("prepare", "move_old")
    /\ restoreJournal' = [status |-> "prepared", hadOriginal |-> Exists(state)]
    /\ UNCHANGED <<dirs, publishJournal, records, goal, history, faults>>

MoveOld ==
    /\ Goto("move_old", "mark_old")
    /\ old' = state /\ state' = NoFile
    /\ UNCHANGED <<staging, journals, records, goal, history, faults>>

Mark(status) == restoreJournal' = [restoreJournal EXCEPT !.status = status]

\* Mutant: one marker for both renames.
MarkOld_AsNew ==
    /\ Goto("mark_old", "move_new")
    /\ Mark("new_moved")
    /\ UNCHANGED <<dirs, publishJournal, records, goal, history, faults>>

MarkOld ==
    /\ Goto("mark_old", "move_new")
    /\ Mark("old_moved")
    /\ left' = IF Exists(old) \/ verified.anchor = home THEN left ELSE Approvals
    /\ UNCHANGED <<dirs, publishJournal, records, goal, home, verified, over, spent, called, faults>>

MoveNew ==
    /\ Goto("move_new", "mark_new")
    /\ state' = staging /\ staging' = NoFile
    /\ UNCHANGED <<old, journals, records, goal, history, faults>>

\* Mutant: the second marker is not written.
MarkNew_Missing ==
    /\ Goto("mark_new", "drop_old")
    /\ UNCHANGED <<dirs, journals, records, goal, history, faults>>

\* The evidence file of an unfinished rollback goes with the directory.
EvidenceAside(dir) == IF ~Exists(dir) \/ dir.safety = NoFile THEN {} ELSE dir.safety.sent

MarkNew ==
    /\ Goto("mark_new", "drop_old")
    /\ Mark("new_moved")
    /\ left' = left \cup EvidenceAside(old)
    /\ UNCHANGED <<dirs, publishJournal, records, goal, home, verified, over, spent, called, faults>>

DropOld ==
    /\ Goto("drop_old", "finish")
    /\ old' = NoFile
    /\ UNCHANGED <<state, staging, journals, records, goal, history, faults>>

Finish ==
    /\ pc = "finish"
    /\ restoreJournal' = NoFile
    /\ Release
    /\ UNCHANGED <<dirs, publishJournal, records, history, faults>>

\* An exception: recover in the same process if the journal exists, else
\* remove what was staged.
RestoreRaises ==
    /\ faults < MaxFaults /\ faults' = faults + 1
    /\ pc \in Restoring \ {"stage"}
    /\ IF restoreJournal # NoFile
       THEN pc' = "recover" /\ goal' = NoGoal /\ UNCHANGED <<staging, old>>
       ELSE Release /\ staging' = NoFile /\ old' = NoFile
    /\ UNCHANGED <<state, journals, records, history>>

-----------------------------------------------------------------------------
(* The environment.                                                        *)

Crash ==
    /\ faults < MaxFaults /\ faults' = faults + 1
    /\ pc # "free"
    /\ Release
    /\ UNCHANGED <<dirs, journals, records, history>>

\* Another machine restores a published archive, lives on, and publishes a
\* successor of it.
ExportElsewhere(d) ==
    /\ publishJournal = 0
    /\ d \in published /\ Len(archives) < MaxArchives
    /\ Cardinality({e \in 1..Len(archives) : archives[e].place = NoFile}) < MaxForks
    /\ \E m \in Minds, acts \in SUBSET Approvals :
         /\ \A a \in acts : archives[d].db.truth.approvals[a] = "granted"
         /\ archives' = Append(archives,
              [counter |-> CounterOf(d) + 1, previous |-> d, place |-> NoFile,
               db |-> [mind |-> m, head |-> d, truth |->
                        [approvals |-> [a \in Approvals |->
                            IF a \in acts THEN "consumed" ELSE archives[d].db.truth.approvals[a]],
                         sent |-> archives[d].db.truth.sent \cup acts]]])
    /\ published' = published \cup {Len(archives) + 1}
    /\ UNCHANGED <<dirs, journals, pc, goal, history, faults>>

\* The session ended with an export or a restore, and the archive is at hand;
\* the next session is on a fresh machine.
Relocate ==
    /\ pc = "free" /\ Exists(state) /\ ~Unfinished(state)
    /\ restoreJournal = NoFile /\ publishJournal = 0
    /\ state.anchor \in published
    /\ archives[state.anchor].db.truth = state.db.truth
    /\ state' = NoFile /\ home' = state.anchor
    /\ UNCHANGED <<staging, old, journals, records, pc, goal, verified, over, spent, called,
                   left, faults>>

-----------------------------------------------------------------------------
Cycle ==
    \/ Begin \/ Think \/ (\E a \in Approvals : Act(a)) \/ Accept \/ CycleRaises
    \/ Save \/ Rewind \/ Reapply

RecoverStep ==
    \/ NothingToRecover \/ RecoverForward \/ RecoverUntouched \/ RecoverDisplace
    \/ RecoverPutBack \/ RecoverDropStaging \/ RecoverFresh \/ RecoverUnlink

ExportStep ==
    \/ Capture \/ CaptureRefused \/ PublishArtifact \/ PublishMetadata
    \/ PublishAnchor \/ Unpublish

RestoreStep ==
    \/ Stage \/ StageRefused \/ Prepare \/ MoveOld \/ MarkOld \/ MoveNew \/ MarkNew
    \/ DropOld \/ Finish

Next ==
    \/ Cycle
    \/ Open \/ (\E p \in Places : Export(p)) \/ (\E d \in published : Restore(d))
    \/ RecoverStep \/ RecoverRaises \/ ExportStep \/ RestoreStep \/ RestoreRaises
    \/ Crash \/ (\E d \in published : ExportElsewhere(d)) \/ Relocate

Spec == Init /\ [][Next]_vars

\* The organism is started again, and a started restore or recovery goes on.
FairSpec == Spec /\ WF_vars(Open) /\ WF_vars(RecoverStep \/ RestoreStep)

-----------------------------------------------------------------------------
(* Properties.                                                             *)

TypeOK ==
    /\ state \in Dirs \cup {NoFile} /\ staging \in Dirs \cup {NoFile}
    /\ old \in Dirs \cup {NoFile} /\ verified \in Dirs \cup {NoFile}
    /\ restoreJournal \in RestoreJournals \cup {NoFile} /\ publishJournal \in 0..Len(archives)
    /\ archives \in Seq(Archives) /\ Len(archives) <= MaxArchives
    /\ published \subseteq 1..Len(archives)
    /\ pc \in Labels /\ goal \in Goals
    /\ home \in 0..Len(archives) /\ over \subseteq 1..Len(archives) /\ left \subseteq Approvals
    /\ spent \in [Approvals -> Nat] /\ called \subseteq Approvals
    /\ faults \in 0..MaxFaults

\* What the steps of the lock holder find when they are taken.
HolderReady ==
    /\ pc \in Cycling => Exists(state) /\ state.backup # NoFile
    /\ pc \in {"rewind", "reapply"} => state.safety # NoFile
    /\ pc \in Publishing => publishJournal # 0
    /\ pc = "anchor" => Exists(state)
    /\ pc \in {"metadata", "anchor", "unpublish"} => publishJournal \in published
    /\ pc \in Recovering => goal.op # "captured"
    /\ pc \in Restoring => goal.op = "restore"

\* Every digest a directory names is an archive's.
NamesKnown ==
    \A dir \in {state, staging, old, verified} :
        Exists(dir) =>
            /\ {dir.db.head, dir.anchor} \subseteq 0..Len(archives)
            /\ dir.backup # NoFile => dir.backup.head \in 0..Len(archives)

\* The directory the next recovery would leave as the organism's state.
Surviving ==
    IF restoreJournal = NoFile \/ restoreJournal.status = "new_moved" THEN state
    ELSE IF restoreJournal.hadOriginal THEN IF Exists(old) THEN old ELSE state
    ELSE IF restoreJournal.status = "old_moved" /\ ~Exists(state) THEN staging ELSE state

\* Where the three directories are at each step of a restore and of its
\* recovery: the inductive part of ReplacedAtOnce.
SwitchShape ==
    /\ pc \in {"stage", "prepare", "capture"} \cup Publishing \cup Cycling
          => restoreJournal = NoFile
    /\ restoreJournal = NoFile => old = NoFile
    /\ pc \in Restoring \ {"stage", "prepare"} => restoreJournal # NoFile
    /\ pc \in {"prepare", "move_old", "mark_old", "move_new"} =>
          Exists(staging) /\ staging = verified
    /\ pc = "move_old" =>
          old = NoFile /\ restoreJournal.status = "prepared"
          /\ (restoreJournal.hadOriginal <=> Exists(state))
    /\ pc \in {"mark_old", "move_new"} =>
          state = NoFile /\ (restoreJournal.hadOriginal <=> Exists(old))
    /\ pc = "mark_old" => restoreJournal.status = "prepared"
    /\ pc \in {"move_new", "mark_new"} => restoreJournal.status = "old_moved"
    /\ pc = "mark_new" =>
          state = verified /\ Exists(state) /\ (restoreJournal.hadOriginal <=> Exists(old))
    /\ pc \in {"drop_old", "finish"} => restoreJournal.status = "new_moved"
    /\ pc = "finish" => old = NoFile
    /\ pc \in Recovering \ {"recover"} => restoreJournal # NoFile
    /\ pc \in {"put_back", "drop_staging"} =>
          restoreJournal.status # "new_moved" /\ restoreJournal.hadOriginal
    /\ pc = "put_back" => Exists(old) /\ state = NoFile
    /\ pc \in {"drop_staging", "recovered"} => old = NoFile
    /\ pc = "recovered" => Surviving = state

\* Restore is one switch: whatever interrupts it and whatever recovers it, the
\* state that survives is the previous one, unchanged and complete, up to a
\* single step, and the verified replacement from then on
\* (checkpoint.py: "After the final rename the replacement is already a complete
\* accepted state").
ReplacedAtOnce ==
    [][(pc \in Restoring \cup Recovering) =>
          Surviving' = Surviving \/ Surviving' = verified]_vars

\* The trusted anchor of the surviving state only moves along the chain of
\* predecessors, by one archive at a time, through exports, restores, their
\* interruptions and forks made on other machines
\* (checkpoint.py: "checkpoint predecessor does not match the trusted local anchor").
AnchorAdvances ==
    [][Exists(Surviving) /\ Exists(Surviving') /\ Surviving'.anchor # Surviving.anchor =>
          Surviving.anchor = 0 \/ archives[Surviving'.anchor].previous = Surviving.anchor]_vars

\* A recovery never finds a restore it cannot resolve
\* (checkpoint.py: "Fail safely after process death between the two restore
\* directory renames").
RecoveryNeverStuck == pc = "recover" => ~Stuck

\* With no publication pending, checkpoint metadata and anchor name the same
\* archive, so that an export is not refused for it (checkpoint.py: "checkpoint
\* metadata and authenticated local anchor disagree"); unless the anchor's archive
\* was published into an unfinished transition, whose rollback took the metadata
\* back.
HeadAgrees ==
    publishJournal = 0 /\ Exists(Surviving) =>
        Surviving.db.head = Surviving.anchor \/ Surviving.anchor \in over

\* The archive is at its destination; or its direct successor, whose publication
\* the journal will finish, has overwritten it there.
Available(d) ==
    \/ d \in published \cup {0}
    \/ publishJournal \in published /\ d = PreviousOf(publishJournal)

\* What the anchor and the metadata name is available at every crash point of an
\* export, to a fixed destination too: artifact first, then metadata, then
\* anchor.  Only metadata that a rollback took back may name what is gone.
HeadPublished ==
    Exists(Surviving) =>
        /\ Available(Surviving.anchor)
        /\ Available(Surviving.db.head) \/ Surviving.anchor \in over

\* One approval pays for one external action of this organism, whatever is
\* rolled back, restored or moved to a fresh machine in between (checkpoint.py:
\* "Checkpoint rollback must not resurrect consumed human approvals"); unless
\* its evidence stood in the evidence file of an unfinished rollback that a
\* restore replaced, or the operator vouched on a fresh machine for another
\* archive than the last session ended with.
ApprovalOnce == \A a \in Approvals \ left : spent[a] <= 1

\* A call made by this organism leaves evidence in the state that survives, in
\* its ledger or in the evidence file of its unfinished rollback, with the same
\* two exceptions (checkpoint.py: a restore must not "erase evidence that an
\* external effect crossed the boundary").
EvidenceKept ==
    Exists(Surviving) =>
        called \ left \subseteq Surviving.db.truth.sent \cup EvidenceAside(Surviving)

\* An approval that the state's own checkpoint records as consumed is consumed
\* in the state (checkpoint.py: "Checkpoint rollback must not resurrect consumed
\* human approvals").
ConsumedStaysConsumed ==
    Exists(Surviving) /\ Surviving.anchor # 0 =>
        \A a \in Approvals :
            archives[Surviving.anchor].db.truth.approvals[a] = "consumed" =>
                Surviving.db.truth.approvals[a] = "consumed"

\* An interrupted restore does not stay interrupted: once the organism is
\* started again often enough, its journal goes (one fault).
RestoreResolves == restoreJournal # NoFile ~> restoreJournal = NoFile
=============================================================================
