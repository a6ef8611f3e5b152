-------------------------- MODULE CheckpointProofs --------------------------
(***************************************************************************)
(* Theorems about Checkpoint for every value of its constants.  The        *)
(* inductive invariant IInv says what the lock holder finds and where the  *)
(* three directories are; every step then leaves the surviving directory   *)
(* alone, writes into it with no restore open, or switches it to the       *)
(* verified replacement (SurvivingMoves).  On these the invariants about   *)
(* heads, external truth, the anchor's chain and unresolved restores rest. *)
(***************************************************************************)
EXTENDS Checkpoint, TLAPS

-----------------------------------------------------------------------------
(* Field updates of directories, journals and goals.                       *)

LEMMA DirTypes ==
    ASSUME NEW d \in Dirs
    PROVE  /\ d # NoFile /\ d.db \in Databases /\ d.db # NoFile /\ d.db.mind \in Minds
           /\ d.db.truth \in Truths /\ d.db.truth # NoFile
           /\ d.db.truth.approvals \in [Approvals -> {"granted", "consumed"}]
           /\ d.db.truth.sent \subseteq Approvals
           /\ d.db.head \in Digests /\ d.anchor \in Digests
           /\ d.backup \in Databases \cup {NoFile} /\ d.safety \in Truths \cup {NoFile}
  BY NoFileAssumption DEF Dirs, Databases, Truths

LEMMA OpenedType ==
    ASSUME NEW d \in Dirs, NEW e, e = [d EXCEPT !.backup = d.db, !.safety = NoFile]
    PROVE  /\ e \in Dirs /\ e.db = d.db /\ e.anchor = d.anchor
           /\ e.backup = d.db /\ e.backup # NoFile /\ e.safety = NoFile
  BY NoFileAssumption DEF Dirs, Databases

LEMMA ClosedType ==
    ASSUME NEW d \in Dirs, NEW e, e = [d EXCEPT !.backup = NoFile, !.safety = NoFile]
    PROVE  e \in Dirs /\ e.db = d.db /\ e.anchor = d.anchor /\ e.backup = NoFile /\ e.safety = NoFile
  BY NoFileAssumption DEF Dirs, Databases

LEMMA MindType ==
    ASSUME NEW d \in Dirs, NEW m \in Minds,
           NEW e, e = [d EXCEPT !.db.mind = m]
    PROVE  /\ e \in Dirs /\ e.db.head = d.db.head /\ e.db.truth = d.db.truth /\ e.anchor = d.anchor
           /\ e.backup = d.backup /\ e.safety = d.safety
  BY NoFileAssumption DEF Dirs, Databases

LEMMA SavedType ==
    ASSUME NEW d \in Dirs, NEW s \in Truths \cup {NoFile},
           NEW e, e = [d EXCEPT !.safety = s]
    PROVE  e \in Dirs /\ e.db = d.db /\ e.anchor = d.anchor /\ e.backup = d.backup /\ e.safety = s
  BY NoFileAssumption DEF Dirs, Databases

LEMMA RewoundType ==
    ASSUME NEW d \in Dirs, NEW b \in Databases,
           NEW e, e = [d EXCEPT !.db = b]
    PROVE  e \in Dirs /\ e.db = b /\ e.anchor = d.anchor /\ e.backup = d.backup /\ e.safety = d.safety
  BY NoFileAssumption DEF Dirs, Databases

LEMMA ReappliedType ==
    ASSUME NEW d \in Dirs, NEW t \in Truths,
           NEW e, e = [d EXCEPT !.db.truth = t, !.backup = NoFile, !.safety = NoFile]
    PROVE  e \in Dirs /\ e.db.head = d.db.head /\ e.anchor = d.anchor /\ e.backup = NoFile
  BY NoFileAssumption DEF Dirs, Databases

LEMMA HeadType ==
    ASSUME NEW d \in Dirs, NEW n \in Digests,
           NEW e, e = [d EXCEPT !.db.head = n]
    PROVE  e \in Dirs /\ e.db.head = n /\ e.anchor = d.anchor /\ e.backup = d.backup /\ e.safety = d.safety
  BY NoFileAssumption DEF Dirs, Databases

LEMMA AnchorType ==
    ASSUME NEW d \in Dirs, NEW n \in Digests,
           NEW e, e = [d EXCEPT !.anchor = n]
    PROVE  e \in Dirs /\ e.db = d.db /\ e.anchor = n /\ e.backup = d.backup /\ e.safety = d.safety
  BY NoFileAssumption DEF Dirs, Databases

LEMMA ActType ==
    ASSUME NEW d \in Dirs, NEW a \in Approvals,
           NEW e, e = [d EXCEPT !.db.truth.approvals[a] = "consumed",
                                !.db.truth.sent = @ \cup {a}]
    PROVE  /\ e \in Dirs /\ e.db.head = d.db.head /\ e.anchor = d.anchor
           /\ e.backup = d.backup /\ e.safety = d.safety
  BY NoFileAssumption DEF Dirs, Databases, Truths

LEMMA MergedType ==
    ASSUME state \in Dirs \cup {NoFile}, NEW t \in Truths
    PROVE  MergedTruth(t) \in Truths
  BY DirTypes DEF MergedTruth, Exists, Truths

LEMMA ReplacementType ==
    ASSUME TypeOK, NEW d \in published
    PROVE  /\ Replacement(d) \in Dirs /\ Replacement(d).db.head = d
           /\ Replacement(d).anchor = d /\ Replacement(d).backup = NoFile
           /\ Replacement(d).safety = NoFile /\ Replacement(d) # NoFile
           /\ Replacement(d).db.truth = MergedTruth(archives[d].db.truth)
<1>1. d \in 1..Len(archives) /\ d \in Digests
  BY CheckpointAssumption DEF TypeOK, Digests
<1>a. archives[d] \in Archives
  BY <1>1 DEF TypeOK
<1>2. archives[d].db \in Databases
  BY <1>a DEF Archives
<1>3. MergedTruth(archives[d].db.truth) \in Truths
  BY <1>2, MergedType DEF TypeOK, Databases
<1>4. Replacement(d) \in Dirs
  BY <1>1, <1>2, <1>3 DEF Replacement, Dirs, Databases
<1> QED
  BY <1>2, <1>4, DirTypes DEF Replacement, Databases

LEMMA CapturedType ==
    ASSUME TypeOK, NamesKnown, state # NoFile
    PROVE  Captured \in Archives
<1>1. state \in Dirs /\ state.db \in Databases /\ state.db.head \in Digests
  BY DirTypes DEF TypeOK
<1>2. state.db.head \in 0..Len(archives) /\ goal.place \in Places \cup {NoFile}
  BY DEF TypeOK, NamesKnown, Exists, Goals
<1>3. state.db.head # 0 => archives[state.db.head] \in Archives
  BY <1>2 DEF TypeOK
<1>4. CounterOf(state.db.head) \in Nat
  BY <1>3 DEF CounterOf, Archives
<1> QED
  BY <1>1, <1>2, <1>4 DEF Captured, Archives

LEMMA AsideType ==
    ASSUME NEW d \in Dirs \cup {NoFile}
    PROVE  EvidenceAside(d) \subseteq Approvals
  BY DirTypes DEF EvidenceAside, Exists, Truths

LEMMA NextDigest ==
    ASSUME NEW n \in Nat, NEW S, S \subseteq 1..n
    PROVE  S \cup {n + 1} \subseteq 1..(n + 1)
  OBVIOUS

LEMMA JournalTypes ==
    ASSUME NEW j \in RestoreJournals
    PROVE  /\ j # NoFile /\ j.status \in {"prepared", "old_moved", "new_moved"}
           /\ j.hadOriginal \in BOOLEAN
           /\ \A s \in {"old_moved", "new_moved"} :
                 /\ [j EXCEPT !.status = s] \in RestoreJournals
                 /\ [j EXCEPT !.status = s].status = s
                 /\ [j EXCEPT !.status = s].hadOriginal = j.hadOriginal
  BY NoFileAssumption DEF RestoreJournals

LEMMA PreparedType ==
    ASSUME NEW b \in BOOLEAN,
           NEW j, j = [status |-> "prepared", hadOriginal |-> b]
    PROVE  j # NoFile /\ j.status = "prepared" /\ (j.hadOriginal <=> b)
<1>1. j \in RestoreJournals
  BY DEF RestoreJournals
<1> QED
  BY <1>1, NoFileAssumption

LEMMA GoalTypes ==
    /\ NoGoal \in Goals /\ NoGoal.op = "open"
    /\ \A p \in Places : [op |-> "export", archive |-> 0, place |-> p] \in Goals
    /\ \A d \in Digests : [op |-> "restore", archive |-> d, place |-> NoFile] \in Goals
    /\ \A g \in Goals : /\ [g EXCEPT !.op = "captured"] \in Goals
                         /\ [g EXCEPT !.op = "captured"].op = "captured"
                         /\ g.op \in {"open", "export", "captured", "restore"}
  BY CheckpointAssumption DEF NoGoal, Goals, Digests

LEMMA RecoveryLabel ==
    ASSUME goal \in Goals, goal.op # "captured", publishJournal \in Nat
    PROVE  AfterRecovery \in {"save", "free", "artifact", "capture", "stage"}
  BY GoalTypes DEF AfterRecovery

-----------------------------------------------------------------------------
(* Type correctness.                                                       *)

LEMMA TypeInit == Init => TypeOK
<1> SUFFICES ASSUME Init PROVE TypeOK
  OBVIOUS
<1>1. PICK m \in Minds :
        state = [db |-> [mind |-> m, head |-> 0,
                         truth |-> [approvals |-> [a \in Approvals |-> "granted"], sent |-> {}]],
                 anchor |-> 0, backup |-> NoFile, safety |-> NoFile]
  BY DEF Init
<1>2. state \in Dirs
  BY <1>1, CheckpointAssumption DEF Dirs, Databases, Truths, Digests
<1> QED
  BY <1>2, GoalTypes, CheckpointAssumption DEF Init, TypeOK, Labels

LEMMA TypeStep == TypeOK /\ HolderReady /\ NamesKnown /\ SwitchShape /\ [Next]_vars => TypeOK'
<1> SUFFICES ASSUME TypeOK, HolderReady, NamesKnown, SwitchShape, [Next]_vars PROVE TypeOK'
  OBVIOUS
<1>l. {"free", "capture", "stage", "prepare", "move_old", "mark_old", "move_new", "mark_new",
       "drop_old", "finish", "recover", "put_back", "drop_staging", "recovered", "artifact",
       "metadata", "anchor", "unpublish", "cycle", "save", "rewind", "reapply"} \subseteq Labels
  BY DEF Labels, Restoring, Recovering, Publishing, Cycling
<1>c. pc \in {"cycle", "save", "rewind", "reapply"} =>
        state \in Dirs /\ state.db \in Databases /\ state.backup \in Databases
        /\ state.db.truth \in Truths
  BY DirTypes DEF TypeOK, HolderReady, Cycling, Exists
<1>f. faults < MaxFaults => faults + 1 \in 0..MaxFaults
  BY CheckpointAssumption DEF TypeOK
<1>g. /\ NoGoal \in Goals /\ publishJournal \in Digests
      /\ \A p \in Places : [op |-> "export", archive |-> 0, place |-> p] \in Goals
      /\ \A d \in published : [op |-> "restore", archive |-> d, place |-> NoFile] \in Goals
  BY GoalTypes, CheckpointAssumption DEF TypeOK, Digests
<1>r. pc \in {"recover", "recovered"} => AfterRecovery \in Labels
  BY <1>l, RecoveryLabel DEF TypeOK, HolderReady, Recovering
<1> USE <1>l, <1>f, <1>g DEF TypeOK, vars, dirs, journals, records, history, Goto, Release
<1>1. CASE Begin
  <2>1. state' \in Dirs
    BY <1>1, OpenedType, DirTypes DEF Begin, Exists
  <2> QED
    BY <1>1, <2>1 DEF Begin
<1>2. CASE Think
  <2>1. PICK m \in Minds : state' = [state EXCEPT !.db.mind = m]
    BY <1>2 DEF Think
  <2>2. state' \in Dirs
    BY <1>2, <2>1, <1>c, MindType DEF Think
  <2> QED
    BY <1>2, <2>2 DEF Think
<1>3. ASSUME NEW x \in Approvals, Act(x) PROVE TypeOK'
  <2>1. state' \in Dirs
    BY <1>3, <1>c, ActType DEF Act
  <2>2. spent' \in [Approvals -> Nat]
    BY <1>3 DEF Act
  <2> QED
    BY <1>3, <2>1, <2>2 DEF Act
<1>4. CASE Accept
  <2>1. state' \in Dirs
    BY <1>4, <1>c, ClosedType DEF Accept
  <2> QED
    BY <1>4, <2>1 DEF Accept
<1>5. CASE CycleRaises
  BY <1>5 DEF CycleRaises
<1>6. CASE Save
  <2>1. state \in Dirs /\ state.db.truth \in Truths /\ state.safety \in Truths \cup {NoFile}
    BY <1>6, <1>c, DirTypes DEF Save
  <2>2. state' = [state EXCEPT !.safety =
                    IF state.safety = NoFile THEN state.db.truth ELSE state.safety]
    BY <1>6 DEF Save
  <2>3. state' \in Dirs
    BY <2>1, <2>2, SavedType
  <2> QED
    BY <1>6, <2>3 DEF Save
<1>7. CASE Rewind
  <2>1. state' \in Dirs
    BY <1>7, <1>c, RewoundType DEF Rewind
  <2> QED
    BY <1>7, <2>1 DEF Rewind
<1>8. CASE Reapply
  <2>1. state \in Dirs /\ state.safety \in Truths
    BY <1>8, <1>c, DirTypes DEF Reapply, HolderReady
  <2>2. state' \in Dirs
    BY <1>8, <2>1, ReappliedType DEF Reapply
  <2> QED
    BY <1>8, <2>2 DEF Reapply
<1>9. CASE Open
  BY <1>9 DEF Open
<1>10. ASSUME NEW p \in Places, Export(p) PROVE TypeOK'
  BY <1>10 DEF Export
<1>11. ASSUME NEW e \in published, Restore(e) PROVE TypeOK'
  <2>g. goal' = [op |-> "restore", archive |-> e, place |-> NoFile]
    BY <1>11 DEF Restore
  <2>1. goal' \in Goals
    BY <1>g, <2>g
  <2> QED
    BY <1>11, <2>1 DEF Restore
<1>12. CASE NothingToRecover
  BY <1>12, <1>r DEF NothingToRecover
<1>13. CASE RecoverForward
  BY <1>13 DEF RecoverForward
<1>14. CASE RecoverUntouched
  BY <1>14 DEF RecoverUntouched
<1>15. CASE RecoverDisplace
  BY <1>15 DEF RecoverDisplace
<1>16. CASE RecoverPutBack
  BY <1>16 DEF RecoverPutBack
<1>17. CASE RecoverDropStaging
  BY <1>17 DEF RecoverDropStaging
<1>18. CASE RecoverFresh
  BY <1>18 DEF RecoverFresh
<1>19. CASE RecoverUnlink
  BY <1>19, <1>r DEF RecoverUnlink
<1>20. CASE RecoverRaises
  BY <1>20 DEF RecoverRaises
<1>21. CASE Capture
  <2>1. Captured \in Archives
    BY <1>21, CapturedType DEF Capture, Exportable, Exists
  <2>2. /\ archives' \in Seq(Archives) /\ Len(archives') = Len(archives) + 1
        /\ Len(archives') <= MaxArchives
    BY <1>21, <2>1, CheckpointAssumption DEF Capture, Exportable
  <2>3. goal' \in Goals
    BY <1>21, GoalTypes DEF Capture
  <2> QED
    BY <1>21, <2>2, <2>3 DEF Capture
<1>22. CASE CaptureRefused
  BY <1>22 DEF CaptureRefused
<1>23. CASE PublishArtifact
  <2>1. publishJournal # 0
    BY <1>23 DEF PublishArtifact, HolderReady, Publishing
  <2>2. published' \subseteq published \cup {publishJournal}
    BY <1>23 DEF PublishArtifact
  <2>3. published' \subseteq 1..Len(archives)
    BY <2>1, <2>2
  <2> QED
    BY <1>23, <2>3 DEF PublishArtifact
<1>24. CASE PublishMetadata
  <2>1. state' \in Dirs \cup {NoFile}
    BY <1>24, HeadType DEF PublishMetadata, Exists
  <2>2. publishJournal # 0
    BY <1>24 DEF PublishMetadata, HolderReady, Publishing
  <2>3. over' \subseteq 1..Len(archives)
    BY <1>24, <2>2 DEF PublishMetadata
  <2> QED
    BY <1>24, <2>1, <2>3 DEF PublishMetadata
<1>25. CASE PublishAnchor
  <2>1. state' \in Dirs \cup {NoFile}
    BY <1>25, AnchorType DEF PublishAnchor, HolderReady, Exists
  <2> QED
    BY <1>25, <2>1 DEF PublishAnchor
<1>26. CASE Unpublish
  BY <1>26 DEF Unpublish
<1>27. CASE Stage
  <2>1. PICK d \in published : staging' = Replacement(d) /\ verified' = Replacement(d)
    BY <1>27 DEF Stage, Found
  <2>2. Replacement(d) \in Dirs
    BY <2>1, ReplacementType
  <2> QED
    BY <1>27, <2>1, <2>2 DEF Stage
<1>28. CASE StageRefused
  BY <1>28 DEF StageRefused
<1>29. CASE Prepare
  <2>1. restoreJournal' \in RestoreJournals
    BY <1>29 DEF Prepare, RestoreJournals, Exists
  <2> QED
    BY <1>29, <2>1 DEF Prepare
<1>30. CASE MoveOld
  BY <1>30 DEF MoveOld
<1>31. CASE MarkOld
  <2>1. restoreJournal \in RestoreJournals
    BY <1>31 DEF MarkOld, SwitchShape, Restoring
  <2>2. restoreJournal' \in RestoreJournals
    BY <1>31, <2>1, JournalTypes DEF MarkOld, Mark
  <2>3. left' \subseteq Approvals
    BY <1>31 DEF MarkOld
  <2> QED
    BY <1>31, <2>2, <2>3 DEF MarkOld
<1>32. CASE MoveNew
  BY <1>32 DEF MoveNew
<1>33. CASE MarkNew
  <2>1. restoreJournal \in RestoreJournals
    BY <1>33 DEF MarkNew, SwitchShape, Restoring
  <2>2. restoreJournal' \in RestoreJournals
    BY <1>33, <2>1, JournalTypes DEF MarkNew, Mark
  <2>3. left' \subseteq Approvals
    BY <1>33, AsideType DEF MarkNew
  <2> QED
    BY <1>33, <2>2, <2>3 DEF MarkNew
<1>34. CASE DropOld
  BY <1>34 DEF DropOld
<1>35. CASE Finish
  BY <1>35 DEF Finish
<1>36. CASE RestoreRaises
  BY <1>36 DEF RestoreRaises
<1>37. CASE Crash
  BY <1>37 DEF Crash
<1>38. ASSUME NEW e \in published, ExportElsewhere(e) PROVE TypeOK'
  <2>1. PICK m \in Minds, acts \in SUBSET Approvals :
          archives' = Append(archives,
              [counter |-> CounterOf(e) + 1, previous |-> e, place |-> NoFile,
               db |-> [mind |-> m, head |-> e, truth |->
                        [approvals |-> [a \in Approvals |->
                            IF a \in acts THEN "consumed" ELSE archives[e].db.truth.approvals[a]],
                         sent |-> archives[e].db.truth.sent \cup acts]]])
    BY <1>38 DEF ExportElsewhere
  <2> DEFINE truth == [approvals |-> [a \in Approvals |->
                            IF a \in acts THEN "consumed" ELSE archives[e].db.truth.approvals[a]],
                       sent |-> archives[e].db.truth.sent \cup acts]
             next == [counter |-> CounterOf(e) + 1, previous |-> e, place |-> NoFile,
                      db |-> [mind |-> m, head |-> e, truth |-> truth]]
  <2>2. e \in 1..Len(archives) /\ e \in Digests /\ e # 0
    BY CheckpointAssumption DEF Digests
  <2>3. archives[e] \in Archives
    BY <2>2
  <2>4. archives[e].db.truth \in Truths /\ CounterOf(e) \in Nat
    BY <2>2, <2>3 DEF Archives, Databases, CounterOf
  <2>5. truth \in Truths
    BY <2>4 DEF Truths
  <2>6. next \in Archives
    BY <2>2, <2>4, <2>5 DEF Archives, Databases
  <2>7. archives' = Append(archives, next)
    BY <2>1
  <2> HIDE DEF truth, next
  <2>8. /\ archives' \in Seq(Archives) /\ Len(archives') = Len(archives) + 1
        /\ Len(archives') <= MaxArchives
    BY <1>38, <2>6, <2>7, CheckpointAssumption DEF ExportElsewhere
  <2>n. Len(archives) \in Nat /\ published' = published \cup {Len(archives) + 1}
    BY <1>38 DEF ExportElsewhere
  <2>10. published \subseteq 1..Len(archives)
    BY DEF ExportElsewhere
  <2>11. published' \subseteq 1..(Len(archives) + 1)
    BY <2>n, <2>10, NextDigest
  <2>12. publishJournal' = 0 /\ 0 \in 0..(Len(archives) + 1)
    BY <1>38, <2>n DEF ExportElsewhere
  <2>13. home' \in 0..(Len(archives) + 1) /\ over' \subseteq 1..(Len(archives) + 1)
    BY <1>38, <2>n DEF ExportElsewhere
  <2> QED
    BY <1>38, <2>8, <2>11, <2>12, <2>13 DEF ExportElsewhere
<1>39. CASE Relocate
  <2>h. home' = state.anchor /\ state.anchor \in published
    BY <1>39 DEF Relocate
  <2>a. published \subseteq 1..Len(archives)
    OBVIOUS
  <2>b. home' \in 1..Len(archives)
    BY ONLY <2>h, <2>a
  <2>c. Len(archives) \in Nat
    OBVIOUS
  <2>1. home' \in 0..Len(archives)
    BY ONLY <2>b, <2>c
  <2> QED
    BY <1>39, <2>1 DEF Relocate
<1>40. CASE UNCHANGED vars
  BY <1>40 DEF vars
<1> QED
  BY <1>1, <1>2, <1>3, <1>4, <1>5, <1>6, <1>7, <1>8, <1>9, <1>10, <1>11, <1>12, <1>13,
     <1>14, <1>15, <1>16, <1>17, <1>18, <1>19, <1>20, <1>21, <1>22, <1>23, <1>24, <1>25,
     <1>26, <1>27, <1>28, <1>29, <1>30, <1>31, <1>32, <1>33, <1>34, <1>35, <1>36, <1>37,
     <1>38, <1>39, <1>40
  DEF Next, Cycle, RecoverStep, ExportStep, RestoreStep

-----------------------------------------------------------------------------
(* What the holder of the writer lock finds, and the names directories hold. *)

LEMMA ReadyInit == Init => HolderReady /\ NamesKnown
<1> SUFFICES ASSUME Init PROVE HolderReady /\ NamesKnown
  OBVIOUS
<1>1. HolderReady
  BY DEF Init, HolderReady, Cycling, Publishing, Recovering, Restoring
<1>2. state.db.head = 0 /\ state.anchor = 0 /\ state.backup = NoFile
  BY DEF Init
<1>3. staging = NoFile /\ old = NoFile /\ verified = NoFile
  BY DEF Init
<1> QED
  BY <1>1, <1>2, <1>3 DEF NamesKnown, Exists

LEMMA HolderStep ==
    TypeOK /\ HolderReady /\ [Next]_vars => HolderReady'
<1> SUFFICES ASSUME TypeOK, HolderReady, [Next]_vars PROVE HolderReady'
  OBVIOUS
<1>r. pc \in {"recover", "recovered"} =>
        /\ AfterRecovery \in {"save", "free", "artifact", "capture", "stage"}
        /\ AfterRecovery = "save" => Unfinished(state)
        /\ AfterRecovery = "artifact" => publishJournal # 0
        /\ AfterRecovery = "stage" => goal.op = "restore"
  BY GoalTypes DEF TypeOK, HolderReady, Recovering, AfterRecovery
<1>d. state # NoFile => state \in Dirs
  BY DEF TypeOK
<1>f. NoFile \notin Dirs /\ NoFile \notin Databases /\ NoFile \notin Truths
  BY NoFileAssumption
<1>g. NoGoal.op = "open"
  BY GoalTypes
<1> USE <1>f, <1>g DEF HolderReady, vars, dirs, journals, records, history, Goto, Release,
        Exists, Unfinished, Restoring, Recovering, Publishing, Cycling
<1>1. CASE Begin
  <2>1. state \in Dirs /\ state.db \in Databases
    BY <1>1, <1>d, DirTypes DEF Begin
  <2>2. state' \in Dirs /\ state'.backup # NoFile
    BY <1>1, <2>1, <1>f, OpenedType DEF Begin
  <2> QED
    BY <1>1, <2>2 DEF Begin
<1>2. CASE Think
  <2>1. state \in Dirs
    BY <1>2, <1>d DEF Think
  <2>2. state' \in Dirs /\ state'.backup = state.backup /\ state'.safety = state.safety
    BY <1>2, <2>1, MindType DEF Think
  <2> QED
    BY <1>2, <2>1, <2>2 DEF Think
<1>3. ASSUME NEW x \in Approvals, Act(x) PROVE HolderReady'
  <2>1. state \in Dirs
    BY <1>3, <1>d DEF Act
  <2>2. state' \in Dirs /\ state'.backup = state.backup /\ state'.safety = state.safety
    BY <1>3, <2>1, ActType DEF Act
  <2> QED
    BY <1>3, <2>1, <2>2 DEF Act
<1>4. CASE Accept
  BY <1>4 DEF Accept
<1>5. CASE CycleRaises
  BY <1>5 DEF CycleRaises
<1>6. CASE Save
  <2>1. state \in Dirs /\ state.db.truth \in Truths /\ state.safety \in Truths \cup {NoFile}
    BY <1>6, <1>d, DirTypes DEF Save
  <2> DEFINE s == IF state.safety = NoFile THEN state.db.truth ELSE state.safety
  <2>2. s \in Truths /\ state' = [state EXCEPT !.safety = s]
    BY <1>6, <2>1 DEF Save
  <2> HIDE DEF s
  <2>3. state' \in Dirs /\ state'.backup = state.backup /\ state'.safety = s
    BY <2>1, <2>2, SavedType
  <2> QED
    BY <1>6, <2>1, <2>2, <2>3 DEF Save
<1>7. CASE Rewind
  <2>1. state \in Dirs /\ state.backup \in Databases
    BY <1>7, <1>d, DirTypes DEF Rewind
  <2>2. state' \in Dirs /\ state'.backup = state.backup /\ state'.safety = state.safety
    BY <1>7, <2>1, RewoundType DEF Rewind
  <2> QED
    BY <1>7, <2>1, <2>2 DEF Rewind
<1>8. CASE Reapply
  BY <1>8 DEF Reapply
<1>9. CASE Open
  BY <1>9 DEF Open
<1>10. ASSUME NEW p \in Places, Export(p) PROVE HolderReady'
  BY <1>10 DEF Export
<1>11. ASSUME NEW e \in published, Restore(e) PROVE HolderReady'
  BY <1>11 DEF Restore
<1>12. CASE NothingToRecover
  BY <1>12, <1>r DEF NothingToRecover
<1>13. CASE RecoverForward
  BY <1>13 DEF RecoverForward
<1>14. CASE RecoverUntouched
  BY <1>14 DEF RecoverUntouched
<1>15. CASE RecoverDisplace
  BY <1>15 DEF RecoverDisplace
<1>16. CASE RecoverPutBack
  BY <1>16 DEF RecoverPutBack
<1>17. CASE RecoverDropStaging
  BY <1>17 DEF RecoverDropStaging
<1>18. CASE RecoverFresh
  BY <1>18 DEF RecoverFresh
<1>19. CASE RecoverUnlink
  BY <1>19, <1>r DEF RecoverUnlink
<1>20. CASE RecoverRaises
  BY <1>20 DEF RecoverRaises
<1>21. CASE Capture
  BY <1>21, GoalTypes DEF Capture, TypeOK
<1>22. CASE CaptureRefused
  BY <1>22 DEF CaptureRefused
<1>23. CASE PublishArtifact
  BY <1>23 DEF PublishArtifact
<1>24. CASE PublishMetadata
  <2>1. publishJournal \in Digests
    BY CheckpointAssumption DEF TypeOK, Digests
  <2>2. pc' = "anchor" => state' \in Dirs
    BY <1>24, <1>d, <2>1, HeadType DEF PublishMetadata
  <2> QED
    BY <1>24, <2>2 DEF PublishMetadata
<1>25. CASE PublishAnchor
  BY <1>25, <1>d, DirTypes DEF PublishAnchor
<1>26. CASE Unpublish
  BY <1>26 DEF Unpublish, TypeOK
<1>27. CASE Stage
  BY <1>27 DEF Stage
<1>28. CASE StageRefused
  BY <1>28 DEF StageRefused
<1>29. CASE Prepare
  BY <1>29 DEF Prepare
<1>30. CASE MoveOld
  BY <1>30 DEF MoveOld
<1>31. CASE MarkOld
  BY <1>31 DEF MarkOld
<1>32. CASE MoveNew
  BY <1>32 DEF MoveNew
<1>33. CASE MarkNew
  BY <1>33 DEF MarkNew
<1>34. CASE DropOld
  BY <1>34 DEF DropOld
<1>35. CASE Finish
  BY <1>35 DEF Finish
<1>36. CASE RestoreRaises
  BY <1>36 DEF RestoreRaises
<1>37. CASE Crash
  BY <1>37 DEF Crash
<1>38. ASSUME NEW e \in published, ExportElsewhere(e) PROVE HolderReady'
  BY <1>38 DEF ExportElsewhere
<1>39. CASE Relocate
  BY <1>39 DEF Relocate
<1>40. CASE UNCHANGED vars
  BY <1>40 DEF vars
<1> QED
  BY <1>1, <1>2, <1>3, <1>4, <1>5, <1>6, <1>7, <1>8, <1>9, <1>10, <1>11, <1>12, <1>13,
     <1>14, <1>15, <1>16, <1>17, <1>18, <1>19, <1>20, <1>21, <1>22, <1>23, <1>24, <1>25,
     <1>26, <1>27, <1>28, <1>29, <1>30, <1>31, <1>32, <1>33, <1>34, <1>35, <1>36, <1>37,
     <1>38, <1>39, <1>40
  DEF Next, Cycle, RecoverStep, ExportStep, RestoreStep

LEMMA NamesStep ==
    TypeOK /\ HolderReady /\ NamesKnown /\ [Next]_vars => NamesKnown'
<1> SUFFICES ASSUME TypeOK, HolderReady, NamesKnown, [Next]_vars PROVE NamesKnown'
  OBVIOUS
<1> DEFINE Named(dir, n) ==
             dir # NoFile =>
                /\ {dir.db.head, dir.anchor} \subseteq 0..n
                /\ dir.backup # NoFile => dir.backup.head \in 0..n
<1>n. /\ Named(state, Len(archives)) /\ Named(staging, Len(archives))
      /\ Named(old, Len(archives)) /\ Named(verified, Len(archives))
  BY DEF NamesKnown, Exists
<1>p. ASSUME Named(state', Len(archives')), Named(staging', Len(archives')),
             Named(old', Len(archives')), Named(verified', Len(archives'))
      PROVE  NamesKnown'
  BY <1>p DEF NamesKnown, Exists
<1>u. ASSUME Named(state', Len(archives)), UNCHANGED <<staging, old, verified, archives>>
      PROVE  NamesKnown'
  BY <1>n, <1>p, <1>u
<1>d. state # NoFile => state \in Dirs
  BY DEF TypeOK
<1>c. pc \in Cycling => state \in Dirs /\ state # NoFile /\ state.backup \in Databases
  BY <1>d, DirTypes DEF HolderReady, Exists
<1>j. publishJournal \in Digests
  BY CheckpointAssumption DEF TypeOK, Digests
<1>f. NoFile \notin Databases /\ NoFile \notin Truths
  BY NoFileAssumption
<1> HIDE DEF Named
<1>1. CASE Begin
  <2>1. state \in Dirs /\ state # NoFile
    BY <1>1, <1>d DEF Begin, Exists
  <2>2. state' = [state EXCEPT !.backup = state.db, !.safety = NoFile]
    BY <1>1 DEF Begin
  <2>3. state'.anchor = state.anchor /\ state'.db = state.db /\ state'.backup = state.db
    BY <2>1, <2>2, OpenedType
  <2>4. Named(state', Len(archives))
    BY <1>n, <2>1, <2>3 DEF Named
  <2> QED
    BY <1>1, <1>u, <2>4 DEF Begin, history, records
<1>2. CASE Think
  <2>1. state \in Dirs /\ state # NoFile
    BY <1>2, <1>c DEF Think, Cycling
  <2>2. PICK m \in Minds : state' = [state EXCEPT !.db.mind = m]
    BY <1>2 DEF Think
  <2>3. /\ state'.anchor = state.anchor /\ state'.db.head = state.db.head
        /\ state'.backup = state.backup
    BY <2>1, <2>2, MindType
  <2>4. Named(state', Len(archives))
    BY <1>n, <2>1, <2>3 DEF Named
  <2> QED
    BY <1>2, <1>u, <2>4 DEF Think, history, records
<1>3. ASSUME NEW x \in Approvals, Act(x) PROVE NamesKnown'
  <2>1. state \in Dirs /\ state # NoFile
    BY <1>3, <1>c DEF Act, Cycling
  <2>2. state' = [state EXCEPT !.db.truth.approvals[x] = "consumed",
                           !.db.truth.sent = @ \cup {x}]
    BY <1>3 DEF Act
  <2>3. state'.anchor = state.anchor /\ state'.db.head = state.db.head /\ state'.backup = state.backup
    BY <2>1, <2>2, ActType
  <2>4. Named(state', Len(archives))
    BY <1>n, <2>1, <2>3 DEF Named
  <2> QED
    BY <1>3, <1>u, <2>4 DEF Act, history, records
<1>4. CASE Accept
  <2>1. state \in Dirs /\ state # NoFile
    BY <1>4, <1>c DEF Accept, Cycling
  <2>2. state' = [state EXCEPT !.backup = NoFile, !.safety = NoFile]
    BY <1>4 DEF Accept
  <2>3. state'.anchor = state.anchor /\ state'.db = state.db /\ state'.backup = NoFile
    BY <2>1, <2>2, ClosedType
  <2>4. Named(state', Len(archives))
    BY <1>n, <2>1, <2>3 DEF Named
  <2> QED
    BY <1>4, <1>u, <2>4 DEF Accept, history, records
<1>5. CASE Save
  <2>1. state \in Dirs /\ state # NoFile /\ state.db.truth \in Truths
       /\ state.safety \in Truths \cup {NoFile}
    BY <1>5, <1>c, DirTypes DEF Save, Goto, Cycling
  <2> DEFINE s == IF state.safety = NoFile THEN state.db.truth ELSE state.safety
  <2>2. s \in Truths \cup {NoFile} /\ state' = [state EXCEPT !.safety = s]
    BY <1>5, <2>1 DEF Save
  <2> HIDE DEF s
  <2>3. state'.anchor = state.anchor /\ state'.db = state.db /\ state'.backup = state.backup
    BY <2>1, <2>2, SavedType
  <2>4. Named(state', Len(archives))
    BY <1>n, <2>1, <2>3 DEF Named
  <2> QED
    BY <1>5, <1>u, <2>4 DEF Save, history, records
<1>6. CASE Rewind
  <2>1. state \in Dirs /\ state # NoFile /\ state.backup \in Databases /\ state.backup # NoFile
    BY <1>6, <1>c, <1>f DEF Rewind, Goto, Cycling
  <2>2. state' = [state EXCEPT !.db = state.backup]
    BY <1>6 DEF Rewind
  <2>3. state'.anchor = state.anchor /\ state'.db = state.backup /\ state'.backup = state.backup
    BY <2>1, <2>2, RewoundType
  <2>4. Named(state', Len(archives))
    BY <1>n, <2>1, <2>3 DEF Named
  <2> QED
    BY <1>6, <1>u, <2>4 DEF Rewind, history, records
<1>7. CASE Reapply
  <2>1. state \in Dirs /\ state # NoFile /\ state.safety \in Truths
    BY <1>7, <1>c, DirTypes DEF Reapply, HolderReady, Cycling
  <2>2. state' = [state EXCEPT !.db.truth = state.safety, !.backup = NoFile, !.safety = NoFile]
    BY <1>7 DEF Reapply
  <2>3. state'.anchor = state.anchor /\ state'.db.head = state.db.head /\ state'.backup = NoFile
    BY <2>1, <2>2, ReappliedType
  <2>4. Named(state', Len(archives))
    BY <1>n, <2>1, <2>3 DEF Named
  <2> QED
    BY <1>7, <1>u, <2>4 DEF Reapply, history, records
<1>8. CASE RecoverForward
  BY <1>8, <1>n, <1>p DEF RecoverForward, records, history, Named
<1>9. CASE RecoverUntouched
  BY <1>9, <1>n, <1>p DEF RecoverUntouched, records, history, Named
<1>10. CASE RecoverDisplace
  BY <1>10, <1>n, <1>p DEF RecoverDisplace, records, history, Named
<1>11. CASE RecoverPutBack
  BY <1>11, <1>n, <1>p DEF RecoverPutBack, records, history, Named
<1>12. CASE RecoverDropStaging
  BY <1>12, <1>n, <1>p DEF RecoverDropStaging, records, history, Named
<1>13. CASE RecoverFresh
  BY <1>13, <1>n, <1>p DEF RecoverFresh, records, history, Named
<1>14. CASE PublishArtifact
  BY <1>14, <1>n, <1>p DEF PublishArtifact, dirs, history
<1>15. CASE PublishMetadata
  <2>1. CASE UNCHANGED state
    BY <1>15, <1>n, <1>u, <2>1 DEF PublishMetadata, history, records
  <2>2. CASE state # NoFile /\ state' = [state EXCEPT !.db.head = publishJournal]
    <3>1. state \in Dirs /\ publishJournal \in 0..Len(archives)
      BY <1>15, <1>d, <2>2 DEF TypeOK
    <3>2. state'.db.head = publishJournal /\ state'.anchor = state.anchor /\ state'.backup = state.backup
      BY <1>j, <2>2, <3>1, HeadType
    <3>3. Named(state', Len(archives))
      BY <1>n, <2>2, <3>1, <3>2 DEF Named
    <3> QED
      BY <1>15, <1>u, <3>3 DEF PublishMetadata, history, records
  <2> QED
    BY <1>15, <2>1, <2>2 DEF PublishMetadata, Exists
<1>16. CASE PublishAnchor
  <2>1. state \in Dirs /\ state # NoFile /\ publishJournal \in 0..Len(archives)
    BY <1>16, <1>d DEF PublishAnchor, Goto, HolderReady, Exists, TypeOK
  <2>2. state' = [state EXCEPT !.anchor = publishJournal]
    BY <1>16 DEF PublishAnchor
  <2>3. state'.anchor = publishJournal /\ state'.db = state.db /\ state'.backup = state.backup
    BY <1>j, <2>1, <2>2, AnchorType
  <2>4. Named(state', Len(archives))
    BY <1>n, <2>1, <2>3 DEF Named
  <2> QED
    BY <1>16, <1>u, <2>4 DEF PublishAnchor, history, records
<1>17. CASE Stage
  <2>1. PICK d \in published : staging' = Replacement(d) /\ verified' = Replacement(d)
    BY <1>17 DEF Stage, Found
  <2>2. d \in 0..Len(archives)
    BY DEF TypeOK
  <2>3. Named(Replacement(d), Len(archives))
    BY <2>2, ReplacementType DEF Named
  <2> QED
    BY <1>17, <1>n, <1>p, <2>1, <2>3 DEF Stage, records
<1>18. CASE MoveOld
  BY <1>18, <1>n, <1>p DEF MoveOld, records, history, Named
<1>19. CASE MoveNew
  BY <1>19, <1>n, <1>p DEF MoveNew, records, history, Named
<1>20. CASE DropOld
  BY <1>20, <1>n, <1>p DEF DropOld, records, history, Named
<1>21. CASE RestoreRaises
  BY <1>21, <1>n, <1>p DEF RestoreRaises, records, history, Named
<1>22. ASSUME NEW e \in published, ExportElsewhere(e) PROVE NamesKnown'
  <2>1. UNCHANGED dirs /\ verified' = verified /\ 0..Len(archives) \subseteq 0..Len(archives')
    BY <1>22 DEF ExportElsewhere, TypeOK, history
  <2>2. ASSUME NEW dir, Named(dir, Len(archives)) PROVE Named(dir, Len(archives'))
    BY <2>1, <2>2 DEF Named
  <2> QED
    BY <1>n, <1>p, <2>1, <2>2 DEF dirs
<1>23. CASE Relocate
  BY <1>23, <1>n, <1>p DEF Relocate, records, history, Named
<1> USE DEF dirs, records, history
<1>24. CASE CycleRaises
  BY <1>24, <1>n, <1>p DEF CycleRaises
<1>25. CASE Open
  BY <1>25, <1>n, <1>p DEF Open
<1>26. ASSUME NEW p \in Places, Export(p) PROVE NamesKnown'
  BY <1>26, <1>n, <1>p DEF Export
<1>27. ASSUME NEW e \in published, Restore(e) PROVE NamesKnown'
  BY <1>27, <1>n, <1>p DEF Restore
<1>28. CASE NothingToRecover
  BY <1>28, <1>n, <1>p DEF NothingToRecover
<1>29. CASE RecoverUnlink
  BY <1>29, <1>n, <1>p DEF RecoverUnlink
<1>30. CASE RecoverRaises
  BY <1>30, <1>n, <1>p DEF RecoverRaises
<1>31. CASE Capture
  <2>1. UNCHANGED dirs /\ verified' = verified /\ 0..Len(archives) \subseteq 0..Len(archives')
    BY <1>31 DEF Capture, TypeOK
  <2>2. ASSUME NEW dir, Named(dir, Len(archives)) PROVE Named(dir, Len(archives'))
    BY <2>1, <2>2 DEF Named
  <2> QED
    BY <1>n, <1>p, <2>1, <2>2
<1>32. CASE CaptureRefused
  BY <1>32, <1>n, <1>p DEF CaptureRefused
<1>33. CASE Unpublish
  BY <1>33, <1>n, <1>p DEF Unpublish
<1>34. CASE StageRefused
  BY <1>34, <1>n, <1>p DEF StageRefused
<1>35. CASE Prepare
  BY <1>35, <1>n, <1>p DEF Prepare
<1>36. CASE MarkOld
  BY <1>36, <1>n, <1>p DEF MarkOld
<1>37. CASE MarkNew
  BY <1>37, <1>n, <1>p DEF MarkNew
<1>38. CASE Finish
  BY <1>38, <1>n, <1>p DEF Finish
<1>39. CASE Crash
  BY <1>39, <1>n, <1>p DEF Crash
<1>40. CASE UNCHANGED vars
  BY <1>40, <1>n, <1>p DEF vars
<1> QED
  BY <1>1, <1>2, <1>3, <1>4, <1>5, <1>6, <1>7, <1>8, <1>9, <1>10, <1>11, <1>12, <1>13,
     <1>14, <1>15, <1>16, <1>17, <1>18, <1>19, <1>20, <1>21, <1>22, <1>23, <1>24, <1>25,
     <1>26, <1>27, <1>28, <1>29, <1>30, <1>31, <1>32, <1>33, <1>34, <1>35, <1>36, <1>37,
     <1>38, <1>39, <1>40
  DEF Next, Cycle, RecoverStep, ExportStep, RestoreStep

-----------------------------------------------------------------------------
(* Where the directories are during a restore and its recovery.            *)

LEMMA SwitchInit == Init => SwitchShape
  BY DEF Init, SwitchShape, Publishing, Cycling, Restoring, Recovering

LEMMA SwitchStep ==
    TypeOK /\ HolderReady /\ SwitchShape /\ [Next]_vars => SwitchShape'
<1> SUFFICES ASSUME TypeOK, HolderReady, SwitchShape, [Next]_vars PROVE SwitchShape'
  OBVIOUS
<1>r. pc \in {"recover", "recovered"} =>
        AfterRecovery \in {"save", "free", "artifact", "capture", "stage"}
  BY RecoveryLabel DEF TypeOK, HolderReady, Recovering
<1>j. restoreJournal # NoFile => restoreJournal \in RestoreJournals
  BY DEF TypeOK
<1>s. Stage => staging' = verified' /\ staging' # NoFile
  BY ReplacementType DEF Stage, Found
<1> USE DEF SwitchShape, dirs, journals, records, history, Goto, Release, Exists, Restoring,
            Recovering, Publishing, Cycling
<1>1. CASE Begin
  BY <1>1 DEF Begin
<1>2. CASE Think
  BY <1>2 DEF Think
<1>3. ASSUME NEW x \in Approvals, Act(x) PROVE SwitchShape'
  BY <1>3 DEF Act
<1>4. CASE Accept
  BY <1>4 DEF Accept
<1>5. CASE CycleRaises
  BY <1>5 DEF CycleRaises
<1>6. CASE Save
  BY <1>6 DEF Save
<1>7. CASE Rewind
  BY <1>7 DEF Rewind
<1>8. CASE Reapply
  BY <1>8 DEF Reapply
<1>9. CASE Open
  BY <1>9 DEF Open
<1>10. ASSUME NEW p \in Places, Export(p) PROVE SwitchShape'
  BY <1>10 DEF Export
<1>11. ASSUME NEW e \in published, Restore(e) PROVE SwitchShape'
  BY <1>11 DEF Restore
<1>12. CASE NothingToRecover
  BY <1>12, <1>r DEF NothingToRecover
<1>13. CASE RecoverForward
  BY <1>13, <1>j, JournalTypes DEF RecoverForward, Surviving
<1>14. CASE RecoverUntouched
  BY <1>14, <1>j, JournalTypes DEF RecoverUntouched, Surviving
<1>15. CASE RecoverDisplace
  BY <1>15, <1>j, JournalTypes DEF RecoverDisplace
<1>16. CASE RecoverPutBack
  BY <1>16 DEF RecoverPutBack
<1>17. CASE RecoverDropStaging
  BY <1>17 DEF RecoverDropStaging, Surviving
<1>18. CASE RecoverFresh
  BY <1>18, <1>j, JournalTypes DEF RecoverFresh, Surviving
<1>19. CASE RecoverUnlink
  BY <1>19, <1>r DEF RecoverUnlink, Surviving
<1>20. CASE RecoverRaises
  BY <1>20 DEF RecoverRaises
<1>21. CASE Capture
  BY <1>21 DEF Capture
<1>22. CASE CaptureRefused
  BY <1>22 DEF CaptureRefused
<1>23. CASE PublishArtifact
  BY <1>23 DEF PublishArtifact
<1>24. CASE PublishMetadata
  BY <1>24 DEF PublishMetadata
<1>25. CASE PublishAnchor
  BY <1>25 DEF PublishAnchor
<1>26. CASE Unpublish
  BY <1>26 DEF Unpublish
<1>27. CASE Stage
  BY <1>27, <1>s DEF Stage
<1>28. CASE StageRefused
  BY <1>28 DEF StageRefused
<1>29. CASE Prepare
  <2>1. restoreJournal' = [status |-> "prepared", hadOriginal |-> (state # NoFile)]
    BY <1>29 DEF Prepare
  <2>2. /\ restoreJournal' # NoFile /\ restoreJournal'.status = "prepared"
        /\ (restoreJournal'.hadOriginal <=> state # NoFile)
    BY <2>1, PreparedType
  <2> QED
    BY <1>29, <2>2 DEF Prepare
<1>30. CASE MoveOld
  BY <1>30 DEF MoveOld
<1>31. CASE MarkOld
  <2>1. restoreJournal \in RestoreJournals
    BY <1>31, <1>j DEF MarkOld
  <2>2. /\ restoreJournal' # NoFile /\ restoreJournal'.status = "old_moved"
        /\ restoreJournal'.hadOriginal = restoreJournal.hadOriginal
    BY <1>31, <2>1, JournalTypes DEF MarkOld, Mark
  <2> QED
    BY <1>31, <2>2 DEF MarkOld
<1>32. CASE MoveNew
  BY <1>32 DEF MoveNew
<1>33. CASE MarkNew
  <2>1. restoreJournal \in RestoreJournals
    BY <1>33, <1>j DEF MarkNew
  <2>2. /\ restoreJournal' # NoFile /\ restoreJournal'.status = "new_moved"
        /\ restoreJournal'.hadOriginal = restoreJournal.hadOriginal
    BY <1>33, <2>1, JournalTypes DEF MarkNew, Mark
  <2> QED
    BY <1>33, <2>2 DEF MarkNew
<1>34. CASE DropOld
  BY <1>34 DEF DropOld
<1>35. CASE Finish
  BY <1>35 DEF Finish
<1>36. CASE RestoreRaises
  BY <1>36 DEF RestoreRaises
<1>37. CASE Crash
  BY <1>37 DEF Crash, Surviving
<1>38. ASSUME NEW e \in published, ExportElsewhere(e) PROVE SwitchShape'
  BY <1>38 DEF ExportElsewhere, Surviving
<1>39. CASE Relocate
  BY <1>39 DEF Relocate
<1>40. CASE UNCHANGED vars
  BY <1>40 DEF vars, Surviving
<1> QED
  BY <1>1, <1>2, <1>3, <1>4, <1>5, <1>6, <1>7, <1>8, <1>9, <1>10, <1>11, <1>12, <1>13,
     <1>14, <1>15, <1>16, <1>17, <1>18, <1>19, <1>20, <1>21, <1>22, <1>23, <1>24, <1>25,
     <1>26, <1>27, <1>28, <1>29, <1>30, <1>31, <1>32, <1>33, <1>34, <1>35, <1>36, <1>37,
     <1>38, <1>39, <1>40
  DEF Next, Cycle, RecoverStep, ExportStep, RestoreStep

-----------------------------------------------------------------------------
(* The inductive invariant.                                                *)

IInv == TypeOK /\ HolderReady /\ NamesKnown /\ SwitchShape

LEMMA InductiveInvariant == Spec => []IInv
<1>1. Init => IInv
  BY TypeInit, ReadyInit, SwitchInit DEF IInv
<1>2. IInv /\ [Next]_vars => IInv'
  BY TypeStep, HolderStep, NamesStep, SwitchStep DEF IInv
<1> QED
  BY <1>1, <1>2, PTL DEF Spec

-----------------------------------------------------------------------------
(* What the steps that write into the state directory do to its fields.    *)

\* Directories that differ in the content of cognition at most.
SameButMind(e, d) ==
    /\ e.db.head = d.db.head /\ e.db.truth = d.db.truth
    /\ e.anchor = d.anchor /\ e.backup = d.backup /\ e.safety = d.safety

LEMMA TruthFields ==
    ASSUME NEW d \in Dirs, NEW t \in Truths, NEW n \in Digests, NEW a \in Approvals
    PROVE  /\ [d EXCEPT !.db.truth = t, !.backup = NoFile, !.safety = NoFile].db.truth = t
           /\ [d EXCEPT !.db.truth = t, !.backup = NoFile, !.safety = NoFile].safety = NoFile
           /\ [d EXCEPT !.db.head = n].db.truth = d.db.truth
           /\ [d EXCEPT !.db.truth.approvals[a] = "consumed",
                        !.db.truth.sent = @ \cup {a}].db.truth.sent = d.db.truth.sent \cup {a}
           /\ [d EXCEPT !.db.truth.approvals[a] = "consumed",
                        !.db.truth.sent = @ \cup {a}].db.truth.approvals
                = [d.db.truth.approvals EXCEPT ![a] = "consumed"]
  BY NoFileAssumption DEF Dirs, Databases, Truths

LEMMA StateReady ==
    ASSUME IInv
    PROVE  /\ state # NoFile => state \in Dirs
           /\ pc \in Cycling => state \in Dirs /\ state # NoFile /\ state.backup \in Databases
           /\ pc \in {"rewind", "reapply"} => state.safety \in Truths
           /\ publishJournal \in Digests
<1>1. state # NoFile => state \in Dirs
  BY DEF IInv, TypeOK
<1>2. publishJournal \in Digests
  BY CheckpointAssumption DEF IInv, TypeOK, Digests
<1> QED
  BY <1>1, <1>2, DirTypes DEF IInv, HolderReady, Exists, Cycling

LEMMA BeginEffect ==
    ASSUME IInv, Begin
    PROVE  /\ state \in Dirs /\ state' \in Dirs /\ state.backup = NoFile
           /\ state'.db = state.db /\ state'.anchor = state.anchor
           /\ state'.backup = state.db /\ state'.safety = NoFile
<1>1. state \in Dirs /\ state.backup = NoFile /\ state' = [state EXCEPT !.backup = state.db, !.safety = NoFile]
  BY StateReady DEF Begin, Exists, Unfinished
<1> QED
  BY <1>1, OpenedType

LEMMA ThinkEffect ==
    ASSUME IInv, Think
    PROVE  state \in Dirs /\ state' \in Dirs /\ SameButMind(state', state)
<1>1. PICK m \in Minds : state' = [state EXCEPT !.db.mind = m]
  BY DEF Think
<1>2. state \in Dirs
  BY StateReady DEF Think, Cycling
<1> QED
  BY <1>1, <1>2, MindType DEF SameButMind

LEMMA ActEffect ==
    ASSUME IInv, NEW a \in Approvals, Act(a)
    PROVE  /\ state \in Dirs /\ state' \in Dirs
           /\ state'.db.head = state.db.head /\ state'.anchor = state.anchor
           /\ state'.backup = state.backup /\ state'.safety = state.safety
           /\ state'.db.truth.approvals = [state.db.truth.approvals EXCEPT ![a] = "consumed"]
           /\ state'.db.truth.sent = state.db.truth.sent \cup {a}
<1>1. state \in Dirs
  BY StateReady DEF Act, Cycling
<1>2. state' = [state EXCEPT !.db.truth.approvals[a] = "consumed",
                             !.db.truth.sent = @ \cup {a}]
  BY DEF Act
<1>3. state' \in Dirs /\ state'.db.head = state.db.head /\ state'.anchor = state.anchor
      /\ state'.backup = state.backup /\ state'.safety = state.safety
  BY <1>1, <1>2, ActType
<1>4. 0 \in Digests /\ state.db.truth \in Truths
  BY <1>1, DirTypes, CheckpointAssumption DEF Digests
<1> QED
  BY <1>1, <1>2, <1>3, <1>4, TruthFields

LEMMA AcceptEffect ==
    ASSUME IInv, Accept
    PROVE  /\ state \in Dirs /\ state' \in Dirs
           /\ state'.db = state.db /\ state'.anchor = state.anchor
           /\ state'.backup = NoFile /\ state'.safety = NoFile
<1>1. state \in Dirs /\ state' = [state EXCEPT !.backup = NoFile, !.safety = NoFile]
  BY StateReady DEF Accept, Cycling
<1> QED
  BY <1>1, ClosedType

LEMMA SaveEffect ==
    ASSUME IInv, Save
    PROVE  /\ state \in Dirs /\ state' \in Dirs
           /\ state'.db = state.db /\ state'.anchor = state.anchor /\ state'.backup = state.backup
           /\ state'.safety = IF state.safety = NoFile THEN state.db.truth ELSE state.safety
           /\ state'.safety # NoFile
<1>1. state \in Dirs
  BY StateReady DEF Save, Goto, Cycling
<1>2. /\ state.db.truth \in Truths /\ state.db.truth # NoFile
      /\ state.safety \in Truths \cup {NoFile}
  BY <1>1, DirTypes
<1> DEFINE s == IF state.safety = NoFile THEN state.db.truth ELSE state.safety
<1>3. s \in Truths \cup {NoFile} /\ s # NoFile /\ state' = [state EXCEPT !.safety = s]
  BY <1>1, <1>2 DEF Save
<1> HIDE DEF s
<1>4. state' \in Dirs /\ state'.db = state.db /\ state'.anchor = state.anchor
      /\ state'.backup = state.backup /\ state'.safety = s
  BY <1>1, <1>3, SavedType
<1> QED
  BY <1>1, <1>3, <1>4 DEF s

LEMMA RewindEffect ==
    ASSUME IInv, Rewind
    PROVE  /\ state \in Dirs /\ state' \in Dirs /\ state.backup # NoFile /\ state.safety # NoFile
           /\ state'.db = state.backup /\ state'.anchor = state.anchor
           /\ state'.backup = state.backup /\ state'.safety = state.safety
<1>1. /\ state \in Dirs /\ state.backup \in Databases /\ state.safety \in Truths
      /\ state' = [state EXCEPT !.db = state.backup]
  BY StateReady DEF Rewind, Goto, Cycling
<1> QED
  BY <1>1, RewoundType, NoFileAssumption

LEMMA ReapplyEffect ==
    ASSUME IInv, Reapply
    PROVE  /\ state \in Dirs /\ state' \in Dirs /\ state.safety # NoFile
           /\ state'.db.head = state.db.head /\ state'.anchor = state.anchor
           /\ state'.db.truth = state.safety /\ state'.backup = NoFile /\ state'.safety = NoFile
<1>1. /\ state \in Dirs /\ state.safety \in Truths
      /\ state' = [state EXCEPT !.db.truth = state.safety, !.backup = NoFile, !.safety = NoFile]
  BY StateReady DEF Reapply, Cycling
<1>2. state' \in Dirs /\ state'.db.head = state.db.head /\ state'.anchor = state.anchor
      /\ state'.backup = NoFile
  BY <1>1, ReappliedType
<1>3. state'.db.truth = state.safety /\ state'.safety = NoFile
  BY <1>1, NoFileAssumption DEF Dirs, Databases
<1> QED
  BY <1>1, <1>2, <1>3, NoFileAssumption

LEMMA MetadataEffect ==
    ASSUME IInv, PublishMetadata
    PROVE  \/ UNCHANGED state /\ pc' = "free"
           \/ /\ state \in Dirs /\ state' \in Dirs /\ pc' = "anchor"
              /\ state.backup # NoFile =>
                    state.backup.head = publishJournal \/ publishJournal \in over'
              /\ Continues(state.anchor) /\ Continues(state.db.head)
              /\ state'.db.head = publishJournal /\ state'.db.truth = state.db.truth
              /\ state'.anchor = state.anchor
              /\ state'.backup = state.backup /\ state'.safety = state.safety
<1>1. CASE Exists(state) /\ Continues(state.anchor) /\ Continues(state.db.head)
  <2>1. /\ state \in Dirs /\ publishJournal \in Digests
        /\ state' = [state EXCEPT !.db.head = publishJournal] /\ pc' = "anchor"
    BY <1>1, StateReady DEF PublishMetadata, Exists
  <2> DEFINE e == [state EXCEPT !.db.head = publishJournal]
  <2>2. /\ e \in Dirs /\ e.db.head = publishJournal /\ e.anchor = state.anchor
        /\ e.backup = state.backup /\ e.safety = state.safety
    BY <2>1, NoFileAssumption DEF Dirs, Databases
  <2>3. e.db.truth = state.db.truth
    BY <2>1 DEF Dirs, Databases
  <2>4. state.backup # NoFile => state.backup.head = publishJournal \/ publishJournal \in over'
    BY <1>1 DEF PublishMetadata, RewindsHead, Unfinished
  <2> QED
    BY <1>1, <2>1, <2>2, <2>3, <2>4
<1>2. CASE ~(Exists(state) /\ Continues(state.anchor) /\ Continues(state.db.head))
  BY <1>2 DEF PublishMetadata, Release
<1> QED
  BY <1>1, <1>2

LEMMA AnchorEffect ==
    ASSUME IInv, PublishAnchor
    PROVE  /\ state \in Dirs /\ state' \in Dirs
           /\ state'.db = state.db /\ state'.anchor = publishJournal
           /\ state'.backup = state.backup /\ state'.safety = state.safety
<1>1. /\ state \in Dirs /\ publishJournal \in Digests
      /\ state' = [state EXCEPT !.anchor = publishJournal]
  BY StateReady DEF PublishAnchor, Goto, IInv, HolderReady, Exists
<1> QED
  BY <1>1, AnchorType

-----------------------------------------------------------------------------
(* Which steps change what.                                                *)

LEMMA RecordSteps ==
    ASSUME [Next]_vars
    PROVE  /\ UNCHANGED <<spent, called>> \/ (\E a \in Approvals : Act(a))
           /\ UNCHANGED archives \/ Capture \/ (\E e \in published : ExportElsewhere(e))
           /\ UNCHANGED published \/ PublishArtifact \/ (\E e \in published : ExportElsewhere(e))
           /\ UNCHANGED publishJournal \/ Capture \/ Unpublish
           /\ UNCHANGED verified \/ Stage
           /\ UNCHANGED home \/ Relocate
           /\ UNCHANGED left \/ MarkOld \/ MarkNew
           /\ over \subseteq over' /\ (UNCHANGED over \/ PublishMetadata)
           /\ UNCHANGED state \/ Begin \/ Think \/ (\E a \in Approvals : Act(a)) \/ Accept
              \/ Save \/ Rewind \/ Reapply \/ PublishMetadata \/ PublishAnchor \/ Relocate
              \/ RecoverDisplace \/ RecoverPutBack \/ RecoverFresh \/ MoveOld \/ MoveNew
  BY DEF Next, Cycle, RecoverStep, ExportStep, RestoreStep, vars, dirs, journals, records, history,
         Accept, CycleRaises, Open, Export, Restore, NothingToRecover, RecoverForward,
         RecoverUntouched, RecoverDisplace, RecoverPutBack, RecoverDropStaging, RecoverFresh,
         RecoverUnlink, RecoverRaises, Capture, CaptureRefused, PublishArtifact, PublishMetadata,
         PublishAnchor, Unpublish, Stage, StageRefused, Prepare, MoveOld, MarkOld, MoveNew,
         MarkNew, DropOld, Finish, RestoreRaises, Crash, ExportElsewhere, Relocate, Begin, Think,
         Act, Save, Rewind, Reapply

\* The steps that write into the surviving directory itself.
Writing ==
    \/ Begin \/ Think \/ (\E a \in Approvals : Act(a)) \/ Accept \/ Save \/ Rewind \/ Reapply
    \/ PublishMetadata \/ PublishAnchor \/ Relocate

\* The surviving directory stays, is written to with no restore open, or is
\* switched by one of the two markers of a restore.
Moves ==
    \/ Surviving' = Surviving
    \/ Writing /\ restoreJournal = NoFile /\ restoreJournal' = NoFile
    \/ (MarkOld \/ MarkNew) /\ Surviving' = verified

LEMMA SurvivingMoves == IInv /\ [Next]_vars => Moves
<1> SUFFICES ASSUME IInv, [Next]_vars PROVE Moves
  OBVIOUS
<1>j. restoreJournal # NoFile => restoreJournal \in RestoreJournals
  BY DEF IInv, TypeOK
<1>i. SwitchShape
  BY DEF IInv
<1> USE <1>i DEF SwitchShape, Moves, Writing, Surviving, dirs, journals, records, history, Goto, Release, Exists,
        Restoring, Recovering, Publishing, Cycling
<1>1. CASE Begin
  BY <1>1 DEF Begin
<1>2. CASE Think
  BY <1>2 DEF Think
<1>3. ASSUME NEW x \in Approvals, Act(x) PROVE Moves
  BY <1>3 DEF Act
<1>4. CASE Accept
  BY <1>4 DEF Accept
<1>5. CASE CycleRaises
  BY <1>5 DEF CycleRaises
<1>6. CASE Save
  BY <1>6 DEF Save
<1>7. CASE Rewind
  BY <1>7 DEF Rewind
<1>8. CASE Reapply
  BY <1>8 DEF Reapply
<1>9. CASE Open
  BY <1>9 DEF Open
<1>10. ASSUME NEW p \in Places, Export(p) PROVE Moves
  BY <1>10 DEF Export
<1>11. ASSUME NEW e \in published, Restore(e) PROVE Moves
  BY <1>11 DEF Restore
<1>12. CASE NothingToRecover
  BY <1>12 DEF NothingToRecover
<1>13. CASE RecoverForward
  BY <1>13 DEF RecoverForward
<1>14. CASE RecoverUntouched
  BY <1>14 DEF RecoverUntouched
<1>15. CASE RecoverDisplace
  BY <1>15 DEF RecoverDisplace
<1>16. CASE RecoverPutBack
  BY <1>16 DEF RecoverPutBack
<1>17. CASE RecoverDropStaging
  BY <1>17 DEF RecoverDropStaging
<1>18. CASE RecoverFresh
  BY <1>18 DEF RecoverFresh
<1>19. CASE RecoverUnlink
  BY <1>19 DEF RecoverUnlink
<1>20. CASE RecoverRaises
  BY <1>20 DEF RecoverRaises
<1>21. CASE Capture
  BY <1>21 DEF Capture
<1>22. CASE CaptureRefused
  BY <1>22 DEF CaptureRefused
<1>23. CASE PublishArtifact
  BY <1>23 DEF PublishArtifact
<1>24. CASE PublishMetadata
  BY <1>24 DEF PublishMetadata
<1>25. CASE PublishAnchor
  BY <1>25 DEF PublishAnchor
<1>26. CASE Unpublish
  BY <1>26 DEF Unpublish
<1>27. CASE Stage
  BY <1>27 DEF Stage
<1>28. CASE StageRefused
  BY <1>28 DEF StageRefused
<1>29. CASE Prepare
  <2>1. restoreJournal' = [status |-> "prepared", hadOriginal |-> (state # NoFile)]
    BY <1>29 DEF Prepare
  <2>2. /\ restoreJournal' # NoFile /\ restoreJournal'.status = "prepared"
        /\ (restoreJournal'.hadOriginal <=> state # NoFile)
    BY <2>1, PreparedType
  <2> QED
    BY <1>29, <2>2 DEF Prepare
<1>30. CASE MoveOld
  BY <1>30 DEF MoveOld
<1>31. CASE MarkOld
  <2>1. restoreJournal \in RestoreJournals
    BY <1>31, <1>j DEF MarkOld
  <2>2. /\ restoreJournal' # NoFile /\ restoreJournal'.status = "old_moved"
        /\ restoreJournal'.hadOriginal = restoreJournal.hadOriginal
    BY <1>31, <2>1, JournalTypes DEF MarkOld, Mark
  <2> QED
    BY <1>31, <2>2 DEF MarkOld
<1>32. CASE MoveNew
  BY <1>32 DEF MoveNew
<1>33. CASE MarkNew
  <2>1. restoreJournal \in RestoreJournals
    BY <1>33, <1>j DEF MarkNew
  <2>2. /\ restoreJournal' # NoFile /\ restoreJournal'.status = "new_moved"
        /\ restoreJournal'.hadOriginal = restoreJournal.hadOriginal
    BY <1>33, <2>1, JournalTypes DEF MarkNew, Mark
  <2> QED
    BY <1>33, <2>2 DEF MarkNew
<1>34. CASE DropOld
  BY <1>34 DEF DropOld
<1>35. CASE Finish
  BY <1>35 DEF Finish
<1>36. CASE RestoreRaises
  BY <1>36 DEF RestoreRaises
<1>37. CASE Crash
  BY <1>37 DEF Crash
<1>38. ASSUME NEW e \in published, ExportElsewhere(e) PROVE Moves
  BY <1>38 DEF ExportElsewhere
<1>39. CASE Relocate
  BY <1>39 DEF Relocate
<1>40. CASE UNCHANGED vars
  BY <1>40 DEF vars
<1> QED
  BY <1>1, <1>2, <1>3, <1>4, <1>5, <1>6, <1>7, <1>8, <1>9, <1>10, <1>11, <1>12, <1>13,
     <1>14, <1>15, <1>16, <1>17, <1>18, <1>19, <1>20, <1>21, <1>22, <1>23, <1>24, <1>25, <1>26,
     <1>27, <1>28, <1>29, <1>30, <1>31, <1>32, <1>33, <1>34, <1>35, <1>36, <1>37, <1>38, <1>39,
     <1>40
  DEF Next, Cycle, RecoverStep, ExportStep, RestoreStep

\* A step of a restore, of its recovery, or of what interrupts them leaves the
\* surviving directory as it was, or makes it the verified replacement.
LEMMA SwitchedStep ==
    IInv /\ [Next]_vars /\ pc \in Restoring \cup Recovering
        => Surviving' = Surviving \/ Surviving' = verified
<1> SUFFICES ASSUME IInv, [Next]_vars, pc \in Restoring \cup Recovering
             PROVE  Surviving' = Surviving \/ Surviving' = verified
  OBVIOUS
<1>1. ~Writing
  BY DEF Writing, Begin, Think, Act, Accept, Save, Rewind, Reapply, PublishMetadata, PublishAnchor,
         Relocate, Goto, Restoring, Recovering
<1> QED
  BY <1>1, SurvivingMoves DEF Moves

-----------------------------------------------------------------------------
(* Evidence saved aside belongs to an unfinished transition.               *)

Covered(dir) == dir # NoFile /\ dir.safety # NoFile => dir.backup # NoFile

\* A cycle that is running has saved nothing aside.
SafetyCovered ==
    /\ Covered(state) /\ Covered(staging) /\ Covered(old) /\ Covered(verified)
    /\ pc = "cycle" => state.safety = NoFile

LEMMA CoveredStep == IInv /\ SafetyCovered /\ [Next]_vars => SafetyCovered'
<1> SUFFICES ASSUME IInv, SafetyCovered, [Next]_vars PROVE SafetyCovered'
  OBVIOUS
<1>i. HolderReady
  BY DEF IInv
<1>d. pc \in Cycling => state # NoFile /\ state.backup # NoFile
  BY <1>i DEF HolderReady, Exists
<1>r. pc \in {"recover", "recovered"} =>
        AfterRecovery \in {"save", "free", "artifact", "capture", "stage"}
  BY RecoveryLabel DEF IInv, TypeOK, HolderReady, Recovering
<1>n. NoFile \notin Dirs
  BY NoFileAssumption
<1> USE <1>d, <1>n DEF SafetyCovered, Covered, Unfinished, dirs, journals, records, history, Goto, Release, Exists,
        Cycling
<1>1. CASE Begin
  BY <1>1, BeginEffect DEF Begin
<1>2. CASE Think
  BY <1>2, ThinkEffect DEF Think, SameButMind
<1>3. ASSUME NEW x \in Approvals, Act(x) PROVE SafetyCovered'
  BY <1>3, ActEffect DEF Act
<1>4. CASE Accept
  BY <1>4, AcceptEffect DEF Accept
<1>5. CASE CycleRaises
  BY <1>5 DEF CycleRaises
<1>6. CASE Save
  BY <1>6, SaveEffect DEF Save
<1>7. CASE Rewind
  BY <1>7, RewindEffect DEF Rewind
<1>8. CASE Reapply
  BY <1>8, ReapplyEffect DEF Reapply
<1>9. CASE Open
  BY <1>9 DEF Open
<1>10. ASSUME NEW p \in Places, Export(p) PROVE SafetyCovered'
  BY <1>10 DEF Export
<1>11. ASSUME NEW e \in published, Restore(e) PROVE SafetyCovered'
  BY <1>11 DEF Restore
<1>12. CASE NothingToRecover
  BY <1>12, <1>r DEF NothingToRecover
<1>13. CASE RecoverForward
  BY <1>13 DEF RecoverForward
<1>14. CASE RecoverUntouched
  BY <1>14 DEF RecoverUntouched
<1>15. CASE RecoverDisplace
  BY <1>15 DEF RecoverDisplace
<1>16. CASE RecoverPutBack
  BY <1>16 DEF RecoverPutBack
<1>17. CASE RecoverDropStaging
  BY <1>17 DEF RecoverDropStaging
<1>18. CASE RecoverFresh
  BY <1>18 DEF RecoverFresh
<1>19. CASE RecoverUnlink
  BY <1>19, <1>r DEF RecoverUnlink
<1>20. CASE RecoverRaises
  BY <1>20 DEF RecoverRaises
<1>21. CASE Capture
  BY <1>21 DEF Capture
<1>22. CASE CaptureRefused
  BY <1>22 DEF CaptureRefused
<1>23. CASE PublishArtifact
  BY <1>23 DEF PublishArtifact
<1>24. CASE PublishMetadata
  BY <1>24, MetadataEffect DEF PublishMetadata
<1>25. CASE PublishAnchor
  BY <1>25, AnchorEffect DEF PublishAnchor
<1>26. CASE Unpublish
  BY <1>26 DEF Unpublish
<1>27. CASE Stage
  BY <1>27, ReplacementType DEF Stage, Found, IInv
<1>28. CASE StageRefused
  BY <1>28 DEF StageRefused
<1>29. CASE Prepare
  BY <1>29 DEF Prepare
<1>30. CASE MoveOld
  BY <1>30 DEF MoveOld
<1>31. CASE MarkOld
  BY <1>31 DEF MarkOld
<1>32. CASE MoveNew
  BY <1>32 DEF MoveNew
<1>33. CASE MarkNew
  BY <1>33 DEF MarkNew
<1>34. CASE DropOld
  BY <1>34 DEF DropOld
<1>35. CASE Finish
  BY <1>35 DEF Finish
<1>36. CASE RestoreRaises
  BY <1>36 DEF RestoreRaises
<1>37. CASE Crash
  BY <1>37 DEF Crash
<1>38. ASSUME NEW e \in published, ExportElsewhere(e) PROVE SafetyCovered'
  BY <1>38 DEF ExportElsewhere
<1>39. CASE Relocate
  BY <1>39 DEF Relocate
<1>40. CASE UNCHANGED vars
  BY <1>40 DEF vars
<1> QED
  BY <1>1, <1>2, <1>3, <1>4, <1>5, <1>6, <1>7, <1>8, <1>9, <1>10, <1>11, <1>12, <1>13,
     <1>14, <1>15, <1>16, <1>17, <1>18, <1>19, <1>20, <1>21, <1>22, <1>23, <1>24, <1>25, <1>26,
     <1>27, <1>28, <1>29, <1>30, <1>31, <1>32, <1>33, <1>34, <1>35, <1>36, <1>37, <1>38, <1>39,
     <1>40
  DEF Next, Cycle, RecoverStep, ExportStep, RestoreStep

-----------------------------------------------------------------------------
(* Publication: metadata first, then the anchor, before anything is staged. *)

Replacing == Restoring \ {"stage"}

\* A rollback of this directory takes its metadata back to this archive, or the
\* archive is recorded as published into an unfinished transition.
RewindsTo(dir, d) == dir.backup # NoFile => dir.backup.head = d \/ d \in over

PublishShape ==
    /\ pc \in {"stage", "capture"} => publishJournal = 0
    /\ pc \in Replacing =>
          /\ publishJournal = 0 /\ verified # NoFile
          /\ verified.db.head = verified.anchor /\ verified.anchor \in published
          /\ verified.backup = NoFile /\ verified.safety = NoFile
    /\ pc = "anchor" =>
          /\ Exists(state) /\ state.db.head = publishJournal /\ Continues(state.anchor)
          /\ RewindsTo(state, publishJournal)
    /\ pc = "unpublish" =>
          /\ Exists(state) /\ state.db.head = publishJournal /\ state.anchor = publishJournal
          /\ RewindsTo(state, publishJournal)

LEMMA PublishShapeStep == IInv /\ PublishShape /\ [Next]_vars => PublishShape'
<1> SUFFICES ASSUME IInv, PublishShape, [Next]_vars PROVE PublishShape'
  OBVIOUS
<1>i. /\ restoreJournal = NoFile \/ pc \notin {"stage", "capture"} \cup Publishing \cup Cycling
      /\ pc \in Publishing => publishJournal # 0
      /\ pc \in Cycling => state \in Dirs
  BY StateReady DEF IInv, HolderReady, SwitchShape
<1>r. pc \in {"recover", "recovered"} =>
        /\ AfterRecovery \in {"save", "free", "artifact", "capture", "stage"}
        /\ AfterRecovery \in {"stage", "capture"} => publishJournal = 0
  BY GoalTypes DEF IInv, TypeOK, HolderReady, Recovering, AfterRecovery
<1>n. NoFile \notin Dirs
  BY NoFileAssumption
<1> USE <1>i, <1>n DEF PublishShape, RewindsTo, Replacing, Continues, PreviousOf, dirs, journals, records, history, Goto, Release, Exists,
        Restoring, Recovering, Publishing, Cycling
<1>1. CASE Begin
  BY <1>1 DEF Begin
<1>2. CASE Think
  BY <1>2 DEF Think
<1>3. ASSUME NEW x \in Approvals, Act(x) PROVE PublishShape'
  BY <1>3 DEF Act
<1>4. CASE Accept
  BY <1>4 DEF Accept
<1>5. CASE CycleRaises
  BY <1>5 DEF CycleRaises
<1>6. CASE Save
  BY <1>6 DEF Save
<1>7. CASE Rewind
  BY <1>7 DEF Rewind
<1>8. CASE Reapply
  BY <1>8 DEF Reapply
<1>9. CASE Open
  BY <1>9 DEF Open
<1>10. ASSUME NEW p \in Places, Export(p) PROVE PublishShape'
  BY <1>10 DEF Export
<1>11. ASSUME NEW e \in published, Restore(e) PROVE PublishShape'
  BY <1>11 DEF Restore
<1>12. CASE NothingToRecover
  BY <1>12, <1>r DEF NothingToRecover
<1>13. CASE RecoverForward
  BY <1>13 DEF RecoverForward
<1>14. CASE RecoverUntouched
  BY <1>14 DEF RecoverUntouched
<1>15. CASE RecoverDisplace
  BY <1>15 DEF RecoverDisplace
<1>16. CASE RecoverPutBack
  BY <1>16 DEF RecoverPutBack
<1>17. CASE RecoverDropStaging
  BY <1>17 DEF RecoverDropStaging
<1>18. CASE RecoverFresh
  BY <1>18 DEF RecoverFresh
<1>19. CASE RecoverUnlink
  BY <1>19, <1>r DEF RecoverUnlink
<1>20. CASE RecoverRaises
  BY <1>20 DEF RecoverRaises
<1>21. CASE Capture
  BY <1>21 DEF Capture
<1>22. CASE CaptureRefused
  BY <1>22 DEF CaptureRefused
<1>23. CASE PublishArtifact
  BY <1>23 DEF PublishArtifact
<1>24. CASE PublishMetadata
  BY <1>24, MetadataEffect DEF PublishMetadata
<1>25. CASE PublishAnchor
  BY <1>25, AnchorEffect DEF PublishAnchor
<1>26. CASE Unpublish
  BY <1>26 DEF Unpublish
<1>27. CASE Stage
  BY <1>27, ReplacementType DEF Stage, Found, IInv
<1>28. CASE StageRefused
  BY <1>28 DEF StageRefused
<1>29. CASE Prepare
  BY <1>29 DEF Prepare
<1>30. CASE MoveOld
  BY <1>30 DEF MoveOld
<1>31. CASE MarkOld
  BY <1>31 DEF MarkOld
<1>32. CASE MoveNew
  BY <1>32 DEF MoveNew
<1>33. CASE MarkNew
  BY <1>33 DEF MarkNew
<1>34. CASE DropOld
  BY <1>34 DEF DropOld
<1>35. CASE Finish
  BY <1>35 DEF Finish
<1>36. CASE RestoreRaises
  BY <1>36 DEF RestoreRaises
<1>37. CASE Crash
  BY <1>37 DEF Crash
<1>38. ASSUME NEW e \in published, ExportElsewhere(e) PROVE PublishShape'
  BY <1>38 DEF ExportElsewhere
<1>39. CASE Relocate
  BY <1>39 DEF Relocate
<1>40. CASE UNCHANGED vars
  BY <1>40 DEF vars
<1> QED
  BY <1>1, <1>2, <1>3, <1>4, <1>5, <1>6, <1>7, <1>8, <1>9, <1>10, <1>11, <1>12, <1>13,
     <1>14, <1>15, <1>16, <1>17, <1>18, <1>19, <1>20, <1>21, <1>22, <1>23, <1>24, <1>25, <1>26,
     <1>27, <1>28, <1>29, <1>30, <1>31, <1>32, <1>33, <1>34, <1>35, <1>36, <1>37, <1>38, <1>39,
     <1>40
  DEF Next, Cycle, RecoverStep, ExportStep, RestoreStep

\* Metadata agrees with the anchor, or was taken back behind its publication.
Level(head, anchor) == head = anchor \/ anchor \in over

\* With no publication pending, so does every database a rollback may bring back.
HeadsLevel ==
    publishJournal = 0 /\ Exists(Surviving) =>
        /\ Level(Surviving.db.head, Surviving.anchor)
        /\ Surviving.backup # NoFile => Level(Surviving.backup.head, Surviving.anchor)

LEMMA WritingAlone ==
    ASSUME IInv, [Next]_vars, Writing, ~PublishMetadata, ~PublishAnchor
    PROVE  UNCHANGED <<publishJournal, archives, published>>
  BY DEF Writing, Begin, Think, Act, Accept, Save, Rewind, Reapply, Relocate, journals, records

LEMMA HeadsLevelStep == IInv /\ PublishShape /\ HeadsLevel /\ [Next]_vars => HeadsLevel'
<1> SUFFICES ASSUME IInv, PublishShape, HeadsLevel, [Next]_vars PROVE HeadsLevel'
  OBVIOUS
<1>n. NoFile \notin Dirs /\ over \subseteq over'
  BY NoFileAssumption, RecordSteps
<1>p. publishJournal' = 0 => publishJournal = 0 \/ Unpublish
  BY RecordSteps DEF Capture, IInv, TypeOK
<1>1. CASE Surviving' = Surviving
  <2>1. CASE publishJournal = 0
    BY <1>1, <1>n, <2>1 DEF HeadsLevel, Level, Exists
  <2>2. CASE Unpublish
    <3>1. Surviving = state /\ state.db.head = state.anchor /\ RewindsTo(state, state.anchor)
      BY <2>2 DEF Unpublish, IInv, SwitchShape, Surviving, Publishing, PublishShape
    <3> QED
      BY <1>1, <1>n, <3>1 DEF HeadsLevel, Level, RewindsTo
  <2> QED
    BY <1>p, <2>1, <2>2 DEF HeadsLevel
<1>2. CASE Writing /\ restoreJournal = NoFile /\ restoreJournal' = NoFile
  <2>0. Surviving = state /\ Surviving' = state'
    BY <1>2 DEF Surviving
  <2>1. CASE PublishMetadata \/ PublishAnchor
    BY <2>1 DEF PublishMetadata, PublishAnchor, Goto, IInv, HolderReady, Publishing, journals, HeadsLevel
  <2>2. CASE ~PublishMetadata /\ ~PublishAnchor
    <3>0. UNCHANGED publishJournal
      BY <1>2, <2>2, WritingAlone
    <3> USE <1>n, <2>0, <3>0 DEF HeadsLevel, Level, Exists
    <3>1. CASE Begin
      BY <3>1, BeginEffect
    <3>2. CASE Think
      BY <3>2, ThinkEffect DEF SameButMind
    <3>3. ASSUME NEW a \in Approvals, Act(a) PROVE HeadsLevel'
      BY <3>3, ActEffect
    <3>4. CASE Accept
      BY <3>4, AcceptEffect
    <3>5. CASE Save
      BY <3>5, SaveEffect
    <3>6. CASE Rewind
      BY <3>6, RewindEffect
    <3>7. CASE Reapply
      BY <3>7, ReapplyEffect
    <3>8. CASE Relocate
      BY <3>8 DEF Relocate
    <3> QED
      BY <1>2, <2>2, <3>1, <3>2, <3>3, <3>4, <3>5, <3>6, <3>7, <3>8 DEF Writing
  <2> QED
    BY <2>1, <2>2
<1>3. CASE (MarkOld \/ MarkNew) /\ Surviving' = verified
  BY <1>3 DEF MarkOld, MarkNew, Goto, PublishShape, Replacing, Restoring, HeadsLevel, Level, Exists
<1> QED
  BY <1>1, <1>2, <1>3, SurvivingMoves DEF Moves

-----------------------------------------------------------------------------
(* What the anchor and the metadata name is at its destination, or was     *)
(* overwritten there by the archive under publication.                     *)

\* A head while an archive is being published: its predecessor or, once the
\* artifact is at its destination, itself; or taken back by a rollback.
Pending(head, anchor) ==
    \/ head = PreviousOf(publishJournal)
    \/ head = publishJournal /\ publishJournal \in published
    \/ anchor \in over

InReach ==
    Exists(Surviving) =>
        IF publishJournal = 0 THEN Surviving.anchor \in published \cup {0}
        ELSE /\ \/ Surviving.anchor = PreviousOf(publishJournal)
                \/ Surviving.anchor = publishJournal /\ publishJournal \in published
             /\ \/ PreviousOf(publishJournal) \in published \cup {0}
                \/ publishJournal \in published
             /\ Pending(Surviving.db.head, Surviving.anchor)
             /\ Surviving.backup # NoFile => Pending(Surviving.backup.head, Surviving.anchor)

LEMMA JournalPredecessor ==
    ASSUME IInv, [Next]_vars, publishJournal # 0, publishJournal' = publishJournal
    PROVE  PreviousOf(publishJournal)' = PreviousOf(publishJournal)
<1>1. publishJournal \in 1..Len(archives) /\ archives \in Seq(Archives)
  BY DEF IInv, TypeOK
<1>2. UNCHANGED archives \/ \E next : archives' = Append(archives, next)
  BY RecordSteps DEF Capture, ExportElsewhere
<1> QED
  BY <1>1, <1>2 DEF PreviousOf

LEMMA CaptureReaches == IInv /\ PublishShape /\ HeadsLevel /\ InReach /\ Capture => InReach'
<1> SUFFICES ASSUME IInv, PublishShape, HeadsLevel, InReach, Capture PROVE InReach'
  OBVIOUS
<1>1. /\ state # NoFile /\ state.db.head = state.anchor /\ UNCHANGED <<dirs, restoreJournal, published, over>>
      /\ publishJournal' = Len(archives) + 1 /\ archives' = Append(archives, Captured)
  BY DEF Capture, Exportable, Exists, history
<1>2. Surviving = state /\ Surviving' = state /\ Len(archives) \in Nat
  BY <1>1 DEF Capture, Goto, IInv, TypeOK, SwitchShape, Surviving, dirs
<1>3. publishJournal' # 0 /\ PreviousOf(publishJournal)' = state.db.head
  BY <1>1, <1>2 DEF PreviousOf, Captured, IInv, TypeOK
<1>4. publishJournal = 0
  BY DEF Capture, Goto, PublishShape
<1> QED
  BY <1>1, <1>2, <1>3, <1>4 DEF InReach, Pending, HeadsLevel, Level, Exists

LEMMA ReachStep == IInv /\ PublishShape /\ HeadsLevel /\ InReach /\ [Next]_vars => InReach'
<1> SUFFICES ASSUME IInv, PublishShape, HeadsLevel, InReach, [Next]_vars, ~Capture PROVE InReach'
  BY CaptureReaches
<1>n. NoFile \notin Dirs /\ over \subseteq over'
  BY NoFileAssumption, RecordSteps
<1>j. /\ UNCHANGED publishJournal \/ Unpublish
      /\ publishJournal # 0 /\ UNCHANGED publishJournal =>
            PreviousOf(publishJournal)' = PreviousOf(publishJournal)
  BY RecordSteps, JournalPredecessor
<1>1. CASE Surviving' = Surviving
  <2>1. CASE Unpublish
    <3>1. Surviving = state /\ state.anchor = publishJournal /\ publishJournal \in published
          /\ UNCHANGED published /\ publishJournal' = 0
      BY <2>1 DEF Unpublish, IInv, HolderReady, SwitchShape, Surviving, Publishing, PublishShape, records
    <3> QED
      BY <1>1, <3>1 DEF InReach
  <2>2. CASE UNCHANGED publishJournal /\ UNCHANGED published
    BY <1>1, <1>n, <1>j, <2>2 DEF InReach, Pending, Exists
  <2>3. CASE UNCHANGED publishJournal /\ PublishArtifact
    <3>1. publishJournal # 0 /\ publishJournal \in published'
      BY <2>3 DEF PublishArtifact, Goto, IInv, HolderReady, Publishing
    <3> QED
      BY <1>1, <1>n, <1>j, <2>3, <3>1 DEF InReach, Pending, Exists
  <2>4. CASE \E e \in published : ExportElsewhere(e)
    <3>1. publishJournal = 0 /\ publishJournal' = 0 /\ published \subseteq published'
      BY <2>4 DEF ExportElsewhere, journals
    <3> QED
      BY <1>1, <3>1 DEF InReach, Exists
  <2> QED
    BY <1>j, <2>1, <2>2, <2>3, <2>4, RecordSteps
<1>2. CASE Writing /\ restoreJournal = NoFile /\ restoreJournal' = NoFile
  <2>0. Surviving = state /\ Surviving' = state'
    BY <1>2 DEF Surviving
  <2>1. CASE PublishMetadata
    <3>1. publishJournal # 0 /\ publishJournal \in published /\ UNCHANGED <<publishJournal, published>>
      BY <2>1 DEF PublishMetadata, IInv, HolderReady, Publishing, journals, records
    <3> QED
      BY <1>n, <1>j, <2>0, <2>1, <3>1, MetadataEffect DEF InReach, Pending, Exists
  <2>2. CASE PublishAnchor
    <3>1. /\ publishJournal # 0 /\ publishJournal \in published
          /\ UNCHANGED <<publishJournal, published, over>>
      BY <2>2 DEF PublishAnchor, Goto, IInv, HolderReady, Publishing, journals, records, history
    <3>2. state.db.head = publishJournal /\ RewindsTo(state, publishJournal)
      BY <2>2 DEF PublishAnchor, Goto, PublishShape
    <3> QED
      BY <1>j, <2>0, <2>2, <3>1, <3>2, AnchorEffect DEF InReach, Pending, RewindsTo, Exists
  <2>3. CASE ~PublishMetadata /\ ~PublishAnchor
    <3>0. UNCHANGED <<publishJournal, published>>
      BY <1>2, <2>3, WritingAlone
    <3> USE <1>n, <1>j, <2>0, <3>0 DEF InReach, Pending, Exists
    <3>1. CASE Begin
      BY <3>1, BeginEffect
    <3>2. CASE Think
      BY <3>2, ThinkEffect DEF SameButMind
    <3>3. ASSUME NEW a \in Approvals, Act(a) PROVE InReach'
      BY <3>3, ActEffect
    <3>4. CASE Accept
      BY <3>4, AcceptEffect
    <3>5. CASE Save
      BY <3>5, SaveEffect
    <3>6. CASE Rewind
      BY <3>6, RewindEffect
    <3>7. CASE Reapply
      BY <3>7, ReapplyEffect
    <3>8. CASE Relocate
      BY <3>8 DEF Relocate
    <3> QED
      BY <1>2, <2>3, <3>1, <3>2, <3>3, <3>4, <3>5, <3>6, <3>7, <3>8 DEF Writing
  <2> QED
    BY <2>1, <2>2, <2>3
<1>3. CASE (MarkOld \/ MarkNew) /\ Surviving' = verified
  <2>1. /\ publishJournal = 0 /\ verified.anchor \in published
        /\ UNCHANGED <<publishJournal, published>>
    BY <1>3 DEF MarkOld, MarkNew, Goto, PublishShape, Replacing, Restoring, records
  <2> QED
    BY <1>3, <2>1 DEF InReach
<1> QED
  BY <1>1, <1>2, <1>3, SurvivingMoves DEF Moves

-----------------------------------------------------------------------------
(* External truth survives.                                                *)

\* The external truth a recovery of this directory will end with.
Current(dir) == IF dir.safety = NoFile THEN dir.db.truth ELSE dir.safety

\* It has the evidence of every call made and of every approval spent, but for
\* those lost.
Accounts(truth, calls, counts, lost) ==
    /\ calls \ lost \subseteq truth.sent
    /\ \A a \in Approvals \ lost : counts[a] # 0 => truth.approvals[a] = "consumed"

\* What a restore onto a fresh machine leaves behind.
LeftFresh == IF verified.anchor = home THEN left ELSE Approvals

TruthKept ==
    /\ \A a \in Approvals : spent[a] <= 1 /\ (spent[a] # 0 => a \in called)
    /\ Exists(Surviving) => Accounts(Current(Surviving), called, spent, left)
    /\ pc \in Replacing =>
          Accounts(verified.db.truth, called, spent,
                   IF Exists(Surviving) THEN left \cup EvidenceAside(Surviving) ELSE LeftFresh)
    /\ ~Exists(Surviving) =>
          /\ publishJournal = 0 /\ home \in 1..Len(archives)
          /\ Accounts(archives[home].db.truth, called, spent, left)

LEMMA AccountsMore ==
    ASSUME NEW truth, NEW calls, NEW counts, NEW lost, NEW more, lost \subseteq more,
           Accounts(truth, calls, counts, lost)
    PROVE  Accounts(truth, calls, counts, more)
  BY DEF Accounts

LEMMA ReplacingSteps ==
    IInv /\ [Next]_vars /\ pc' \in Replacing => pc \in Replacing \/ Stage
<1> DEFINE Goal == pc' \in Replacing => pc \in Replacing \/ Stage
<1> SUFFICES ASSUME IInv, [Next]_vars PROVE Goal
  OBVIOUS
<1>r. pc \in {"recover", "recovered"} =>
        AfterRecovery \in {"save", "free", "artifact", "capture", "stage"}
  BY RecoveryLabel DEF IInv, TypeOK, HolderReady, Recovering
<1> USE DEF Goto, Release, Replacing, Restoring
<1>1. CASE Begin
  BY <1>1 DEF Begin
<1>2. CASE Think
  BY <1>2 DEF Think
<1>3. ASSUME NEW x \in Approvals, Act(x) PROVE Goal
  BY <1>3 DEF Act
<1>4. CASE Accept
  BY <1>4 DEF Accept
<1>5. CASE CycleRaises
  BY <1>5 DEF CycleRaises
<1>6. CASE Save
  BY <1>6 DEF Save
<1>7. CASE Rewind
  BY <1>7 DEF Rewind
<1>8. CASE Reapply
  BY <1>8 DEF Reapply
<1>9. CASE Open
  BY <1>9 DEF Open
<1>10. ASSUME NEW p \in Places, Export(p) PROVE Goal
  BY <1>10 DEF Export
<1>11. ASSUME NEW e \in published, Restore(e) PROVE Goal
  BY <1>11 DEF Restore
<1>12. CASE NothingToRecover
  BY <1>12, <1>r DEF NothingToRecover
<1>13. CASE RecoverForward
  BY <1>13 DEF RecoverForward
<1>14. CASE RecoverUntouched
  BY <1>14 DEF RecoverUntouched
<1>15. CASE RecoverDisplace
  BY <1>15 DEF RecoverDisplace
<1>16. CASE RecoverPutBack
  BY <1>16 DEF RecoverPutBack
<1>17. CASE RecoverDropStaging
  BY <1>17 DEF RecoverDropStaging
<1>18. CASE RecoverFresh
  BY <1>18 DEF RecoverFresh
<1>19. CASE RecoverUnlink
  BY <1>19, <1>r DEF RecoverUnlink
<1>20. CASE RecoverRaises
  BY <1>20 DEF RecoverRaises
<1>21. CASE Capture
  BY <1>21 DEF Capture
<1>22. CASE CaptureRefused
  BY <1>22 DEF CaptureRefused
<1>23. CASE PublishArtifact
  BY <1>23 DEF PublishArtifact
<1>24. CASE PublishMetadata
  BY <1>24 DEF PublishMetadata
<1>25. CASE PublishAnchor
  BY <1>25 DEF PublishAnchor
<1>26. CASE Unpublish
  BY <1>26 DEF Unpublish
<1>27. CASE Stage
  BY <1>27 DEF Stage
<1>28. CASE StageRefused
  BY <1>28 DEF StageRefused
<1>29. CASE Prepare
  BY <1>29 DEF Prepare
<1>30. CASE MoveOld
  BY <1>30 DEF MoveOld
<1>31. CASE MarkOld
  BY <1>31 DEF MarkOld
<1>32. CASE MoveNew
  BY <1>32 DEF MoveNew
<1>33. CASE MarkNew
  BY <1>33 DEF MarkNew
<1>34. CASE DropOld
  BY <1>34 DEF DropOld
<1>35. CASE Finish
  BY <1>35 DEF Finish
<1>36. CASE RestoreRaises
  BY <1>36 DEF RestoreRaises
<1>37. CASE Crash
  BY <1>37 DEF Crash
<1>38. ASSUME NEW e \in published, ExportElsewhere(e) PROVE Goal
  BY <1>38 DEF ExportElsewhere
<1>39. CASE Relocate
  BY <1>39 DEF Relocate
<1>40. CASE UNCHANGED vars
  BY <1>40 DEF vars
<1> QED
  BY <1>1, <1>2, <1>3, <1>4, <1>5, <1>6, <1>7, <1>8, <1>9, <1>10, <1>11, <1>12, <1>13,
     <1>14, <1>15, <1>16, <1>17, <1>18, <1>19, <1>20, <1>21, <1>22, <1>23, <1>24, <1>25, <1>26,
     <1>27, <1>28, <1>29, <1>30, <1>31, <1>32, <1>33, <1>34, <1>35, <1>36, <1>37, <1>38, <1>39,
     <1>40
  DEF Next, Cycle, RecoverStep, ExportStep, RestoreStep

\* What is staged accounts for what was done, but for what stands in an evidence
\* file: the current rows are merged in, or the machine is fresh and the archive
\* is the one its last session ended with.
LEMMA StagedAccounts ==
    ASSUME IInv, TruthKept, Stage
    PROVE  Accounts(verified'.db.truth, called, spent,
                    IF Exists(state) THEN left \cup EvidenceAside(state)
                    ELSE IF verified'.anchor = home THEN left ELSE Approvals)
<1>1. PICK d \in published : Trusted(d) /\ verified' = Replacement(d)
  BY DEF Stage, Found
<1>2. /\ verified'.db.truth = MergedTruth(archives[d].db.truth) /\ verified'.anchor = d
      /\ published \subseteq 1..Len(archives)
  BY <1>1, ReplacementType DEF IInv, TypeOK
<1>3. Surviving = state
  BY DEF Stage, Goto, IInv, SwitchShape, Surviving
<1>4. CASE Exists(state)
  <2>1. Accounts(Current(state), called, spent, left)
    BY <1>3, <1>4 DEF TruthKept
  <2>2. \A a \in Approvals : spent[a] # 0 => a \in called
    BY DEF TruthKept
  <2>3. Accounts(state.db.truth, called, spent, left \cup EvidenceAside(state))
    BY <1>4, <2>1, <2>2 DEF Accounts, Current, EvidenceAside, Exists
  <2> QED
    BY <1>2, <1>4, <2>3 DEF MergedTruth, Accounts
<1>5. CASE ~Exists(state)
  <2>1. verified'.db.truth = archives[d].db.truth
    BY <1>2, <1>5 DEF MergedTruth
  <2>2. CASE d = home
    BY <1>2, <1>3, <1>5, <2>1, <2>2 DEF TruthKept
  <2>3. CASE d # home
    <3>1. Accounts(verified'.db.truth, called, spent, Approvals)
      BY DEF Accounts, IInv, TypeOK
    <3> QED
      BY <1>2, <1>5, <2>3, <3>1
  <2> QED
    BY <2>2, <2>3
<1> QED
  BY <1>4, <1>5

LEMMA ActKeepsTruth ==
    ASSUME IInv, SafetyCovered, TruthKept, NEW a \in Approvals, Act(a)
    PROVE  TruthKept'
<1>1. /\ pc = "cycle" /\ pc' = "cycle" /\ restoreJournal' = restoreJournal /\ left' = left
      /\ called' = called \cup {a}
      /\ spent' = [spent EXCEPT ![a] = IF a \in left THEN @ ELSE @ + 1]
      /\ state.db.truth.approvals[a] = "granted"
  BY DEF Act, journals
<1>2. restoreJournal = NoFile /\ Surviving = state /\ Surviving' = state'
  BY <1>1 DEF IInv, SwitchShape, Surviving, Cycling
<1>3. /\ state \in Dirs /\ state' \in Dirs
      /\ state'.safety = state.safety
      /\ state'.db.truth.approvals = [state.db.truth.approvals EXCEPT ![a] = "consumed"]
      /\ state'.db.truth.sent = state.db.truth.sent \cup {a}
  BY ActEffect
<1>4. state.safety = NoFile /\ state # NoFile /\ state' # NoFile
  BY <1>1, <1>3, NoFileAssumption DEF SafetyCovered
<1>5. Accounts(state.db.truth, called, spent, left)
  BY <1>2, <1>4 DEF TruthKept, Exists, Current
<1>6. /\ spent \in [Approvals -> Nat]
      /\ a \notin left => spent[a] = 0
      /\ state.db.truth.approvals \in [Approvals -> {"granted", "consumed"}]
  BY <1>1, <1>3, <1>5, DirTypes DEF Accounts, IInv, TypeOK
<1>7. Accounts(state'.db.truth, called', spent', left')
  BY <1>1, <1>3, <1>5, <1>6 DEF Accounts
<1>8. \A b \in Approvals : spent'[b] <= 1 /\ (spent'[b] # 0 => b \in called')
  BY <1>1, <1>6 DEF TruthKept
<1> QED
  BY <1>1, <1>2, <1>3, <1>4, <1>7, <1>8 DEF TruthKept, Exists, Current, Replacing, Restoring

\* The marker that switches leaves behind what stood in the evidence file of the
\* replaced directory, or what the session before a fresh machine did.
LEMMA SwitchLeaves ==
    ASSUME IInv, PublishShape, MarkOld \/ MarkNew, Surviving' = verified
    PROVE  /\ Exists(Surviving) => left \cup EvidenceAside(Surviving) \subseteq left'
           /\ ~Exists(Surviving) => left' = LeftFresh
<1>1. EvidenceAside(verified) = {}
  BY DEF MarkOld, MarkNew, Goto, PublishShape, Replacing, Restoring, EvidenceAside
<1>2. CASE MarkOld
  <2>1. /\ state = NoFile /\ (restoreJournal.hadOriginal <=> Exists(old))
        /\ restoreJournal # NoFile /\ restoreJournal.status = "prepared"
        /\ left' = IF Exists(old) \/ verified.anchor = home THEN left ELSE Approvals
        /\ restoreJournal' = [restoreJournal EXCEPT !.status = "old_moved"]
        /\ UNCHANGED <<state, old, staging>>
    BY <1>2 DEF MarkOld, Mark, Goto, IInv, SwitchShape, dirs, Restoring
  <2>2. restoreJournal \in RestoreJournals /\ restoreJournal' \in RestoreJournals /\ restoreJournal' # NoFile
    BY <2>1, NoFileAssumption DEF IInv, TypeOK, RestoreJournals
  <2>3. restoreJournal'.status = "old_moved" /\ restoreJournal'.hadOriginal = restoreJournal.hadOriginal
    BY <2>1, <2>2 DEF RestoreJournals
  <2>4. CASE Exists(old)
    <3>1. Surviving = old /\ Surviving' = old
      BY <2>1, <2>2, <2>3, <2>4 DEF Surviving, Exists
    <3> QED
      BY <1>1, <2>1, <2>4, <3>1 DEF Exists
  <2>5. CASE ~Exists(old)
    <3>1. Surviving = NoFile
      BY <2>1, <2>5 DEF Surviving
    <3> QED
      BY <2>1, <2>5, <3>1 DEF LeftFresh, Exists
  <2> QED
    BY <2>4, <2>5
<1>3. CASE MarkNew
  <2>1. /\ state = verified /\ Exists(state) /\ (restoreJournal.hadOriginal <=> Exists(old))
        /\ restoreJournal # NoFile /\ restoreJournal.status = "old_moved"
        /\ left' = left \cup EvidenceAside(old)
    BY <1>3 DEF MarkNew, Goto, IInv, SwitchShape, Restoring
  <2>2. Surviving = IF Exists(old) THEN old ELSE verified
    BY <2>1 DEF Surviving
  <2> QED
    BY <1>1, <2>1, <2>2
<1> QED
  BY <1>2, <1>3

LEMMA ArchivesKept ==
    ASSUME IInv, [Next]_vars, NEW d \in 1..Len(archives)
    PROVE  archives'[d] = archives[d] /\ d \in 1..Len(archives')
<1>1. archives \in Seq(Archives)
  BY DEF IInv, TypeOK
<1>2. UNCHANGED archives \/ \E next : archives' = Append(archives, next)
  BY RecordSteps DEF Capture, ExportElsewhere
<1> QED
  BY <1>1, <1>2

LEMMA LeftGrows == ASSUME IInv, [Next]_vars PROVE left \subseteq left'
  BY RecordSteps DEF MarkOld, MarkNew, IInv, TypeOK

LEMMA TruthStep ==
    IInv /\ SafetyCovered /\ PublishShape /\ TruthKept /\ [Next]_vars => TruthKept'
<1> SUFFICES ASSUME IInv, SafetyCovered, PublishShape, TruthKept, [Next]_vars,
                    \A a \in Approvals : ~Act(a)
             PROVE  TruthKept'
  BY ActKeepsTruth
<1>n. NoFile \notin Dirs
  BY NoFileAssumption
<1>u. UNCHANGED <<called, spent>> /\ left \subseteq left'
  BY RecordSteps, LeftGrows
<1>1. \A a \in Approvals : spent'[a] <= 1 /\ (spent'[a] # 0 => a \in called')
  BY <1>u DEF TruthKept
<1>2. CASE Surviving' = Surviving
  <2>1. Exists(Surviving) => Accounts(Current(Surviving), called, spent, left')
    BY <1>u, AccountsMore DEF TruthKept
  <2>2. ASSUME pc' \in Replacing
        PROVE  Accounts(verified'.db.truth, called, spent,
                   IF Exists(Surviving) THEN left' \cup EvidenceAside(Surviving) ELSE LeftFresh')
    <3>1. CASE Stage
      <4>1. Surviving = state /\ UNCHANGED <<left, home>>
        BY <3>1 DEF Stage, Goto, IInv, SwitchShape, Surviving
      <4> QED
        BY <3>1, <4>1, StagedAccounts DEF LeftFresh
    <3>2. CASE pc \in Replacing
      <4>1. ~Stage /\ ~Relocate
        BY <3>2 DEF Stage, Relocate, Goto, Replacing, Restoring
      <4>2. UNCHANGED <<verified, home>>
        BY <4>1, RecordSteps
      <4>3. CASE Exists(Surviving)
        <5>1. Accounts(verified.db.truth, called, spent, left \cup EvidenceAside(Surviving))
          BY <3>2, <4>3 DEF TruthKept
        <5>2. left \cup EvidenceAside(Surviving) \subseteq left' \cup EvidenceAside(Surviving)
          BY <1>u
        <5> QED
          BY <4>2, <4>3, <5>1, <5>2, AccountsMore
      <4>4. CASE ~Exists(Surviving)
        <5>1. Accounts(verified.db.truth, called, spent, LeftFresh)
          BY <3>2, <4>4 DEF TruthKept
        <5>2. LeftFresh \subseteq LeftFresh'
          BY <1>u, <4>2 DEF LeftFresh
        <5> QED
          BY <4>2, <4>4, <5>1, <5>2, AccountsMore
      <4> QED
        BY <4>3, <4>4
    <3> QED
      BY <2>2, <3>1, <3>2, ReplacingSteps
  <2>3. ASSUME ~Exists(Surviving)
        PROVE  /\ publishJournal' = 0 /\ home' \in 1..Len(archives')
               /\ Accounts(archives'[home'].db.truth, called, spent, left')
    <3>1. ~Capture
      BY <2>3 DEF Capture, Goto, Exportable, Exists, IInv, SwitchShape, Surviving
    <3>2. ~Relocate
      BY <2>3 DEF Relocate, Exists, Surviving
    <3>3. /\ publishJournal' = 0 /\ home' = home /\ home \in 1..Len(archives)
          /\ Accounts(archives[home].db.truth, called, spent, left)
      BY <2>3, <3>1, <3>2, RecordSteps DEF Unpublish, TruthKept
    <3>4. home \in 1..Len(archives') /\ archives'[home] = archives[home]
      BY <3>3, ArchivesKept
    <3> QED
      BY <1>u, <3>3, <3>4, AccountsMore
  <2> QED
    BY <1>2, <1>u, <1>1, <2>1, <2>2, <2>3 DEF TruthKept, Exists, EvidenceAside, Current
<1>3. CASE Writing /\ restoreJournal = NoFile /\ restoreJournal' = NoFile
  <2>0. Surviving = state /\ Surviving' = state'
    BY <1>3 DEF Surviving
  <2>l. UNCHANGED left /\ pc' \notin Replacing
    BY <1>3, RecordSteps, ReplacingSteps DEF Writing, Begin, Think, Act, Accept, Save, Rewind,
       Reapply, PublishMetadata, PublishAnchor, Relocate, Goto, MarkOld, MarkNew, Stage,
       Replacing, Restoring
  <2>f. ~Relocate => state # NoFile /\ state' # NoFile
    <3>1. PublishMetadata => state # NoFile /\ state' # NoFile
      <4>1. PublishMetadata => publishJournal # 0
        BY DEF PublishMetadata, Goto, IInv, HolderReady, Publishing
      <4> QED
        BY <1>n, <2>0, <4>1, MetadataEffect DEF TruthKept, Exists
    <3>2. PublishAnchor => state # NoFile /\ state' # NoFile
      BY <1>n, AnchorEffect
    <3>3. Begin \/ Think \/ Accept => state # NoFile /\ state' # NoFile
      BY <1>n, BeginEffect, ThinkEffect, AcceptEffect
    <3>4. Save \/ Rewind \/ Reapply => state # NoFile /\ state' # NoFile
      BY <1>n, SaveEffect, RewindEffect, ReapplyEffect
    <3> QED
      BY <1>3, <3>1, <3>2, <3>3, <3>4 DEF Writing
  <2>1. CASE ~Relocate
    <3>1. Accounts(Current(state), called, spent, left)
      BY <2>0, <2>1, <2>f DEF TruthKept, Exists
    <3>2. Current(state') = Current(state)
      <4>1. CASE Begin
        BY <4>1, BeginEffect, <1>n DEF SafetyCovered, Covered, Current
      <4>2. CASE Think
        BY <4>2, ThinkEffect DEF SameButMind, Current
      <4>3. CASE Accept
        BY <4>3, AcceptEffect DEF Accept, SafetyCovered, Current
      <4>4. CASE Save
        BY <4>4, SaveEffect DEF Current
      <4>5. CASE Rewind
        BY <4>5, RewindEffect DEF Current
      <4>6. CASE Reapply
        BY <4>6, ReapplyEffect DEF Current
      <4>7. CASE PublishMetadata
        BY <4>7, MetadataEffect DEF Current
      <4>8. CASE PublishAnchor
        BY <4>8, AnchorEffect DEF Current
      <4> QED
        BY <1>3, <2>1, <4>1, <4>2, <4>3, <4>4, <4>5, <4>6, <4>7, <4>8 DEF Writing
    <3> QED
      BY <1>1, <1>u, <2>0, <2>1, <2>l, <2>f, <3>1, <3>2 DEF TruthKept, Exists
  <2>2. CASE Relocate
    <3>1. /\ state' = NoFile /\ state # NoFile /\ state.backup = NoFile /\ publishJournal' = 0
          /\ home' = state.anchor /\ state.anchor \in published /\ archives' = archives
          /\ archives[state.anchor].db.truth = state.db.truth
      BY <2>2 DEF Relocate, Unfinished, Exists, journals, records
    <3>2. state.safety = NoFile
      BY <3>1 DEF SafetyCovered, Covered
    <3>3. Accounts(state.db.truth, called, spent, left) /\ state.anchor \in 1..Len(archives)
      BY <2>0, <3>1, <3>2 DEF TruthKept, Exists, Current, IInv, TypeOK
    <3> QED
      BY <1>1, <1>u, <2>0, <2>l, <3>1, <3>3 DEF TruthKept, Exists
  <2> QED
    BY <2>1, <2>2
<1>4. CASE (MarkOld \/ MarkNew) /\ Surviving' = verified
  <2>1. /\ pc \in Replacing /\ verified # NoFile /\ verified.safety = NoFile /\ verified' = verified
    BY <1>4 DEF MarkOld, MarkNew, Goto, PublishShape, Replacing, Restoring
  <2>2. Accounts(verified.db.truth, called, spent, left')
    <3>1. CASE Exists(Surviving)
      <4>1. Accounts(verified.db.truth, called, spent, left \cup EvidenceAside(Surviving))
        BY <2>1, <3>1 DEF TruthKept
      <4> QED
        BY <1>4, <3>1, <4>1, SwitchLeaves, AccountsMore
    <3>2. CASE ~Exists(Surviving)
      BY <1>4, <2>1, <3>2, SwitchLeaves DEF TruthKept
    <3> QED
      BY <3>1, <3>2
  <2>3. EvidenceAside(verified) = {} /\ Current(verified) = verified.db.truth
    BY <2>1 DEF EvidenceAside, Current
  <2>4. left' \cup {} = left'
    OBVIOUS
  <2> QED
    BY <1>4, <1>u, <1>1, <2>1, <2>2, <2>3, <2>4 DEF TruthKept, Exists
<1> QED
  BY <1>2, <1>3, <1>4, SurvivingMoves DEF Moves

-----------------------------------------------------------------------------
(* The anchor moves along the chain of predecessors.                       *)

\* An archive whose restore over a directory with this anchor is trusted.
Follows(digest, anchor) ==
    anchor = 0 \/ digest = anchor \/ archives[digest].previous = anchor

ChainKept ==
    pc \in Replacing /\ Exists(Surviving) => Follows(verified.anchor, Surviving.anchor)

LEMMA ChainStep == IInv /\ PublishShape /\ ChainKept /\ [Next]_vars => ChainKept'
<1> SUFFICES ASSUME IInv, PublishShape, ChainKept, [Next]_vars, pc' \in Replacing, Exists(Surviving')
             PROVE  Follows(verified.anchor, Surviving.anchor)'
  BY DEF ChainKept, Exists
<1>1. CASE Stage
  <2>0. PICK d \in published : Trusted(d) /\ verified' = Replacement(d)
    BY <1>1 DEF Stage, Found
  <2>1. pc = "stage" /\ UNCHANGED <<state, old, restoreJournal, archives>>
    BY <1>1 DEF Stage, Goto, journals, records
  <2>2. Surviving = state /\ Surviving' = state
    BY <2>1 DEF IInv, SwitchShape, Surviving
  <2>3. verified'.anchor = d /\ d \in 1..Len(archives)
    BY <2>0, ReplacementType DEF IInv, TypeOK
  <2>4. Exists(state)
    BY <2>2 DEF Exists
  <2> QED
    BY <2>0, <2>1, <2>2, <2>3, <2>4 DEF Trusted, Follows, PreviousOf
<1>2. CASE pc \in Replacing
  <2>1. verified' = verified /\ verified.anchor \in published
    BY <1>2, RecordSteps DEF Stage, Goto, Replacing, PublishShape
  <2>2. archives'[verified.anchor] = archives[verified.anchor]
    BY <2>1, ArchivesKept DEF IInv, TypeOK
  <2>3. CASE Surviving' = Surviving
    BY <1>2, <2>1, <2>2, <2>3 DEF ChainKept, Follows, Exists
  <2>4. CASE Writing
    BY <1>2, <2>4 DEF Writing, Begin, Think, Act, Accept, Save, Rewind, Reapply, PublishMetadata,
       PublishAnchor, Relocate, Goto, Replacing, Restoring
  <2>5. CASE Surviving' = verified
    BY <2>1, <2>5 DEF Follows
  <2> QED
    BY <2>3, <2>4, <2>5, SurvivingMoves DEF Moves
<1> QED
  BY <1>1, <1>2, ReplacingSteps

LEMMA AnchorStep ==
    IInv /\ PublishShape /\ ChainKept /\ [Next]_vars =>
        (Exists(Surviving) /\ Exists(Surviving') /\ Surviving'.anchor # Surviving.anchor =>
            Surviving.anchor = 0 \/ archives[Surviving'.anchor].previous = Surviving.anchor)
<1> SUFFICES ASSUME IInv, PublishShape, ChainKept, [Next]_vars, Exists(Surviving), Exists(Surviving'),
                    Surviving'.anchor # Surviving.anchor
             PROVE  Surviving.anchor = 0 \/ archives[Surviving'.anchor].previous = Surviving.anchor
  OBVIOUS
<1>1. CASE Writing /\ restoreJournal = NoFile /\ restoreJournal' = NoFile
  <2>1. Surviving = state /\ Surviving' = state'
    BY <1>1 DEF Surviving
  <2>2. PublishAnchor
    BY <1>1, <2>1, BeginEffect, ThinkEffect, ActEffect, AcceptEffect, SaveEffect, RewindEffect,
       ReapplyEffect, MetadataEffect DEF Writing, SameButMind, Relocate, Exists
  <2>3. state'.anchor = publishJournal /\ Continues(state.anchor) /\ publishJournal # 0
    BY <2>2, AnchorEffect DEF PublishAnchor, Goto, PublishShape, IInv, HolderReady, Publishing
  <2> QED
    BY <2>1, <2>3 DEF Continues, PreviousOf
<1>2. CASE (MarkOld \/ MarkNew) /\ Surviving' = verified
  <2>1. pc \in Replacing
    BY <1>2 DEF MarkOld, MarkNew, Goto, Replacing, Restoring
  <2> QED
    BY <1>2, <2>1 DEF ChainKept, Follows
<1> QED
  BY <1>1, <1>2, SurvivingMoves DEF Moves

-----------------------------------------------------------------------------
(* What a recovery needs to find.                                          *)

\* A recovery stops after it put the original back and before its journal goes.
InterruptsPutBack ==
    pc \in {"drop_staging", "recovered"} /\ pc' = "free" /\ restoreJournal' # NoFile

Resolvable ==
    restoreJournal # NoFile =>
        IF restoreJournal.status = "new_moved" THEN Exists(state)
        ELSE restoreJournal.hadOriginal =>
                \/ Exists(old)
                \/ restoreJournal.status = "prepared" /\ Exists(state)
                \/ pc \in {"drop_staging", "recovered"}

\* Outside restore itself, a restore journal takes a fault.
JournalOfFault == restoreJournal # NoFile /\ pc \notin Restoring => faults > 0

LEMMA ResolvableStep == IInv /\ Resolvable /\ [Next]_vars /\ ~InterruptsPutBack => Resolvable'
<1> SUFFICES ASSUME IInv, Resolvable, [Next]_vars, ~InterruptsPutBack PROVE Resolvable'
  OBVIOUS
<1>i. SwitchShape
  BY DEF IInv
<1>j. restoreJournal # NoFile => restoreJournal \in RestoreJournals
  BY DEF IInv, TypeOK
<1>n. NoFile \notin Dirs
  BY NoFileAssumption
<1>c. pc \in Cycling => restoreJournal = NoFile
  BY DEF IInv, SwitchShape
<1>m. PublishMetadata => restoreJournal = NoFile
  BY DEF IInv, SwitchShape, PublishMetadata, Publishing
<1> USE <1>i, <1>n DEF SwitchShape, Resolvable, InterruptsPutBack, dirs, journals, records, history, Goto, Release, Exists,
        Restoring, Recovering, Publishing, Cycling
<1>1. CASE Begin
  BY <1>1 DEF Begin
<1>2. CASE Think
  BY <1>2 DEF Think
<1>3. ASSUME NEW x \in Approvals, Act(x) PROVE Resolvable'
  BY <1>3 DEF Act
<1>4. CASE Accept
  BY <1>4 DEF Accept
<1>5. CASE CycleRaises
  BY <1>5 DEF CycleRaises
<1>6. CASE Save
  BY <1>6 DEF Save
<1>7. CASE Rewind
  BY <1>7 DEF Rewind
<1>8. CASE Reapply
  BY <1>8 DEF Reapply
<1>9. CASE Open
  BY <1>9 DEF Open
<1>10. ASSUME NEW p \in Places, Export(p) PROVE Resolvable'
  BY <1>10 DEF Export
<1>11. ASSUME NEW e \in published, Restore(e) PROVE Resolvable'
  BY <1>11 DEF Restore
<1>12. CASE NothingToRecover
  BY <1>12 DEF NothingToRecover
<1>13. CASE RecoverForward
  BY <1>13 DEF RecoverForward
<1>14. CASE RecoverUntouched
  BY <1>14 DEF RecoverUntouched
<1>15. CASE RecoverDisplace
  BY <1>15 DEF RecoverDisplace
<1>16. CASE RecoverPutBack
  BY <1>16 DEF RecoverPutBack
<1>17. CASE RecoverDropStaging
  BY <1>17 DEF RecoverDropStaging
<1>18. CASE RecoverFresh
  BY <1>18 DEF RecoverFresh
<1>19. CASE RecoverUnlink
  BY <1>19 DEF RecoverUnlink
<1>20. CASE RecoverRaises
  BY <1>20 DEF RecoverRaises
<1>21. CASE Capture
  BY <1>21 DEF Capture
<1>22. CASE CaptureRefused
  BY <1>22 DEF CaptureRefused
<1>23. CASE PublishArtifact
  BY <1>23 DEF PublishArtifact
<1>24. CASE PublishMetadata
  BY <1>24 DEF PublishMetadata
<1>25. CASE PublishAnchor
  BY <1>25 DEF PublishAnchor
<1>26. CASE Unpublish
  BY <1>26 DEF Unpublish
<1>27. CASE Stage
  BY <1>27 DEF Stage
<1>28. CASE StageRefused
  BY <1>28 DEF StageRefused
<1>29. CASE Prepare
  <2>1. restoreJournal' = [status |-> "prepared", hadOriginal |-> (state # NoFile)]
    BY <1>29 DEF Prepare
  <2>2. /\ restoreJournal' # NoFile /\ restoreJournal'.status = "prepared"
        /\ (restoreJournal'.hadOriginal <=> state # NoFile)
    BY <2>1, PreparedType
  <2> QED
    BY <1>29, <2>2 DEF Prepare
<1>30. CASE MoveOld
  BY <1>30 DEF MoveOld
<1>31. CASE MarkOld
  <2>1. restoreJournal \in RestoreJournals
    BY <1>31, <1>j DEF MarkOld
  <2>2. /\ restoreJournal' # NoFile /\ restoreJournal'.status = "old_moved"
        /\ restoreJournal'.hadOriginal = restoreJournal.hadOriginal
    BY <1>31, <2>1, JournalTypes DEF MarkOld, Mark
  <2> QED
    BY <1>31, <2>2 DEF MarkOld
<1>32. CASE MoveNew
  BY <1>32 DEF MoveNew
<1>33. CASE MarkNew
  <2>1. restoreJournal \in RestoreJournals
    BY <1>33, <1>j DEF MarkNew
  <2>2. /\ restoreJournal' # NoFile /\ restoreJournal'.status = "new_moved"
        /\ restoreJournal'.hadOriginal = restoreJournal.hadOriginal
    BY <1>33, <2>1, JournalTypes DEF MarkNew, Mark
  <2> QED
    BY <1>33, <2>2 DEF MarkNew
<1>34. CASE DropOld
  BY <1>34 DEF DropOld
<1>35. CASE Finish
  BY <1>35 DEF Finish
<1>36. CASE RestoreRaises
  BY <1>36 DEF RestoreRaises
<1>37. CASE Crash
  BY <1>37 DEF Crash
<1>38. ASSUME NEW e \in published, ExportElsewhere(e) PROVE Resolvable'
  BY <1>38 DEF ExportElsewhere
<1>39. CASE Relocate
  BY <1>39 DEF Relocate
<1>40. CASE UNCHANGED vars
  BY <1>40 DEF vars
<1> QED
  BY <1>1, <1>2, <1>3, <1>4, <1>5, <1>6, <1>7, <1>8, <1>9, <1>10, <1>11, <1>12, <1>13,
     <1>14, <1>15, <1>16, <1>17, <1>18, <1>19, <1>20, <1>21, <1>22, <1>23, <1>24, <1>25, <1>26,
     <1>27, <1>28, <1>29, <1>30, <1>31, <1>32, <1>33, <1>34, <1>35, <1>36, <1>37, <1>38, <1>39,
     <1>40
  DEF Next, Cycle, RecoverStep, ExportStep, RestoreStep

LEMMA JournalOfFaultStep == IInv /\ JournalOfFault /\ [Next]_vars => JournalOfFault'
<1> SUFFICES ASSUME IInv, JournalOfFault, [Next]_vars PROVE JournalOfFault'
  OBVIOUS
<1>i. SwitchShape /\ faults \in Nat
  BY CheckpointAssumption DEF IInv, TypeOK
<1> USE <1>i DEF SwitchShape, JournalOfFault, dirs, journals, records, history, Goto, Release, Exists,
        Restoring, Recovering, Publishing, Cycling
<1>1. CASE Begin
  BY <1>1 DEF Begin
<1>2. CASE Think
  BY <1>2 DEF Think
<1>3. ASSUME NEW x \in Approvals, Act(x) PROVE JournalOfFault'
  BY <1>3 DEF Act
<1>4. CASE Accept
  BY <1>4 DEF Accept
<1>5. CASE CycleRaises
  BY <1>5 DEF CycleRaises
<1>6. CASE Save
  BY <1>6 DEF Save
<1>7. CASE Rewind
  BY <1>7 DEF Rewind
<1>8. CASE Reapply
  BY <1>8 DEF Reapply
<1>9. CASE Open
  BY <1>9 DEF Open
<1>10. ASSUME NEW p \in Places, Export(p) PROVE JournalOfFault'
  BY <1>10 DEF Export
<1>11. ASSUME NEW e \in published, Restore(e) PROVE JournalOfFault'
  BY <1>11 DEF Restore
<1>12. CASE NothingToRecover
  BY <1>12 DEF NothingToRecover
<1>13. CASE RecoverForward
  BY <1>13 DEF RecoverForward
<1>14. CASE RecoverUntouched
  BY <1>14 DEF RecoverUntouched
<1>15. CASE RecoverDisplace
  BY <1>15 DEF RecoverDisplace
<1>16. CASE RecoverPutBack
  BY <1>16 DEF RecoverPutBack
<1>17. CASE RecoverDropStaging
  BY <1>17 DEF RecoverDropStaging
<1>18. CASE RecoverFresh
  BY <1>18 DEF RecoverFresh
<1>19. CASE RecoverUnlink
  BY <1>19 DEF RecoverUnlink
<1>20. CASE RecoverRaises
  BY <1>20 DEF RecoverRaises
<1>21. CASE Capture
  BY <1>21 DEF Capture
<1>22. CASE CaptureRefused
  BY <1>22 DEF CaptureRefused
<1>23. CASE PublishArtifact
  BY <1>23 DEF PublishArtifact
<1>24. CASE PublishMetadata
  BY <1>24 DEF PublishMetadata
<1>25. CASE PublishAnchor
  BY <1>25 DEF PublishAnchor
<1>26. CASE Unpublish
  BY <1>26 DEF Unpublish
<1>27. CASE Stage
  BY <1>27 DEF Stage
<1>28. CASE StageRefused
  BY <1>28 DEF StageRefused
<1>29. CASE Prepare
  BY <1>29 DEF Prepare
<1>30. CASE MoveOld
  BY <1>30 DEF MoveOld
<1>31. CASE MarkOld
  BY <1>31 DEF MarkOld
<1>32. CASE MoveNew
  BY <1>32 DEF MoveNew
<1>33. CASE MarkNew
  BY <1>33 DEF MarkNew
<1>34. CASE DropOld
  BY <1>34 DEF DropOld
<1>35. CASE Finish
  BY <1>35 DEF Finish
<1>36. CASE RestoreRaises
  BY <1>36 DEF RestoreRaises
<1>37. CASE Crash
  BY <1>37 DEF Crash
<1>38. ASSUME NEW e \in published, ExportElsewhere(e) PROVE JournalOfFault'
  BY <1>38 DEF ExportElsewhere
<1>39. CASE Relocate
  BY <1>39 DEF Relocate
<1>40. CASE UNCHANGED vars
  BY <1>40 DEF vars
<1> QED
  BY <1>1, <1>2, <1>3, <1>4, <1>5, <1>6, <1>7, <1>8, <1>9, <1>10, <1>11, <1>12, <1>13,
     <1>14, <1>15, <1>16, <1>17, <1>18, <1>19, <1>20, <1>21, <1>22, <1>23, <1>24, <1>25, <1>26,
     <1>27, <1>28, <1>29, <1>30, <1>31, <1>32, <1>33, <1>34, <1>35, <1>36, <1>37, <1>38, <1>39,
     <1>40
  DEF Next, Cycle, RecoverStep, ExportStep, RestoreStep

-----------------------------------------------------------------------------
(* From the invariants to the properties.                                  *)

LEMMA MoreInit ==
    Init => /\ SafetyCovered /\ PublishShape /\ HeadsLevel /\ InReach /\ TruthKept
            /\ ChainKept /\ Resolvable /\ JournalOfFault
<1> SUFFICES ASSUME Init
             PROVE  /\ SafetyCovered /\ PublishShape /\ HeadsLevel /\ InReach /\ TruthKept
                    /\ ChainKept /\ Resolvable /\ JournalOfFault
  OBVIOUS
<1>1. state.backup = NoFile /\ state.safety = NoFile /\ state.db.head = 0 /\ state.anchor = 0
      /\ pc = "free" /\ restoreJournal = NoFile
      /\ staging = NoFile /\ old = NoFile /\ verified = NoFile
      /\ publishJournal = 0 /\ spent = [a \in Approvals |-> 0] /\ called = {}
  BY DEF Init
<1>2. state # NoFile
  <2>1. PICK m \in Minds :
          state = [db |-> [mind |-> m, head |-> 0,
                           truth |-> [approvals |-> [a \in Approvals |-> "granted"], sent |-> {}]],
                   anchor |-> 0, backup |-> NoFile, safety |-> NoFile]
    BY DEF Init
  <2>2. state \in Dirs
    BY <2>1, CheckpointAssumption DEF Dirs, Databases, Truths, Digests
  <2> QED
    BY <2>2, NoFileAssumption
<1>3. Surviving = state
  BY <1>1 DEF Surviving
<1>4. SafetyCovered
  BY <1>1 DEF SafetyCovered, Covered
<1>5. PublishShape /\ ChainKept /\ Resolvable /\ JournalOfFault
  BY <1>1 DEF PublishShape, ChainKept, Resolvable, JournalOfFault, Replacing, Restoring
<1>6. HeadsLevel /\ InReach
  BY <1>1, <1>3 DEF HeadsLevel, Level, InReach
<1>7. TruthKept
  BY <1>1, <1>2, <1>3 DEF TruthKept, Accounts, Replacing, Restoring, Exists
<1> QED
  BY <1>4, <1>5, <1>6, <1>7

\* Every variable keeps its type, however exports, restores, their crashes and
\* their recoveries interleave: the archives' counters stay positive and every
\* published digest names an archive.
THEOREM CheckpointTypeCorrect == Spec => []TypeOK
<1>1. IInv => TypeOK
  BY DEF IInv
<1> QED
  BY <1>1, InductiveInvariant, PTL

\* Restore is one switch (elia/checkpoint.py, restore_state_checkpoint and
\* recover_interrupted_restore): whatever interrupts it, and whatever recovers
\* it, the surviving state is the previous one until a single step makes it the
\* verified replacement.
THEOREM ReplacedAtOnceHolds == Spec => ReplacedAtOnce
<1>1. IInv /\ [Next]_vars =>
        [(pc \in Restoring \cup Recovering) =>
            Surviving' = Surviving \/ Surviving' = verified]_vars
  BY SwitchedStep
<1> QED
  BY <1>1, InductiveInvariant, PTL DEF Spec, ReplacedAtOnce

LEMMA PublishInvariant == Spec => [](IInv /\ PublishShape)
<1>1. Init => IInv /\ PublishShape
  BY MoreInit, TypeInit, ReadyInit, SwitchInit DEF IInv
<1>2. (IInv /\ PublishShape) /\ [Next]_vars => (IInv /\ PublishShape)'
  BY PublishShapeStep, TypeStep, HolderStep, NamesStep, SwitchStep DEF IInv
<1> QED
  BY <1>1, <1>2, PTL DEF Spec

\* The trusted anchor of the surviving state moves by one archive at a time along
\* the chain of predecessors (elia/checkpoint.py, _validate_anchor_for_restore
\* and _finish_pending_publish), through exports, restores, their crashes and
\* recoveries, and forks made on other machines.
THEOREM AnchorAdvancesHolds == Spec => AnchorAdvances
<1>1. Init => ChainKept
  BY MoreInit
<1>2. (IInv /\ PublishShape) /\ ChainKept /\ [Next]_vars => ChainKept'
  BY ChainStep
<1>3. (IInv /\ PublishShape) /\ ChainKept /\ [Next]_vars =>
        [Exists(Surviving) /\ Exists(Surviving') /\ Surviving'.anchor # Surviving.anchor =>
            Surviving.anchor = 0 \/ archives[Surviving'.anchor].previous = Surviving.anchor]_vars
  BY AnchorStep
<1> QED
  BY <1>1, <1>2, <1>3, PublishInvariant, PTL DEF Spec, AnchorAdvances

LEMMA LevelInvariant == Spec => [](IInv /\ PublishShape /\ HeadsLevel)
<1>1. Init => HeadsLevel
  BY MoreInit
<1>2. (IInv /\ PublishShape) /\ HeadsLevel /\ [Next]_vars => HeadsLevel'
  BY HeadsLevelStep
<1> QED
  BY <1>1, <1>2, PublishInvariant, PTL DEF Spec

\* With no publication pending, checkpoint metadata and anchor name the same
\* archive (elia/checkpoint.py, _finish_pending_publish,
\* export_state_checkpoint), also where exports and restores start over an
\* unfinished transition; the one exception is an anchor whose archive was
\* published into a transition that rewinds the metadata.
THEOREM HeadAgreesHolds == Spec => []HeadAgrees
<1>1. HeadsLevel => HeadAgrees
  BY DEF HeadsLevel, Level, HeadAgrees
<1> QED
  BY <1>1, LevelInvariant, PTL

\* Artifact first, then metadata, then anchor (elia/checkpoint.py,
\* _finish_pending_publish): the archives that the surviving state names stand
\* at their destination, or the archive that overwrote them there is their
\* direct successor, still in the publish journal.
THEOREM HeadPublishedHolds == Spec => []HeadPublished
<1>1. Init => InReach
  BY MoreInit
<1>2. (IInv /\ PublishShape /\ HeadsLevel) /\ InReach /\ [Next]_vars => InReach'
  BY ReachStep
<1>3. HeadsLevel /\ InReach => HeadPublished
  <2> SUFFICES ASSUME HeadsLevel, InReach PROVE HeadPublished
    OBVIOUS
  <2>1. CASE publishJournal = 0
    BY <2>1 DEF HeadsLevel, Level, InReach, HeadPublished, Available
  <2>2. CASE publishJournal # 0
    BY <2>2 DEF InReach, Pending, HeadPublished, Available
  <2> QED
    BY <2>1, <2>2
<1> QED
  BY <1>1, <1>2, <1>3, LevelInvariant, PTL DEF Spec

LEMMA CoveredInvariant == Spec => []SafetyCovered
<1>1. Init => SafetyCovered
  BY MoreInit
<1>2. IInv /\ SafetyCovered /\ [Next]_vars => SafetyCovered'
  BY CoveredStep
<1> QED
  BY <1>1, <1>2, InductiveInvariant, PTL DEF Spec

LEMMA TruthInvariant == Spec => []TruthKept
<1>1. Init => TruthKept
  BY MoreInit
<1>2. (IInv /\ PublishShape) /\ SafetyCovered /\ TruthKept /\ [Next]_vars => TruthKept'
  BY TruthStep
<1> QED
  BY <1>1, <1>2, PublishInvariant, CoveredInvariant, PTL DEF Spec

\* One approval pays for one external action, whatever is rolled back, restored
\* or moved to a fresh machine in between (elia/checkpoint.py,
\* _merge_current_external_truth), restores over an unfinished transition and of
\* other machines' archives included: the only approvals excepted are those
\* whose evidence such a restore left behind, in the evidence file of the
\* replaced directory or in the session it did not continue.
THEOREM ApprovalOnceHolds == Spec => []ApprovalOnce
<1>1. TruthKept => ApprovalOnce
  BY DEF TruthKept, ApprovalOnce
<1> QED
  BY <1>1, TruthInvariant, PTL

\* A call that was made has its evidence in the state that survives, in its
\* ledger or in the evidence file of its unfinished rollback (elia/checkpoint.py,
\* _merge_current_external_truth), with the same exception.
THEOREM EvidenceKeptHolds == Spec => []EvidenceKept
<1>1. TruthKept => EvidenceKept
  BY DEF TruthKept, EvidenceKept, Accounts, Current, EvidenceAside
<1> QED
  BY <1>1, TruthInvariant, PTL

LEMMA ResolvableResolves == IInv /\ Resolvable => RecoveryNeverStuck
  BY DEF Resolvable, RecoveryNeverStuck, Stuck

\* A recovery never finds a restore it cannot resolve (elia/checkpoint.py,
\* recover_interrupted_restore), if no earlier recovery stopped between putting
\* the original back and removing its journal.
THEOREM RecoveryNeverStuckHolds == Spec /\ [][~InterruptsPutBack]_vars => []RecoveryNeverStuck
<1>1. Init => Resolvable
  BY MoreInit
<1>2. IInv /\ Resolvable /\ [Next]_vars /\ [~InterruptsPutBack]_vars => Resolvable'
  <2>1. UNCHANGED vars => ~InterruptsPutBack
    BY DEF vars, InterruptsPutBack
  <2> QED
    BY <2>1, ResolvableStep
<1> QED
  BY <1>1, <1>2, ResolvableResolves, InductiveInvariant, PTL DEF Spec

LEMMA OneFaultPutsBack ==
    MaxFaults <= 1 /\ IInv /\ JournalOfFault /\ [Next]_vars => ~InterruptsPutBack
<1> SUFFICES ASSUME MaxFaults <= 1, IInv, JournalOfFault, [Next]_vars, InterruptsPutBack PROVE FALSE
  OBVIOUS
<1>1. faults \in Nat /\ faults > 0
  BY CheckpointAssumption
  DEF IInv, TypeOK, JournalOfFault, InterruptsPutBack, SwitchShape, Recovering, Restoring
<1>2. Crash
  BY DEF Next, Cycle, RecoverStep, ExportStep, RestoreStep, vars, Goto, Release, InterruptsPutBack,
         Accept, CycleRaises, Open, Export, Restore, NothingToRecover, RecoverForward,
         RecoverUntouched, RecoverDisplace, RecoverPutBack, RecoverDropStaging, RecoverFresh,
         RecoverUnlink, RecoverRaises, Capture, CaptureRefused, PublishArtifact, PublishMetadata,
         PublishAnchor, Unpublish, Stage, StageRefused, Prepare, MoveOld, MarkOld, MoveNew,
         MarkNew, DropOld, Finish, RestoreRaises, ExportElsewhere, Relocate, Begin, Think,
         Act, Save, Rewind, Reapply, Restoring
<1> QED
  BY <1>1, <1>2, CheckpointAssumption DEF Crash

\* One crash, wherever it comes, is always recovered from.
THEOREM OneCrashIsResolved == MaxFaults <= 1 => (Spec => []RecoveryNeverStuck)
<1> SUFFICES ASSUME MaxFaults <= 1 PROVE Spec => []RecoveryNeverStuck
  OBVIOUS
<1>1. Init => JournalOfFault
  BY MoreInit
<1>2. IInv /\ JournalOfFault /\ [Next]_vars => JournalOfFault'
  BY JournalOfFaultStep
<1>3. IInv /\ JournalOfFault /\ [Next]_vars => [~InterruptsPutBack]_vars
  BY OneFaultPutsBack
<1> QED
  BY <1>1, <1>2, <1>3, RecoveryNeverStuckHolds, InductiveInvariant, PTL DEF Spec
=============================================================================
