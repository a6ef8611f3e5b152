------------------------- MODULE OwnerControlProofs -------------------------
(***************************************************************************)
(* Proofs about OwnerControl, for any number of elia-control processes and *)
(* any bounds: every variable keeps its type, and no check of the organism *)
(* passes while a stop is owed.  The inductive invariant says which steps  *)
(* hold the writer lock, that a flag about to be stored is still in the    *)
(* sidecar, and that a lift under way owes nobody a stop.                  *)
(***************************************************************************)
EXTENDS OwnerControl, TLAPS

(* Types.                                                                  *)

LEMMA OwnerTypeInit == Init => TypeOK
<1> SUFFICES ASSUME Init PROVE TypeOK
  OBVIOUS
<1>1. row \in Rows /\ signal \in Signals
  BY DEF Init, Rows, Signals
<1>2. seen \in Rows /\ backup \in Rows /\ written \in Rows
  BY <1>1 DEF Init
<1>3. /\ control \in [Controls -> ControlPC] /\ field \in [Controls -> Flags]
      /\ lease \in [Controls -> BOOLEAN]
  BY DEF Init, ControlPC, Flags
<1>4. owed \in [Flags -> {"no", "contested", "yes"}]
  BY DEF Init
<1>5. commands \in 0..MaxCommands /\ faults \in 0..MaxFaults
  BY OwnerAssumption DEF Init
<1>6. QED
  BY <1>1, <1>2, <1>3, <1>4, <1>5 DEF Init, TypeOK, OrganismPC

LEMMA OwnerTypeStep == TypeOK /\ [Next]_vars => TypeOK'
<1> SUFFICES ASSUME TypeOK, [Next]_vars PROVE TypeOK'
  OBVIOUS
<1> USE OwnerAssumption, NoRowAssumption DEF TypeOK, Go, stores, locks, callers, guard, history, counters
<1>pc. ControlPC = {"idle", "lift_wait", "publish_lock", "publish", "wait", "reassert_lock",
                    "reassert", "store", "lift_row", "lift_lock", "lift_signal"}
  BY DEF ControlPC, Asserting, Lifting
<1>opc. OrganismPC = {"down", "boot", "constructing", "idle", "before", "entering",
                      "recovering", "restore", "reapply", "unlink",
                      "cycle", "authorized", "unkilled", "calling", "done"}
  BY DEF OrganismPC, Rolling, InCycle
<1>flags. Flags = {"killed", "revoked"}
  BY DEF Flags
<1>upd. /\ \A r \in Rows, f \in Flags, v \in BOOLEAN : [r EXCEPT ![f] = v] \in Rows
        /\ \A r \in Signals, f \in Flags, v \in BOOLEAN : [r EXCEPT ![f] = v] \in Signals
        /\ \A r \in Rows, p \in Controls : Lifted(r, p) \in Rows
  BY DEF Rows, Signals, Flags, Lifted
<1>1. ASSUME NEW p \in Controls, NEW f \in Flags, StartAssert(p, f) PROVE TypeOK'
  BY <1>1, <1>pc, <1>opc, <1>flags, <1>upd DEF StartAssert, Step
<1>2. ASSUME NEW p \in Controls, NEW f \in Flags, NEW g \in BOOLEAN, StartLift(p, f, g) PROVE TypeOK'
  BY <1>2, <1>pc, <1>opc, <1>flags, <1>upd DEF StartLift, Step
<1>3. ASSUME NEW p \in Controls, TakeSignalLock(p, "publish_lock", "publish") PROVE TypeOK'
  BY <1>3, <1>pc, <1>opc, <1>flags, <1>upd DEF TakeSignalLock, Step
<1>4. ASSUME NEW p \in Controls, Publish(p) PROVE TypeOK'
  BY <1>4, <1>pc, <1>opc, <1>flags, <1>upd DEF Publish, Step, AssertSignal
<1>5. ASSUME NEW p \in Controls, Serialize(p) PROVE TypeOK'
  BY <1>5, <1>pc, <1>opc, <1>flags, <1>upd DEF Serialize, TakeWriter, Step
<1>6. ASSUME NEW p \in Controls, TakeSignalLock(p, "reassert_lock", "reassert") PROVE TypeOK'
  BY <1>6, <1>pc, <1>opc, <1>flags, <1>upd DEF TakeSignalLock, Step
<1>7. ASSUME NEW p \in Controls, Reassert(p) PROVE TypeOK'
  BY <1>7, <1>pc, <1>opc, <1>flags, <1>upd DEF Reassert, Step, AssertSignal
<1>8. ASSUME NEW p \in Controls, StoreFlag(p) PROVE TypeOK'
  BY <1>8, <1>pc, <1>opc, <1>flags, <1>upd DEF StoreFlag, Step
<1>9. ASSUME NEW p \in Controls, BeginLift(p) PROVE TypeOK'
  BY <1>9, <1>pc, <1>opc, <1>flags, <1>upd DEF BeginLift, TakeWriter, Step
<1>10. ASSUME NEW p \in Controls, LiftRow(p) PROVE TypeOK'
  BY <1>10, <1>pc, <1>opc, <1>flags, <1>upd DEF LiftRow, Lifted, Step
<1>11. ASSUME NEW p \in Controls, TakeSignalLock(p, "lift_lock", "lift_signal") PROVE TypeOK'
  BY <1>11, <1>pc, <1>opc, <1>flags, <1>upd DEF TakeSignalLock, Step
<1>12. ASSUME NEW p \in Controls, LiftSignal(p) PROVE TypeOK'
  BY <1>12, <1>pc, <1>opc, <1>flags, <1>upd DEF LiftSignal, Step
<1>13. ASSUME NEW p \in Controls, ControlDies(p) PROVE TypeOK'
  BY <1>13, <1>pc, <1>opc, <1>flags, <1>upd DEF ControlDies, Unlocked
<1>14. ASSUME NEW p \in Controls, ControlTimesOut(p) PROVE TypeOK'
  BY <1>14, <1>pc, <1>opc, <1>flags, <1>upd DEF ControlTimesOut
<1>15. CASE Boot
  BY <1>15, <1>pc, <1>opc, <1>flags, <1>upd DEF Boot
<1>16. CASE ConstructLock
  BY <1>16, <1>pc, <1>opc, <1>flags, <1>upd DEF ConstructLock
<1>17. CASE Construct
  BY <1>17, <1>pc, <1>opc, <1>flags, <1>upd DEF Construct
<1>18. CASE RecoverRead
  BY <1>18, <1>pc, <1>opc, <1>flags, <1>upd DEF RecoverRead
<1>19. CASE RecoverRestore
  BY <1>19, <1>pc, <1>opc, <1>flags, <1>upd DEF RecoverRestore
<1>20. CASE RecoverReapply
  BY <1>20, <1>pc, <1>opc, <1>flags, <1>upd DEF RecoverReapply
<1>21. CASE RecoverUnlink
  BY <1>21, <1>pc, <1>opc, <1>flags, <1>upd DEF RecoverUnlink
<1>22. CASE BeforeRow
  BY <1>22, <1>pc, <1>opc, <1>flags, <1>upd DEF BeforeRow
<1>23. CASE BeforeSignal
  BY <1>23, <1>pc, <1>opc, <1>flags, <1>upd DEF BeforeSignal
<1>24. CASE EnterGuard
  BY <1>24, <1>pc, <1>opc, <1>flags, <1>upd DEF EnterGuard
<1>25. CASE EnterRefused
  BY <1>25, <1>pc, <1>opc, <1>flags, <1>upd DEF EnterRefused
<1>26. CASE OwnerStage
  BY <1>26, <1>pc, <1>opc, <1>flags, <1>upd DEF OwnerStage
<1>27. CASE EffectKillCheck
  BY <1>27, <1>pc, <1>opc, <1>flags, <1>upd DEF EffectKillCheck
<1>28. CASE EffectRevocationCheck
  BY <1>28, <1>pc, <1>opc, <1>flags, <1>upd DEF EffectRevocationCheck
<1>29. CASE CallAdapter
  BY <1>29, <1>pc, <1>opc, <1>flags, <1>upd DEF CallAdapter
<1>30. CASE Accept
  BY <1>30, <1>pc, <1>opc, <1>flags, <1>upd DEF Accept
<1>31. CASE CycleRaises
  BY <1>31, <1>pc, <1>opc, <1>flags, <1>upd DEF CycleRaises
<1>32. CASE RecoverRaises
  BY <1>32, <1>pc, <1>opc, <1>flags, <1>upd DEF RecoverRaises
<1>33. CASE OrganismDies
  BY <1>33, <1>pc, <1>opc, <1>flags, <1>upd DEF OrganismDies, Unlocked
<1>34. CASE UNCHANGED vars
  BY <1>34, <1>pc, <1>opc, <1>flags, <1>upd DEF vars
<1> QED
  BY <1>1, <1>2, <1>3, <1>4, <1>5, <1>6, <1>7, <1>8, <1>9, <1>10, <1>11, <1>12, <1>13, <1>14, <1>15, <1>16, <1>17, <1>18, <1>19, <1>20, <1>21, <1>22, <1>23, <1>24, <1>25, <1>26, <1>27, <1>28, <1>29, <1>30, <1>31, <1>32, <1>33, <1>34
  DEF Next, Start, AssertStep, LiftStep, OrganismStep
-----------------------------------------------------------------------------
(* The invariant behind StopObserved.                                      *)

Serialized == Lifting \cup {"reassert_lock", "reassert", "store"}

\* Who is in the middle of a serialized step holds the writer lock.
WriterHeld ==
    /\ \A p \in Controls : control[p] \in Serialized => writer = p
    /\ organism \in {"boot", "constructing"} \cup Rolling \cup InCycle => writer = Organism

\* A flag about to be stored is in the sidecar.
StoreBacked == \A p \in Controls : control[p] = "store" => signal[field[p]]

\* A lift under way can only meet stops published during it.
LiftOwesNothing == \A p \in Controls : control[p] \in Lifting => owed[field[p]] # "yes"

\* A stop that is owed is in the sidecar.
StopDurable == \A f \in Flags : owed[f] = "yes" => signal[f]

StopInv == TypeOK /\ WriterHeld /\ StoreBacked /\ LiftOwesNothing /\ StopDurable

LEMMA StopInit == Init => StopInv
<1> SUFFICES ASSUME Init PROVE StopInv
  OBVIOUS
<1>1. TypeOK
  BY OwnerTypeInit
<1>2. QED
  BY <1>1 DEF StopInv, Init, WriterHeld, StoreBacked, LiftOwesNothing, StopDurable,
     Serialized, Lifting, Rolling, InCycle

LEMMA StopStep == StopInv /\ [Next]_vars => StopInv'
<1> SUFFICES ASSUME StopInv, [Next]_vars PROVE StopInv'
  OBVIOUS
<1>t. TypeOK /\ TypeOK'
  BY OwnerTypeStep DEF StopInv
<1>ty. /\ control \in [Controls -> ControlPC] /\ field \in [Controls -> Flags]
       /\ owed \in [Flags -> {"no", "contested", "yes"}] /\ signal \in [Flags -> BOOLEAN]
       /\ field' \in [Controls -> Flags]
  BY <1>t DEF TypeOK, Signals
<1> USE OwnerAssumption DEF StopInv, WriterHeld, StoreBacked, LiftOwesNothing, StopDurable,
        Serialized, Lifting, Rolling, InCycle, Go, LiftInProgress, stores, locks, callers, guard, history, counters
<1>1. ASSUME NEW p \in Controls, NEW f \in Flags, StartAssert(p, f) PROVE StopInv'
  BY <1>1, <1>t, <1>ty DEF StartAssert, Step
<1>2. ASSUME NEW p \in Controls, NEW f \in Flags, NEW g \in BOOLEAN, StartLift(p, f, g) PROVE StopInv'
  BY <1>2, <1>t, <1>ty DEF StartLift, Step
<1>3. ASSUME NEW p \in Controls, TakeSignalLock(p, "publish_lock", "publish") PROVE StopInv'
  BY <1>3, <1>t, <1>ty DEF TakeSignalLock, Step
<1>4. ASSUME NEW p \in Controls, Publish(p) PROVE StopInv'
  BY <1>4, <1>t, <1>ty DEF Publish, Step, AssertSignal
<1>5. ASSUME NEW p \in Controls, Serialize(p) PROVE StopInv'
  BY <1>5, <1>t, <1>ty DEF Serialize, TakeWriter, Step
<1>6. ASSUME NEW p \in Controls, TakeSignalLock(p, "reassert_lock", "reassert") PROVE StopInv'
  BY <1>6, <1>t, <1>ty DEF TakeSignalLock, Step
<1>7. ASSUME NEW p \in Controls, Reassert(p) PROVE StopInv'
  BY <1>7, <1>t, <1>ty DEF Reassert, Step, AssertSignal
<1>8. ASSUME NEW p \in Controls, StoreFlag(p) PROVE StopInv'
  BY <1>8, <1>t, <1>ty DEF StoreFlag, Step
<1>9. ASSUME NEW p \in Controls, BeginLift(p) PROVE StopInv'
  BY <1>9, <1>t, <1>ty DEF BeginLift, TakeWriter, Step
<1>10. ASSUME NEW p \in Controls, LiftRow(p) PROVE StopInv'
  BY <1>10, <1>t, <1>ty DEF LiftRow, Lifted, Step
<1>11. ASSUME NEW p \in Controls, TakeSignalLock(p, "lift_lock", "lift_signal") PROVE StopInv'
  BY <1>11, <1>t, <1>ty DEF TakeSignalLock, Step
<1>12. ASSUME NEW p \in Controls, LiftSignal(p) PROVE StopInv'
  BY <1>12, <1>t, <1>ty DEF LiftSignal, Step
<1>13. ASSUME NEW p \in Controls, ControlDies(p) PROVE StopInv'
  BY <1>13, <1>t, <1>ty DEF ControlDies, Unlocked
<1>14. ASSUME NEW p \in Controls, ControlTimesOut(p) PROVE StopInv'
  BY <1>14, <1>t, <1>ty DEF ControlTimesOut
<1>15. CASE Boot
  BY <1>15, <1>t, <1>ty DEF Boot
<1>16. CASE ConstructLock
  BY <1>16, <1>t, <1>ty DEF ConstructLock
<1>17. CASE Construct
  BY <1>17, <1>t, <1>ty DEF Construct
<1>18. CASE RecoverRead
  BY <1>18, <1>t, <1>ty DEF RecoverRead
<1>19. CASE RecoverRestore
  BY <1>19, <1>t, <1>ty DEF RecoverRestore
<1>20. CASE RecoverReapply
  BY <1>20, <1>t, <1>ty DEF RecoverReapply
<1>21. CASE RecoverUnlink
  BY <1>21, <1>t, <1>ty DEF RecoverUnlink
<1>22. CASE BeforeRow
  BY <1>22, <1>t, <1>ty DEF BeforeRow
<1>23. CASE BeforeSignal
  BY <1>23, <1>t, <1>ty DEF BeforeSignal
<1>24. CASE EnterGuard
  BY <1>24, <1>t, <1>ty DEF EnterGuard
<1>25. CASE EnterRefused
  BY <1>25, <1>t, <1>ty DEF EnterRefused
<1>26. CASE OwnerStage
  BY <1>26, <1>t, <1>ty DEF OwnerStage
<1>27. CASE EffectKillCheck
  BY <1>27, <1>t, <1>ty DEF EffectKillCheck
<1>28. CASE EffectRevocationCheck
  BY <1>28, <1>t, <1>ty DEF EffectRevocationCheck
<1>29. CASE CallAdapter
  BY <1>29, <1>t, <1>ty DEF CallAdapter
<1>30. CASE Accept
  BY <1>30, <1>t, <1>ty DEF Accept
<1>31. CASE CycleRaises
  BY <1>31, <1>t, <1>ty DEF CycleRaises
<1>32. CASE RecoverRaises
  BY <1>32, <1>t, <1>ty DEF RecoverRaises
<1>33. CASE OrganismDies
  BY <1>33, <1>t, <1>ty DEF OrganismDies, Unlocked
<1>34. CASE UNCHANGED vars
  BY <1>34, <1>t, <1>ty DEF vars
<1> QED
  BY <1>1, <1>2, <1>3, <1>4, <1>5, <1>6, <1>7, <1>8, <1>9, <1>10, <1>11, <1>12, <1>13, <1>14, <1>15, <1>16, <1>17, <1>18, <1>19, <1>20, <1>21, <1>22, <1>23, <1>24, <1>25, <1>26, <1>27, <1>28, <1>29, <1>30, <1>31, <1>32, <1>33, <1>34
  DEF Next, Start, AssertStep, LiftStep, OrganismStep
-----------------------------------------------------------------------------
(* The theorems.                                                           *)

\* Every variable of the owner control plane keeps its type, for any number of
\* elia-control processes.
THEOREM OwnerTypeCorrect == Spec => []TypeOK
<1>1. Init => TypeOK
  BY OwnerTypeInit
<1>2. TypeOK /\ [Next]_vars => TypeOK'
  BY OwnerTypeStep
<1>3. QED
  BY <1>1, <1>2, PTL DEF Spec

LEMMA StopInvariant == Spec => []StopInv
<1>1. Init => StopInv
  BY StopInit
<1>2. StopInv /\ [Next]_vars => StopInv'
  BY StopStep
<1>3. QED
  BY <1>1, <1>2, PTL DEF Spec

LEMMA PassingCheck == StopInv /\ [Next]_vars => ChecksHeedStops
<1> SUFFICES ASSUME StopInv, [Next]_vars PROVE ChecksHeedStops
  OBVIOUS
<1>d. \A f \in Flags : owed[f] = "yes" => signal[f]
  BY DEF StopInv, StopDurable
<1> USE DEF ChecksHeedStops, Flags, Stopped, Go, Rolling, InCycle, stores, locks, callers, guard, history, counters
<1>1. ASSUME NEW p \in Controls, NEW f \in Flags, StartAssert(p, f) PROVE ChecksHeedStops
  BY <1>1, <1>d DEF StartAssert, Step
<1>2. ASSUME NEW p \in Controls, NEW f \in Flags, NEW g \in BOOLEAN, StartLift(p, f, g) PROVE ChecksHeedStops
  BY <1>2, <1>d DEF StartLift, Step
<1>3. ASSUME NEW p \in Controls, TakeSignalLock(p, "publish_lock", "publish") PROVE ChecksHeedStops
  BY <1>3, <1>d DEF TakeSignalLock, Step
<1>4. ASSUME NEW p \in Controls, Publish(p) PROVE ChecksHeedStops
  BY <1>4, <1>d DEF Publish, Step, AssertSignal
<1>5. ASSUME NEW p \in Controls, Serialize(p) PROVE ChecksHeedStops
  BY <1>5, <1>d DEF Serialize, TakeWriter, Step
<1>6. ASSUME NEW p \in Controls, TakeSignalLock(p, "reassert_lock", "reassert") PROVE ChecksHeedStops
  BY <1>6, <1>d DEF TakeSignalLock, Step
<1>7. ASSUME NEW p \in Controls, Reassert(p) PROVE ChecksHeedStops
  BY <1>7, <1>d DEF Reassert, Step, AssertSignal
<1>8. ASSUME NEW p \in Controls, StoreFlag(p) PROVE ChecksHeedStops
  BY <1>8, <1>d DEF StoreFlag, Step
<1>9. ASSUME NEW p \in Controls, BeginLift(p) PROVE ChecksHeedStops
  BY <1>9, <1>d DEF BeginLift, TakeWriter, Step
<1>10. ASSUME NEW p \in Controls, LiftRow(p) PROVE ChecksHeedStops
  BY <1>10, <1>d DEF LiftRow, Lifted, Step
<1>11. ASSUME NEW p \in Controls, TakeSignalLock(p, "lift_lock", "lift_signal") PROVE ChecksHeedStops
  BY <1>11, <1>d DEF TakeSignalLock, Step
<1>12. ASSUME NEW p \in Controls, LiftSignal(p) PROVE ChecksHeedStops
  BY <1>12, <1>d DEF LiftSignal, Step
<1>13. ASSUME NEW p \in Controls, ControlDies(p) PROVE ChecksHeedStops
  BY <1>13, <1>d DEF ControlDies, Unlocked
<1>14. ASSUME NEW p \in Controls, ControlTimesOut(p) PROVE ChecksHeedStops
  BY <1>14, <1>d DEF ControlTimesOut
<1>15. CASE Boot
  BY <1>15, <1>d DEF Boot
<1>16. CASE ConstructLock
  BY <1>16, <1>d DEF ConstructLock
<1>17. CASE Construct
  BY <1>17, <1>d DEF Construct
<1>18. CASE RecoverRead
  BY <1>18, <1>d DEF RecoverRead
<1>19. CASE RecoverRestore
  BY <1>19, <1>d DEF RecoverRestore
<1>20. CASE RecoverReapply
  BY <1>20, <1>d DEF RecoverReapply
<1>21. CASE RecoverUnlink
  BY <1>21, <1>d DEF RecoverUnlink
<1>22. CASE BeforeRow
  BY <1>22, <1>d DEF BeforeRow
<1>23. CASE BeforeSignal
  BY <1>23, <1>d DEF BeforeSignal
<1>24. CASE EnterGuard
  BY <1>24, <1>d DEF EnterGuard
<1>25. CASE EnterRefused
  BY <1>25, <1>d DEF EnterRefused
<1>26. CASE OwnerStage
  BY <1>26, <1>d DEF OwnerStage
<1>27. CASE EffectKillCheck
  BY <1>27, <1>d DEF EffectKillCheck
<1>28. CASE EffectRevocationCheck
  BY <1>28, <1>d DEF EffectRevocationCheck
<1>29. CASE CallAdapter
  BY <1>29, <1>d DEF CallAdapter
<1>30. CASE Accept
  BY <1>30, <1>d DEF Accept
<1>31. CASE CycleRaises
  BY <1>31, <1>d DEF CycleRaises
<1>32. CASE RecoverRaises
  BY <1>32, <1>d DEF RecoverRaises
<1>33. CASE OrganismDies
  BY <1>33, <1>d DEF OrganismDies, Unlocked
<1>34. CASE UNCHANGED vars
  BY <1>34, <1>d DEF vars
<1> QED
  BY <1>1, <1>2, <1>3, <1>4, <1>5, <1>6, <1>7, <1>8, <1>9, <1>10, <1>11, <1>12, <1>13, <1>14, <1>15, <1>16, <1>17, <1>18, <1>19, <1>20, <1>21, <1>22, <1>23, <1>24, <1>25, <1>26, <1>27, <1>28, <1>29, <1>30, <1>31, <1>32, <1>33, <1>34
  DEF Next, Start, AssertStep, LiftStep, OrganismStep
\* Once kill or revoke has published its flag with no lift of it under way, or
\* has returned, no check of the organism passes until a later command lifts it
\* (OwnerControl.kill, revoke, snapshot), for any number of processes, deaths,
\* timeouts and rollbacks.
THEOREM StopObservedHolds == Spec => StopObserved
<1>1. StopInv /\ [Next]_vars => [ChecksHeedStops]_vars
  BY PassingCheck
<1>2. QED
  BY <1>1, StopInvariant, PTL DEF Spec, StopObserved
-----------------------------------------------------------------------------
(* The invariants behind OwnerControlSurvives and StoresAgree.             *)

\* A command stores its flag between a rollback that was interrupted after it
\* saved the row and the rollback that resumes it.
Overtakes == safety # NoRow /\ written' # written

\* Nothing but the owner's commands lasts in the row: outside a rollback it is
\* what they made it, and a rollback that saved the row saved exactly that.
RowKept ==
    /\ safety = NoRow => row = written
    /\ safety # NoRow => safety = written
    /\ organism = "unlink" => row = written

\* The row is saved by the rollback of a journal, never inside a cycle.
SavedInRollback ==
    /\ safety # NoRow => journal
    /\ organism \in InCycle => journal /\ safety = NoRow

\* A journal outside a cycle takes a fault, a saved row outside a rollback two.
FaultsCounted ==
    /\ journal /\ organism \notin InCycle => faults > 0
    /\ safety # NoRow /\ organism \notin Rolling => faults > 1

\* A stored flag is published, and stays so until a lift takes both away.
StoredIsPublished == \A f \in Flags : written[f] => signal[f]

LiftLeaves == \A p \in Controls : control[p] \in {"lift_lock", "lift_signal"} => ~written[field[p]]

Publishing == {"wait", "reassert_lock", "reassert", "store", "lift_lock", "lift_signal"}

\* A flag that is published and not stored has a command on its way.
PublishedIsStored ==
    ~abandoned => \A f \in Flags : signal[f] /\ ~written[f] =>
        \E p \in Controls : field[p] = f /\ control[p] \in Publishing

\* A stop published during a lift is being serialized.
ContestedIsServed == ~abandoned => \A f \in Flags : owed[f] = "contested" => AssertInProgress(f)

SignalInv == StoredIsPublished /\ LiftLeaves /\ PublishedIsStored /\ ContestedIsServed

LEMMA SavedStep == SavedInRollback /\ [Next]_vars => SavedInRollback'
<1> SUFFICES ASSUME SavedInRollback, [Next]_vars PROVE SavedInRollback'
  OBVIOUS
<1> USE DEF SavedInRollback, Rolling, InCycle, Go, stores, locks, callers, guard, history, counters
<1>1. ASSUME NEW p \in Controls, NEW f \in Flags, StartAssert(p, f) PROVE SavedInRollback'
  BY <1>1 DEF StartAssert, Step
<1>2. ASSUME NEW p \in Controls, NEW f \in Flags, NEW g \in BOOLEAN, StartLift(p, f, g) PROVE SavedInRollback'
  BY <1>2 DEF StartLift, Step
<1>3. ASSUME NEW p \in Controls, TakeSignalLock(p, "publish_lock", "publish") PROVE SavedInRollback'
  BY <1>3 DEF TakeSignalLock, Step
<1>4. ASSUME NEW p \in Controls, Publish(p) PROVE SavedInRollback'
  BY <1>4 DEF Publish, Step, AssertSignal
<1>5. ASSUME NEW p \in Controls, Serialize(p) PROVE SavedInRollback'
  BY <1>5 DEF Serialize, TakeWriter, Step
<1>6. ASSUME NEW p \in Controls, TakeSignalLock(p, "reassert_lock", "reassert") PROVE SavedInRollback'
  BY <1>6 DEF TakeSignalLock, Step
<1>7. ASSUME NEW p \in Controls, Reassert(p) PROVE SavedInRollback'
  BY <1>7 DEF Reassert, Step, AssertSignal
<1>8. ASSUME NEW p \in Controls, StoreFlag(p) PROVE SavedInRollback'
  BY <1>8 DEF StoreFlag, Step
<1>9. ASSUME NEW p \in Controls, BeginLift(p) PROVE SavedInRollback'
  BY <1>9 DEF BeginLift, TakeWriter, Step
<1>10. ASSUME NEW p \in Controls, LiftRow(p) PROVE SavedInRollback'
  BY <1>10 DEF LiftRow, Step
<1>11. ASSUME NEW p \in Controls, TakeSignalLock(p, "lift_lock", "lift_signal") PROVE SavedInRollback'
  BY <1>11 DEF TakeSignalLock, Step
<1>12. ASSUME NEW p \in Controls, LiftSignal(p) PROVE SavedInRollback'
  BY <1>12 DEF LiftSignal, Step
<1>13. ASSUME NEW p \in Controls, ControlDies(p) PROVE SavedInRollback'
  BY <1>13 DEF ControlDies, Unlocked
<1>14. ASSUME NEW p \in Controls, ControlTimesOut(p) PROVE SavedInRollback'
  BY <1>14 DEF ControlTimesOut
<1>15. CASE Boot
  BY <1>15 DEF Boot
<1>16. CASE ConstructLock
  BY <1>16 DEF ConstructLock
<1>17. CASE Construct
  BY <1>17 DEF Construct
<1>18. CASE RecoverRead
  BY <1>18 DEF RecoverRead
<1>19. CASE RecoverRestore
  BY <1>19 DEF RecoverRestore
<1>20. CASE RecoverReapply
  BY <1>20 DEF RecoverReapply
<1>21. CASE RecoverUnlink
  BY <1>21 DEF RecoverUnlink
<1>22. CASE BeforeRow
  BY <1>22 DEF BeforeRow
<1>23. CASE BeforeSignal
  BY <1>23 DEF BeforeSignal
<1>24. CASE EnterGuard
  BY <1>24 DEF EnterGuard
<1>25. CASE EnterRefused
  BY <1>25 DEF EnterRefused
<1>26. CASE OwnerStage
  BY <1>26 DEF OwnerStage
<1>27. CASE EffectKillCheck
  BY <1>27 DEF EffectKillCheck
<1>28. CASE EffectRevocationCheck
  BY <1>28 DEF EffectRevocationCheck
<1>29. CASE CallAdapter
  BY <1>29 DEF CallAdapter
<1>30. CASE Accept
  BY <1>30 DEF Accept
<1>31. CASE CycleRaises
  BY <1>31 DEF CycleRaises
<1>32. CASE RecoverRaises
  BY <1>32 DEF RecoverRaises
<1>33. CASE OrganismDies
  BY <1>33 DEF OrganismDies, Unlocked
<1>34. CASE UNCHANGED vars
  BY <1>34 DEF vars
<1> QED
  BY <1>1, <1>2, <1>3, <1>4, <1>5, <1>6, <1>7, <1>8, <1>9, <1>10, <1>11, <1>12, <1>13, <1>14, <1>15, <1>16, <1>17, <1>18, <1>19, <1>20, <1>21, <1>22, <1>23, <1>24, <1>25, <1>26, <1>27, <1>28, <1>29, <1>30, <1>31, <1>32, <1>33, <1>34
  DEF Next, Start, AssertStep, LiftStep, OrganismStep

LEMMA RowKeptStep == StopInv /\ SavedInRollback /\ RowKept /\ [Next]_vars /\ ~Overtakes => RowKept'
<1> SUFFICES ASSUME StopInv, SavedInRollback, RowKept, [Next]_vars, ~Overtakes PROVE RowKept'
  OBVIOUS
<1>t. /\ row \in Rows /\ written \in Rows
      /\ organism \in {"restore", "reapply"} => safety # NoRow
  BY DEF StopInv, TypeOK
<1> USE NoRowAssumption DEF RowKept, SavedInRollback, Overtakes, Rolling, InCycle, Go, stores, locks, callers, guard, history, counters
<1>1. ASSUME NEW p \in Controls, NEW f \in Flags, StartAssert(p, f) PROVE RowKept'
  BY <1>1, <1>t DEF StartAssert, Step
<1>2. ASSUME NEW p \in Controls, NEW f \in Flags, NEW g \in BOOLEAN, StartLift(p, f, g) PROVE RowKept'
  BY <1>2, <1>t DEF StartLift, Step
<1>3. ASSUME NEW p \in Controls, TakeSignalLock(p, "publish_lock", "publish") PROVE RowKept'
  BY <1>3, <1>t DEF TakeSignalLock, Step
<1>4. ASSUME NEW p \in Controls, Publish(p) PROVE RowKept'
  BY <1>4, <1>t DEF Publish, Step, AssertSignal
<1>5. ASSUME NEW p \in Controls, Serialize(p) PROVE RowKept'
  BY <1>5, <1>t DEF Serialize, TakeWriter, Step
<1>6. ASSUME NEW p \in Controls, TakeSignalLock(p, "reassert_lock", "reassert") PROVE RowKept'
  BY <1>6, <1>t DEF TakeSignalLock, Step
<1>7. ASSUME NEW p \in Controls, Reassert(p) PROVE RowKept'
  BY <1>7, <1>t DEF Reassert, Step, AssertSignal
<1>8. ASSUME NEW p \in Controls, StoreFlag(p) PROVE RowKept'
  BY <1>8, <1>t DEF StoreFlag, Step
<1>9. ASSUME NEW p \in Controls, BeginLift(p) PROVE RowKept'
  BY <1>9, <1>t DEF BeginLift, TakeWriter, Step
<1>10. ASSUME NEW p \in Controls, LiftRow(p) PROVE RowKept'
  BY <1>10, <1>t DEF LiftRow, Step
<1>11. ASSUME NEW p \in Controls, TakeSignalLock(p, "lift_lock", "lift_signal") PROVE RowKept'
  BY <1>11, <1>t DEF TakeSignalLock, Step
<1>12. ASSUME NEW p \in Controls, LiftSignal(p) PROVE RowKept'
  BY <1>12, <1>t DEF LiftSignal, Step
<1>13. ASSUME NEW p \in Controls, ControlDies(p) PROVE RowKept'
  BY <1>13, <1>t DEF ControlDies, Unlocked
<1>14. ASSUME NEW p \in Controls, ControlTimesOut(p) PROVE RowKept'
  BY <1>14, <1>t DEF ControlTimesOut
<1>15. CASE Boot
  BY <1>15, <1>t DEF Boot
<1>16. CASE ConstructLock
  BY <1>16, <1>t DEF ConstructLock
<1>17. CASE Construct
  BY <1>17, <1>t DEF Construct
<1>18. CASE RecoverRead
  BY <1>18, <1>t DEF RecoverRead
<1>19. CASE RecoverRestore
  BY <1>19, <1>t DEF RecoverRestore
<1>20. CASE RecoverReapply
  BY <1>20, <1>t DEF RecoverReapply
<1>21. CASE RecoverUnlink
  BY <1>21, <1>t DEF RecoverUnlink
<1>22. CASE BeforeRow
  BY <1>22, <1>t DEF BeforeRow
<1>23. CASE BeforeSignal
  BY <1>23, <1>t DEF BeforeSignal
<1>24. CASE EnterGuard
  BY <1>24, <1>t DEF EnterGuard
<1>25. CASE EnterRefused
  BY <1>25, <1>t DEF EnterRefused
<1>26. CASE OwnerStage
  BY <1>26, <1>t DEF OwnerStage
<1>27. CASE EffectKillCheck
  BY <1>27, <1>t DEF EffectKillCheck
<1>28. CASE EffectRevocationCheck
  BY <1>28, <1>t DEF EffectRevocationCheck
<1>29. CASE CallAdapter
  BY <1>29, <1>t DEF CallAdapter
<1>30. CASE Accept
  BY <1>30, <1>t DEF Accept
<1>31. CASE CycleRaises
  BY <1>31, <1>t DEF CycleRaises
<1>32. CASE RecoverRaises
  BY <1>32, <1>t DEF RecoverRaises
<1>33. CASE OrganismDies
  BY <1>33, <1>t DEF OrganismDies, Unlocked
<1>34. CASE UNCHANGED vars
  BY <1>34, <1>t DEF vars
<1> QED
  BY <1>1, <1>2, <1>3, <1>4, <1>5, <1>6, <1>7, <1>8, <1>9, <1>10, <1>11, <1>12, <1>13, <1>14, <1>15, <1>16, <1>17, <1>18, <1>19, <1>20, <1>21, <1>22, <1>23, <1>24, <1>25, <1>26, <1>27, <1>28, <1>29, <1>30, <1>31, <1>32, <1>33, <1>34
  DEF Next, Start, AssertStep, LiftStep, OrganismStep

LEMMA FaultsCountedStep == StopInv /\ SavedInRollback /\ FaultsCounted /\ [Next]_vars => FaultsCounted'
<1> SUFFICES ASSUME StopInv, SavedInRollback, FaultsCounted, [Next]_vars PROVE FaultsCounted'
  OBVIOUS
<1>t. faults \in Nat
  BY OwnerAssumption DEF StopInv, TypeOK
<1> USE DEF FaultsCounted, SavedInRollback, Rolling, InCycle, Go, stores, locks, callers, guard, history, counters
<1>1. ASSUME NEW p \in Controls, NEW f \in Flags, StartAssert(p, f) PROVE FaultsCounted'
  BY <1>1, <1>t DEF StartAssert, Step
<1>2. ASSUME NEW p \in Controls, NEW f \in Flags, NEW g \in BOOLEAN, StartLift(p, f, g) PROVE FaultsCounted'
  BY <1>2, <1>t DEF StartLift, Step
<1>3. ASSUME NEW p \in Controls, TakeSignalLock(p, "publish_lock", "publish") PROVE FaultsCounted'
  BY <1>3, <1>t DEF TakeSignalLock, Step
<1>4. ASSUME NEW p \in Controls, Publish(p) PROVE FaultsCounted'
  BY <1>4, <1>t DEF Publish, Step, AssertSignal
<1>5. ASSUME NEW p \in Controls, Serialize(p) PROVE FaultsCounted'
  BY <1>5, <1>t DEF Serialize, TakeWriter, Step
<1>6. ASSUME NEW p \in Controls, TakeSignalLock(p, "reassert_lock", "reassert") PROVE FaultsCounted'
  BY <1>6, <1>t DEF TakeSignalLock, Step
<1>7. ASSUME NEW p \in Controls, Reassert(p) PROVE FaultsCounted'
  BY <1>7, <1>t DEF Reassert, Step, AssertSignal
<1>8. ASSUME NEW p \in Controls, StoreFlag(p) PROVE FaultsCounted'
  BY <1>8, <1>t DEF StoreFlag, Step
<1>9. ASSUME NEW p \in Controls, BeginLift(p) PROVE FaultsCounted'
  BY <1>9, <1>t DEF BeginLift, TakeWriter, Step
<1>10. ASSUME NEW p \in Controls, LiftRow(p) PROVE FaultsCounted'
  BY <1>10, <1>t DEF LiftRow, Step
<1>11. ASSUME NEW p \in Controls, TakeSignalLock(p, "lift_lock", "lift_signal") PROVE FaultsCounted'
  BY <1>11, <1>t DEF TakeSignalLock, Step
<1>12. ASSUME NEW p \in Controls, LiftSignal(p) PROVE FaultsCounted'
  BY <1>12, <1>t DEF LiftSignal, Step
<1>13. ASSUME NEW p \in Controls, ControlDies(p) PROVE FaultsCounted'
  BY <1>13, <1>t DEF ControlDies, Unlocked
<1>14. ASSUME NEW p \in Controls, ControlTimesOut(p) PROVE FaultsCounted'
  BY <1>14, <1>t DEF ControlTimesOut
<1>15. CASE Boot
  BY <1>15, <1>t DEF Boot
<1>16. CASE ConstructLock
  BY <1>16, <1>t DEF ConstructLock
<1>17. CASE Construct
  BY <1>17, <1>t DEF Construct
<1>18. CASE RecoverRead
  BY <1>18, <1>t DEF RecoverRead
<1>19. CASE RecoverRestore
  BY <1>19, <1>t DEF RecoverRestore
<1>20. CASE RecoverReapply
  BY <1>20, <1>t DEF RecoverReapply
<1>21. CASE RecoverUnlink
  BY <1>21, <1>t DEF RecoverUnlink
<1>22. CASE BeforeRow
  BY <1>22, <1>t DEF BeforeRow
<1>23. CASE BeforeSignal
  BY <1>23, <1>t DEF BeforeSignal
<1>24. CASE EnterGuard
  BY <1>24, <1>t DEF EnterGuard
<1>25. CASE EnterRefused
  BY <1>25, <1>t DEF EnterRefused
<1>26. CASE OwnerStage
  BY <1>26, <1>t DEF OwnerStage
<1>27. CASE EffectKillCheck
  BY <1>27, <1>t DEF EffectKillCheck
<1>28. CASE EffectRevocationCheck
  BY <1>28, <1>t DEF EffectRevocationCheck
<1>29. CASE CallAdapter
  BY <1>29, <1>t DEF CallAdapter
<1>30. CASE Accept
  BY <1>30, <1>t DEF Accept
<1>31. CASE CycleRaises
  BY <1>31, <1>t DEF CycleRaises
<1>32. CASE RecoverRaises
  BY <1>32, <1>t DEF RecoverRaises
<1>33. CASE OrganismDies
  BY <1>33, <1>t DEF OrganismDies, Unlocked
<1>34. CASE UNCHANGED vars
  BY <1>34, <1>t DEF vars
<1> QED
  BY <1>1, <1>2, <1>3, <1>4, <1>5, <1>6, <1>7, <1>8, <1>9, <1>10, <1>11, <1>12, <1>13, <1>14, <1>15, <1>16, <1>17, <1>18, <1>19, <1>20, <1>21, <1>22, <1>23, <1>24, <1>25, <1>26, <1>27, <1>28, <1>29, <1>30, <1>31, <1>32, <1>33, <1>34
  DEF Next, Start, AssertStep, LiftStep, OrganismStep

LEMMA SignalStep == StopInv /\ SignalInv /\ [Next]_vars => SignalInv'
<1> SUFFICES ASSUME StopInv, SignalInv, [Next]_vars PROVE SignalInv'
  OBVIOUS
<1>t. /\ control \in [Controls -> ControlPC] /\ field \in [Controls -> Flags]
      /\ owed \in [Flags -> {"no", "contested", "yes"}] /\ signal \in [Flags -> BOOLEAN]
      /\ written \in [Flags \cup {"lease"} -> BOOLEAN] /\ "lease" \notin Flags
  BY DEF StopInv, TypeOK, Signals, Rows, Flags
<1>w. \A p \in Controls : control[p] \in Serialized => writer = p
  BY DEF StopInv, WriterHeld
<1>l. \A p \in Controls, f \in Flags : Lifted(written, p)[f] = (f # field[p] /\ written[f])
  BY <1>t DEF Lifted
<1>s. StoreBacked
  BY DEF StopInv
<1> USE DEF SignalInv, StoredIsPublished, LiftLeaves, PublishedIsStored, ContestedIsServed, StoreBacked,
        AssertInProgress, LiftInProgress, Serialized, Asserting, Lifting, Publishing,
        Go, stores, locks, callers, guard, history, counters
<1>1. ASSUME NEW p \in Controls, NEW f \in Flags, StartAssert(p, f) PROVE SignalInv'
  BY <1>1, <1>t, <1>w, <1>l, <1>s DEF StartAssert, Step
<1>2. ASSUME NEW p \in Controls, NEW f \in Flags, NEW g \in BOOLEAN, StartLift(p, f, g) PROVE SignalInv'
  BY <1>2, <1>t, <1>w, <1>l, <1>s DEF StartLift, Step
<1>3. ASSUME NEW p \in Controls, TakeSignalLock(p, "publish_lock", "publish") PROVE SignalInv'
  BY <1>3, <1>t, <1>w, <1>l, <1>s DEF TakeSignalLock, Step
<1>4. ASSUME NEW p \in Controls, Publish(p) PROVE SignalInv'
  BY <1>4, <1>t, <1>w, <1>l, <1>s DEF Publish, Step, AssertSignal
<1>5. ASSUME NEW p \in Controls, Serialize(p) PROVE SignalInv'
  BY <1>5, <1>t, <1>w, <1>l, <1>s DEF Serialize, TakeWriter, Step
<1>6. ASSUME NEW p \in Controls, TakeSignalLock(p, "reassert_lock", "reassert") PROVE SignalInv'
  BY <1>6, <1>t, <1>w, <1>l, <1>s DEF TakeSignalLock, Step
<1>7. ASSUME NEW p \in Controls, Reassert(p) PROVE SignalInv'
  BY <1>7, <1>t, <1>w, <1>l, <1>s DEF Reassert, Step, AssertSignal
<1>8. ASSUME NEW p \in Controls, StoreFlag(p) PROVE SignalInv'
  BY <1>8, <1>t, <1>w, <1>l, <1>s DEF StoreFlag, Step
<1>9. ASSUME NEW p \in Controls, BeginLift(p) PROVE SignalInv'
  BY <1>9, <1>t, <1>w, <1>l, <1>s DEF BeginLift, TakeWriter, Step
<1>10. ASSUME NEW p \in Controls, LiftRow(p) PROVE SignalInv'
  <2>1. /\ control[p] = "lift_row" /\ control' = [control EXCEPT ![p] = "lift_lock"]
        /\ UNCHANGED <<signal, field, owed, abandoned>>
        /\ \A f \in Flags : written'[f] = (f # field[p] /\ written[f])
    BY <1>10, <1>l DEF LiftRow, Step
  <2>2. StoredIsPublished'
    BY <2>1, <1>t
  <2>3. LiftLeaves'
    <3> SUFFICES ASSUME NEW q \in Controls, control'[q] \in {"lift_lock", "lift_signal"}
                 PROVE ~written'[field[q]]
      BY <2>1
    <3>1. q = p \/ control[q] \in {"lift_lock", "lift_signal"}
      BY <2>1, <1>t
    <3> QED
      BY <2>1, <3>1, <1>t
  <2>4. PublishedIsStored'
    BY <2>1, <1>t
  <2>5. ContestedIsServed'
    BY <2>1, <1>t
  <2> QED
    BY <2>2, <2>3, <2>4, <2>5
<1>11. ASSUME NEW p \in Controls, TakeSignalLock(p, "lift_lock", "lift_signal") PROVE SignalInv'
  BY <1>11, <1>t, <1>w, <1>l, <1>s DEF TakeSignalLock, Step
<1>12. ASSUME NEW p \in Controls, LiftSignal(p) PROVE SignalInv'
  BY <1>12, <1>t, <1>w, <1>l, <1>s DEF LiftSignal, Step
<1>13. ASSUME NEW p \in Controls, ControlDies(p) PROVE SignalInv'
  BY <1>13, <1>t, <1>w, <1>l, <1>s DEF ControlDies, Unlocked
<1>14. ASSUME NEW p \in Controls, ControlTimesOut(p) PROVE SignalInv'
  BY <1>14, <1>t, <1>w, <1>l, <1>s DEF ControlTimesOut
<1>15. CASE Boot
  BY <1>15, <1>t, <1>w, <1>l, <1>s DEF Boot
<1>16. CASE ConstructLock
  BY <1>16, <1>t, <1>w, <1>l, <1>s DEF ConstructLock
<1>17. CASE Construct
  BY <1>17, <1>t, <1>w, <1>l, <1>s DEF Construct
<1>18. CASE RecoverRead
  BY <1>18, <1>t, <1>w, <1>l, <1>s DEF RecoverRead
<1>19. CASE RecoverRestore
  BY <1>19, <1>t, <1>w, <1>l, <1>s DEF RecoverRestore
<1>20. CASE RecoverReapply
  BY <1>20, <1>t, <1>w, <1>l, <1>s DEF RecoverReapply
<1>21. CASE RecoverUnlink
  BY <1>21, <1>t, <1>w, <1>l, <1>s DEF RecoverUnlink
<1>22. CASE BeforeRow
  BY <1>22, <1>t, <1>w, <1>l, <1>s DEF BeforeRow
<1>23. CASE BeforeSignal
  BY <1>23, <1>t, <1>w, <1>l, <1>s DEF BeforeSignal
<1>24. CASE EnterGuard
  BY <1>24, <1>t, <1>w, <1>l, <1>s DEF EnterGuard
<1>25. CASE EnterRefused
  BY <1>25, <1>t, <1>w, <1>l, <1>s DEF EnterRefused
<1>26. CASE OwnerStage
  BY <1>26, <1>t, <1>w, <1>l, <1>s DEF OwnerStage
<1>27. CASE EffectKillCheck
  BY <1>27, <1>t, <1>w, <1>l, <1>s DEF EffectKillCheck
<1>28. CASE EffectRevocationCheck
  BY <1>28, <1>t, <1>w, <1>l, <1>s DEF EffectRevocationCheck
<1>29. CASE CallAdapter
  BY <1>29, <1>t, <1>w, <1>l, <1>s DEF CallAdapter
<1>30. CASE Accept
  BY <1>30, <1>t, <1>w, <1>l, <1>s DEF Accept
<1>31. CASE CycleRaises
  BY <1>31, <1>t, <1>w, <1>l, <1>s DEF CycleRaises
<1>32. CASE RecoverRaises
  BY <1>32, <1>t, <1>w, <1>l, <1>s DEF RecoverRaises
<1>33. CASE OrganismDies
  BY <1>33, <1>t, <1>w, <1>l, <1>s DEF OrganismDies, Unlocked
<1>34. CASE UNCHANGED vars
  BY <1>34, <1>t, <1>w, <1>l, <1>s DEF vars
<1> QED
  BY <1>1, <1>2, <1>3, <1>4, <1>5, <1>6, <1>7, <1>8, <1>9, <1>10, <1>11, <1>12, <1>13, <1>14, <1>15, <1>16, <1>17, <1>18, <1>19, <1>20, <1>21, <1>22, <1>23, <1>24, <1>25, <1>26, <1>27, <1>28, <1>29, <1>30, <1>31, <1>32, <1>33, <1>34
  DEF Next, Start, AssertStep, LiftStep, OrganismStep
-----------------------------------------------------------------------------
(* From the invariants to the properties.                                  *)

LEMMA OwnerBoundsInit == Init => SavedInRollback /\ RowKept /\ FaultsCounted /\ SignalInv
BY NoRowAssumption, OwnerTypeInit
DEF Init, SavedInRollback, RowKept, FaultsCounted, SignalInv, StoredIsPublished, LiftLeaves,
    PublishedIsStored, ContestedIsServed, Rolling, InCycle, Flags, TypeOK

LEMMA SignalInvariant == Spec => []SignalInv
<1>1. Init => SignalInv
  BY OwnerBoundsInit
<1>2. StopInv /\ SignalInv /\ [Next]_vars => SignalInv'
  BY SignalStep
<1>3. QED
  BY <1>1, <1>2, StopInvariant, PTL DEF Spec

LEMMA FaultsInvariant == Spec => [](SavedInRollback /\ FaultsCounted)
<1>1. Init => SavedInRollback /\ FaultsCounted
  BY OwnerBoundsInit
<1>2. StopInv /\ (SavedInRollback /\ FaultsCounted) /\ [Next]_vars => (SavedInRollback /\ FaultsCounted)'
  BY SavedStep, FaultsCountedStep
<1>3. QED
  BY <1>1, <1>2, StopInvariant, PTL DEF Spec

LEMMA RowKeptInvariant == Spec /\ [][~Overtakes]_vars => [](SavedInRollback /\ RowKept)
<1>1. Init => SavedInRollback /\ RowKept
  BY OwnerBoundsInit
<1>2. StopInv /\ (SavedInRollback /\ RowKept) /\ [Next]_vars /\ [~Overtakes]_vars
        => (SavedInRollback /\ RowKept)'
  <2>1. UNCHANGED vars => ~Overtakes
    BY DEF vars, history, Overtakes
  <2>2. QED
    BY <2>1, SavedStep, RowKeptStep
<1>3. QED
  BY <1>1, <1>2, StopInvariant, PTL DEF Spec

\* A command stores its flag under the writer lock, and so does not overtake a
\* rollback in progress; with one fault there is no other to overtake.
LEMMA OneFaultOvertakesNothing ==
    MaxFaults <= 1 /\ StopInv /\ FaultsCounted /\ [Next]_vars => ~Overtakes
<1> SUFFICES ASSUME MaxFaults <= 1, StopInv, FaultsCounted, [Next]_vars, Overtakes PROVE FALSE
  OBVIOUS
<1>1. faults \in Nat /\ faults <= 1
  BY OwnerAssumption DEF StopInv, TypeOK
<1>2. organism \in Rolling /\ writer = Organism
  BY <1>1 DEF FaultsCounted, Overtakes, StopInv, WriterHeld
<1>3. \A p \in Controls : control[p] \notin {"store", "lift_row"}
  BY <1>2, OwnerAssumption DEF StopInv, WriterHeld, Serialized, Lifting
<1>4. PICK p \in Controls : StoreFlag(p) \/ LiftRow(p)
  BY DEF Next, Start, AssertStep, LiftStep, OrganismStep, Overtakes, vars, history, guard,
         StartAssert, StartLift, TakeSignalLock, Publish, Serialize, TakeWriter, Reassert, AssertSignal,
         BeginLift, LiftSignal, ControlDies, ControlTimesOut, Boot, ConstructLock, Construct,
         RecoverRead, RecoverRestore, RecoverReapply, RecoverUnlink, BeforeRow, BeforeSignal,
         EnterGuard, EnterRefused, OwnerStage, EffectKillCheck, EffectRevocationCheck,
         CallAdapter, Accept, CycleRaises, RecoverRaises, OrganismDies
<1>5. QED
  BY <1>3, <1>4 DEF StoreFlag, LiftRow, Step

\* The row is what the owner's commands made it whenever no transition is
\* unfinished, if none of them stores a flag between a rollback that was
\* interrupted after it saved the row and the one that resumes it: then the saved
\* row would be re-applied over the command
\* (AcceptedTransitionGuard._restore_external_safety_state).
THEOREM OwnerControlSurvivesHolds == Spec /\ [][~Overtakes]_vars => []OwnerControlSurvives
<1>1. SavedInRollback /\ RowKept => OwnerControlSurvives
  BY DEF SavedInRollback, RowKept, OwnerControlSurvives
<1>2. QED
  BY <1>1, RowKeptInvariant, PTL

\* One death, timeout or exception never undoes a command of the owner.
THEOREM OneFaultUndoesNothing == MaxFaults <= 1 => (Spec => []OwnerControlSurvives)
<1> SUFFICES ASSUME MaxFaults <= 1 PROVE Spec => []OwnerControlSurvives
  OBVIOUS
<1>1. StopInv /\ (SavedInRollback /\ FaultsCounted) /\ [Next]_vars => [~Overtakes]_vars
  BY OneFaultOvertakesNothing
<1>2. QED
  BY <1>1, OwnerControlSurvivesHolds, StopInvariant, FaultsInvariant, PTL DEF Spec

LEMMA QuietStoresAgree == TypeOK /\ SavedInRollback /\ RowKept /\ SignalInv => StoresAgree
<1> SUFFICES ASSUME TypeOK, SavedInRollback, RowKept, SignalInv, ~journal, ~abandoned,
                    \A p \in Controls : control[p] = "idle",
                    NEW f \in Flags
             PROVE row[f] = signal[f]
  BY DEF StoresAgree
<1>1. row = written
  BY DEF SavedInRollback, RowKept
<1>2. written[f] => signal[f]
  BY DEF SignalInv, StoredIsPublished
<1>3. signal[f] => written[f]
  BY DEF SignalInv, PublishedIsStored, Publishing
<1>4. row[f] \in BOOLEAN /\ signal[f] \in BOOLEAN
  BY DEF TypeOK, Rows, Signals
<1>5. QED
  BY <1>1, <1>2, <1>3, <1>4

\* When every command has returned and no transition is unfinished, row and
\* sidecar agree on both flags (OwnerControl.kill, revoke, grant_lease), for any
\* number of processes racing each other, deaths of the organism and rollbacks
\* that no command overtakes.
THEOREM StoresAgreeHolds == Spec /\ [][~Overtakes]_vars => []StoresAgree
<1>1. StopInv => TypeOK
  BY DEF StopInv
<1>2. QED
  BY <1>1, QuietStoresAgree, StopInvariant, RowKeptInvariant, SignalInvariant, PTL

\* The same with no condition on the commands, when there is one fault at most.
THEOREM OneFaultStoresAgree == MaxFaults <= 1 => (Spec => []StoresAgree)
<1> SUFFICES ASSUME MaxFaults <= 1 PROVE Spec => []StoresAgree
  OBVIOUS
<1>1. StopInv /\ (SavedInRollback /\ FaultsCounted) /\ [Next]_vars => [~Overtakes]_vars
  BY OneFaultOvertakesNothing
<1>2. QED
  BY <1>1, StoresAgreeHolds, StopInvariant, FaultsInvariant, PTL DEF Spec

\* A durable stop request is lost only by the death or the timeout of a command:
\* as long as every command finishes, a published stop stays in the sidecar
\* until a later lift takes it (OwnerControl.kill, "never silently clear a
\* durable owner stop request").
THEOREM StopLostOnlyByAbandoned == Spec => [](~abandoned => StopNotLost)
<1>1. StopInv /\ SignalInv => (~abandoned => StopNotLost)
  BY DEF StopInv, TypeOK, SignalInv, ContestedIsServed, StopDurable, StopNotLost
<1>2. QED
  BY <1>1, StopInvariant, SignalInvariant, PTL
=============================================================================
