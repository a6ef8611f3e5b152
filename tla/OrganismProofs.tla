--------------------------- MODULE OrganismProofs ---------------------------
(***************************************************************************)
(* Theorems about Organism for every number of children, every budget,     *)
(* every number of cycles and of faults.                                   *)
(***************************************************************************)
EXTENDS Organism, TLAPS

-----------------------------------------------------------------------------
(* The inductive invariant: the types, the cycle count of a child that may *)
(* still enter a cycle, and what the writer lock protects.                 *)

Counting == \A c \in Children : child[c] \notin Unguarded => count[c] < MaxCycles

\* The writer lock admits one child to the guard or the constructor.
OneHolder == \A c, d \in Children : Holds(c) /\ Holds(d) => c = d

\* The copy of the accepted state belongs to a cycle, never to a boot, and has
\* no open bus transaction.
Copies ==
    /\ saved # None => saved.open = {}
    /\ \A c \in Children : child[c] \in InCycle => saved # None
    /\ \A c \in Children : child[c] = "booting" => saved = None

Locking == OneHolder /\ Copies /\ BusHonest

IInv == TypeOK /\ Counting /\ Locking

-----------------------------------------------------------------------------
(* The state operators.                                                    *)

LEMMA AccountedTyped ==
    ASSUME NEW rows \in Databases, NEW units \in {0, 1}
    PROVE  /\ Accounted(rows, units) \in Databases
           /\ Accounted(rows, units).open = rows.open
    BY OrganismAssumption DEF Databases, Accounted

\* Recovery leaves a database, no copy and no torn tail of an open cycle.
LEMMA RecoverTyped ==
    ASSUME TypeOK, Recover
    PROVE  /\ db' \in Databases /\ saved' = None
           /\ chronicle' \in {"intact", "ahead", "torn"}
           /\ capsule' \in [Children \cup {Resident} -> Heads]
    <1>1. db' \in Databases /\ saved' = None
        BY DEF TypeOK, Recover, Recovered
    <1>2. chronicle' \in {"intact", "ahead", "torn"}
        BY DEF TypeOK, Recover, RecoveredChronicle
    <1>3. capsule' \in [Children \cup {Resident} -> Heads]
        BY DEF TypeOK, Recover, Heads
    <1> QED BY <1>1, <1>2, <1>3

LEMMA ReadCapsuleTyped ==
    ASSUME TypeOK, NEW p \in Children \cup {Resident}, ReadCapsule(p)
    PROVE  capsule' \in [Children \cup {Resident} -> Heads]
    BY DEF TypeOK, ReadCapsule, Heads

LEMMA RecordHealthyTyped ==
    ASSUME TypeOK, NEW p \in Children \cup {Resident}, RecordHealthy(p)
    PROVE  /\ db' \in Databases /\ db'.open = db.open
           /\ capsule' \in [Children \cup {Resident} -> Heads]
    BY DEF TypeOK, RecordHealthy, Databases, Heads

LEMMA GoTyped ==
    ASSUME TypeOK, NEW c \in Children, NEW label \in Labels, Go(c, label)
    PROVE  /\ child' \in [Children -> Labels]
           /\ child'[c] = label
           /\ \A d \in Children : d # c => child'[d] = child[d]
    BY DEF TypeOK, Go

LEMMA KilledTyped ==
    ASSUME TypeOK, NEW c \in Children, Killed(c)
    PROVE  /\ child' \in [Children -> Labels]
           /\ count' \in [Children -> 0..MaxCycles]
           /\ chronicle' \in {"intact", "ahead", "torn"}
           /\ capsule' \in [Children \cup {Resident} -> Heads]
           /\ db' = db /\ saved' = saved
    <1>1. child' \in [Children -> Labels]
        BY DEF TypeOK, Killed, Go, Labels
    <1>2. count' \in [Children -> 0..MaxCycles]
        BY OrganismAssumption DEF TypeOK, Killed
    <1>3. capsule' \in [Children \cup {Resident} -> Heads]
        BY DEF TypeOK, Killed, Heads
    <1> QED BY <1>1, <1>2, <1>3 DEF TypeOK, Killed

-----------------------------------------------------------------------------
(* Types.                                                                  *)

LEMMA InitTyped == Init => TypeOK
    <1> SUFFICES ASSUME Init PROVE TypeOK
        OBVIOUS
    <1>1. db \in Databases
        BY OrganismAssumption DEF Init, Databases, Heads
    <1>2. child \in [Children -> Labels] /\ count \in [Children -> 0..MaxCycles]
        BY OrganismAssumption DEF Init, Labels
    <1>3. capsule \in [Children \cup {Resident} -> Heads]
        BY DEF Init, Heads
    <1>4. faults \in 0..MaxFaults /\ saved \in Databases \cup {None}
        BY OrganismAssumption DEF Init
    <1> QED BY <1>1, <1>2, <1>3, <1>4 DEF Init, TypeOK

LEMMA SupervisorTyped ==
    ASSUME TypeOK, StartSupervisor \/ SupervisorStep \/ WatchTimeout \/ SupervisorDies
    PROVE  TypeOK'
    <1>1. CASE StartSupervisor
        BY <1>1 DEF TypeOK, StartSupervisor, stores
    <1>2. CASE Decide
        BY <1>2, RecoverTyped DEF TypeOK, Decide
    <1>10. CASE SupervisorRecovers
        BY <1>10, RecoverTyped DEF TypeOK, SupervisorRecovers
    <1>3. CASE Inspect
        BY <1>3, ReadCapsuleTyped DEF TypeOK, Inspect, stores
    <1>4. CASE Conclude
        BY <1>4, RecordHealthyTyped DEF TypeOK, Conclude
    <1>5. CASE DecideBusy \/ RefuseLaunch \/ WatchExit \/ Wait
        BY <1>5 DEF TypeOK, DecideBusy, RefuseLaunch, WatchExit, Wait, stores
    <1>6. CASE WatchStop
        <2>1. watched \in Children /\ Killed(watched) BY <1>6 DEF TypeOK, WatchStop
        <2> QED BY <1>6, <2>1, KilledTyped DEF TypeOK, WatchStop
    <1>7. CASE WatchTimeout
        <2>1. watched \in Children /\ Killed(watched) BY <1>7 DEF TypeOK, WatchTimeout
        <2>2. faults' \in 0..MaxFaults
            BY <1>7, OrganismAssumption DEF TypeOK, WatchTimeout, Fault
        <2> QED BY <1>7, <2>1, <2>2, KilledTyped DEF TypeOK, WatchTimeout
    <1>8. CASE \E c \in Children : RunChild(c)
        <2>1. PICK c \in Children : RunChild(c) BY <1>8
        <2>2. child' \in [Children -> Labels]
            BY <2>1, GoTyped DEF RunChild, Labels, Starting
        <2> QED BY <2>1, <2>2, OrganismAssumption DEF TypeOK, RunChild, stores
    <1>9. CASE SupervisorDies
        <2>1. faults' \in 0..MaxFaults
            BY <1>9, OrganismAssumption DEF TypeOK, SupervisorDies, Fault
        <2>2. capsule' \in [Children \cup {Resident} -> Heads]
            BY <1>9 DEF TypeOK, SupervisorDies, Heads
        <2> QED BY <1>9, <2>1, <2>2 DEF TypeOK, SupervisorDies, stores
    <1> QED BY <1>1, <1>2, <1>3, <1>4, <1>5, <1>6, <1>7, <1>8, <1>9, <1>10 DEF SupervisorStep

\* A child's own steps.
LEMMA ChildTyped ==
    ASSUME IInv, NEW c \in Children, ChildStep(c) \/ CycleRaises(c) \/ ChildDies(c)
    PROVE  TypeOK'
    <1> TypeOK /\ Counting
        BY DEF IInv
    <1> USE DEF Labels, Starting, InCycle, Live, Unguarded
    <1>1. CASE ChildRecovers(c)
        <2>1. child' \in [Children -> Labels] BY <1>1, GoTyped DEF ChildRecovers
        <2> QED BY <1>1, <2>1, RecoverTyped DEF TypeOK, ChildRecovers, resident
    <1>2. CASE ChildInspects(c)
        <2>1. child' \in [Children -> Labels] BY <1>2, GoTyped DEF ChildInspects
        <2>2. capsule' \in [Children \cup {Resident} -> Heads]
            BY <1>2, ReadCapsuleTyped DEF ChildInspects, TypeOK
        <2> QED BY <1>2, <2>1, <2>2 DEF TypeOK, ChildInspects, resident, stores
    <1>3. CASE ChildRecords(c)
        <2>1. child' \in [Children -> Labels] BY <1>3, GoTyped DEF ChildRecords
        <2> QED BY <1>3, <2>1, RecordHealthyTyped DEF TypeOK, ChildRecords, resident
    <1>4. CASE ChildPreflight(c)
        <2>1. child' \in [Children -> Labels] BY <1>4, GoTyped DEF ChildPreflight
        <2> QED BY <1>4, <2>1, RecoverTyped DEF TypeOK, ChildPreflight, resident
    <1>5. CASE ConstructorLocks(c)
        <2>1. child' \in [Children -> Labels] BY <1>5, GoTyped DEF ConstructorLocks
        <2> QED BY <1>5, <2>1, RecoverTyped DEF TypeOK, ConstructorLocks, resident
    <1>6. CASE BootRecord(c)
        <2>1. child' \in [Children -> Labels] BY <1>6, GoTyped DEF BootRecord
        <2>2. db' \in Databases BY <1>6 DEF TypeOK, BootRecord, BusReconcile, Databases
        <2> QED BY <1>6, <2>1, <2>2 DEF TypeOK, BootRecord, resident
    <1>7. CASE ChildBusy(c)
        <2>1. child' \in [Children -> Labels] BY <1>7, GoTyped DEF ChildBusy
        <2> QED BY <1>7, <2>1 DEF TypeOK, ChildBusy, resident, stores
    <1>8. CASE RefuseCycle(c)
        <2>1. child' \in [Children -> Labels] BY <1>8, GoTyped DEF RefuseCycle
        <2> QED BY <1>8, <2>1 DEF TypeOK, RefuseCycle, resident, stores
    <1>9. CASE BeginCycle(c)
        <2>1. child' \in [Children -> Labels] BY <1>9, GoTyped DEF BeginCycle
        <2>2. db' \in Databases BY <1>9 DEF TypeOK, BeginCycle, BusBegin, Databases
        <2> QED BY <1>9, <2>1, <2>2 DEF TypeOK, BeginCycle, resident
    <1>10. CASE Perceive(c)
        <2>1. child' \in [Children -> Labels] BY <1>10, GoTyped DEF Perceive
        <2> QED BY <1>10, <2>1 DEF TypeOK, Perceive, resident, stores
    <1>11. CASE Think(c)
        <2>1. child' \in [Children -> Labels] BY <1>11, GoTyped DEF Think, Append
        <2>2. db' \in Databases BY <1>11, AccountedTyped DEF TypeOK, Think
        <2>3. chronicle' \in {"intact", "ahead", "torn"} BY <1>11 DEF TypeOK, Think, Append
        <2> QED BY <1>11, <2>1, <2>2, <2>3 DEF TypeOK, Think, resident
    <1>12. CASE Act(c)
        <2>1. child' \in [Children -> Labels] BY <1>12, GoTyped DEF Act, Append
        <2>2. PICK units \in {0, 1}, wake \in {"due", "ahead"} :
                  db' = [Accounted(db, units) EXCEPT !.wake = wake]
            BY <1>12 DEF Act
        <2>3. Accounted(db, units) \in Databases BY AccountedTyped DEF TypeOK
        <2>4. db' \in Databases BY <2>2, <2>3 DEF Databases
        <2>5. chronicle' \in {"intact", "ahead", "torn"} BY <1>12 DEF TypeOK, Act, Append
        <2> QED BY <1>12, <2>1, <2>4, <2>5 DEF TypeOK, Act, resident
    <1>13. CASE Learn(c)
        <2>1. child' \in [Children -> Labels] BY <1>13, GoTyped DEF Learn, AfterCycle
        <2>2. db' \in Databases
            BY <1>13 DEF TypeOK, Learn, BusCommit, Databases, Accepted, Heads
        <2>3. count[c] \in 0..MaxCycles /\ count[c] < MaxCycles
            BY <1>13 DEF TypeOK, Counting, Learn
        <2>4. count[c] + 1 \in 0..MaxCycles
            BY <2>3, OrganismAssumption
        <2>5. count' \in [Children -> 0..MaxCycles]
            BY <1>13, <2>4 DEF TypeOK, Learn
        <2>6. capsule' \in [Children \cup {Resident} -> Heads]
            BY <1>13 DEF TypeOK, Learn, Accepted, Heads
        <2> QED BY <1>13, <2>1, <2>2, <2>5, <2>6 DEF TypeOK, Learn, resident
    <1>14. CASE AcceptRefused(c)
        <2>1. child' \in [Children -> Labels] BY <1>14, GoTyped DEF AcceptRefused
        <2> QED BY <1>14, <2>1 DEF TypeOK, AcceptRefused, resident, stores
    <1>15. CASE RollBack(c)
        <2>1. child' \in [Children -> Labels] BY <1>15, GoTyped DEF RollBack
        <2> QED BY <1>15, <2>1, RecoverTyped DEF TypeOK, RollBack, resident
    <1>16. CASE WriteAndExit(c)
        <2>1. child' \in [Children -> Labels] BY <1>16, GoTyped DEF WriteAndExit
        <2>2. db' \in Databases BY <1>16, AccountedTyped DEF TypeOK, WriteAndExit
        <2>3. count' \in [Children -> 0..MaxCycles]
            BY <1>16, OrganismAssumption DEF TypeOK, WriteAndExit
        <2> QED BY <1>16, <2>1, <2>2, <2>3 DEF TypeOK, WriteAndExit, resident
    <1>17. CASE CycleRaises(c)
        <2>1. child' \in [Children -> Labels] BY <1>17, GoTyped DEF CycleRaises
        <2>2. faults' \in 0..MaxFaults
            BY <1>17, OrganismAssumption DEF TypeOK, CycleRaises, Fault
        <2> QED BY <1>17, <2>1, <2>2 DEF TypeOK, CycleRaises, resident, stores
    <1>18. CASE ChildDies(c)
        <2>1. faults' \in 0..MaxFaults
            BY <1>18, OrganismAssumption DEF TypeOK, ChildDies, Fault
        <2> QED BY <1>18, <2>1, KilledTyped DEF TypeOK, ChildDies, resident
    <1> QED BY <1>1, <1>2, <1>3, <1>4, <1>5, <1>6, <1>7, <1>8, <1>9, <1>10, <1>11, <1>12,
               <1>13, <1>14, <1>15, <1>16, <1>17, <1>18 DEF ChildStep

\* A step of the clock changes a field of each copy, and no open transaction.
LEMMA WorldKeeps ==
    ASSUME TypeOK, TimePasses \/ WeekTurns \/ OwnerControls
    PROVE  /\ TypeOK' /\ child' = child /\ count' = count
           /\ db'.open = db.open
           /\ saved' = None <=> saved = None
           /\ saved # None => saved'.open = saved.open
    <1>1. CASE TimePasses
        <2>1. /\ db' = [db EXCEPT !.wake = "due"]
              /\ saved' = IF saved = None THEN None ELSE [saved EXCEPT !.wake = "due"]
            BY <1>1 DEF TimePasses, InBothCopies
        <2>2. /\ db' \in Databases /\ db'.open = db.open
              /\ saved # None => saved' \in Databases /\ saved'.open = saved.open
            BY <2>1 DEF TypeOK, Databases
        <2> QED BY <1>1, <2>1, <2>2, NoneIsNoDatabase DEF TypeOK, TimePasses, resident
    <1>2. CASE WeekTurns
        <2>1. /\ db' = [db EXCEPT !.used = 0]
              /\ saved' = IF saved = None THEN None ELSE [saved EXCEPT !.used = 0]
            BY <1>2 DEF WeekTurns, InBothCopies
        <2>2. /\ db' \in Databases /\ db'.open = db.open
              /\ saved # None => saved' \in Databases /\ saved'.open = saved.open
            <3>1. 0 \in 0..Budget
                BY OrganismAssumption
            <3> QED BY <2>1, <3>1 DEF TypeOK, Databases
        <2> QED BY <1>2, <2>1, <2>2, NoneIsNoDatabase DEF TypeOK, WeekTurns, resident
    <1>3. CASE OwnerControls
        BY <1>3 DEF TypeOK, OwnerControls, resident, stores
    <1> QED BY <1>1, <1>2, <1>3

-----------------------------------------------------------------------------
(* The cycle count.                                                        *)

\* Only acceptance counts a cycle, and a child at its last cycle leaves the loop.
LEMMA CountingKept ==
    ASSUME IInv, Next
    PROVE  Counting'
    <1> TypeOK /\ Counting
        BY DEF IInv
    <1> USE DEF Starting, InCycle, Live, Unguarded
    <1> SUFFICES ASSUME NEW d \in Children, child'[d] \notin Unguarded
                 PROVE  count'[d] < MaxCycles
        BY DEF Counting
    <1>1. CASE child' = child /\ count' = count
        BY <1>1 DEF Counting
    <1>2. ASSUME NEW c \in Children, Killed(c) PROVE count'[d] < MaxCycles
        BY <1>2, OrganismAssumption DEF TypeOK, Counting, Killed, Go
    <1>3. ASSUME NEW c \in Children, RunChild(c) PROVE count'[d] < MaxCycles
        BY <1>3 DEF TypeOK, Counting, RunChild, Go
    <1>4. ASSUME NEW c \in Children, Learn(c) PROVE count'[d] < MaxCycles
        <2>1. CASE c = d
            <3>1. count[d] \in Nat /\ count[d] < MaxCycles /\ count'[d] = count[d] + 1
                BY <1>4, <2>1 DEF TypeOK, Counting, Learn
            <3>2. count[d] + 1 # MaxCycles
                BY <1>4, <2>1 DEF TypeOK, Learn, AfterCycle, Go
            <3> QED BY <3>1, <3>2, OrganismAssumption
        <2>2. CASE c # d
            BY <1>4, <2>2 DEF TypeOK, Counting, Learn, Go
        <2> QED BY <2>1, <2>2
    <1>5. ASSUME NEW c \in Children, WriteAndExit(c) PROVE count'[d] < MaxCycles
        BY <1>5, OrganismAssumption DEF TypeOK, Counting, WriteAndExit, Go
    <1>6. ASSUME NEW c \in Children, CycleRaises(c) PROVE count'[d] < MaxCycles
        BY <1>6 DEF TypeOK, Counting, CycleRaises, Go
    <1>7. ASSUME NEW c \in Children, ChildStep(c), ~Learn(c), ~WriteAndExit(c)
          PROVE  count'[d] < MaxCycles
        <2>1. count' = count /\ child[c] \notin Unguarded
            BY <1>7 DEF ChildStep, ChildRecovers, ChildInspects, ChildRecords, ChildPreflight,
                ConstructorLocks, BootRecord, ChildBusy, RefuseCycle, BeginCycle, Perceive,
                Think, Act, AcceptRefused, RollBack
        <2>2. d # c => child'[d] = child[d]
            BY <1>7 DEF TypeOK, Go, Append, ChildStep, ChildRecovers, ChildInspects,
                ChildRecords, ChildPreflight, ConstructorLocks, BootRecord, ChildBusy,
                RefuseCycle, BeginCycle, Perceive, Think, Act, AcceptRefused, RollBack
        <2> QED BY <2>1, <2>2 DEF Counting
    <1>8. ASSUME SupervisorStep PROVE count'[d] < MaxCycles
        <2>1. CASE WatchStop
            <3>1. watched \in Children /\ Killed(watched) BY <2>1 DEF TypeOK, WatchStop
            <3> QED BY <3>1, <1>2
        <2>2. CASE \E c \in Children : RunChild(c)
            BY <2>2, <1>3
        <2>3. CASE \/ Decide \/ SupervisorRecovers \/ Inspect \/ Conclude \/ DecideBusy
                   \/ RefuseLaunch \/ WatchExit \/ Wait
            BY <2>3, <1>1 DEF Decide, SupervisorRecovers, Inspect, Conclude, DecideBusy,
                RefuseLaunch, WatchExit, Wait
        <2> QED BY <1>8, <2>1, <2>2, <2>3 DEF SupervisorStep
    <1>9. ASSUME WatchTimeout PROVE count'[d] < MaxCycles
        <2>1. watched \in Children /\ Killed(watched) BY <1>9 DEF TypeOK, WatchTimeout
        <2> QED BY <2>1, <1>2
    <1>10. ASSUME StartSupervisor \/ SupervisorDies PROVE count'[d] < MaxCycles
        BY <1>10, <1>1 DEF StartSupervisor, SupervisorDies
    <1>11. ASSUME TimePasses \/ WeekTurns \/ OwnerControls PROVE count'[d] < MaxCycles
        BY <1>11, <1>1, WorldKeeps
    <1>12. ASSUME NEW c \in Children, ChildDies(c) PROVE count'[d] < MaxCycles
        BY <1>12, <1>2 DEF ChildDies
    <1> QED BY <1>4, <1>5, <1>6, <1>7, <1>8, <1>9, <1>10, <1>11, <1>12 DEF Next

-----------------------------------------------------------------------------
(* What the writer lock protects.                                          *)

\* Whoever takes the free lock finds no open bus transaction, once recovered.
LEMMA FreeIsClean ==
    ASSUME TypeOK, Locking, LockFree
    PROVE  Recovered.open = {} /\ (saved = None => db.open = {})
    <1>1. \A c \in Children : child[c] \notin InCycle
        BY DEF LockFree, Holds
    <1>2. saved = None => db.open = {}
        BY <1>1 DEF Locking, BusHonest, TypeOK, Databases
    <1> QED BY <1>2 DEF Locking, Copies, Recovered

\* The holder finds no transaction but its own.
LEMMA HolderIsAlone ==
    ASSUME TypeOK, Locking, NEW c \in Children, Holds(c)
    PROVE  /\ db.open \subseteq {c}
           /\ \A d \in Children : d # c => ~Holds(d)
    <1>1. \A d \in Children : d # c => ~Holds(d)
        BY DEF Locking, OneHolder
    <1>2. \A d \in Children : child[d] \in InCycle => d = c
        BY <1>1 DEF Holds
    <1>3. ~LockFree
        BY DEF LockFree
    <1> QED BY <1>1, <1>2, <1>3 DEF Locking, BusHonest, TypeOK, Databases

\* A step that leaves the stores' transactions alone and lets nobody in; a
\* child that was inside may have died.
LEMMA QuietStep ==
    ASSUME TypeOK, Locking,
           db'.open = db.open,
           saved' = None <=> saved = None,
           saved # None => saved'.open = saved.open,
           \A d \in Children :
               \/ child'[d] = child[d]
               \/ child'[d] \notin InCycle \cup {"booting"}
    PROVE  Locking'
    <1> USE DEF Live, InCycle
    <1>1. OneHolder'
        BY DEF Locking, OneHolder, Holds
    <1>2. Copies'
        BY DEF Locking, Copies
    <1>3. ASSUME NEW c \in db.open
          PROVE  child'[c] \in InCycle \/ (saved' # None /\ c \notin saved'.open /\ LockFree')
        <2>1. c \in Children
            BY <1>3 DEF TypeOK, Databases
        <2>2. CASE child[c] \in InCycle
            <3>1. \A d \in Children : d # c => ~Holds(d)
                BY <2>1, <2>2, HolderIsAlone DEF Holds
            <3>2. saved # None /\ c \notin saved'.open
                BY <2>1, <2>2 DEF Locking, Copies
            <3>3. CASE child'[c] = child[c]
                BY <2>2, <3>3
            <3>4. CASE child'[c] # child[c]
                BY <2>1, <3>1, <3>2, <3>4 DEF LockFree, Holds
            <3> QED BY <3>3, <3>4
        <2>3. CASE child[c] \notin InCycle
            BY <1>3, <2>3 DEF Locking, BusHonest, LockFree, Holds
        <2> QED BY <2>2, <2>3
    <1>4. ASSUME NEW c \in Children, child'[c] \in Live
          PROVE  c \in db.open
        BY <1>4 DEF Locking, BusHonest
    <1> QED BY <1>1, <1>2, <1>3, <1>4 DEF Locking, BusHonest

\* A step inside the guard that stays inside it.
LEMMA GuardedStep ==
    ASSUME TypeOK, Locking, NEW c \in Children, child[c] \in InCycle,
           db'.open = db.open, saved' = saved,
           child'[c] \in InCycle, child'[c] \in Live => child[c] \in Live,
           \A d \in Children : d # c => child'[d] = child[d]
    PROVE  Locking'
    <1> USE DEF Live, InCycle
    <1>1. \A d \in Children : Holds(d)' <=> Holds(d)
        BY DEF Holds
    <1>2. OneHolder'
        BY <1>1 DEF Locking, OneHolder
    <1>3. Copies'
        BY DEF Locking, Copies
    <1>4. db.open \subseteq {c}
        BY HolderIsAlone DEF Holds
    <1>5. \A d \in Children : child'[d] \in Live => d \in db.open
        BY DEF Locking, BusHonest
    <1> QED BY <1>2, <1>3, <1>4, <1>5 DEF Locking, BusHonest

\* Nothing is open, nobody is in a cycle, and at most one child is booting.
LEMMA CleanStep ==
    ASSUME TypeOK, db'.open = {}, saved' = None,
           NEW c \in Children,
           \A d \in Children : child'[d] \notin InCycle,
           \A d \in Children : d # c => child'[d] # "booting"
    PROVE  Locking'
    <1> USE DEF Live, InCycle
    <1>1. OneHolder'
        BY DEF OneHolder, Holds
    <1>2. Copies'
        BY DEF Copies
    <1>3. BusHonest'
        BY DEF BusHonest
    <1> QED BY <1>1, <1>2, <1>3 DEF Locking

LEMMA SupervisorLocks ==
    ASSUME IInv, TypeOK', StartSupervisor \/ SupervisorStep \/ WatchTimeout \/ SupervisorDies
    PROVE  Locking'
    <1> TypeOK /\ Locking
        BY DEF IInv
    <1>1. CASE Decide \/ SupervisorRecovers
        <2>0. Recover /\ LockFree /\ child' = child
            BY <1>1 DEF Decide, SupervisorRecovers
        <2>1. db'.open = {} /\ saved' = None
            BY <2>0, FreeIsClean DEF Recover
        <2>2. \A d \in Children : child'[d] \notin InCycle \cup {"booting"}
            BY <2>0 DEF LockFree, Holds
        <2>3. CASE Children = {}
            BY <2>1, <2>3 DEF Locking, OneHolder, Copies, BusHonest
        <2>4. CASE Children # {}
            BY <2>1, <2>2, <2>4, CleanStep
        <2> QED BY <2>3, <2>4
    <1>2. CASE Conclude
        BY <1>2, RecordHealthyTyped, QuietStep DEF Conclude
    <1>3. CASE WatchStop \/ WatchTimeout
        <2>1. watched \in Children /\ Killed(watched)
            BY <1>3 DEF TypeOK, WatchStop, WatchTimeout
        <2>2. \A d \in Children : child'[d] = child[d] \/ child'[d] = "none"
            BY <2>1 DEF TypeOK, Killed, Go
        <2> QED BY <2>1, <2>2, KilledTyped, QuietStep DEF InCycle, Live
    <1>4. CASE \E c \in Children : RunChild(c)
        <2>1. PICK c \in Children : RunChild(c)
            BY <1>4
        <2>2. \A d \in Children : child'[d] = child[d] \/ child'[d] = "started"
            BY <2>1 DEF TypeOK, RunChild, Go
        <2> QED BY <2>1, <2>2, QuietStep DEF RunChild, stores, InCycle, Live
    <1>5. CASE \/ StartSupervisor \/ Inspect \/ DecideBusy \/ RefuseLaunch
               \/ WatchExit \/ Wait \/ SupervisorDies
        <2>1. child' = child /\ db' = db /\ saved' = saved
            BY <1>5 DEF StartSupervisor, Inspect, DecideBusy, RefuseLaunch, WatchExit, Wait,
                SupervisorDies, stores
        <2> QED BY <2>1, QuietStep
    <1> QED BY <1>1, <1>2, <1>3, <1>4, <1>5 DEF SupervisorStep

LEMMA ChildLocks ==
    ASSUME IInv, NEW c \in Children, ChildStep(c) \/ CycleRaises(c) \/ ChildDies(c)
    PROVE  Locking'
    <1> TypeOK /\ Locking
        BY DEF IInv
    <1> USE DEF InCycle, Live, Unguarded
    <1>1. CASE ChildRecovers(c) \/ ChildPreflight(c)
        <2>1. Recover /\ LockFree
            BY <1>1 DEF ChildRecovers, ChildPreflight
        <2>2. db'.open = {} /\ saved' = None
            BY <2>1, FreeIsClean DEF Recover
        <2>3. \A d \in Children : child'[d] \notin InCycle \cup {"booting"}
            BY <1>1 DEF TypeOK, ChildRecovers, ChildPreflight, LockFree, Holds, Go
        <2> QED BY <2>2, <2>3, CleanStep
    <1>2. CASE ConstructorLocks(c)
        <2>1. db'.open = {} /\ saved' = None
            BY <1>2, FreeIsClean DEF ConstructorLocks, Recover
        <2>2. \A d \in Children : d # c => child'[d] \notin InCycle \cup {"booting"}
            BY <1>2 DEF TypeOK, ConstructorLocks, LockFree, Holds, Go
        <2>3. child'[c] \notin InCycle
            BY <1>2 DEF TypeOK, ConstructorLocks, Go
        <2> QED BY <2>1, <2>2, <2>3, CleanStep
    <1>3. CASE BootRecord(c)
        <2>1. Holds(c) /\ saved' = None
            BY <1>3 DEF BootRecord, Holds, Locking, Copies
        <2>2. db'.open = {}
            BY <1>3 DEF BootRecord, BusReconcile, TypeOK, Databases
        <2>3. \A d \in Children : d # c => ~Holds(d)
            BY <2>1, HolderIsAlone
        <2>4. \A d \in Children : child'[d] \notin InCycle \cup {"booting"}
            BY <1>3, <2>3 DEF TypeOK, BootRecord, Go, Holds
        <2> QED BY <2>1, <2>2, <2>4, CleanStep
    <1>4. CASE BeginCycle(c)
        <2>1. db.open = {}
            BY <1>4, FreeIsClean DEF BeginCycle
        <2>2. db'.open = {c} /\ saved' = db /\ saved' # None
            BY <1>4, <2>1, NoneIsNoDatabase DEF BeginCycle, BusBegin, TypeOK, Databases
        <2>3. child'[c] = "perceive"
            BY <1>4 DEF TypeOK, BeginCycle, Go
        <2>4. \A d \in Children : d # c => child'[d] \notin InCycle \cup {"booting"}
            BY <1>4 DEF TypeOK, BeginCycle, Go, LockFree, Holds
        <2>5. OneHolder'
            BY <2>4 DEF OneHolder, Holds
        <2>6. Copies'
            BY <2>1, <2>2, <2>3, <2>4 DEF Copies
        <2>7. BusHonest'
            BY <2>2, <2>3, <2>4 DEF BusHonest
        <2> QED BY <2>5, <2>6, <2>7 DEF Locking
    <1>5. CASE Perceive(c) \/ Think(c) \/ Act(c) \/ AcceptRefused(c) \/ CycleRaises(c)
        <2>1. child[c] \in Live /\ child'[c] \in InCycle
            BY <1>5 DEF TypeOK, Perceive, Think, Act, AcceptRefused, CycleRaises, Append, Go
        <2>2. \A d \in Children : d # c => child'[d] = child[d]
            BY <1>5 DEF TypeOK, Perceive, Think, Act, AcceptRefused, CycleRaises, Append, Go
        <2>3. saved' = saved
            BY <1>5 DEF Perceive, Think, Act, AcceptRefused, CycleRaises, stores
        <2>4. db'.open = db.open
            <3>1. CASE Think(c)
                BY <3>1, AccountedTyped DEF Think, TypeOK
            <3>2. CASE Act(c)
                <4>1. PICK units \in {0, 1}, wake \in {"due", "ahead"} :
                          db' = [Accounted(db, units) EXCEPT !.wake = wake]
                    BY <3>2 DEF Act
                <4> QED BY <4>1, AccountedTyped DEF TypeOK, Databases
            <3>3. CASE Perceive(c) \/ AcceptRefused(c) \/ CycleRaises(c)
                BY <3>3 DEF Perceive, AcceptRefused, CycleRaises, stores
            <3> QED BY <1>5, <3>1, <3>2, <3>3
        <2> QED BY <2>1, <2>2, <2>3, <2>4, GuardedStep
    <1>6. CASE Learn(c) \/ RollBack(c)
        <2>1. Holds(c)
            BY <1>6 DEF Learn, RollBack, Holds
        <2>2. db.open \subseteq {c} /\ \A d \in Children : d # c => ~Holds(d)
            BY <2>1, HolderIsAlone
        <2>3. db'.open = {} /\ saved' = None
            <3>1. CASE Learn(c)
                BY <2>2, <3>1 DEF Learn, BusCommit, TypeOK, Databases
            <3>2. CASE RollBack(c)
                BY <3>2 DEF RollBack, Recover, Recovered, Locking, Copies
            <3> QED BY <1>6, <3>1, <3>2
        <2>4. \A d \in Children : child'[d] \notin InCycle \cup {"booting"}
            BY <1>6, <2>2 DEF TypeOK, Learn, AfterCycle, RollBack, Go, Holds
        <2> QED BY <2>3, <2>4, CleanStep
    <1>7. CASE ChildRecords(c)
        <2>1. \A d \in Children : child'[d] = child[d] \/ child'[d] = "checked"
            BY <1>7 DEF TypeOK, ChildRecords, Go
        <2> QED BY <1>7, <2>1, RecordHealthyTyped, QuietStep DEF ChildRecords
    <1>8. CASE WriteAndExit(c)
        <2>1. \A d \in Children : child'[d] = child[d] \/ child'[d] = "none"
            BY <1>8 DEF TypeOK, WriteAndExit, Go
        <2>2. db'.open = db.open
            BY <1>8, AccountedTyped DEF TypeOK, WriteAndExit
        <2> QED BY <1>8, <2>1, <2>2, QuietStep DEF WriteAndExit
    <1>9. CASE ChildInspects(c) \/ ChildBusy(c) \/ RefuseCycle(c)
        <2>1. \A d \in Children :
                  child'[d] = child[d] \/ child'[d] \in {"vetted", "unfit", "none", "error"}
            BY <1>9 DEF TypeOK, ChildInspects, ChildBusy, RefuseCycle, Go
        <2>2. db' = db /\ saved' = saved
            BY <1>9 DEF ChildInspects, ChildBusy, RefuseCycle, stores
        <2> QED BY <2>1, <2>2, QuietStep
    <1>10. CASE ChildDies(c)
        <2>1. \A d \in Children : child'[d] = child[d] \/ child'[d] = "none"
            BY <1>10 DEF TypeOK, ChildDies, Killed, Go
        <2> QED BY <1>10, <2>1, KilledTyped, QuietStep DEF ChildDies
    <1> QED BY <1>1, <1>2, <1>3, <1>4, <1>5, <1>6, <1>7, <1>8, <1>9, <1>10 DEF ChildStep

-----------------------------------------------------------------------------
(* The theorems.                                                           *)

LEMMA InitInductive == Init => IInv
    <1> SUFFICES ASSUME Init PROVE IInv
        OBVIOUS
    <1>1. Counting
        BY OrganismAssumption DEF Init, Counting
    <1>2. Locking
        BY DEF Init, Locking, OneHolder, Copies, BusHonest, Holds, InCycle, Live
    <1> QED BY <1>1, <1>2, InitTyped DEF IInv

LEMMA NextInductive == IInv /\ [Next]_vars => IInv'
    <1> SUFFICES ASSUME IInv, [Next]_vars PROVE IInv'
        OBVIOUS
    <1>1. CASE UNCHANGED vars
        BY <1>1 DEF IInv, TypeOK, Counting, Locking, OneHolder, Copies, BusHonest, Holds,
            LockFree, vars, resident, stores
    <1>2. ASSUME Next PROVE TypeOK' /\ Locking'
        <2>1. CASE StartSupervisor \/ SupervisorStep \/ WatchTimeout \/ SupervisorDies
            BY <2>1, SupervisorTyped, SupervisorLocks DEF IInv
        <2>2. CASE \E c \in Children : ChildStep(c) \/ CycleRaises(c) \/ ChildDies(c)
            BY <2>2, ChildTyped, ChildLocks
        <2>3. CASE TimePasses \/ WeekTurns \/ OwnerControls
            BY <2>3, WorldKeeps, QuietStep DEF IInv
        <2> QED BY <1>2, <2>1, <2>2, <2>3 DEF Next
    <1> QED BY <1>1, <1>2, CountingKept DEF IInv

\* The invariant holds in every reachable state: besides the types, a child
\* that may still enter a cycle has one left, the writer lock has one holder
\* (runtime.run, ResidentPulse.__init__), and the copy of the accepted state
\* belongs to a cycle that is open or was left open by a dead child.
THEOREM InductiveInvariant == Spec => []IInv
    <1>1. Init => IInv BY InitInductive
    <1>2. IInv /\ [Next]_vars => IInv' BY NextInductive
    <1> QED BY <1>1, <1>2, PTL DEF Spec

\* Every reachable state is of the types; the cycle count stays within --cycles,
\* which needs that a child leaves the loop at its last cycle.
THEOREM TypeCorrect == Spec => []TypeOK
    <1>1. IInv => TypeOK BY DEF IInv
    <1> QED BY <1>1, InductiveInvariant, PTL

\* However many children are alive at once and whoever dies, the open bus
\* transactions are those of the live cycle, or of one that is going to be
\* rolled back; a boot never aborts another child's (state_bus.reconcile_incomplete).
THEOREM BusHonestHolds == Spec => []BusHonest
    <1>1. IInv => BusHonest BY DEF IInv, Locking
    <1> QED BY <1>1, InductiveInvariant, PTL
=============================================================================
