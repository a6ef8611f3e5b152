------------------------------ MODULE Organism ------------------------------
(***************************************************************************)
(* The life of the organism's processes: the resident supervisor           *)
(* (elia/supervisor.py), the CPU-only preflight (elia/lifecycle.py), and   *)
(* the cognitive children it starts (elia/__main__.py and the run loop of  *)
(* elia/runtime.py), each of which boots, runs a few cycles inside the     *)
(* accepted-transition guard, sleeps, hibernates or fails.                 *)
(*                                                                         *)
(* A child is started in a session of its own, so it survives the          *)
(* supervisor: two children may be alive at once, and share the database,  *)
(* the Chronicle and the writer lock.  TransitionKernel has the guard's    *)
(* durable steps one by one; here entry, acceptance and rollback are one   *)
(* step each, and a crash leaves the journal for the next recovery.        *)
(* The vital signs (elia/vitals.py) are read and recorded without the lock, *)
(* in two steps: what they saw may be rolled back before it is recorded.   *)
(***************************************************************************)
EXTENDS Naturals, FiniteSets

CONSTANTS Children,     \* cognitive child processes
          Resident,     \* the supervisor, as one that takes vital signs
          None,         \* no child, no copy of an accepted state
          Budget,       \* weekly_gpu_budget_hours, in units of what one step may use
          MaxCycles,    \* --cycles of a child
          MaxFaults     \* bound: deaths, interrupts, timeouts and exceptions

ASSUME OrganismAssumption ==
    /\ None \notin Children /\ Resident \notin Children
    /\ Budget \in Nat /\ MaxCycles \in Nat \ {0} /\ MaxFaults \in Nat

VARIABLES sup,        \* what the supervisor does, "off" when it is not running
          plan,       \* what its preflight allowed: "launch" or "wait"
          watched,    \* the child it watches
          child,      \* what each child does, "none" when it is not running
          count,      \* cycles each child has completed
          db,         \* memory.sqlite3 and workspace: wake, accounted runtime, open bus
                      \* transactions, the Chronicle head last-healthy-crc.json names
          saved,      \* the copy an open transition would go back to
          chronicle,  \* "intact", "ahead" by entries of an open cycle, "torn"
          capsule,    \* the Chronicle head each process's vital signs saw
          stop,       \* the owner's kill flag
          faults      \* faults so far

resident == <<sup, plan, watched>>
stores   == <<db, saved, chronicle>>
vars     == <<resident, child, count, stores, capsule, stop, faults>>

\* Inside the guard, with the organism writer lock.
Live == {"perceive", "think", "act", "learn"}
InCycle == Live \cup {"failed", "exhausted", "interrupted"}

\* Writing outside the guard and without the lock: between cycles and on the way out.
Unguarded == {"error", "hibernate", "pause", "shutdown"}

\* On the way to the run loop.
Starting == {"started", "inspected", "vetted", "unfit", "checked", "cleared", "booting", "ready"}

Labels == {"none"} \cup Starting \cup InCycle \cup Unguarded

\* A Chronicle head: accepted, of a cycle that is still open, or rolled back.
Heads == {"accepted", "open", "undone"}

Databases == [wake : {"due", "ahead"}, used : 0..Budget, open : SUBSET Children, baseline : Heads]

ASSUME NoneIsNoDatabase == None \notin Databases

Holds(c) == child[c] \in InCycle \cup {"booting"}

LockFree == \A c \in Children : ~Holds(c)

Init ==
    /\ sup = "off" /\ plan = "wait" /\ watched = None
    /\ child = [c \in Children |-> "none"] /\ count = [c \in Children |-> 0]
    \* No next_wake_at: cognition is due.
    /\ db = [wake |-> "due", used |-> 0, open |-> {}, baseline |-> "accepted"]
    /\ saved = None /\ chronicle = "intact" /\ stop = FALSE /\ faults = 0
    /\ capsule = [p \in Children \cup {Resident} |-> "accepted"]

Fault == faults < MaxFaults /\ faults' = faults + 1

Go(c, label) == child' = [child EXCEPT ![c] = label]

-----------------------------------------------------------------------------
(* Recovery and preflight, under the writer lock.                          *)

\* A journal left by a dead child: back to the copy; a torn tail goes with it.
Recovered == IF saved = None THEN db ELSE saved

RecoveredChronicle == IF saved = None THEN chronicle ELSE "intact"

\* last-healthy-crc.json goes back with the workspace; a capsule that is read
\* and not yet written does not.
Recover ==
    /\ db' = Recovered /\ chronicle' = RecoveredChronicle /\ saved' = None
    /\ capsule' = [p \in DOMAIN capsule |->
                      IF capsule[p] = "open" THEN "undone" ELSE capsule[p]]

\* Mutant: the wake time is compared the wrong way round.
Mode_Swapped ==
    IF stop \/ RecoveredChronicle = "torn" THEN "halt"
    ELSE IF Recovered.used >= Budget \/ Recovered.wake = "due" THEN "hibernate"
    ELSE "wake"

\* evaluate_preflight: halt, hibernate or wake.
Mode ==
    IF stop \/ RecoveredChronicle = "torn" THEN "halt"
    ELSE IF Recovered.used >= Budget \/ Recovered.wake = "ahead" THEN "hibernate"
    ELSE "wake"

\* VitalSigns.check builds the capsule and compares it with the baseline: the
\* Chronicle must verify and contain the head the baseline names.
Healthy == chronicle # "torn" /\ db.baseline # "undone"

ReadCapsule(p) ==
    capsule' = [capsule EXCEPT ![p] = IF chronicle = "ahead" THEN "open" ELSE "accepted"]

RecordHealthy(p) ==
    /\ db' = [db EXCEPT !.baseline = capsule[p]]
    /\ capsule' = [capsule EXCEPT ![p] = "accepted"]

-----------------------------------------------------------------------------
(* The supervisor.                                                         *)

\* The singleton lease admits one; the service manager restarts it.
StartSupervisor ==
    /\ sup = "off" /\ sup' = "decide"
    /\ UNCHANGED <<plan, watched, child, count, stores, capsule, stop, faults>>

\* A heartbeat: recovery and preflight under the lock ...
Decide ==
    /\ sup = "decide" /\ LockFree
    /\ Recover
    /\ sup' = IF Mode = "halt" THEN "off" ELSE "recover"
    /\ plan' = IF Mode = "wake" THEN "launch" ELSE "wait"
    /\ UNCHANGED <<watched, child, count, stop, faults>>

\* ... the vital signs are built anew, which takes it once more and recovers ...
SupervisorRecovers ==
    /\ sup = "recover" /\ LockFree
    /\ Recover
    /\ sup' = "inspect"
    /\ UNCHANGED <<plan, watched, child, count, stop, faults>>

\* ... then, without it, they are read, and recorded when healthy.
Inspect ==
    /\ sup = "inspect"
    /\ IF Healthy THEN ReadCapsule(Resident) /\ sup' = "conclude"
                  ELSE UNCHANGED capsule /\ sup' = "off"
    /\ UNCHANGED <<plan, watched, child, count, stores, stop, faults>>

Conclude ==
    /\ sup = "conclude" /\ sup' = plan
    /\ RecordHealthy(Resident)
    /\ UNCHANGED <<plan, watched, child, count, saved, chronicle, stop, faults>>

\* The lock stays busy for the whole of its timeout: the exception is not caught.
DecideBusy ==
    /\ sup \in {"decide", "recover"} /\ ~LockFree /\ sup' = "off"
    /\ UNCHANGED <<plan, watched, child, count, stores, capsule, stop, faults>>

\* run_child: the owner's flag is looked at once more before the launch.
RefuseLaunch ==
    /\ sup = "launch" /\ stop /\ sup' = "off"
    /\ UNCHANGED <<plan, watched, child, count, stores, capsule, stop, faults>>

RunChild(c) ==
    /\ sup = "launch" /\ ~stop /\ child[c] = "none"
    /\ Go(c, "started")
    /\ sup' = "watch" /\ watched' = c
    /\ UNCHANGED <<plan, count, stores, capsule, stop, faults>>

\* The return code is reported and otherwise ignored.
WatchExit ==
    /\ sup = "watch" /\ child[watched] = "none"
    /\ sup' = "wait" /\ watched' = None
    /\ UNCHANGED <<plan, child, count, stores, capsule, stop, faults>>

\* A dead child frees the lock; an append outside the guard may be torn, the
\* journal of an open transition stays, and so do the rows written before.
Killed(c) ==
    /\ Go(c, "none")
    /\ \/ UNCHANGED chronicle
       \/ child[c] \in Unguarded \cup {"booting"} /\ chronicle' = "torn"
    /\ count' = [count EXCEPT ![c] = 0]
    /\ capsule' = [capsule EXCEPT ![c] = "accepted"]
    /\ UNCHANGED <<db, saved>>

\* The owner's flag, or the timeout, ends the child and the supervisor.
WatchStop ==
    /\ sup = "watch" /\ child[watched] # "none" /\ stop
    /\ Killed(watched) /\ sup' = "off" /\ watched' = None
    /\ UNCHANGED <<plan, stop, faults>>

WatchTimeout ==
    /\ sup = "watch" /\ child[watched] # "none" /\ Fault
    /\ Killed(watched) /\ sup' = "off" /\ watched' = None
    /\ UNCHANGED <<plan, stop>>

\* The next heartbeat, unless the owner stops the organism in between.
Wait ==
    /\ sup = "wait" /\ sup' = IF stop THEN "off" ELSE "decide"
    /\ UNCHANGED <<plan, watched, child, count, stores, capsule, stop, faults>>

\* The supervisor dies and its child lives on.
SupervisorDies ==
    /\ sup # "off" /\ Fault /\ sup' = "off" /\ watched' = None
    /\ capsule' = [capsule EXCEPT ![Resident] = "accepted"]
    /\ UNCHANGED <<plan, child, count, stores, stop>>

-----------------------------------------------------------------------------
(* A child: main, the constructor, and the run loop.                       *)

\* main checks for itself what the supervisor has checked: vital signs, whose
\* constructor recovers under the lock, then preflight.
ChildRecovers(c) ==
    /\ child[c] = "started" /\ LockFree
    /\ Recover
    /\ Go(c, "inspected")
    /\ UNCHANGED <<resident, count, stop, faults>>

ChildInspects(c) ==
    /\ child[c] = "inspected"
    /\ IF Healthy THEN ReadCapsule(c) /\ Go(c, "vetted")
                  ELSE UNCHANGED capsule /\ Go(c, "unfit")
    /\ UNCHANGED <<resident, count, stores, stop, faults>>

ChildRecords(c) ==
    /\ child[c] = "vetted"
    /\ RecordHealthy(c)
    /\ Go(c, "checked")
    /\ UNCHANGED <<resident, count, saved, chronicle, stop, faults>>

ChildPreflight(c) ==
    /\ child[c] \in {"unfit", "checked"} /\ LockFree
    /\ Recover
    /\ Go(c, IF child[c] = "checked" /\ Mode = "wake" THEN "cleared" ELSE "none")
    /\ UNCHANGED <<resident, count, stop, faults>>

\* Mutant: the constructor does not take the lock.
ConstructorLocks_Unlocked(c) ==
    /\ child[c] = "cleared"
    /\ Recover
    /\ Go(c, IF RecoveredChronicle = "intact" THEN "booting" ELSE "none")
    /\ UNCHANGED <<resident, count, stop, faults>>

ConstructorLocks(c) ==
    /\ child[c] = "cleared" /\ LockFree
    /\ Recover
    /\ Go(c, IF RecoveredChronicle = "intact" THEN "booting" ELSE "none")
    /\ UNCHANGED <<resident, count, stop, faults>>

\* The state bus: one open transaction per cycle, closed by its commit or, for
\* all that are found open, by a boot.
BusBegin(rows, c)  == [rows EXCEPT !.open = @ \cup {c}]
BusCommit(rows, c) == [rows EXCEPT !.open = @ \ {c}]
BusReconcile(rows) == [rows EXCEPT !.open = {}]

\* The boot closes every bus transaction it finds open, and writes its records.
BootRecord(c) ==
    /\ child[c] = "booting" /\ Go(c, "ready")
    /\ db' = BusReconcile(db)
    /\ UNCHANGED <<resident, count, saved, chronicle, capsule, stop, faults>>

\* The lock is busy for the whole timeout: main fails, a cycle is an error.
ChildBusy(c) ==
    /\ ~LockFree
    /\ \/ child[c] \in {"started", "unfit", "checked", "cleared"} /\ Go(c, "none")
       \/ child[c] = "ready" /\ Go(c, "error")
    /\ UNCHANGED <<resident, count, stores, capsule, stop, faults>>

\* Before the guard the owner's flag, at its entry a journal nobody recovered
\* or a Chronicle that does not verify, makes the cycle an error.
RefuseCycle(c) ==
    /\ child[c] = "ready"
    /\ stop \/ (LockFree /\ (saved # None \/ chronicle = "torn"))
    /\ Go(c, "error")
    /\ UNCHANGED <<resident, count, stores, capsule, stop, faults>>

\* The guard copies the accepted state; inside it the cycle opens its bus transaction.
BeginCycle(c) ==
    /\ child[c] = "ready" /\ ~stop /\ LockFree /\ saved = None /\ chronicle = "intact"
    /\ saved' = db /\ db' = BusBegin(db, c)
    /\ Go(c, "perceive")
    /\ UNCHANGED <<resident, count, chronicle, capsule, stop, faults>>

\* budget() accounts the runtime since it was last asked.
Accounted(rows, units) ==
    [rows EXCEPT !.used = IF @ + units > Budget THEN Budget ELSE @ + units]

\* The executive wakes the model or decides without it; it never wakes it when
\* the budget it sees is gone.  (What perception used is accounted in the next step.)
Perceive(c) ==
    /\ child[c] = "perceive"
    /\ (db.used < Budget /\ Go(c, "think")) \/ Go(c, "act")
    /\ UNCHANGED <<resident, count, stores, capsule, stop, faults>>

\* An entry of the cycle; a torn Chronicle refuses it.
Append(c, next) ==
    IF chronicle = "torn" THEN Go(c, "failed") /\ UNCHANGED chronicle
                         ELSE Go(c, next) /\ chronicle' = "ahead"

\* _check_budget accounts and looks again before the model is called.
Think(c) ==
    /\ child[c] = "think"
    /\ \E units \in {0, 1} : db' = Accounted(db, units)
    /\ IF db'.used >= Budget THEN Append(c, "exhausted") ELSE Go(c, "act") /\ UNCHANGED chronicle
    /\ UNCHANGED <<resident, count, saved, capsule, stop, faults>>

\* The model's time, action, outcome, next wake (within the session or later)
\* and the CYCLE entry.
Act(c) ==
    /\ child[c] = "act"
    /\ \E units \in {0, 1}, wake \in {"due", "ahead"} :
            db' = [Accounted(db, units) EXCEPT !.wake = wake]
    /\ Append(c, "learn")
    /\ UNCHANGED <<resident, count, saved, capsule, stop, faults>>

\* Accepted with the cycle, whoever has seen it.
Accepted(head) == IF head = "open" THEN "accepted" ELSE head

\* Mutant: one cycle too many.
AfterCycle_OneMore(c) ==
    IF count[c] = MaxCycles THEN "pause"
    ELSE IF db.wake = "due" THEN "ready" ELSE "hibernate"

\* The run loop pauses, hibernates or goes on.
AfterCycle(c) ==
    IF count[c] + 1 = MaxCycles THEN "pause"
    ELSE IF db.wake = "due" THEN "ready" ELSE "hibernate"

\* The bus transaction is committed and the guard accepts.
Learn(c) ==
    /\ child[c] = "learn" /\ chronicle # "torn"
    /\ db' = [BusCommit(db, c) EXCEPT !.baseline = Accepted(@)]
    /\ capsule' = [p \in DOMAIN capsule |-> Accepted(capsule[p])]
    /\ saved' = None /\ chronicle' = "intact"
    /\ count' = [count EXCEPT ![c] = @ + 1]
    /\ Go(c, AfterCycle(c))
    /\ UNCHANGED <<resident, stop, faults>>

\* Acceptance verifies the Chronicle: one that was torn meanwhile is refused.
AcceptRefused(c) ==
    /\ child[c] = "learn" /\ chronicle = "torn" /\ Go(c, "failed")
    /\ UNCHANGED <<resident, count, stores, capsule, stop, faults>>

\* An exception or an interrupt anywhere in the cycle.
CycleRaises(c) ==
    /\ child[c] \in Live /\ Fault
    /\ (Go(c, "failed") \/ Go(c, "interrupted"))
    /\ UNCHANGED <<resident, count, stores, capsule, stop>>

\* __exit__ restores the accepted state, the accounting of this cycle and the
\* abort of its bus transaction included; the run loop then records why.
RollBack(c) ==
    /\ child[c] \in {"failed", "exhausted", "interrupted"}
    /\ Recover
    /\ Go(c, CASE child[c] = "failed" -> "error"
               [] child[c] = "exhausted" -> "hibernate"
               [] OTHER -> "shutdown")
    /\ UNCHANGED <<resident, count, stop, faults>>

\* ERROR, HIBERNATE or SHUTDOWN is appended (not to a torn Chronicle), and all
\* but the error account what the process has used; with a finite number of
\* cycles an error is raised again and main ends.
WriteAndExit(c) ==
    /\ child[c] \in Unguarded
    /\ \E units \in (IF child[c] = "error" THEN {0} ELSE {0, 1}) : db' = Accounted(db, units)
    /\ Go(c, "none") /\ count' = [count EXCEPT ![c] = 0]
    /\ UNCHANGED <<resident, saved, chronicle, capsule, stop, faults>>

ChildDies(c) ==
    /\ child[c] # "none" /\ Fault
    /\ Killed(c)
    /\ UNCHANGED <<resident, stop>>

-----------------------------------------------------------------------------
(* The world.                                                              *)

\* A wake time passes and a week ends whatever copy holds them.
InBothCopies(Op(_)) ==
    /\ db' = Op(db)
    /\ saved' = IF saved = None THEN None ELSE Op(saved)

TimePasses ==
    /\ LET elapsed(rows) == [rows EXCEPT !.wake = "due"] IN InBothCopies(elapsed)
    /\ UNCHANGED <<resident, child, count, chronicle, capsule, stop, faults>>

WeekTurns ==
    /\ LET turned(rows) == [rows EXCEPT !.used = 0] IN InBothCopies(turned)
    /\ UNCHANGED <<resident, child, count, chronicle, capsule, stop, faults>>

OwnerControls ==
    /\ stop' = ~stop
    /\ UNCHANGED <<resident, child, count, stores, capsule, faults>>

-----------------------------------------------------------------------------
SupervisorStep ==
    \/ Decide \/ SupervisorRecovers \/ Inspect \/ Conclude \/ DecideBusy \/ RefuseLaunch
    \/ WatchExit \/ WatchStop \/ Wait
    \/ \E c \in Children : RunChild(c)

ChildStep(c) ==
    \/ ChildRecovers(c) \/ ChildInspects(c) \/ ChildRecords(c)
    \/ ChildPreflight(c) \/ ConstructorLocks(c) \/ BootRecord(c) \/ ChildBusy(c)
    \/ RefuseCycle(c) \/ BeginCycle(c) \/ Perceive(c) \/ Think(c) \/ Act(c) \/ Learn(c)
    \/ AcceptRefused(c) \/ RollBack(c) \/ WriteAndExit(c)

Next ==
    \/ StartSupervisor \/ SupervisorStep \/ WatchTimeout \/ SupervisorDies
    \/ \E c \in Children : ChildStep(c) \/ CycleRaises(c) \/ ChildDies(c)
    \/ TimePasses \/ WeekTurns \/ OwnerControls

Spec == Init /\ [][Next]_vars

\* The service manager restarts the supervisor, a running process takes its
\* next step, clocks and calendars go on.
FairSpec ==
    /\ Spec
    /\ WF_vars(StartSupervisor) /\ WF_vars(SupervisorStep)
    /\ \A c \in Children : WF_vars(ChildStep(c))
    /\ WF_vars(TimePasses) /\ WF_vars(WeekTurns)

-----------------------------------------------------------------------------
TypeOK ==
    /\ sup \in {"off", "decide", "recover", "inspect", "conclude", "launch", "watch", "wait"}
    /\ plan \in {"launch", "wait"}
    /\ watched \in Children \cup {None} /\ (sup = "watch" <=> watched # None)
    /\ child \in [Children -> Labels] /\ count \in [Children -> 0..MaxCycles]
    /\ db \in Databases /\ saved \in Databases \cup {None}
    /\ chronicle \in {"intact", "ahead", "torn"} /\ stop \in BOOLEAN
    /\ capsule \in [Children \cup {Resident} -> Heads]
    /\ faults \in 0..MaxFaults

\* Exactly the live cycles have an open bus transaction, the journal of a dead
\* one aside, which waits to be rolled back: the boot of one child never aborts
\* the transaction of another's cycle, and none outlives its own
\* (state_bus.reconcile_incomplete under the constructor's writer lock).
BusHonest ==
    /\ \A c \in db.open :
          child[c] \in InCycle \/ (saved # None /\ c \notin saved.open /\ LockFree)
    /\ \A c \in Children : child[c] \in Live => c \in db.open

\* A due organism gets a cycle as far as its acceptance, whatever supervisors
\* and children die, time out, fail or fight for the lock on the way, unless
\* the owner stops it, its Chronicle is torn, or its vital signs have promoted a
\* head that was rolled back (supervisor.serve_forever,
\* lifecycle.evaluate_preflight, runtime.run).
WakesHonoured ==
    db.wake = "due" ~>
        \/ stop \/ chronicle = "torn" \/ db.baseline = "undone"
        \/ \E c \in Children : child[c] = "learn"
=============================================================================
