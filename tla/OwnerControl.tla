---------------------------- MODULE OwnerControl ----------------------------
(***************************************************************************)
(* The owner's stop authority (elia/owner_control.py): two stores of the   *)
(* same two flags, the row of owner_control_state inside memory.sqlite3    *)
(* and a sidecar file beside the state directory, written by any number of *)
(* elia-control processes and read by the organism before a cycle, at the  *)
(* owner stage and again at the point of effect.                           *)
(*                                                                         *)
(* Two locks: the organism writer lock (with a timeout) and the sidecar's  *)
(* own lock (blocking).  Asserting a flag publishes the sidecar first and  *)
(* only then waits for the writer lock; lifting one writes the row first,  *)
(* then the sidecar, all under the writer lock.  The accepted-transition   *)
(* guard is here only as far as it rewinds the row: see TransitionKernel   *)
(* for the guard itself.                                                   *)
(***************************************************************************)
EXTENDS Naturals, FiniteSets

CONSTANTS Controls,       \* elia-control processes
          Organism,       \* the organism process
          Free,           \* "nobody holds this lock"
          NoRow,          \* "this file does not exist"
          MaxCommands,    \* bound: commands issued in a behaviour
          MaxFaults       \* bound: deaths, lock timeouts and exceptions

ASSUME OwnerAssumption ==
    /\ Organism \notin Controls
    /\ Free \notin Controls \cup {Organism}
    /\ MaxCommands \in Nat /\ MaxFaults \in Nat

Flags   == {"killed", "revoked"}
Rows    == [Flags \cup {"lease"} -> BOOLEAN]
Signals == [Flags -> BOOLEAN]

ASSUME NoRowAssumption == NoRow \notin Rows

VARIABLES
    row,         \* owner_control_state; lease: a lease_expires_at is set
    signal,      \* .<state>.owner-control.json
    writer,      \* holder of the organism writer lock
    signalLock,  \* holder of the sidecar lock
    control,     \* where each elia-control process is
    field,       \* the flag each process is changing
    lease,       \* does its command also grant a lease?
    organism,    \* where the organism is
    seen,        \* the row it read for a check outside the writer lock
    backup,      \* the row in state-before.sqlite3
    safety,      \* the row in rollback-safety.json
    journal,     \* active.json exists
    owed,        \* history: per flag, is a stop owed to the owner?
    written,     \* history: the row as the owner's commands left it
    abandoned,   \* history: has a command died or given up?
    commands,    \* commands issued so far
    faults       \* faults so far

stores   == <<row, signal>>
locks    == <<writer, signalLock>>
callers  == <<control, field, lease>>
guard    == <<seen, backup, safety, journal>>
history  == <<owed, written, abandoned>>
counters == <<commands, faults>>
vars     == <<stores, locks, callers, organism, guard, history, counters>>

Asserting == {"publish_lock", "publish", "wait", "reassert_lock", "reassert", "store"}
Lifting   == {"lift_row", "lift_lock", "lift_signal"}
ControlPC == {"idle", "lift_wait"} \cup Asserting \cup Lifting

Rolling    == {"recovering", "restore", "reapply", "unlink"}
InCycle    == {"cycle", "authorized", "unkilled", "calling", "done"}
OrganismPC == {"down", "boot", "constructing", "idle", "before", "entering"}
                \cup Rolling \cup InCycle

\* A lift of flag f holds the writer lock.
LiftInProgress(f) == \E p \in Controls : control[p] \in Lifting /\ field[p] = f

AssertInProgress(f) == \E p \in Controls : control[p] \in Asserting /\ field[p] = f

Init ==
    /\ row = [f \in Flags \cup {"lease"} |-> FALSE]
    /\ signal = [f \in Flags |-> FALSE]
    /\ writer = Free /\ signalLock = Free
    /\ control = [p \in Controls |-> "idle"]
    /\ field = [p \in Controls |-> "killed"] /\ lease = [p \in Controls |-> FALSE]
    /\ organism = "down"
    /\ seen = row /\ backup = row /\ safety = NoRow /\ journal = FALSE
    /\ owed = [f \in Flags |-> "no"] /\ written = row /\ abandoned = FALSE
    /\ commands = 0 /\ faults = 0

-----------------------------------------------------------------------------
(* kill and revoke: publish, then serialize, reassert and store.           *)

Step(p, from, to) == control[p] = from /\ control' = [control EXCEPT ![p] = to]

TakeSignalLock(p, from, to) ==
    /\ Step(p, from, to)
    /\ signalLock = Free /\ signalLock' = p
    /\ UNCHANGED <<stores, writer, field, lease, organism, guard, history, counters>>

StartAssert(p, f) ==
    /\ commands < MaxCommands /\ commands' = commands + 1
    /\ Step(p, "idle", "publish_lock")
    /\ field' = [field EXCEPT ![p] = f]
    /\ UNCHANGED <<stores, locks, lease, organism, guard, history, faults>>

AssertSignal(p) ==
    /\ signalLock' = Free
    /\ signal' = [signal EXCEPT ![field[p]] = TRUE]

\* Mutant: the sidecar lock is kept while waiting for the writer lock.
Publish_KeepsLock(p) ==
    /\ Step(p, "publish", "wait")
    /\ signal' = [signal EXCEPT ![field[p]] = TRUE]
    /\ owed' = [owed EXCEPT ![field[p]] = IF LiftInProgress(field[p]) THEN "contested" ELSE "yes"]
    /\ UNCHANGED <<row, locks, field, lease, organism, guard, written, abandoned, counters>>

\* Mutant: the sidecar is written under the writer lock only.
Publish_UnderWriter(p) ==
    /\ Step(p, "publish", "wait")
    /\ writer = Free
    /\ AssertSignal(p)
    /\ owed' = [owed EXCEPT ![field[p]] = IF LiftInProgress(field[p]) THEN "contested" ELSE "yes"]
    /\ UNCHANGED <<row, writer, field, lease, organism, guard, written, abandoned, counters>>

\* The stop is durable from here on, before the writer lock is even asked for.
Publish(p) ==
    /\ Step(p, "publish", "wait")
    /\ AssertSignal(p)
    /\ owed' = [owed EXCEPT ![field[p]] = IF LiftInProgress(field[p]) THEN "contested" ELSE "yes"]
    /\ UNCHANGED <<row, writer, field, lease, organism, guard, written, abandoned, counters>>

TakeWriter(p, from, to) ==
    /\ Step(p, from, to)
    /\ writer = Free /\ writer' = p

\* Mutant: the flag is stored without asserting the sidecar again.
Serialize_NoReassert(p) ==
    /\ TakeWriter(p, "wait", "store")
    /\ UNCHANGED <<stores, signalLock, field, lease, organism, guard, history, counters>>

Serialize(p) ==
    /\ TakeWriter(p, "wait", "reassert_lock")
    /\ UNCHANGED <<stores, signalLock, field, lease, organism, guard, history, counters>>

\* After serialization with a concurrent lift the sidecar is asserted again.
Reassert(p) ==
    /\ Step(p, "reassert", "store")
    /\ AssertSignal(p)
    /\ UNCHANGED <<row, writer, field, lease, organism, guard, history, counters>>

\* The row follows, the lock is released, and the command returns.
StoreFlag(p) ==
    /\ Step(p, "store", "idle")
    /\ row' = [row EXCEPT ![field[p]] = TRUE]
    /\ writer' = Free
    /\ owed' = [owed EXCEPT ![field[p]] = "yes"]
    /\ written' = [written EXCEPT ![field[p]] = TRUE]
    /\ UNCHANGED <<signal, signalLock, field, lease, organism, guard, abandoned, counters>>

-----------------------------------------------------------------------------
(* clear-kill, clear-revoke and grant-lease: row first, then sidecar.      *)

StartLift(p, f, grants) ==
    /\ commands < MaxCommands /\ commands' = commands + 1
    /\ grants => f = "revoked"
    /\ Step(p, "idle", "lift_wait")
    /\ field' = [field EXCEPT ![p] = f] /\ lease' = [lease EXCEPT ![p] = grants]
    /\ UNCHANGED <<stores, locks, organism, guard, history, faults>>

BeginLift(p) ==
    /\ TakeWriter(p, "lift_wait", "lift_row")
    /\ owed' = [owed EXCEPT ![field[p]] = "no"]
    /\ UNCHANGED <<stores, signalLock, field, lease, organism, guard, written, abandoned, counters>>

Lifted(r, p) == [r EXCEPT ![field[p]] = FALSE, !.lease = @ \/ lease[p]]

LiftRow(p) ==
    /\ Step(p, "lift_row", "lift_lock")
    /\ row' = Lifted(row, p) /\ written' = Lifted(written, p)
    /\ UNCHANGED <<signal, locks, field, lease, organism, guard, owed, abandoned, counters>>

LiftSignal(p) ==
    /\ Step(p, "lift_signal", "idle")
    /\ signal' = [signal EXCEPT ![field[p]] = FALSE]
    /\ signalLock' = Free /\ writer' = Free
    /\ UNCHANGED <<row, field, lease, organism, guard, history, counters>>

-----------------------------------------------------------------------------
(* A command may die anywhere or give up waiting for the writer lock.      *)

Unlocked(lock, p) == IF lock = p THEN Free ELSE lock

ControlDies(p) ==
    /\ faults < MaxFaults /\ faults' = faults + 1
    /\ control[p] # "idle" /\ control' = [control EXCEPT ![p] = "idle"]
    /\ writer' = Unlocked(writer, p) /\ signalLock' = Unlocked(signalLock, p)
    /\ abandoned' = TRUE
    /\ UNCHANGED <<stores, field, lease, organism, guard, owed, written, commands>>

ControlTimesOut(p) ==
    /\ faults < MaxFaults /\ faults' = faults + 1
    /\ control[p] \in {"wait", "lift_wait"} /\ writer # Free
    /\ control' = [control EXCEPT ![p] = "idle"]
    /\ abandoned' = TRUE
    /\ UNCHANGED <<stores, locks, field, lease, organism, guard, owed, written, commands>>

-----------------------------------------------------------------------------
(* The organism.                                                           *)

Go(from, to) == organism = from /\ organism' = to

\* The constructor takes the writer lock, then looks at the sidecar under the
\* sidecar lock, then recovers an unfinished transition.
Boot ==
    /\ Go("down", "boot")
    /\ writer = Free /\ writer' = Organism
    /\ UNCHANGED <<stores, signalLock, callers, guard, history, counters>>

ConstructLock ==
    /\ Go("boot", "constructing")
    /\ signalLock = Free /\ signalLock' = Organism
    /\ UNCHANGED <<stores, writer, callers, guard, history, counters>>

Construct ==
    /\ Go("constructing", "recovering")
    /\ signalLock' = Free
    /\ UNCHANGED <<stores, writer, callers, guard, history, counters>>

\* Mutant: nothing is saved before the database goes back.
RecoverRead_SavesNothing ==
    /\ organism = "recovering"
    /\ IF journal
       THEN organism' = "restore" /\ UNCHANGED <<safety, writer>>
       ELSE organism' = "idle" /\ safety' = NoRow /\ writer' = Free
    /\ UNCHANGED <<stores, signalLock, callers, seen, backup, journal, history, counters>>

\* Rollback: the row is saved outside the database once, the database goes
\* back, the saved row is re-applied, the journal is unlinked.
RecoverRead ==
    /\ organism = "recovering"
    /\ IF journal
       THEN /\ organism' = "restore"
            /\ safety' = IF safety = NoRow THEN row ELSE safety
            /\ UNCHANGED writer
       ELSE /\ organism' = "idle" /\ safety' = NoRow /\ writer' = Free
    /\ UNCHANGED <<stores, signalLock, callers, seen, backup, journal, history, counters>>

RecoverRestore ==
    /\ Go("restore", "reapply")
    /\ row' = backup
    /\ UNCHANGED <<signal, locks, callers, guard, history, counters>>

\* Mutant: the owner's row is not among the tables re-applied.
RecoverReapply_SkipsOwner ==
    /\ Go("reapply", "unlink")
    /\ UNCHANGED <<stores, locks, callers, guard, history, counters>>

RecoverReapply ==
    /\ Go("reapply", "unlink")
    /\ row' = safety
    /\ UNCHANGED <<signal, locks, callers, guard, history, counters>>

RecoverUnlink ==
    /\ Go("unlink", "idle")
    /\ journal' = FALSE /\ safety' = NoRow /\ writer' = Free
    /\ UNCHANGED <<stores, signalLock, callers, seen, backup, history, counters>>

\* Before the cycle, without a lock: snapshot() reads the row, then the sidecar.
BeforeRow ==
    /\ Go("idle", "before")
    /\ seen' = row
    /\ UNCHANGED <<stores, locks, callers, backup, safety, journal, history, counters>>

\* Mutant: the sidecar is not consulted.
BeforeSignal_RowOnly ==
    /\ organism = "before"
    /\ organism' = IF seen.killed THEN "idle" ELSE "entering"
    /\ UNCHANGED <<stores, locks, callers, guard, history, counters>>

BeforeSignal ==
    /\ organism = "before"
    /\ organism' = IF seen.killed \/ signal.killed THEN "idle" ELSE "entering"
    /\ UNCHANGED <<stores, locks, callers, guard, history, counters>>

EnterGuard ==
    /\ Go("entering", "cycle")
    /\ writer = Free /\ writer' = Organism
    /\ ~journal /\ journal' = TRUE
    /\ backup' = row /\ safety' = NoRow
    /\ UNCHANGED <<stores, signalLock, callers, seen, history, counters>>

\* The lock stays busy, or an unfinished transition is in the way.
EnterRefused ==
    /\ Go("entering", "idle")
    /\ journal \/ writer # Free
    /\ UNCHANGED <<stores, locks, callers, guard, history, counters>>

Stopped(f) == row[f] \/ signal[f]

\* An expired lease is no lease; time is not modelled.
LeaseHeld == {row.lease, FALSE}

\* assert_external_authorized, under the writer lock the cycle holds.
OwnerStage ==
    /\ organism = "cycle"
    /\ \E leased \in LeaseHeld :
         organism' = IF Stopped("killed") \/ Stopped("revoked") \/ ~leased
                     THEN "done" ELSE "authorized"
    /\ UNCHANGED <<stores, locks, callers, guard, history, counters>>

\* Point of effect: one snapshot for the kill switch ...
EffectKillCheck ==
    /\ organism = "authorized"
    /\ organism' = IF Stopped("killed") THEN "done" ELSE "unkilled"
    /\ UNCHANGED <<stores, locks, callers, guard, history, counters>>

\* ... and a second one for revocation and the lease.
EffectRevocationCheck ==
    /\ organism = "unkilled"
    /\ \E leased \in LeaseHeld :
         organism' = IF Stopped("revoked") \/ ~leased THEN "done" ELSE "calling"
    /\ UNCHANGED <<stores, locks, callers, guard, history, counters>>

CallAdapter ==
    /\ Go("calling", "done")
    /\ UNCHANGED <<stores, locks, callers, guard, history, counters>>

\* The cycle is accepted, with or without an external action.
Accept ==
    /\ organism \in {"cycle", "done"} /\ organism' = "idle"
    /\ journal' = FALSE /\ safety' = NoRow /\ writer' = Free
    /\ UNCHANGED <<stores, signalLock, callers, seen, backup, history, counters>>

CycleRaises ==
    /\ faults < MaxFaults /\ faults' = faults + 1
    /\ organism \in InCycle /\ organism' = "recovering"
    /\ UNCHANGED <<stores, locks, callers, guard, history, commands>>

\* A rollback that raises gives the lock back; its journal stays.
RecoverRaises ==
    /\ faults < MaxFaults /\ faults' = faults + 1
    /\ organism \in Rolling /\ organism' = "idle"
    /\ writer' = Free
    /\ UNCHANGED <<stores, signalLock, callers, guard, history, commands>>

OrganismDies ==
    /\ faults < MaxFaults /\ faults' = faults + 1
    /\ organism # "down" /\ organism' = "down"
    /\ writer' = Unlocked(writer, Organism) /\ signalLock' = Unlocked(signalLock, Organism)
    /\ UNCHANGED <<stores, callers, guard, history, commands>>

-----------------------------------------------------------------------------
AssertStep(p) ==
    \/ TakeSignalLock(p, "publish_lock", "publish") \/ Publish(p)
    \/ Serialize(p) \/ TakeSignalLock(p, "reassert_lock", "reassert")
    \/ Reassert(p) \/ StoreFlag(p)

LiftStep(p) ==
    \/ BeginLift(p) \/ LiftRow(p)
    \/ TakeSignalLock(p, "lift_lock", "lift_signal") \/ LiftSignal(p)

Start(p) ==
    \E f \in Flags : StartAssert(p, f) \/ \E grants \in BOOLEAN : StartLift(p, f, grants)

OrganismStep ==
    \/ Boot \/ ConstructLock \/ Construct
    \/ RecoverRead \/ RecoverRestore \/ RecoverReapply \/ RecoverUnlink
    \/ BeforeRow \/ BeforeSignal \/ EnterGuard \/ EnterRefused
    \/ OwnerStage \/ EffectKillCheck \/ EffectRevocationCheck \/ CallAdapter \/ Accept
    \/ CycleRaises \/ RecoverRaises \/ OrganismDies

Next ==
    \/ \E p \in Controls :
         Start(p) \/ AssertStep(p) \/ LiftStep(p) \/ ControlDies(p) \/ ControlTimesOut(p)
    \/ OrganismStep

Spec == Init /\ [][Next]_vars

\* A command that can proceed does; so does a constructor.  Nothing obliges a
\* cycle to end: the model call inside it has no bound.
FairSpec ==
    /\ Spec
    /\ \A p \in Controls : WF_vars(AssertStep(p)) /\ WF_vars(LiftStep(p))
    /\ WF_vars(ConstructLock) /\ WF_vars(Construct)

-----------------------------------------------------------------------------
(* Properties.                                                             *)

TypeOK ==
    /\ row \in Rows /\ signal \in Signals /\ written \in Rows
    /\ writer \in Controls \cup {Organism, Free}
    /\ signalLock \in Controls \cup {Organism, Free}
    /\ control \in [Controls -> ControlPC]
    /\ field \in [Controls -> Flags] /\ lease \in [Controls -> BOOLEAN]
    /\ organism \in OrganismPC
    /\ seen \in Rows /\ backup \in Rows /\ safety \in Rows \cup {NoRow}
    /\ (organism \in {"restore", "reapply"} => safety # NoRow)
    /\ journal \in BOOLEAN
    /\ owed \in [Flags -> {"no", "contested", "yes"}]
    /\ abandoned \in BOOLEAN
    /\ commands \in 0..MaxCommands /\ faults \in 0..MaxFaults

ChecksHeedStops ==
    /\ organism = "before" /\ organism' = "entering" => owed["killed"] # "yes"
    /\ organism = "authorized" /\ organism' = "unkilled" => owed["killed"] # "yes"
    /\ organism = "unkilled" /\ organism' = "calling" => owed["revoked"] # "yes"

\* A check of the organism that passes reads the sidecar at a moment when no
\* stop is owed: once kill or revoke has published its flag with no lift of it
\* under way, or has returned, no cycle starts and no external call is
\* authorized until a later command lifts it, whatever dies, times out or rolls
\* back in between (owner_control.py, kill: "Publish stop authority first").
StopObserved == [][ChecksHeedStops]_vars

\* When every command has returned and no transition is unfinished, row and
\* sidecar agree (owner_control.py, kill: "This makes the sidecar and database
\* agree when both calls return").
StoresAgree ==
    (~journal /\ ~abandoned /\ \A p \in Controls : control[p] = "idle") =>
        \A f \in Flags : row[f] = signal[f]

\* Outside an unfinished transition the row is what the owner's commands made
\* it: no rollback undoes a command (continuity_runtime.py: "External truth and
\* owner control survive that rollback").
OwnerControlSurvives == ~journal => row = written

\* A stop request that was durable in the sidecar is not gone when its command
\* is: only a lift that began after it removes it (owner_control.py: "A crash
\* can leave a false positive stop, never silently clear a durable owner stop
\* request").
StopNotLost ==
    \A f \in Flags : owed[f] # "no" /\ ~AssertInProgress(f) => signal[f]

\* A kill or revoke gets published, unless its process dies, even if the
\* holder of the writer lock never lets go of it.
StopPublished ==
    \A p \in Controls :
        control[p] \in {"publish_lock", "publish"} ~> control[p] \notin {"publish_lock", "publish"}

\* A constructor that holds the writer lock gets the sidecar lock: no command
\* holds the sidecar lock while it waits for the writer lock.
ConstructorProceeds == organism = "boot" ~> organism # "boot"
=============================================================================
