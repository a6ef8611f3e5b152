# A TLA+ verification of ELIA WILD

ELIA WILD is a persistent "digital organism": a Python program (`elia/`, with the
relay in `scripts/` and the remote session in `runtime/kaggle/`) that calls a
language model in *cognitive cycles* and keeps everything it is in one state
directory. Its README calls identity, authority and accepted causal history
"explicit state machines". This directory holds TLA+ models of those state
machines, TLC configurations that check them on small instances, and TLAPS proofs
of the facts that matter most for every size.

    tlc -workers 2 -config TransitionKernel_safety.cfg MCTransitionKernel
    tlapm TransitionKernelProofs.tla      # likewise every other *Proofs.tla

## 1. Inventory

| component | state it keeps | operations | what is hard |
|---|---|---|---|
| Accepted transition kernel (`transition_kernel.py`, `continuity_runtime.py`) | `memory.sqlite3`, `chronicle.jsonl`, `workspace/`; under `transition-kernel/` a database copy, a workspace copy, a journal `active.json` and `rollback-safety.json`; a writer lock beside the state directory | enter, accept, rollback, recover | a death or an exception between any two durable steps, also of the rollback and of the recovery |
| External effect ledger (`external_effects.py`) | rows of `external_effect_intents` | prepare, mark sending, record result, mark indeterminate, recover interrupted, reconcile | ambiguity of a call whose process died; the rollback must not erase it |
| Owner control (`owner_control.py`, `control.py`) | one row of two flags and a lease, and a sidecar file with the same flags outside the state directory; one-time approvals | kill, clear, revoke, unrevoke, lease, approve; snapshot; point-of-effect check | two stores, two locks taken in two orders, commands racing each other, the organism and its rollbacks |
| Checkpoint (`checkpoint.py`) | archives; checkpoint metadata in the database, an anchor file in the directory, a publish journal and a restore journal outside it | export, restore, recover an interrupted restore, finish a publication | three-step publication, a directory swapped with two renames, forks between machines, restores over newer external truth |
| Boot (`vitals.py`, `bootstrap.py`, `__main__.py`) | none of its own | restore recovery, transition recovery, construction of stores | the order of recoveries, and under which lock |
| Chronicle (`chronicle.py`) | an append-only hash chain | append, checkpoint, restore, contains_anchor, verify | torn appends outside a transition |
| Run loop (`runtime.py` and its subclasses, `pipeline.py`) | lifecycle entries in the database | cycle, run, hibernate, pause | writes outside a transition, errors while a journal is open |
| Wake relay (`wake_anchor.py`, `wake_transport.py`, `scripts/kaggle_wake.py`) | a witness artifact, the state dataset with a transport record and failure circuit, the latest remote run | load and verify, poll, accept the output, publish, advance the witness, launch, persist, reset | lost, ambiguous or late calls, a death between publishing and advancing |
| External work ports (`work_ports.py`, `external_work_runtime.py`) | submission intents and submissions; the work item they project to | prepare, send, finalise, project, look up, observe the outcome, repair | a submission whose outcome is unknown; a rollback of the transition that learnt it |
| Resource ecology and verification (`resource_ecology.py`, `economy.py`, `resource_ingress*.py`, `verification.py`) | opportunities, work items, resource events, ingress events, one-time receipts | plan, stage, abandon; reserve a provider event, book it, realise it, link it to the item it pays | duplicated provider events, a death between reservation and booking |
| Supervisor and lifecycle (`supervisor.py`, `lifecycle.py`) | a singleton lease, a child process | heartbeat: recovery and preflight, vital signs, launch, watch, stop | children that outlive their supervisor; a kill in the middle of a transition |
| State bus (`state_bus.py`) | hash-chained transactions | begin, append, commit, abort, reconcile | the boot of one process aborting the transaction of another |
| Metabolism and homeostasis (`metabolism.py`, `homeostasis.py`, `autonomy.py`, `resource_status.py`, `cognitive_energy.py`) | obligations; recorded thinking plans | verify an obligation, project all dues over a horizon, raise needs, budget the thought of a cycle | an obligation that stays unseen through five layers of policy |
| Agency, executive, brain (`agency.py`, `executive.py`, `brain.py`, `assurance.py`, `executive_runtime.py`, ...) | goals, the agency snapshot, plans | reconcile goals with needs, choose focus and work, decide how much to think, bound what a model may say, cap the sleep | a model that hides goals or asks for a day of sleep |
| Memory, world model, self model (`memory.py`, `world_model.py`, `self_model.py`, `metacognition.py`) | goals, memories, capability events, forecasts, hypotheses, beliefs | create, update, complete, block, remember, adjudicate | single-threaded inside one transition |
| Body, tools' effects, evolution gate, provider context, research, release tools | none shared | I/O, rendering, experiments | out of the reach of a model checker |

How they interact: every organism cycle is one `AcceptedTransitionGuard`; inside it
the pipeline asks owner control, prepares the ledger row, asks owner control again
and calls an adapter. All mutation of the state directory is serialised by
`StateWriterLock` (an flock, freed by process death), with exceptions that are
hazards of their own: the sidecar has its own lock, `reconcile-effect` takes none,
and the run loop writes between guards. Checkpoints replace the directory under the
same lock. A boot recovers an interrupted restore, then an interrupted transition,
and only then constructs the stores.

What makes each modelled component correct:

- kernel: a cycle is all or nothing over database, Chronicle and workspace, however
  often it and its recovery are interrupted; evidence of an external call survives;
- ledger: no repeated call while an earlier one is unresolved; one approval, one call;
- owner control: a published stop is observed by every later check; the two stores
  agree; no rollback undoes the owner's command; nobody deadlocks;
- checkpoint: metadata, anchor and archives agree; a restore is one switch that
  always resolves; the anchor only moves along the chain; external truth outlives a
  restore of an older archive.

- wake relay: the trusted archives are one chain; only the trusted archive is launched,
  and only for a launch that is durably announced; failures open the circuit; every
  pending launch is resolved;
- external work: no claim without evidence, no second send while the first is unknown,
  each payment booked once, knowledge of the outside world never rolled back;
- supervisor and bus: no boot aborts a live cycle's bus transaction, and an organism
  that is due gets a cycle, whoever dies or fights for the lock on the way;
- cycle policy: a need that is really there cannot be slept through, whatever the model says.

`PROJECT.json` lists every component, with the reason for those not modelled, and
the hazards at their lines.

## 2. Modules

| module | models |
|---|---|
| `EffectLedger` | the ledger's rows and operators: status transitions, the retry guard, quarantine and the re-apply of a rollback |
| `TransitionKernel` | the guard, one action per durable step, the cycle with its external call, the boot, the run loop, operator commands |
| `AcceptedState` | the abstract promise: one accepted state, replaced in one step by a transition that was proposed for acceptance, else kept |
| `TransitionKernelProofs`, `EvidenceProofs` | the TLAPS proofs about the kernel: the barrier, and what it knows of external effects |
| `OwnerControl`, `OwnerControlProofs` | the two stores, the two locks, any number of commands against the organism, and the proofs |
| `Checkpoint`, `CheckpointProofs` | export and restore, step by step, machines that fork, and the proofs |
| `WakeRelay`, `WakeRelayProofs` | the heartbeat against the dataset, the remote run and the witness, and the proofs |
| `WorkLedger` | the tables of external work and what each database transaction does to them, the export and re-insertion of a rollback included |
| `ExternalWork`, `ExternalWorkProofs` | capabilities, cycles, faults and the remote side over `WorkLedger`, and the proofs |
| `ExternalTruth` | the abstract promise: for each item, what is known outside only moves forward, and a payment is credited once |
| `Organism`, `OrganismProofs` | supervisor, preflight, children, vital signs, state bus, weekly budget, and the proofs |
| `Economy`, `Metabolism`, `Memory`, `World` | the stores a cycle decides from: what may be earned, what is owed, goals and experience, beliefs |
| `Needs`, `Agency`, `Brain`, `Executive` | needs derived from the stores, goals and focus and wake policy, what a model may say, how much to think |
| `Mind`, `MindProofs` | one mind, cycle after cycle, over the eight modules above, and the proofs |
| `MC*` | the constants of the small instances |

### TransitionKernel

`pc` is where the holder of the writer lock stands, `free` when nobody holds it. The
files are variables (`db`, `chronicle`, `workspace`, `backup`, `workspaceBackup`,
`journal`, `safety`); what the process only remembers is `guard`, `action` and
`intent`, and a crash forgets it. `Enter` .. `EnterJournal` are `__enter__`;
`AcceptCheck` .. `AcceptRemoveRest` are `accept`; the `Rollback*` actions are the steps
of `_rollback_locked`, with the two renames of the workspace apart; `BootRecover` and
`OtherRecover` are `recover_incomplete` in the organism's constructor and in
any other process (preflight, a fork); `BootLedger` is the boot's quarantine of
`sending` rows. `AuthorizeAction` .. `RecordAdapterResult` are the pipeline stages of
one external action; a raising adapter, a raising cycle, a raising `accept` and a raising
rollback are actions too. The contents of a mind, a Chronicle entry and a workspace
are opaque (`Data`); Chronicle checkpoints are prefixes, since the hash chain
identifies a prefix.

`CleanupSpec` adds to `Spec` an `accept` that raises after it removed the journal, while it
removes the copies. The operator reconciles at any moment, since `elia-control` takes no lock: between
guards, inside a cycle, during a rollback. A verdict given inside a cycle that is rolled back is a changed
row like any other, and the quarantine makes it indeterminate again; the history variable `reopened`
records those intents. `applied` is what the remote side really did, and `NoBlindRetry`
is stated over it (less `reopened`), not over what the ledger believes.

One thing is left out: the run loop writes its metadata, an error memory and its Chronicle line without
the writer lock (`runtime.py:888-902, 917-944, 956-957`). `RunLoopWrite` has these writes whenever nobody holds the
lock, over a journal that a failed rollback left too, but not while *another* process is in the
middle of recovering that journal.

### OwnerControl

A kill or revoke is `StartAssert`, the sidecar (`AssertSignal`, `Publish`), then the
writer lock and, under it, `Serialize` and `Reassert` (the sidecar once more) and
`StoreFlag` (the row). A clear, unrevoke or lease takes the writer lock, writes the row
(`LiftRow`), then the sidecar (`LiftSignal`). A command may die or time out at every step.
The organism boots (with the writer lock and then the sidecar lock), recovers,
checks (`BeforeRow`, `BeforeSignal`: two reads, no lock), cycles, checks at the owner
stage and twice at the point of effect, calls, accepts or rolls back. `owed` is a
history variable: `yes` from the moment a stop is published with no lift in progress
(or its command returned) until a lift starts; `contested` while a lift that was
already running may still erase it.

Simplifications: a lease is held or not and may have expired at every look at it;
first-boot migration, the validation of an existing sidecar in `elia-control` (read
only), and the environment variables that also kill or revoke (constant during a
process, they only add stops) are left out.

### Checkpoint

A digest is the index of an archive. `state`, `staging` and `old` are the three
directories a restore moves; each has a database, an anchor, and the two files of an
unfinished transition that matter to a checkpoint. `pc` and `goal` are the command
that holds the writer lock. Every rename, journal write, database write and unlink
is an action; `Crash` may come between any two, `RestoreRaises` recovers in the same
process. The accepted transition appears with the steps a later command can find it
at (`Begin`, `Save`, `Rewind`, `Reapply`); `TransitionKernel` has all of them. Other
machines run the same code: `ExportElsewhere` is a restore, a life and an export there;
`Relocate` is the next session on a machine without a state directory, whose operator
vouches for a digest, any digest. Cryptography, file trees and limits are abstracted.

An archive has a destination, its `place`. Publishing renames it over what stands there, so `published`, the
archives at their destinations, loses what it overwrites: every auto-checkpoint replaces the one before it.
A restore is given a path: it finishes a pending publication first and then takes what it finds there (`Found`).
An export does not ask whether a transition is unfinished, and a restore runs before one is recovered; the
model has both. What they cost is recorded in history variables, and the properties except exactly
that: `over` are the archives published into a transition whose rollback takes the metadata back, `left` the
approvals whose evidence was only in the evidence file of a directory that a restore replaced, or that
a session on a fresh machine never saw because its operator vouched for another archive than the
last session ended with (`home`). The counts `spent` and `called` are of this organism; what a fork does is its own.

All approvals are granted from the start. A restore while the organism is *running* is
outside the model: the organism opens its stores after recovery, and `Begin` needs no
restore to be pending.

### WakeRelay

A heartbeat is `load` (download and verify against the witness), `decide` (one of: poll the
pending launch, accept or reject its output, count a failure, time it out, respect the open
circuit, stay asleep, prepare a launch), `publish` a dataset version, then whatever `job`
says comes next: `advance` the witness, `push` the kernel, or `persist` the witness
artifact for the next heartbeat. `Crash` comes between any two, each remote call may raise,
and a push that raises may or may not have started the run. An archive is an index into
`archives`, which records what it descends from. The remote side keeps the latest run only,
as the service does; an output is the source itself (a run that slept or failed) or its
direct successor. It cannot be two generations ahead: a run exports at its end, to a fixed path, and
`runner_template.py:211-212` exports once more only if nothing is there, so one run makes one child.
The witness' refusal of a larger step (`wake_anchor.py:252`) guards against other
programs. Signatures, encryption and log texts are abstracted: an output is valid
or it is not.

### ExternalWork

`db` is the tables of `WorkLedger`, `copy` the database an open transition goes back to.
Every database transaction of a capability is an action, so the process may die, raise, or be
interleaved with `elia --status`, which constructs a registry without being the organism, between any
two. That command repairs projections with a SELECT and a later UPDATE by id alone
(`resource_ecology.py:520-541`), so it is two actions: `StatusChecks` notes a staged item of an active submission,
`StatusUpdates` sets it to `submitted` at any later moment, whatever it has become. A realized
item keeps its `resource_event_id` then; `reopened` are those items. `remote` is what the outside made of each item's idempotency key; a
request the caller gave up on may still arrive (`inflight`). `RolledBack` is the restored copy
with the rows of external truth re-inserted in the order of
`_restore_external_safety_state`, cascades included. The guard itself is one step here:
`TransitionKernel` shows that an interrupted rollback ends as one. A provider event is a
model value, the item it was signed for a function of it.

### Organism

`sup` is the supervisor's heartbeat, `child` where each cognitive process stands, from `main`
through vital signs, preflight and constructor to the run loop and its exits. A child has its
own session, so it survives the supervisor: `Children` may be alive at once and share
`db`, `saved` (the copy of an open transition), `chronicle` and the lock. A heartbeat recovers twice, each
time under the lock and each time able to find it busy: in its preflight (`Decide`) and again where it
constructs the vital signs (`SupervisorRecovers`). Guard entry, acceptance
and rollback are one step each, with a journal left by whoever dies in between. Vital
signs are read and recorded in two steps without the lock, as in the code. The weekly budget
is in units of what one step may use.

### Mind

A cycle is `Wake` (needs, goals, focus), `Think` (plan, feedback, the model's decision out of
`Decisions`, bounded by `Brain`), `ApplyUpdate` one by one (`Due` is the order: self, goals,
opportunities, their work), `Forecast`, one `Act*`, and `Settle` (learn,
commit agency again, choose the wake time). Between cycles obligations, receipts, work, beliefs and the
surroundings change. Percentages stand for scores in `[0, 1]`; the projection of dues is
computed exactly as the code does, event by event up to its limit. `Sayable` is what parsing leaves open of a
decision, and the only assumption on `Decisions`. Left out: wording of snapshots and
of findings, expiry dates of opportunities, compute meters, more than one observation per executed
action, recall scores.

## 3. Runs

| run | instance | checked | distinct states |
|---|---|---|---|
| `kernel_safety` | 2 ledger rows of one action, 2 approvals for it, 1 content, Chronicle of up to 1, 3 faults, the operator reconciles at any moment | `TypeOK`, `AlwaysRecoverable`, `EvidenceKept`, `OneApprovalOneCall`, `AcceptedAtomically` (refinement), `RecoveryCompletes` (liveness), `NoBlindRetry` | 850,896 |
| `kernel_cleanup` | 2 rows of 1 action, `CleanupSpec`, 2 faults | `EvidenceKept`, violated | |
| `owner_safety` | 2 control processes, 3 commands, 1 fault | `TypeOK`, `StoresAgree`, `OwnerControlSurvives`, `StopObserved`, `StopPublished` (liveness), `ConstructorProceeds` (liveness) | 247,735 |
| `owner_lost` | 2 processes, 2 commands, 1 fault | `StopNotLost`, violated | |
| `checkpoint_safety` | 3 archives at 2 destinations, 1 fork elsewhere, relocations, 1 approval, 2 faults | `TypeOK`, `HeadAgrees`, `HeadPublished`, `ApprovalOnce`, `EvidenceKept` | 5,265,460 |
| `checkpoint_switch` | 3 archives at 2 destinations, 2 minds, 1 fork elsewhere, 1 fault | `RecoveryNeverStuck`, `ReplacedAtOnce`, `AnchorAdvances`, `RestoreResolves` (liveness) | 1,354,270 |
| `checkpoint_stuck` | 2 archives, 2 faults | `RecoveryNeverStuck`, violated | |
| `work_safety` | 1 item, 3 events (two signed for it, one for none), 2 submit calls, 2 faults | `TypeOK`, `NotNarrated`, `RealizedBacked`, `RollbackPossible`, `NoBlindSend`, `TruthForward` (refinement), `SubmissionProjected` (liveness) | 237,384 |
| `work_evidence` | 1 item, 1 event, 1 fault | `SubmissionKept`, violated | |
| `wake_safety` | 4 launches, threshold 3, 1 reset, 2 faults | `TypeOK`, `DatasetNotBehind`, `LaunchesBounded`, `WitnessChain`, `LaunchTrusted`, `LaunchResolved` (liveness) | 185,548 |
| `organism_safety` | 2 children, budget 3, 2 cycles each, 2 faults | `TypeOK`, `BusHonest`, `WakesHonoured` (liveness) | 398,648 |
| `mind_safety` | 2 resources, 3 obligations to choose from, 13 decisions, 2 cycles, 2 moves between them | `TypeOK`, `AlarmHeeded` | 365,940 |

Why the bounds are enough to be interesting.

- Kernel: three faults are a crash of a cycle, one of its rollback and one more of the recovery. Two
  rows of one action, each with its approval, are a call and a retry of it. An unrelated action would
  only add rows that no guard looks at. One content of the mind suffices here: that contents
  come back is what `AtomicityHolds` proves for all.
- Owner: three commands of two processes are a stop, a lift and a second stop.
  `OwnerControlSurvives` is checked with one fault because two break it (below).
- Checkpoint: three archives are a chain, a fork at the same counter and a skipped predecessor. Of two
  destinations one is overwritten while the other keeps an older archive. The approval and the second mind
  are each in the run whose properties look at them.
- Work: two submit calls are a send and the repetition after a lookup; two events signed
  for one item compete for it, the third pays for nothing.
- Relay: four launches are the threshold, and one after a success or a reset.
  The threshold is the code's. `AnchorFaults = {"before"}`: see below for `"after"`.
- Organism: two children are the supervised one and the orphan of a supervisor that died.
  A budget of three lets a cycle use some, use the rest, and find it gone; in the code the budget is
  hours and a step seconds, so a fresh organism is never without budget.
- Mind: two cycles show that the second is not misled by what the first wrote. Windows and
  limits are scaled down (`MaxEvents` 4 for 100,000, a horizon of 8 days), with obligations on both sides of each. `AlarmHeeded` is a property of the step that
  ends a cycle: it speaks of the needs before it, since what that step remembers may push the errors that made a need
  urgent out of memory.

Fairness.

- `kernel_safety`: the organism is booted again (`BootRecover`, `BootLedger`; the supervisor and the
  relay restart it) and a started rollback goes on (`RollbackStep`), each weakly fair: they are
  one process running straight-line code. `RecoveryCompletes` is claimed only from a journal without a
  process (`~up`): a process whose own rollback failed keeps running and is refused every
  further cycle until it is restarted.
- `owner_safety`: a command that runs goes on, as long as its next step is possible (waiting for a lock
  is not a step); nothing is assumed of the organism except that its constructor runs, so
  a stop is published even against a cycle that never ends.
- `checkpoint_switch`: the organism is started again (`Open`) and a started recovery or restore goes on.
- `work_safety`: a capability and an open cycle end and a process is started again, weakly fair.
  `Stop` is strongly fair: it is enabled at each return to the head of the loop, and the session's
  wall-clock budget (`runtime.py`) ends the loop there sooner or later; it is the next boot that repairs.
- `wake_safety`: the schedule of `wake.yml` starts heartbeats again and again, a run ends (it has a hard
  time limit), the transport timeout passes.
- `organism_safety`: the service manager restarts the supervisor
  (`deploy/systemd/elia-wild.service.example:14`, `Restart=on-failure`; operators restart it after an owner's stop), a
  running process takes its next step, a wake time passes and a week ends.

Deadlock is checked except in `wake_safety` and in the two runs of `ExternalWork`, where the counts of
launches and of submit calls are finite and nothing is left to do once they are used up.

### What the code does not promise

Four runs end in a counterexample of something the repository states.

- `kernel_cleanup`: `accept` removes the journal (its commit point) and then the copies.
  If a removal raises, `__exit__` rolls back without a journal; when the database has been
  rewound and the process dies, the evidence is only in `rollback-safety.json`, which the
  next boot deletes because there is no journal (`transition_kernel.py:953-959, 999-1004,
  1022-1025`).
- `owner_lost`: a kill published in the sidecar during another process's clear is
  overwritten by it; if the kill then dies before it has the writer lock, no store holds it
  (`owner_control.py:419-448`).
- `checkpoint_stuck`: recovery of an interrupted restore moves the original back and
  then removes the journal; a death between leaves `old_moved` without a backup, and
  every later recovery raises (`checkpoint.py:209-236`).

- `work_evidence`: a rollback re-inserts the intents and submissions of the work port, and
  after them, with INSERT OR REPLACE, the work item an event paid for; replacing the item deletes
  by cascade the submissions just re-inserted (`transition_kernel.py:801-821`).
  The payment is kept, and with it the fact that the item was accepted
  (`TruthForward` holds), the evidence of the submission is not.

Where a property of a passing run names an exception, the code has it, and without it the run fails:

- `HeadAgrees` and `HeadPublished` without `over`: an export does not ask whether a transition is unfinished
  (`checkpoint.py:707-722`). The later rollback rewinds the metadata it wrote, and every export is refused until a
  restore; the metadata may then name an archive that was overwritten.
- `ApprovalOnce` and `EvidenceKept` without `left`: `--checkpoint-restore` runs before the transition is recovered
  (`__main__.py:145-149`), and evidence that is only in `rollback-safety.json` goes with the replaced directory.
  The same loss follows from vouching for an old archive on a fresh machine.
- `RealizedBacked` and `TruthForward` without `reopened`: the late UPDATE of `elia --status` sets a realized
  item back to `submitted`, after which a second event signed for it may replace its payer.
- `NoBlindRetry` without `reopened`, in an instance with a third approval, larger than that of
  `kernel_safety`: `reconcile-effect` takes no lock (`control.py:139-146`), so it may settle an
  indeterminate row in the middle of a cycle, which then prepares a new row for the same action. The rollback sees
  the settled row as changed by the transition and makes it indeterminate again
  (`transition_kernel.py:728-760`), while the new row stays prepared. The retry guard looks only at the newest
  unresolved row, finds it prepared, and sends it although the older row is open again
  (`external_effects.py:224-236`).

Other counterexamples, reproduced by changing a configuration:

- `OwnerControl_safety.cfg` with `MaxFaults = 2` breaks `OwnerControlSurvives`: a rollback
  that died after it saved `rollback-safety.json` replays those owner rows at the next
  boot, over what the owner commanded in between (`transition_kernel.py:969`).
- `Checkpoint_safety.cfg` with `ConsumedStaysConsumed` (defined in `Checkpoint`, in no run) as an invariant:
  restoring a successor made elsewhere lets older local rows overwrite approvals it
  records as consumed (`checkpoint.py:1263-1287`).
- `WakeRelay_safety.cfg` with `"after"` in `AnchorFaults` breaks `DatasetNotBehind`: if advancing
  the witness raises although its file was replaced (a directory `fsync` that fails), the relay
  rejects the output, publishes the previous archive again and persists the new witness.
  Every later heartbeat then fails closed (`kaggle_wake.py:351`).

What `WakesHonoured` excludes is part of what the code does, too:

- a Chronicle line torn outside a transition (an ERROR, HIBERNATE or boot entry cut by a death) is repaired by
  nothing: every later preflight halts (`chronicle.py:135`);
- vital signs that read the Chronicle while another process is in a cycle may record a head which
  that cycle's rollback removes; the baseline then names a head no Chronicle contains, and every later
  check fails until an operator intervenes (`vitals.py:115`). It takes two processes,
  a supervisor and an orphan.

## 4. Proofs

| theorem | says |
|---|---|
| `TransitionKernelProofs!TypeCorrect`, `TypeCorrectCleanup` | `TypeOK` of `Spec` and of `CleanupSpec` |
| `TransitionKernelProofs!AlwaysRecoverableHolds` | `Spec => []AlwaysRecoverable` |
| `TransitionKernelProofs!AtomicityHolds` | `Spec => AcceptedAtomically`: the kernel implements `AcceptedState` |
| `EvidenceProofs!EvidenceKeptHolds` | `Spec => []EvidenceKept` |
| `EvidenceProofs!OneApprovalOneCallHolds` | `Spec => []OneApprovalOneCall`, for finitely many rows and approvals |
| `EvidenceProofs!NoBlindRetryHolds` | `Spec => NoBlindRetry` |
| `OwnerControlProofs!OwnerTypeCorrect` | `Spec => []TypeOK` |
| `OwnerControlProofs!StopObservedHolds` | `Spec => StopObserved` |
| `OwnerControlProofs!OwnerControlSurvivesHolds`, `StoresAgreeHolds` | `Spec /\ [][~Overtakes]_vars => []OwnerControlSurvives`, and the same for `StoresAgree` |
| `OwnerControlProofs!OneFaultUndoesNothing`, `OneFaultStoresAgree` | the same two of `Spec` alone, if `MaxFaults <= 1` |
| `OwnerControlProofs!StopLostOnlyByAbandoned` | `Spec => [](~abandoned => StopNotLost)` |
| `CheckpointProofs!CheckpointTypeCorrect` | `Spec => []TypeOK` |
| `CheckpointProofs!ReplacedAtOnceHolds` | `Spec => ReplacedAtOnce` |
| `CheckpointProofs!HeadPublishedHolds` | `Spec => []HeadPublished` |
| `CheckpointProofs!AnchorAdvancesHolds` | `Spec => AnchorAdvances` |
| `CheckpointProofs!HeadAgreesHolds` | `Spec => []HeadAgrees` |
| `CheckpointProofs!ApprovalOnceHolds`, `EvidenceKeptHolds` | `Spec => []ApprovalOnce`, `Spec => []EvidenceKept` |
| `CheckpointProofs!RecoveryNeverStuckHolds` | `Spec /\ [][~InterruptsPutBack]_vars => []RecoveryNeverStuck` |
| `CheckpointProofs!OneCrashIsResolved` | `Spec => []RecoveryNeverStuck`, if `MaxFaults <= 1` |
| `WakeRelayProofs!TypeCorrect`, `LaunchesBoundedHolds`, `LaunchTrustedHolds`, `WitnessChainHolds` | `TypeOK`, `LaunchesBounded`, `LaunchTrusted`, `WitnessChain` of `Spec` |
| `WakeRelayProofs!DatasetNotBehindHolds` | `Spec => []DatasetNotBehind`, if `"after" \notin AnchorFaults` |
| `ExternalWorkProofs!TypeCorrect`, `NotNarratedHolds`, `RealizedBackedHolds`, `RollbackPossibleHolds`, `NoBlindSendHolds` | `TypeOK`, `NotNarrated`, `RealizedBacked`, `RollbackPossible`, `NoBlindSend` of `Spec` |
| `ExternalWorkProofs!TruthForwardHolds` | `Spec => TruthForward`: external work implements `ExternalTruth` |
| `OrganismProofs!InductiveInvariant`, `TypeCorrect`, `BusHonestHolds` | the invariant below, `TypeOK`, `BusHonest` of `Spec` |
| `MindProofs!TypeCorrect` | `Spec => []TypeOK` |
| `MindProofs!UrgentHeeded` | if there is an urgent need (other than of a goal), a cycle ends with an urgent need for its focus and a sleep within the cap of each |
| `MindProofs!AlarmHeededHolds` | `Spec => AlarmHeeded` |

They hold for every value of the constants that satisfies the named assumptions
(`KernelAssumption`, `FilesAssumption`, `OwnerAssumption`, `WakeAssumption`, `ExternalAssumption`,
`OrganismAssumption`, ...), in particular for any number of ledger rows, approvals, control processes,
commands, launches, work items, provider events, children and faults.

*Kernel.* The inductive invariant is `BarrierInv`: types; the copies named by a
journal exist; the process's memory agrees with the journal it published
(`JournalMatchesGuard`); the copies made so far still equal the stores (`CopiesFresh`),
which is why nothing may write to the stores while the entry copies them; and what a rollback
restored so far equals the copies (`RestoredSoFar`). The refinement maps the accepted state to
`Resumable`: the live stores without a journal, the copies with one. `RefinementStep` shows
that publishing the journal is `Begin`, the checks of `accept` are `Propose`, unlinking the
journal after them is `Accept`, a crash or an exception in between is `Withdraw`, unlinking
it in a rollback is `Abort`, writes outside a transition are `WriteDirectly`, and all else
is invisible. `CleanupSpec` has neither of the last two theorems: there the rollback after the
commit point rewinds an accepted state (the finding of `kernel_cleanup`).

*External evidence in the kernel.* `KeptInv` says which copy of the ledger counts: the database, or the
evidence file while a journal and such a file exist; that copy has no called row that reads untouched, no row
that was carried out and reads as if it was not, and no spent approval that can be spent again
(`Records`). Each operator of the ledger preserves `Records` by a lemma of its own, the rollback's
quarantine and re-insertion too, so the steps only have to say which copy counts. `CountingInv` adds
that the approvals spent on an action outnumber its called rows while an authorized attempt
is not yet sent. `UniqueInv` says that of two unresolved rows of one action the older is in `reopened`
(`Single`), not in the database only but in what a rollback would make of it (`Exportable`: the
`Quarantine` of the database against its copy), since a rollback may start at any step. While a cycle has prepared nothing its
rows differ from the copy by verdicts of the operator only (`Settled`), so a row that reads settled and was unresolved in the
copy is one the rollback will reopen; once it has prepared a row, that row is the newest (`Newest`) and all
older ones that a rollback would leave open are excused. No theorem of this group assumes anything of when the operator acts.

*Owner control.* `StopInv` is inductive: who holds each lock is where its `pc` says, at most
one process is in its critical section, and a flag that is owed and not contested is in
the sidecar. A passing check reads the sidecar last, so it cannot miss it. The proof covers
any number of faults, though the run has one.

What the rollbacks do to the owner's row is stated with the step that undoes a command, and nothing
else: `Overtakes`, a command that stores its flag while a row is saved for a rollback that was
interrupted. `RowKept` (outside a rollback the row is what the commands made it; a saved row is that
row) is inductive for the steps that do not overtake, so `OwnerControlSurvives` fails *only* by
overtaking, and `owner_safety` with two faults shows that it does fail so. `FaultsCounted` shows that it takes
two faults to get there: one that leaves the journal, one that interrupts its rollback. `SignalInv` relates the
sidecar and the row while commands are under way: what is stored is published, what is published and
not stored has a command on its way (`PublishedIsStored`), and a stop published during a lift is being
serialized unless its command was abandoned (`ContestedIsServed`). The last conjunct gives
`StopLostOnlyByAbandoned`, which says that the finding of `owner_lost` is the only way to lose a stop.

*Checkpoint.* The inductive invariant `IInv` has four parts, each defined in `Checkpoint` so
that TLC can check it: types; `HolderReady`, what a step of the lock holder relies on (a
publication has its journal, a rollback its copies, a restore its archive); `NamesKnown`,
every digest that one of the directories carries is of an archive that was made; and `SwitchShape`, where the
three directories are at each step of a restore and of its recovery. `NoFileAssumption` says that
"no file" is not itself a file.

The other invariants rest on one lemma, `SurvivingMoves`: a step leaves the surviving state alone, or
replaces it by the verified one (the marker that ends a rename), or is one of those that write into it
(`Writing`) while no restore is open.
`ReplacedAtOnce` follows from the lemma and `SwitchShape`; `AnchorAdvances` from it and `ChainKept` (what is about
to be moved in continues the anchor it replaces). No theorem but the last of these assumes anything of what
a command finds: exports over unfinished transitions, restores before recovery, forks elsewhere and fresh machines
are all in `Spec`.

- `HeadAgrees` rests on `PublishShape` (what is already written at each step of a publication, and that a rollback
  can take back only what is in `over`) and `HeadsLevel` (the database, and the copy an unfinished transition
  will go back to, name the anchor's archive, or that is in `over`);
- `HeadPublished` adds `InReach`: with no journal the anchor's archive is at its destination; with one, anchor
  and metadata name its archive or the predecessor, and one of the two is there. The case to get right is the one between the
  rename over the predecessor and the two writes after it;
- `ApprovalOnce` and `EvidenceKept` are one invariant, `TruthKept`: but for `left`, the surviving state accounts for every
  call made and every approval spent, in what its rollback would leave of the ledger (`Current`); the
  replacement does so before it is moved in, less what the displaced directory has only in its evidence file
  (`EvidenceAside`) or what the archive never knew (`LeftFresh`); and with no state left, the archive of the last session
  does. `SafetyCovered` (an evidence file has its copy beside it) makes `Current` what a recovery really ends with;
- `RecoveryNeverStuck` needs that no recovery stops in the one place where the original is back and the
  journal still asks for it (`InterruptsPutBack`). `Resolvable` is inductive for all other steps, so this is
  the *only* way to get stuck, and `checkpoint_stuck` is an instance of it. `JournalOfFault` (outside a restore, its journal
  takes a fault) turns that into `OneCrashIsResolved`.

*Wake relay.* `IInv` says, for the durable side, that the record accounts for every launch since the
last reset (`Bound`) and leaves room for one more failure while the circuit is closed (`Closed`);
for the remote run, that its output is its source or a child of it; and for each label of
the heartbeat, what its local files still have to do with the durable ones (`AtDecide`,
`AtPublish`, `AtAdvance`, ...), which is what a death in between puts in doubt. The witness chain needs
only that the downloaded archive was compared with the witness before anything else. The
dataset's distance from the witness needs a second invariant, `Near`, and the assumption.

*External work.* `IInv` is `TypeOK` with two parts. `Data` holds of the tables at every label: a row
claims no more than the remote side did (`Rows`), a realized item and its payer name each other and
the booking (`Backed`), only a late update parts a paid item from `realized` (`Reopened`), an item that `elia --status` has checked
exists and its submission is known outside, in whatever database its update meets (`Checked`), what may be sent again was looked up
(`Sendable`), and everything the
open transition learnt can be re-inserted into its copy (`Undo`). `Process` says for
each label of a capability what the local answer has to do with the remote side. `Undo` is what makes
the invariant inductive: a rollback at any point turns `copy` into `db`, so `Data` must
already hold of the database a rollback *would* produce. The refinement maps an item to the most advanced
thing any table knows of it.

*Organism.* `IInv` adds to the types that one child at a time is in the guard or the constructor
(`OneHolder`), that a copy of the accepted state exists whenever a cycle is open and never while a child
boots, has no open bus transaction (`Copies`), and that a child which may still enter a cycle
has one left (`Counting`). `BusHonest` is then inductive: whoever takes the free lock and recovers finds no
open transaction (`FreeIsClean`), and its holder none but its own (`HolderIsAlone`).
`NoneIsNoDatabase` says that "no copy" is not itself a database.

*Mind.* `MindInv` is `TypeOK`, that the decision of the running cycle is `Fit` (what `Brain` lets through names only
capabilities, titles and bounded numbers, which `Sayable` and the bounding operators give), and that the updates still to
apply are the decision's. The types are not idle: every bound of the stores (goals open, memories kept, a sleep
of at most a day) is among them, and all hold whatever the model says.

`UrgentHeeded` needs the agency kernel's choice to exist: `Place` orders the needs without ties, so the
most severe one is among those looked at and gets a goal, an old or a new one, unless there is no room; the
wake policy then takes the least of all caps. `AlarmHeededHolds` adds that an unpaid essential due within a week *is*
such a need. This is the projection's correctness, an induction over its turns:

- `SumFunction` of the community modules is a fold; the section on sums derives from its definition, by induction over finite
  subsets, what a sum gains when elements are added (`SumAdded`) and that it is monotone;
- `DuesCounted`, `DuesStep` and `DueMoment` relate the closed count of dues by a day to the next due, for any cadence;
- `PaidUntil(asset, p, t)` is the loop invariant: the heap holds exactly each obligation's next due after `t`, what was
  accumulated and counted is what is due by `t`, and a shortfall at an essential due by `t` has been seen. `TurnSees` shows that a turn
  moves `t` to the earliest due of the heap, or that the event limit is reached, in which case the limit is less than the dues within
  the horizon (`~Countable`) and the projection says that it is incomplete;
- each turn counts an event at least, so `MaxEvents` turns empty the heap (`ProjectionSees`), and `ForeseenHolds` follows.

`Horizon >= 7` is assumed: the alarm looks a week ahead, the code's horizon is 30 days
(`metabolism.py:805`) and nobody passes another. `Never \notin Int` says that no due date is no date. The induction
theorems of the library cannot be instantiated, so the proofs take the least element of the numbers
(or subsets) at which a statement fails (`NumbersReached`, `SubsetsReached`).

*Only model-checked:* liveness under fairness (`RecoveryCompletes`, `StopPublished`,
`ConstructorProceeds`, `RestoreResolves`, `SubmissionProjected`, `LaunchResolved`, `WakesHonoured`) and
everything that needs `ENABLED` are out of the prover's reach. No module here uses a RECURSIVE operator.

## 5. What could come next

1. The body-revision gate and the skills catalogue (`evolution.py`), sequential inside one transition.
2. Verification requests and signed receipts of other kinds than provider events.

### Not modelled

- The digital body (processes, browsers, MCP servers) and the tools' own effects: I/O; a call's
  outcomes are nondeterministic in `TransitionKernel` and `ExternalWork`.
- Invocation of the model, prompts and provider context: no shared state. `Mind` takes any decision of
  a set, which is more than a model says at a time.
- Scores in floating point where no property depends on them: the attractor, recall,
  viability contracts, forecasts of expiry.
- Cryptography, archive formats, size limits, configuration parsing.
- Evolution, research experiments and release tools: not part of the running organism's state machines.
