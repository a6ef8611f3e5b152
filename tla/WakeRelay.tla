------------------------------- MODULE WakeRelay -------------------------------
(***************************************************************************)
(* The wake relay: an hourly heartbeat (scripts/kaggle_wake.py, run by     *)
(* .github/workflows/wake.yml) that carries the organism's checkpoint      *)
(* between runs on rented machines.  Three durable things are updated one  *)
(* after the other and without a transaction: the state dataset (archive   *)
(* and transport record), the remote kernel, and the witness, an artifact  *)
(* that says which archive is trusted.                                     *)
(*                                                                         *)
(* An archive is named by its digest, an index into the history "archives" *)
(* of what it descends from.  The remote side keeps the latest run only;   *)
(* its status, logs and output are those of that run.                      *)
(***************************************************************************)
EXTENDS Naturals, Sequences, SequencesExt

CONSTANTS Threshold,     \* FAILURE_THRESHOLD
          NoNonce,       \* no launch is pending
          AnchorFaults,  \* how advancing the witness may raise: "before", "after" its write
          MaxLaunches,   \* bound: launch nonces
          MaxResets,     \* bound: circuit resets requested by the operator
          MaxFaults      \* bound: crashes and failed calls

ASSUME WakeAssumption ==
    /\ Threshold \in Nat \ {0} /\ NoNonce \notin Nat
    /\ AnchorFaults \subseteq {"before", "after"}
    /\ MaxLaunches \in Nat /\ MaxResets \in Nat /\ MaxFaults \in Nat

VARIABLES
    archives,  \* every checkpoint made: its counter and the archive it descends from
    dataset,   \* the published version: archive and transport record
    kernel,    \* the latest run of the remote kernel
    artifacts, \* witness artifacts, the latest last
    aged,      \* the pending launch that has exceeded the transport timeout
    pc,        \* where the heartbeat stands
    anchor,    \* the witness file of this heartbeat
    source,    \* the archive and transport this heartbeat works from
    job,       \* the dataset version being published, and what follows it
    nonces, attempts, resets, faults

external  == <<archives, kernel, aged>>
heartbeat == <<pc, anchor, source, job>>
counts    == <<nonces, attempts, resets, faults>>
vars == <<archives, dataset, kernel, artifacts, aged, pc, anchor, source, job, counts>>

Digests    == 1..Len(archives)
Nonces     == 1..MaxLaunches
Transports == [pending : Nonces \cup {NoNonce}, failures : 0..Threshold]
Versions   == [digest : Nat, transport : Transports]

RunStates == {"none", "queued", "running", "complete", "failed"}
NoRun == [nonce |-> NoNonce, source |-> 0, state |-> "none", output |-> 0, valid |-> FALSE]

Labels == {"idle", "load", "decide", "publish", "advance", "reject", "launch", "push", "persist"}
NoJob  == [version |-> [digest |-> 0, transport |-> [pending |-> NoNonce, failures |-> 0]],
           clears |-> FALSE, then |-> "idle", else |-> "idle"]
NoSource == NoJob.version

Counter(d) == archives[d].counter
ChildOf(c, p) == archives[c].parent = p /\ Counter(c) = Counter(p) + 1

Witness == Last(artifacts)

\* bootstrap_kaggle_state: the first archive, trusted and published.
Init ==
    /\ archives = <<[counter |-> 1, parent |-> 0]>>
    /\ dataset = [digest |-> 1, transport |-> [pending |-> NoNonce, failures |-> 0]]
    /\ kernel = NoRun /\ artifacts = <<1>> /\ aged = NoNonce
    /\ pc = "idle" /\ anchor = 1 /\ source = NoSource /\ job = NoJob
    /\ nonces = 0 /\ attempts = 0 /\ resets = 0 /\ faults = 0

Fault == faults < MaxFaults /\ faults' = faults + 1

-----------------------------------------------------------------------------
(* The transport record.                                                   *)

MarkPending(t, n) == [t EXCEPT !.pending = n]

\* Mutant: a failure closes the launch and is not counted.
MarkFailure_Uncounted(t) == [t EXCEPT !.pending = NoNonce]

MarkFailure(t) == [pending |-> NoNonce, failures |-> t.failures + 1]
MarkSuccess    == [pending |-> NoNonce, failures |-> 0]

\* Mutant: off by one.
LaunchSuppressed_Later(t) == t.failures > Threshold

LaunchSuppressed(t) == t.failures >= Threshold

-----------------------------------------------------------------------------
(* Start and end of a heartbeat; one runs at a time.                       *)

\* Mutant: the candidates are not sorted.
Restored_Unsorted(seen) == Head(seen)

Restored(seen) == Last(seen)

StartHeartbeat ==
    /\ pc = "idle" /\ pc' = "load"
    /\ anchor' = Restored(artifacts)
    /\ UNCHANGED <<external, dataset, artifacts, source, job, counts>>

\* The heartbeat returns or raises; what it worked from is gone.
Exit == pc' = "persist" /\ source' = NoSource /\ job' = NoJob

\* Mutant: only a heartbeat that ended well uploads the witness (here, one
\* that launched a run from the archive it accepted).
PersistWitness_OnSuccess ==
    /\ pc = "persist" /\ pc' = "idle"
    /\ artifacts' = IF anchor = Witness \/ kernel.source # anchor
                    THEN artifacts ELSE Append(artifacts, anchor)
    /\ UNCHANGED <<external, dataset, anchor, source, job, counts>>

\* Uploaded whatever the heartbeat came to.
PersistWitness ==
    /\ pc = "persist" /\ pc' = "idle"
    /\ artifacts' = IF anchor = Witness THEN artifacts ELSE Append(artifacts, anchor)
    /\ UNCHANGED <<external, dataset, anchor, source, job, counts>>

\* Mutant: a dataset that is not behind the witness is believed.
Verified_Ahead(d) == Counter(d) >= Counter(anchor)

\* verify(): exact equality.
Verified(d) == d = anchor

LoadState ==
    /\ pc = "load"
    /\ IF Verified(dataset.digest)
       THEN pc' = "decide" /\ source' = dataset /\ job' = job
       ELSE Exit
    /\ UNCHANGED <<external, dataset, artifacts, anchor, counts>>

-----------------------------------------------------------------------------
(* Publishing a version of the dataset.                                    *)

Publish(digest, transport, then, else) ==
    /\ pc' = "publish"
    /\ job' = [version |-> [digest |-> digest, transport |-> transport],
               clears |-> FALSE, then |-> then, else |-> else]

\* A version that closes the count of failures: a success, or a reset.
PublishCleared(digest, then, else) ==
    /\ pc' = "publish"
    /\ job' = [version |-> [digest |-> digest, transport |-> MarkSuccess],
               clears |-> TRUE, then |-> then, else |-> else]

\* The heartbeat goes on at a label, or ends there.
GoOn(label) == IF label = "persist" THEN Exit ELSE pc' = label /\ UNCHANGED <<source, job>>

\* Unsuccessful launches since the last success or reset that was published.
Counted == IF job.clears THEN 0 ELSE attempts

Published ==
    /\ pc = "publish"
    /\ dataset' = job.version /\ attempts' = Counted
    /\ GoOn(job.then)
    /\ UNCHANGED <<external, artifacts, anchor, nonces, resets, faults>>

\* The upload fails, or the version exists but never reports ready.
PublishRaises ==
    /\ Fault
    /\ pc = "publish"
    /\ \/ UNCHANGED <<dataset, attempts>>
       \/ dataset' = job.version /\ attempts' = Counted
    /\ GoOn(job.else)
    /\ UNCHANGED <<external, artifacts, anchor, nonces, resets>>

\* A failure is recorded over the archive the heartbeat loaded.
PublishFailure ==
    Publish(source.digest, MarkFailure(source.transport), "persist", "persist") /\ UNCHANGED source

-----------------------------------------------------------------------------
(* What is decided about a pending launch.                                 *)

OperatorReset ==
    /\ pc = "decide" /\ resets < MaxResets /\ resets' = resets + 1
    /\ IF source.transport.pending = NoNonce /\ LaunchSuppressed(source.transport)
       THEN PublishCleared(source.digest, "persist", "persist") /\ UNCHANGED source
       ELSE Exit
    /\ UNCHANGED <<external, dataset, artifacts, anchor, nonces, attempts, faults>>

Pending == pc = "decide" /\ source.transport.pending # NoNonce
Unless  == UNCHANGED <<external, dataset, artifacts, anchor>>

NothingPending ==
    /\ pc = "decide" /\ source.transport.pending = NoNonce
    /\ pc' = "launch"
    /\ Unless /\ UNCHANGED <<source, job, counts>>

StillActive ==
    /\ Pending /\ kernel.state \in {"queued", "running"}
    /\ Exit
    /\ Unless /\ UNCHANGED counts

RunFailed ==
    /\ Pending /\ kernel.state = "failed"
    /\ PublishFailure
    /\ Unless /\ UNCHANGED counts

\* The report names the pending launch and its source, the archive is the one
\* it reports, and cognition advanced the counter.
OutputValid ==
    /\ kernel.valid
    /\ kernel.nonce = source.transport.pending /\ kernel.source = source.digest
    /\ \/ kernel.output = kernel.source
       \/ Counter(kernel.output) > Counter(source.digest)

AcceptOutput ==
    /\ Pending /\ kernel.state = "complete" /\ OutputValid
    /\ PublishCleared(kernel.output, "advance", "reject") /\ UNCHANGED source
    /\ Unless /\ UNCHANGED counts

RejectOutput ==
    /\ Pending /\ kernel.state = "complete" /\ ~OutputValid
    /\ PublishFailure
    /\ Unless /\ UNCHANGED counts

\* Mutant: a launch of unknown status waits for ever.
StatusUnknown_Waits ==
    /\ Pending
    /\ \/ kernel.state = "none" /\ UNCHANGED faults
       \/ Fault
    /\ Exit
    /\ Unless /\ UNCHANGED <<nonces, attempts, resets>>

\* There is no run to ask about, or the status command failed.
StatusUnknown ==
    /\ Pending
    /\ \/ kernel.state = "none" /\ UNCHANGED faults
       \/ Fault
    /\ IF aged = source.transport.pending THEN PublishFailure ELSE Exit
    /\ Unless /\ UNCHANGED <<nonces, attempts, resets>>

\* advance(): one generation from the trusted archive, or the same one.
Advances(d) == d = anchor \/ Counter(d) = Counter(anchor) + 1

\* The dataset is durable; the heartbeat continues from the new archive.
Advance ==
    /\ pc = "advance" /\ Advances(job.version.digest)
    /\ anchor' = job.version.digest /\ source' = job.version /\ job' = NoJob
    /\ pc' = "launch"
    /\ UNCHANGED <<external, dataset, artifacts, counts>>

\* It raises, and the exception is taken for an invalid output.
AdvanceRaises ==
    /\ Fault
    /\ pc = "advance" /\ pc' = "reject"
    /\ \/ "before" \in AnchorFaults /\ anchor' = anchor
       \/ "after" \in AnchorFaults /\ anchor' = job.version.digest
    /\ UNCHANGED <<external, dataset, artifacts, source, job, nonces, attempts, resets>>

Reject ==
    /\ pc = "reject"
    /\ PublishFailure
    /\ Unless /\ UNCHANGED counts

-----------------------------------------------------------------------------
(* Launching.                                                              *)

\* The circuit is open, or the preflight does not say "wake".
StaysAsleep ==
    /\ pc = "launch"
    /\ Exit
    /\ Unless /\ UNCHANGED counts

\* The nonce is durable before anything is pushed.
PrepareLaunch ==
    /\ pc = "launch" /\ ~LaunchSuppressed(source.transport)
    /\ nonces < MaxLaunches /\ nonces' = nonces + 1
    /\ Publish(source.digest, MarkPending(source.transport, nonces + 1), "push", "persist")
    /\ source' = [source EXCEPT !.transport = MarkPending(@, nonces + 1)]
    /\ Unless /\ UNCHANGED <<attempts, resets, faults>>

Launched ==
    [NoRun EXCEPT !.nonce = source.transport.pending, !.source = source.digest, !.state = "queued"]

Push ==
    /\ pc = "push"
    /\ kernel' = Launched /\ attempts' = attempts + 1
    /\ Exit
    /\ UNCHANGED <<archives, dataset, artifacts, aged, anchor, nonces, resets, faults>>

\* The push raises; whether the run was created is not known.
PushRaises ==
    /\ Fault
    /\ pc = "push"
    /\ kernel' \in {kernel, Launched} /\ attempts' = attempts + 1
    /\ PublishFailure
    /\ UNCHANGED <<archives, dataset, artifacts, aged, anchor, nonces, resets>>

\* The job is cancelled or its runner dies: nothing is uploaded.
Crash ==
    /\ Fault
    /\ pc # "idle" /\ pc' = "idle" /\ source' = NoSource /\ job' = NoJob
    /\ anchor' = Witness
    /\ UNCHANGED <<external, dataset, artifacts, nonces, attempts, resets>>

-----------------------------------------------------------------------------
(* The remote run (runtime/kaggle/runner_template.py) and time.            *)

\* The run mounts the dataset as it is when it starts.
RunStarts ==
    /\ kernel.state = "queued"
    /\ kernel' = [kernel EXCEPT
          !.state = IF dataset.digest = kernel.source THEN "running" ELSE "failed"]
    /\ UNCHANGED <<archives, dataset, artifacts, aged, heartbeat, counts>>

\* The preflight on the machine said no: the archive is returned as it came.
RunSleeps ==
    /\ kernel.state = "running"
    /\ kernel' = [kernel EXCEPT !.state = "complete", !.output = kernel.source, !.valid = TRUE]
    /\ UNCHANGED <<archives, dataset, artifacts, aged, heartbeat, counts>>

\* Cycles, and one export.  What is downloaded may not be what was made.
RunThinks ==
    /\ kernel.state = "running"
    /\ archives' = Append(archives,
          [counter |-> Counter(kernel.source) + 1, parent |-> kernel.source])
    /\ \E ok \in BOOLEAN :
         kernel' = [kernel EXCEPT !.state = "complete", !.output = Len(archives) + 1, !.valid = ok]
    /\ UNCHANGED <<dataset, artifacts, aged, heartbeat, counts>>

RunFails ==
    /\ kernel.state = "running"
    /\ kernel' = [kernel EXCEPT !.state = "failed"]
    /\ UNCHANGED <<archives, dataset, artifacts, aged, heartbeat, counts>>

PendingAges ==
    /\ dataset.transport.pending # NoNonce /\ aged # dataset.transport.pending
    /\ aged' = dataset.transport.pending
    /\ UNCHANGED <<archives, dataset, kernel, artifacts, heartbeat, counts>>

-----------------------------------------------------------------------------
HeartbeatStep ==
    \/ StartHeartbeat \/ LoadState \/ Published \/ NothingPending
    \/ StillActive \/ RunFailed \/ AcceptOutput \/ RejectOutput \/ StatusUnknown
    \/ Advance \/ Reject \/ StaysAsleep \/ PrepareLaunch \/ Push \/ PersistWitness

RunStep == RunStarts \/ RunSleeps \/ RunThinks \/ RunFails

FaultStep == PublishRaises \/ AdvanceRaises \/ PushRaises \/ Crash

Next == HeartbeatStep \/ RunStep \/ FaultStep \/ OperatorReset \/ PendingAges

Spec == Init /\ [][Next]_vars

\* The schedule starts a heartbeat again and again, a run ends (it has a hard
\* time limit), and the timeout of a pending launch passes.
Fairness == WF_vars(HeartbeatStep) /\ WF_vars(RunStep) /\ WF_vars(PendingAges)

FairSpec == Spec /\ Fairness

-----------------------------------------------------------------------------
(* Properties.                                                             *)

ArchivesOK ==
    /\ archives \in Seq([counter : Nat, parent : Nat]) /\ archives # <<>>
    /\ \A d \in Digests : archives[d].parent < d

TypeOK ==
    /\ ArchivesOK
    /\ dataset \in Versions /\ dataset.digest \in Digests
    /\ kernel \in [nonce : Nonces \cup {NoNonce}, source : Nat, state : RunStates,
                   output : Nat, valid : BOOLEAN]
    /\ (kernel.state # "none" => kernel.source \in Digests)
    /\ (kernel.state = "complete" => kernel.output \in Digests)
    /\ artifacts \in Seq(Digests) /\ artifacts # <<>>
    /\ aged \in Nonces \cup {NoNonce} /\ pc \in Labels /\ anchor \in Digests
    /\ source \in Versions /\ (pc \notin {"idle", "load", "persist"} => source.digest \in Digests)
    /\ job \in [version : Versions, clears : BOOLEAN, then : Labels, else : Labels]
    /\ (pc \in {"publish", "advance"} => job.version.digest \in Digests)
    /\ nonces \in 0..MaxLaunches /\ attempts \in 0..Threshold
    /\ resets \in 0..MaxResets /\ faults \in 0..MaxFaults

\* The trusted line never forks and never goes back: each witness artifact
\* names the archive of the one before it, or an archive made from it by one
\* run (wake_anchor.advance: "CAS-advance exactly one generation").
WitnessChain ==
    [][artifacts' # artifacts =>
          /\ Len(artifacts') = Len(artifacts) + 1
          /\ archives'[Last(artifacts')].parent = Witness
          /\ archives'[Last(artifacts')].counter = Counter(Witness) + 1]_vars

\* Between heartbeats the published archive is the trusted one, whatever a
\* heartbeat came to; after a fault it may be one generation ahead, never
\* behind (kaggle_wake.py: "advances the Dataset first and the independent
\* witness only after durable acceptance").
DatasetNotBehind ==
    /\ pc = "idle" /\ faults = 0 => dataset.digest = Witness
    /\ dataset.digest = Witness \/ ChildOf(dataset.digest, Witness)

\* A run is pushed only for the launch the dataset durably announces, from the
\* archive it publishes, and only if that archive is the trusted one.
LaunchTrusted ==
    [][kernel'.nonce # kernel.nonce =>
          /\ dataset.transport.pending = kernel'.nonce
          /\ dataset.digest = kernel'.source
          /\ anchor = kernel'.source]_vars

\* However heartbeats die, no more than Threshold launches go out without a
\* published success or an operator's reset (README of runtime/kaggle:
\* "suppresses repeated launches after the failure threshold").
LaunchesBounded ==
    attempts <= dataset.transport.failures
                  + (IF dataset.transport.pending = NoNonce THEN 0 ELSE 1)

\* A pending launch is resolved, also when nothing is known of it, unless the
\* upload of the witness was lost: then every heartbeat fails closed.
LaunchResolved ==
    \A n \in Nonces :
        dataset.transport.pending = n
            ~> (dataset.transport.pending # n \/ dataset.digest # Witness)
=============================================================================
