--------------------------- MODULE WakeRelayProofs ---------------------------
(***************************************************************************)
(* Theorems about WakeRelay for every value of its constants.              *)
(***************************************************************************)
EXTENDS WakeRelay, TLAPS

-----------------------------------------------------------------------------
(* The inductive invariant, by what the variables stand for: the durable   *)
(* side, the remote run, the counts, and the heartbeat label by label.     *)

Closed(t) == t.pending # NoNonce => t.failures < Threshold

Bound(n, t) == n <= t.failures + (IF t.pending = NoNonce THEN 0 ELSE 1)

Follows(d, p) == d = p \/ ChildOf(d, p)

Durable ==
    /\ ArchivesOK
    /\ dataset \in Versions /\ dataset.digest \in Digests
    /\ Closed(dataset.transport) /\ Bound(attempts, dataset.transport)
    /\ artifacts \in Seq(Digests) /\ artifacts # <<>>
    /\ anchor \in Digests /\ Follows(anchor, Witness)

Runs == [nonce : Nonces \cup {NoNonce}, source : Nat, state : RunStates,
         output : Nat, valid : BOOLEAN]

Remote ==
    /\ kernel \in Runs
    /\ (kernel.state # "none" => kernel.source \in Digests)
    /\ (kernel.state = "complete" =>
            kernel.output \in Digests /\ Follows(kernel.output, kernel.source))
    /\ aged \in Nonces \cup {NoNonce}

Counts ==
    /\ nonces \in 0..MaxLaunches /\ attempts \in Nat
    /\ resets \in 0..MaxResets /\ faults \in 0..MaxFaults

Jobs == [version : Versions, clears : BOOLEAN, then : Labels, else : Labels]

AtLoad == pc = "load" => anchor = Witness

AtDecide == pc = "decide" => source = dataset /\ dataset.digest = anchor /\ anchor = Witness

\* A failure or a reset; the record of a launch; an accepted output.
Closing ==
    job.then = "persist" /\ job.else = "persist"

Recording ==
    /\ job.then = "push" /\ job.else = "persist" /\ ~job.clears
    /\ job.version = source /\ source.digest = anchor
    /\ source.transport.pending # NoNonce /\ attempts <= source.transport.failures

Accepting ==
    /\ job.then = "advance" /\ job.else = "reject" /\ job.clears
    /\ source.digest \in Digests
    /\ source.transport.pending # NoNonce /\ Bound(attempts, source.transport)
    /\ anchor = Witness /\ Follows(job.version.digest, anchor)

AtPublish ==
    pc = "publish" =>
        /\ job.version.digest \in Digests /\ Closed(job.version.transport)
        /\ (~job.clears => Bound(attempts, job.version.transport))
        /\ (job.clears => job.version.transport = MarkSuccess)
        /\ source.digest \in Digests
        /\ Closing \/ Recording \/ Accepting

AtAdvance ==
    pc = "advance" =>
        /\ job.version = dataset /\ dataset.transport.pending = NoNonce
        /\ source.digest \in Digests /\ source.transport.pending # NoNonce
        /\ Bound(attempts, source.transport)
        /\ anchor = Witness /\ Follows(dataset.digest, anchor)

AtReject ==
    pc = "reject" =>
        /\ source.digest \in Digests /\ source.transport.pending # NoNonce
        /\ Bound(attempts, source.transport)

AtLaunch ==
    pc = "launch" =>
        source = dataset /\ dataset.digest = anchor /\ dataset.transport.pending = NoNonce

AtPush ==
    pc = "push" =>
        /\ source = dataset /\ dataset.digest = anchor
        /\ dataset.transport.pending # NoNonce /\ attempts <= dataset.transport.failures

Heartbeat ==
    /\ pc \in Labels /\ source \in Versions /\ job \in Jobs /\ Closed(source.transport)
    /\ AtLoad /\ AtDecide /\ AtPublish /\ AtAdvance /\ AtReject /\ AtLaunch /\ AtPush

IInv == Durable /\ Remote /\ Counts /\ Heartbeat

-----------------------------------------------------------------------------
(* Records.                                                                *)

LEMMA TransportFields ==
    ASSUME NEW t \in Transports
    PROVE  t.pending \in Nonces \cup {NoNonce} /\ t.failures \in 0..Threshold
  BY DEF Transports

LEMMA VersionFields ==
    ASSUME NEW v \in Versions
    PROVE  v.digest \in Nat /\ v.transport \in Transports
  BY DEF Versions

LEMMA NewVersion ==
    ASSUME NEW d \in Nat, NEW t \in Transports, NEW v, v = [digest |-> d, transport |-> t]
    PROVE  v \in Versions /\ v.digest = d /\ v.transport = t
  BY DEF Versions

LEMMA JobFields ==
    ASSUME NEW j \in Jobs
    PROVE  j.version \in Versions /\ j.clears \in BOOLEAN /\ j.then \in Labels /\ j.else \in Labels
  BY DEF Jobs

LEMMA Failure ==
    ASSUME NEW t \in Transports, t.pending # NoNonce, Closed(t)
    PROVE  /\ MarkFailure(t) \in Transports /\ Closed(MarkFailure(t))
           /\ \A n \in Nat : n <= t.failures + 1 => Bound(n, MarkFailure(t))
  BY WakeAssumption DEF Transports, MarkFailure, Closed, Bound

LEMMA Success ==
    /\ MarkSuccess \in Transports /\ Closed(MarkSuccess) /\ Bound(0, MarkSuccess)
    /\ MarkSuccess.pending = NoNonce
  BY WakeAssumption DEF Transports, MarkSuccess, Closed, Bound

LEMMA Announced ==
    ASSUME NEW t \in Transports, ~LaunchSuppressed(t), NEW n \in Nonces
    PROVE  /\ MarkPending(t, n) \in Transports /\ Closed(MarkPending(t, n))
           /\ MarkPending(t, n).pending = n /\ MarkPending(t, n).failures = t.failures
  BY WakeAssumption DEF Transports, MarkPending, Closed, LaunchSuppressed

LEMMA Nothing ==
    /\ NoSource \in Versions /\ Closed(NoSource.transport)
    /\ NoJob \in Jobs
  BY WakeAssumption DEF NoSource, NoJob, Versions, Transports, Closed, Jobs, Labels

LEMMA NonceNumbers ==
    ASSUME NEW n \in Nonces
    PROVE  n # NoNonce
  BY WakeAssumption DEF Nonces

LEMMA RunFields ==
    ASSUME NEW k \in Runs, NEW d \in Nat, NEW ok \in BOOLEAN
    PROVE  LET r == [k EXCEPT !.state = "complete", !.output = d, !.valid = ok]
           IN r \in Runs /\ r.source = k.source /\ r.output = d
  BY DEF Runs, RunStates

LEMMA ElementOf ==
    ASSUME NEW R, NEW s \in Seq(R), NEW i \in 1..Len(s)
    PROVE  s[i] \in R
  OBVIOUS

LEMMA WitnessKnown ==
    ASSUME Durable
    PROVE  Witness \in Digests
  BY DEF Durable, Witness, Last

-----------------------------------------------------------------------------
(* What several steps have in common.                                      *)

LEMMA KeepDurable ==
    ASSUME Durable, UNCHANGED <<archives, dataset, artifacts, anchor, attempts>>
    PROVE  Durable'
  BY DEF Durable, ArchivesOK, Digests, Bound, Follows, ChildOf, Counter, Witness

LEMMA KeepRemote ==
    ASSUME Remote, UNCHANGED <<archives, kernel, aged>>
    PROVE  Remote'
  BY DEF Remote, Digests, Follows, ChildOf, Counter

\* The heartbeat is at an end.
LEMMA Ends ==
    ASSUME pc' \in {"idle", "persist"}, source' = NoSource, job' = NoJob
    PROVE  Heartbeat'
  BY Nothing DEF Heartbeat, Labels, AtLoad, AtDecide, AtPublish, AtAdvance, AtReject, AtLaunch, AtPush

LEMMA Exits ==
    ASSUME Exit
    PROVE  Heartbeat'
  BY Ends DEF Exit

\* The heartbeat publishes a failure, or a version that clears the count.
LEMMA PublishesFailure ==
    ASSUME PublishFailure, UNCHANGED archives, source \in Versions, source.digest \in Digests,
           source.transport.pending # NoNonce, Closed(source.transport), attempts' \in Nat,
           attempts' <= source.transport.failures + 1
    PROVE  Heartbeat'
<1> DEFINE t == MarkFailure(source.transport)
           v == [digest |-> source.digest, transport |-> t]
<1>1. t \in Transports /\ Closed(t) /\ Bound(attempts', t)
  BY Failure, VersionFields
<1>2. v \in Versions /\ v.digest = source.digest /\ v.transport = t
  BY <1>1, NewVersion, VersionFields
<1>3. pc' = "publish" /\ source' = source
      /\ job' = [version |-> v, clears |-> FALSE, then |-> "persist", else |-> "persist"]
  BY DEF PublishFailure, Publish
<1>4. job' \in Jobs /\ job'.version = v /\ ~job'.clears /\ job'.then = "persist" /\ job'.else = "persist"
  BY <1>2, <1>3 DEF Labels, Jobs
<1>5. AtPublish'
  <2>1. job'.version.digest \in Digests' /\ source'.digest \in Digests'
    BY <1>2, <1>3, <1>4 DEF Digests
  <2>2. Closed(job'.version.transport) /\ Bound(attempts', job'.version.transport)
    BY <1>1, <1>2, <1>4
  <2> QED
    BY <1>4, <2>1, <2>2 DEF AtPublish, Closing
<1> QED
  BY <1>3, <1>4, <1>5 DEF Heartbeat, Labels, AtLoad, AtDecide, AtAdvance, AtReject, AtLaunch, AtPush

LEMMA PublishesCleared ==
    ASSUME NEW d \in Digests, NEW a \in Labels, NEW b \in Labels, PublishCleared(d, a, b),
           UNCHANGED <<archives, source>>,
           source \in Versions, source.digest \in Digests, Closed(source.transport),
           (a = "persist" /\ b = "persist") \/ Accepting'
    PROVE  Heartbeat'
<1> DEFINE v == [digest |-> d, transport |-> MarkSuccess]
<1>1. v \in Versions /\ v.digest = d /\ v.transport = MarkSuccess
  BY NewVersion, Success DEF Digests
<1>2. pc' = "publish" /\ job' = [version |-> v, clears |-> TRUE, then |-> a, else |-> b]
  BY DEF PublishCleared
<1>3. job' \in Jobs /\ job'.version = v /\ job'.clears /\ job'.then = a /\ job'.else = b
  BY <1>1, <1>2 DEF Jobs
<1>4. AtPublish'
  <2>1. job'.version.digest \in Digests' /\ source'.digest \in Digests'
    BY <1>1, <1>3 DEF Digests
  <2> QED
    BY <1>1, <1>3, <2>1, Success DEF AtPublish, Closing
<1> QED
  BY <1>2, <1>3, <1>4 DEF Heartbeat, Labels, AtLoad, AtDecide, AtAdvance, AtReject, AtLaunch, AtPush

-----------------------------------------------------------------------------
(* Every step preserves the invariant.                                     *)

LEMMA StartAndLoad ==
    ASSUME IInv, StartHeartbeat \/ LoadState
    PROVE  IInv'
<1>1. CASE StartHeartbeat
  <2>1. pc' = "load" /\ anchor' = Witness
        /\ UNCHANGED <<archives, dataset, kernel, artifacts, aged, source, job, nonces, attempts, resets, faults>>
    BY <1>1 DEF StartHeartbeat, Restored, Witness, external, counts
  <2>2. Durable'
    BY <2>1, WitnessKnown DEF IInv, Durable, ArchivesOK, Digests, Bound, Follows, ChildOf, Counter, Witness
  <2>3. Heartbeat'
    BY <2>1 DEF IInv, Heartbeat, Labels, AtLoad, AtDecide, AtPublish, AtAdvance, AtReject, AtLaunch, AtPush, Witness
  <2> QED
    BY <2>1, <2>2, <2>3, KeepRemote DEF IInv, Counts
<1>2. CASE LoadState
  <2>1. UNCHANGED <<archives, dataset, kernel, artifacts, aged, anchor, nonces, attempts, resets, faults>>
    BY <1>2 DEF LoadState, external, counts
  <2>2. CASE Exit
    BY <2>1, <2>2, Exits, KeepDurable, KeepRemote DEF IInv, Counts
  <2>3. CASE pc' = "decide" /\ source' = dataset /\ job' = job /\ dataset.digest = anchor
    <3>1. anchor' = Witness'
      BY <1>2, <2>1 DEF LoadState, IInv, Heartbeat, AtLoad, Witness
    <3>2. Heartbeat'
      BY <2>1, <2>3, <3>1 DEF IInv, Heartbeat, Durable, Labels, AtLoad, AtDecide, AtPublish, AtAdvance, AtReject,
                              AtLaunch, AtPush
    <3> QED
      BY <2>1, <3>2, KeepDurable, KeepRemote DEF IInv, Counts
  <2> QED
    BY <1>2, <2>2, <2>3 DEF LoadState, Verified
<1> QED
  BY <1>1, <1>2

LEMMA Decides ==
    ASSUME IInv, OperatorReset \/ NothingPending \/ StillActive \/ RunFailed \/ AcceptOutput
                 \/ RejectOutput \/ StatusUnknown
    PROVE  IInv'
<1>1. pc = "decide" /\ UNCHANGED <<archives, dataset, kernel, artifacts, aged, anchor, attempts, nonces>>
  BY DEF OperatorReset, NothingPending, StillActive, RunFailed, AcceptOutput, RejectOutput, StatusUnknown,
         Pending, Unless, external, counts
<1>2. Durable' /\ Remote'
  BY <1>1, KeepDurable, KeepRemote DEF IInv
<1>3. Counts'
  BY <1>1, WakeAssumption
     DEF IInv, Counts, OperatorReset, NothingPending, StillActive, RunFailed, AcceptOutput, RejectOutput,
         StatusUnknown, Unless, counts, Fault
<1>4. source = dataset /\ dataset.digest = anchor /\ anchor = Witness /\ source.digest \in Digests
      /\ source \in Versions /\ Closed(source.transport) /\ job \in Jobs
  BY <1>1 DEF IInv, Heartbeat, AtDecide, Durable
<1>5. source.transport \in Transports /\ Bound(attempts, source.transport) /\ attempts \in Nat
  BY <1>4, VersionFields DEF IInv, Durable, Counts
<1>6. source.transport.pending # NoNonce => attempts <= source.transport.failures + 1
  BY <1>5 DEF Bound
<1>7. ASSUME PublishFailure, source.transport.pending # NoNonce
      PROVE  Heartbeat'
  BY <1>1, <1>4, <1>5, <1>6, <1>7, PublishesFailure
<1>8. ASSUME NothingPending PROVE Heartbeat'
  <2>1. pc' = "launch" /\ source' = source /\ job' = job /\ source.transport.pending = NoNonce
    BY <1>8 DEF NothingPending
  <2> QED
    BY <1>1, <1>4, <2>1 DEF IInv, Heartbeat, Labels, AtLoad, AtDecide, AtPublish, AtAdvance, AtReject, AtLaunch, AtPush
<1>9. ASSUME AcceptOutput PROVE Heartbeat'
  <2>1. /\ PublishCleared(kernel.output, "advance", "reject") /\ source' = source
        /\ source.transport.pending # NoNonce
    BY <1>9 DEF AcceptOutput, Pending
  <2>2. kernel.output \in Digests /\ Follows(kernel.output, anchor)
    BY <1>9, <1>4 DEF AcceptOutput, OutputValid, IInv, Remote
  <2>3. job'.then = "advance" /\ job'.else = "reject" /\ job'.clears /\ job'.version.digest = kernel.output
    BY <2>1 DEF PublishCleared
  <2>4. Follows(job.version.digest, anchor)' /\ anchor' = Witness'
    BY <1>1, <1>4, <2>2, <2>3 DEF Follows, ChildOf, Counter, Witness
  <2>5. source'.digest \in Digests' /\ source'.transport.pending # NoNonce /\ Bound(attempts', source'.transport)
    BY <1>1, <1>4, <1>5, <2>1 DEF Digests
  <2>6. Accepting'
    BY <2>3, <2>4, <2>5 DEF Accepting
  <2> QED
    BY <1>1, <1>4, <2>1, <2>2, <2>6, PublishesCleared DEF Labels
<1>10. ASSUME OperatorReset PROVE Heartbeat'
  <2>1. CASE Exit
    BY <2>1, Exits
  <2>2. CASE PublishCleared(source.digest, "persist", "persist") /\ source' = source
    BY <1>1, <1>4, <2>2, PublishesCleared DEF Labels
  <2> QED
    BY <1>10, <2>1, <2>2 DEF OperatorReset
<1>11. Heartbeat'
  BY <1>7, <1>8, <1>9, <1>10, Exits DEF StillActive, RunFailed, RejectOutput, StatusUnknown, Pending
<1> QED
  BY <1>2, <1>3, <1>11 DEF IInv

LEMMA Publishes ==
    ASSUME IInv, Published \/ PublishRaises
    PROVE  IInv'
<1>1. pc = "publish" /\ UNCHANGED <<archives, kernel, artifacts, aged, anchor, nonces, resets>>
  BY DEF Published, PublishRaises, external
<1>2. Remote'
  BY <1>1, KeepRemote DEF IInv
<1>3. /\ job \in Jobs /\ job.version \in Versions /\ job.version.digest \in Digests
      /\ Closed(job.version.transport) /\ job.version.transport \in Transports
      /\ source \in Versions /\ source.digest \in Digests /\ Closed(source.transport)
  BY <1>1, JobFields, VersionFields DEF IInv, Heartbeat, AtPublish
<1>4. Counted \in Nat /\ Bound(Counted, job.version.transport) /\ Counted <= attempts
  BY <1>1, Success DEF IInv, Heartbeat, AtPublish, Counted, Counts
<1>5. attempts \in Nat /\ Counts'
  BY <1>1, <1>4, WakeAssumption DEF IInv, Counts, Published, PublishRaises, Fault
<1>6. \/ dataset' = job.version /\ attempts' = Counted
      \/ dataset' = dataset /\ attempts' = attempts
  BY DEF Published, PublishRaises
<1>7. Durable'
  <2>1. CASE dataset' = job.version /\ attempts' = Counted
    BY <1>1, <1>3, <1>4, <2>1 DEF IInv, Durable, ArchivesOK, Digests, Bound, Follows, ChildOf, Counter, Witness
  <2>2. CASE dataset' = dataset /\ attempts' = attempts
    BY <1>1, <2>2, KeepDurable DEF IInv
  <2> QED
    BY <1>6, <2>1, <2>2
<1>8. Closing \/ Recording \/ Accepting
  BY <1>1 DEF IInv, Heartbeat, AtPublish
<1>9. CASE Closing
  <2>1. Exit
    BY <1>9 DEF Closing, Published, PublishRaises, GoOn
  <2> QED
    BY <1>2, <1>5, <1>7, <2>1, Exits DEF IInv
<1>10. CASE Recording
  <2>1. CASE Published
    <3>1. pc' = "push" /\ source' = source /\ job' = job /\ dataset' = source /\ attempts' = attempts
      BY <1>10, <2>1 DEF Published, GoOn, Recording, Counted
    <3>2. AtPush'
      BY <1>1, <1>10, <3>1 DEF Recording, AtPush
    <3>3. Heartbeat'
      BY <1>3, <3>1, <3>2 DEF Heartbeat, Labels, AtLoad, AtDecide, AtPublish, AtAdvance, AtReject, AtLaunch
    <3> QED
      BY <1>2, <1>5, <1>7, <3>3 DEF IInv
  <2>2. CASE PublishRaises
    BY <1>2, <1>5, <1>7, <1>10, <2>2, Exits DEF IInv, Recording, PublishRaises, GoOn
  <2> QED
    BY <2>1, <2>2
<1>11. CASE Accepting
  <2>1. source.transport \in Transports /\ Bound(attempts, source.transport)
        /\ source.transport.pending # NoNonce
    BY <1>3, <1>11, VersionFields DEF Accepting
  <2>2. attempts' <= attempts /\ Bound(attempts', source.transport)
    BY <1>4, <1>5, <1>6, <2>1, TransportFields DEF Bound, Counts
  <2>3. CASE Published
    <3>1. pc' = "advance" /\ source' = source /\ job' = job /\ dataset' = job.version
      BY <1>11, <2>3 DEF Published, GoOn, Accepting
    <3>2. dataset'.transport.pending = NoNonce
      BY <1>1, <1>11, <3>1, Success DEF IInv, Heartbeat, AtPublish, Accepting
    <3>3. (anchor = Witness /\ Follows(dataset.digest, anchor))'
      BY <1>1, <1>11, <3>1 DEF Accepting, Follows, ChildOf, Counter, Witness
    <3>4. source'.digest \in Digests' /\ Bound(attempts', source'.transport)
      BY <1>1, <1>3, <2>2, <3>1 DEF Digests
    <3>5. AtAdvance'
      BY <2>1, <3>1, <3>2, <3>3, <3>4 DEF AtAdvance
    <3>6. Heartbeat'
      BY <1>3, <3>1, <3>5 DEF Heartbeat, Labels, AtLoad, AtDecide, AtPublish, AtPush, AtReject, AtLaunch
    <3> QED
      BY <1>2, <1>5, <1>7, <3>6 DEF IInv
  <2>4. CASE PublishRaises
    <3>1. pc' = "reject" /\ source' = source /\ job' = job
      BY <1>11, <2>4 DEF PublishRaises, GoOn, Accepting
    <3>2. AtReject'
      BY <1>1, <1>3, <2>1, <2>2, <3>1 DEF AtReject, Digests
    <3>3. Heartbeat'
      BY <1>3, <3>1, <3>2 DEF Heartbeat, Labels, AtLoad, AtDecide, AtPublish, AtAdvance, AtPush, AtLaunch
    <3> QED
      BY <1>2, <1>5, <1>7, <3>3 DEF IInv
  <2> QED
    BY <2>3, <2>4
<1> QED
  BY <1>8, <1>9, <1>10, <1>11

LEMMA Accepts ==
    ASSUME IInv, Advance \/ AdvanceRaises \/ Reject
    PROVE  IInv'
<1>1. UNCHANGED <<archives, dataset, kernel, artifacts, aged, attempts>> /\ Remote'
  BY KeepRemote DEF IInv, Advance, AdvanceRaises, Reject, Unless, external, counts
<1>2. Counts'
  BY WakeAssumption DEF IInv, Counts, Advance, AdvanceRaises, Reject, Unless, counts, Fault
<1>3. /\ source \in Versions /\ Closed(source.transport) /\ job \in Jobs
      /\ source.transport \in Transports /\ attempts \in Nat
  BY VersionFields DEF IInv, Heartbeat, Counts
<1>4. CASE Advance
  <2>1. /\ pc = "advance" /\ pc' = "launch" /\ anchor' = job.version.digest
        /\ source' = job.version /\ job' = NoJob
    BY <1>4 DEF Advance
  <2>2. /\ job.version = dataset /\ dataset.transport.pending = NoNonce
        /\ anchor = Witness /\ Follows(dataset.digest, anchor)
    BY <2>1 DEF IInv, Heartbeat, AtAdvance
  <2>3. Durable'
    BY <1>1, <2>1, <2>2 DEF IInv, Durable, ArchivesOK, Digests, Bound, Follows, ChildOf, Counter, Witness
  <2>4. Heartbeat'
    BY <1>1, <2>1, <2>2, Nothing
       DEF IInv, Durable, Heartbeat, Labels, AtLoad, AtDecide, AtPublish, AtAdvance, AtReject, AtLaunch, AtPush
  <2> QED
    BY <1>1, <1>2, <2>3, <2>4 DEF IInv
<1>5. CASE AdvanceRaises
  <2>1. pc = "advance" /\ pc' = "reject" /\ anchor' \in {anchor, job.version.digest}
        /\ UNCHANGED <<source, job>>
    BY <1>5 DEF AdvanceRaises
  <2>2. /\ job.version = dataset /\ source.digest \in Digests /\ source.transport.pending # NoNonce
        /\ anchor = Witness /\ Follows(dataset.digest, anchor) /\ Bound(attempts, source.transport)
    BY <2>1 DEF IInv, Heartbeat, AtAdvance
  <2>3. Durable'
    BY <1>1, <2>1, <2>2 DEF IInv, Durable, ArchivesOK, Digests, Bound, Follows, ChildOf, Counter, Witness
  <2>4. AtReject'
    BY <1>1, <2>1, <2>2 DEF AtReject, Digests
  <2>5. Heartbeat'
    BY <1>3, <2>1, <2>4
       DEF Heartbeat, Labels, AtLoad, AtDecide, AtPublish, AtAdvance, AtLaunch, AtPush
  <2> QED
    BY <1>1, <1>2, <2>3, <2>5 DEF IInv
<1>6. CASE Reject
  <2>1. pc = "reject" /\ PublishFailure /\ anchor' = anchor
    BY <1>6 DEF Reject, Unless
  <2>2. /\ source.digest \in Digests /\ source.transport.pending # NoNonce
        /\ attempts <= source.transport.failures + 1
    BY <2>1, <1>3 DEF IInv, Heartbeat, AtReject, Bound
  <2>3. Heartbeat'
    BY <1>1, <1>3, <2>1, <2>2, PublishesFailure
  <2> QED
    BY <1>1, <1>2, <2>1, <2>3, KeepDurable DEF IInv
<1> QED
  BY <1>4, <1>5, <1>6

LEMMA Launches ==
    ASSUME IInv, StaysAsleep \/ PrepareLaunch \/ Push \/ PushRaises
    PROVE  IInv'
<1>1. CASE StaysAsleep
  BY <1>1, Exits, KeepDurable, KeepRemote DEF IInv, Counts, StaysAsleep, Unless, external, counts
<1>2. CASE PrepareLaunch
  <2>1. /\ pc = "launch" /\ ~LaunchSuppressed(source.transport)
        /\ nonces < MaxLaunches /\ nonces' = nonces + 1
        /\ UNCHANGED <<archives, dataset, kernel, artifacts, aged, anchor, attempts, resets, faults>>
    BY <1>2 DEF PrepareLaunch, Unless, external
  <2>2. source = dataset /\ dataset.digest = anchor /\ source.transport.pending = NoNonce
    BY <2>1 DEF IInv, Heartbeat, AtLaunch
  <2>3. source.digest \in Digests /\ source \in Versions /\ source.transport \in Transports
    BY <2>2, VersionFields DEF IInv, Durable
  <2>4. nonces + 1 \in Nonces /\ nonces + 1 # NoNonce /\ Counts'
    BY <2>1, WakeAssumption DEF IInv, Counts, Nonces
  <2> DEFINE t == MarkPending(source.transport, nonces + 1)
             v == [digest |-> source.digest, transport |-> t]
  <2>5. t \in Transports /\ Closed(t) /\ t.pending # NoNonce /\ t.failures = source.transport.failures
    BY <2>1, <2>3, <2>4, Announced
  <2>6. v \in Versions /\ v.digest = source.digest /\ v.transport = t
    BY <2>3, <2>5, NewVersion, VersionFields
  <2>7. source' = v
    BY <1>2, <2>3 DEF PrepareLaunch, Versions
  <2>8. /\ pc' = "publish"
        /\ job' = [version |-> v, clears |-> FALSE, then |-> "push", else |-> "persist"]
    BY <1>2 DEF PrepareLaunch, Publish
  <2>9. job' \in Jobs /\ job'.version = v /\ ~job'.clears /\ job'.then = "push" /\ job'.else = "persist"
    BY <2>6, <2>8 DEF Labels, Jobs
  <2>10. attempts' \in Nat /\ attempts' <= t.failures /\ Bound(attempts', t)
    BY <2>1, <2>2, <2>3, <2>5, TransportFields DEF IInv, Durable, Counts, Bound
  <2>11. Recording'
    BY <2>1, <2>2, <2>5, <2>6, <2>7, <2>9, <2>10 DEF Recording
  <2>12. AtPublish'
    <3>1. job'.version.digest \in Digests' /\ source'.digest \in Digests'
      BY <2>1, <2>3, <2>6, <2>7, <2>9 DEF Digests
    <3> QED
      BY <2>5, <2>6, <2>9, <2>10, <2>11, <3>1 DEF AtPublish
  <2>13. Heartbeat'
    BY <2>5, <2>6, <2>7, <2>8, <2>9, <2>12
       DEF Heartbeat, Labels, AtLoad, AtDecide, AtAdvance, AtReject, AtLaunch, AtPush
  <2> QED
    BY <2>1, <2>4, <2>13, KeepDurable, KeepRemote DEF IInv
<1>3. CASE Push \/ PushRaises
  <2>1. /\ pc = "push" /\ kernel' \in {kernel, Launched} /\ attempts' = attempts + 1
        /\ UNCHANGED <<archives, dataset, artifacts, aged, anchor, nonces, resets>>
    BY <1>3 DEF Push, PushRaises
  <2>2. /\ source = dataset /\ dataset.digest = anchor /\ dataset.transport.pending # NoNonce
        /\ attempts <= dataset.transport.failures
    BY <2>1 DEF IInv, Heartbeat, AtPush
  <2>3. /\ source \in Versions /\ source.digest \in Digests /\ source.transport \in Transports
        /\ Closed(source.transport) /\ attempts \in Nat
    BY <2>2, VersionFields DEF IInv, Durable, Counts
  <2>4. Durable'
    <3>1. Bound(attempts', dataset'.transport)
      BY <2>1, <2>2, <2>3, TransportFields DEF Bound
    <3> QED
      BY <2>1, <3>1 DEF IInv, Durable, ArchivesOK, Digests, Follows, ChildOf, Counter, Witness, Closed
  <2>5. Remote'
    <3>1. CASE kernel' = kernel
      BY <2>1, <3>1, KeepRemote DEF IInv
    <3>2. CASE kernel' = Launched
      <4>1. source.transport.pending \in Nonces \cup {NoNonce}
        BY <2>3, TransportFields
      <4>2. /\ Launched.source = source.digest /\ Launched.state = "queued"
            /\ Launched \in Runs
        BY <2>3, <4>1, VersionFields DEF Launched, NoRun, RunStates, Runs
      <4> QED
        BY <2>1, <2>3, <3>2, <4>2 DEF IInv, Remote, Digests
    <3> QED
      BY <2>1, <3>1, <3>2
  <2>6. Counts'
    BY <1>3, <2>1, WakeAssumption DEF IInv, Counts, Push, PushRaises, Fault
  <2>7. Heartbeat'
    <3>1. CASE Push
      BY <3>1, Exits DEF Push
    <3>2. CASE PushRaises
      <4>1. attempts' \in Nat /\ attempts' <= source.transport.failures + 1
        BY <2>1, <2>2, <2>3, TransportFields
      <4> QED
        BY <2>1, <2>2, <2>3, <3>2, <4>1, PublishesFailure DEF PushRaises
    <3> QED
      BY <1>3, <3>1, <3>2
  <2> QED
    BY <2>4, <2>5, <2>6, <2>7 DEF IInv
<1> QED
  BY <1>1, <1>2, <1>3

LEMMA Leaves ==
    ASSUME IInv, PersistWitness \/ Crash
    PROVE  IInv'
<1>1. /\ UNCHANGED <<archives, dataset, kernel, aged, attempts>>
      /\ pc' = "idle" /\ Remote'
  BY KeepRemote DEF IInv, PersistWitness, Crash, external, counts
<1>2. Counts'
  BY WakeAssumption DEF IInv, Counts, PersistWitness, Crash, Fault, counts
<1>3. Heartbeat'
  <2>1. CASE Crash
    BY <2>1, Ends DEF Crash
  <2>2. CASE PersistWitness
    BY <1>1, <2>2 DEF PersistWitness, IInv, Heartbeat, Labels, AtLoad, AtDecide, AtPublish, AtAdvance, AtReject,
                      AtLaunch, AtPush
  <2> QED
    BY <2>1, <2>2
<1>4. Durable'
  <2>1. CASE anchor' = Witness /\ artifacts' = artifacts
    BY <1>1, <2>1, WitnessKnown
       DEF IInv, Durable, ArchivesOK, Digests, Bound, Follows, ChildOf, Counter, Witness
  <2>2. CASE anchor' = anchor /\ artifacts' = Append(artifacts, anchor)
    <3>1. artifacts' \in Seq(Digests) /\ artifacts' # <<>> /\ Witness' = anchor
      BY <2>2 DEF IInv, Durable, Witness, Last
    <3> QED
      BY <1>1, <2>2, <3>1 DEF IInv, Durable, ArchivesOK, Digests, Bound, Follows
  <2> QED
    BY <2>1, <2>2 DEF PersistWitness, Crash, Witness
<1> QED
  BY <1>1, <1>2, <1>3, <1>4 DEF IInv

LEMMA RunsAndAges ==
    ASSUME IInv, RunStep \/ PendingAges
    PROVE  IInv'
<1>1. UNCHANGED <<dataset, artifacts, pc, anchor, source, job, nonces, attempts, resets, faults>>
  BY DEF RunStep, RunStarts, RunSleeps, RunThinks, RunFails, PendingAges, heartbeat, counts
<1>2. Counts'
  BY <1>1 DEF IInv, Counts
<1>3. CASE UNCHANGED archives
  <2>1. Durable' /\ Heartbeat'
    BY <1>1, <1>3, KeepDurable
       DEF IInv, Heartbeat, AtLoad, AtDecide, AtPublish, AtAdvance, AtReject, AtLaunch, AtPush, Closing, Recording,
           Accepting, Bound, Closed, Follows, ChildOf, Counter, Digests, Witness
  <2>2. Remote'
    <3>1. CASE PendingAges
      BY <3>1, <1>3, VersionFields, TransportFields
         DEF PendingAges, IInv, Remote, Durable, Digests, Follows, ChildOf, Counter
    <3>2. CASE RunStarts \/ RunFails \/ RunSleeps
      <4>1. aged' = aged /\ kernel' \in Runs
            /\ kernel'.source = kernel.source /\ kernel.state # "none"
            /\ (kernel'.state = "complete" => kernel'.output = kernel.source)
        BY <3>2 DEF RunStarts, RunFails, RunSleeps, IInv, Remote, RunStates, Runs
      <4> QED
        BY <1>3, <4>1 DEF IInv, Remote, Digests, Follows
    <3>3. CASE RunThinks
      BY <1>3, <3>3 DEF RunThinks, IInv, Durable, ArchivesOK
    <3> QED
      BY <3>1, <3>2, <3>3 DEF RunStep
  <2> QED
    BY <1>2, <2>1, <2>2 DEF IInv
<1>4. CASE RunThinks
  <2> DEFINE made == [counter |-> Counter(kernel.source) + 1, parent |-> kernel.source]
  <2>1. /\ archives' = Append(archives, made) /\ aged' = aged
        /\ kernel.state = "running" /\ kernel.source \in Digests
    BY <1>4 DEF RunThinks, IInv, Remote
  <2>2. /\ archives \in Seq([counter : Nat, parent : Nat])
        /\ made \in [counter : Nat, parent : Nat] /\ made.parent < Len(archives) + 1
    <3>1. archives \in Seq([counter : Nat, parent : Nat]) /\ Len(archives) \in Nat
      BY DEF IInv, Durable, ArchivesOK
    <3>2. archives[kernel.source] \in [counter : Nat, parent : Nat]
      BY <2>1, <3>1, ElementOf, Zenon DEF Digests
    <3>3. kernel.source \in Nat /\ kernel.source < Len(archives) + 1
      BY <2>1, <3>1 DEF Digests
    <3>4. archives[kernel.source].counter \in Nat
      BY <3>2
    <3>5. Counter(kernel.source) + 1 \in Nat
      BY <3>4 DEF Counter
    <3> QED
      BY <3>1, <3>3, <3>5
  <2>3. /\ Len(archives') = Len(archives) + 1
        /\ \A d \in Digests : d \in Digests' /\ Counter(d)' = Counter(d) /\ archives'[d] = archives[d]
        /\ archives'[Len(archives) + 1] = made /\ Len(archives) + 1 \in Digests'
    BY <2>1, <2>2 DEF Digests, Counter
  <2>4. ArchivesOK'
    <3>1. archives' \in Seq([counter : Nat, parent : Nat]) /\ archives' # <<>>
      BY <2>1, <2>2
    <3>2. \A d \in Digests' : d \in Digests \/ d = Len(archives) + 1
      BY <2>2, <2>3 DEF Digests
    <3>3. \A d \in Digests' : archives'[d].parent < d
      BY <2>2, <2>3, <3>2 DEF IInv, Durable, ArchivesOK
    <3> QED
      BY <3>1, <3>3 DEF ArchivesOK
  <2>5. \A d, p \in Digests : Follows(d, p) => Follows(d, p)'
    BY <2>3 DEF Follows, ChildOf, Counter
  <2>6. Witness \in Digests /\ Witness' = Witness
    BY <1>1, WitnessKnown DEF IInv, Witness
  <2>7. Durable'
    <3>1. artifacts' \in Seq(Digests') /\ artifacts' # <<>>
      BY <1>1, <2>3 DEF IInv, Durable, Digests
    <3>2. dataset'.digest \in Digests' /\ anchor' \in Digests'
      BY <1>1, <2>3 DEF IInv, Durable
    <3>3. Follows(anchor, Witness)'
      BY <1>1, <2>3, <2>6 DEF IInv, Durable, Follows, ChildOf, Counter
    <3> QED
      BY <1>1, <2>4, <3>1, <3>2, <3>3 DEF IInv, Durable, Bound, Closed
  <2>8. Remote'
    <3>1. kernel'.output = Len(archives) + 1 /\ kernel'.source = kernel.source
          /\ kernel' \in Runs
      <4>1. PICK ok \in BOOLEAN :
               kernel' = [kernel EXCEPT !.state = "complete", !.output = Len(archives) + 1, !.valid = ok]
        BY <1>4 DEF RunThinks
      <4>2. kernel \in Runs /\ Len(archives) + 1 \in Nat
        BY <2>2 DEF IInv, Remote
      <4> QED
        BY <4>1, <4>2, RunFields, Zenon
    <3>2. kernel.source \in Digests /\ Counter(kernel.source)' = Counter(kernel.source)
      BY <2>1, <2>3, <3>1 DEF Counter
    <3>3. Follows(kernel.output, kernel.source)'
      BY <2>3, <3>1, <3>2 DEF Follows, ChildOf, Counter
    <3> QED
      BY <2>1, <2>3, <3>1, <3>3 DEF IInv, Remote
  <2>9. Heartbeat'
    <3>1. pc = "publish" => AtPublish'
      <4>1. /\ pc = "publish" => job.version.digest \in Digests' /\ source.digest \in Digests'
            /\ pc = "publish" /\ Recording => Recording'
            /\ pc = "publish" /\ Closing => Closing'
        BY <1>1, <2>3 DEF IInv, Heartbeat, AtPublish, Recording, Closing
      <4>2. ASSUME pc = "publish", Accepting PROVE Accepting'
        <5>1. job.version.digest \in Digests /\ anchor \in Digests /\ Follows(job.version.digest, anchor)
          BY <4>2 DEF IInv, Heartbeat, AtPublish, Accepting, Durable
        <5>2. Follows(job.version.digest, anchor)'
          BY <1>1, <2>3, <5>1 DEF Follows, ChildOf, Counter
        <5> QED
          BY <1>1, <2>3, <2>6, <4>2, <5>2 DEF Accepting, Bound
      <4> QED
        BY <1>1, <4>1, <4>2 DEF IInv, Heartbeat, AtPublish, Bound, Closed
    <3>2. AtAdvance'
      <4>1. ASSUME pc = "advance" PROVE Follows(dataset.digest, anchor)' /\ source.digest \in Digests'
        <5>1. dataset.digest \in Digests /\ anchor \in Digests /\ Follows(dataset.digest, anchor)
              /\ source.digest \in Digests
          BY <4>1 DEF IInv, Heartbeat, AtAdvance, Durable
        <5> QED
          BY <1>1, <2>3, <5>1 DEF Follows, ChildOf, Counter
      <4> QED
        BY <1>1, <2>6, <4>1 DEF IInv, Heartbeat, AtAdvance, Bound
    <3>3. AtLoad' /\ AtDecide' /\ AtReject' /\ AtLaunch' /\ AtPush'
      BY <1>1, <2>3, <2>6 DEF IInv, Heartbeat, AtLoad, AtDecide, AtReject, AtLaunch, AtPush, Bound
    <3>4. AtPublish'
      BY <1>1, <3>1 DEF AtPublish
    <3> QED
      BY <1>1, <3>2, <3>3, <3>4 DEF IInv, Heartbeat, Closed
  <2> QED
    BY <1>2, <2>7, <2>8, <2>9 DEF IInv
<1> QED
  BY <1>3, <1>4 DEF RunStep, RunStarts, RunSleeps, RunFails, PendingAges

LEMMA InitIInv == Init => IInv
<1> SUFFICES ASSUME Init PROVE IInv
  OBVIOUS
<1>1. Durable
  BY WakeAssumption DEF Init, Durable, ArchivesOK, Digests, Versions, Transports, Closed, Bound, Follows, Witness, Last
<1>2. Remote
  BY DEF Init, Remote, NoRun, RunStates, Runs
<1>3. Counts
  BY WakeAssumption DEF Init, Counts
<1>4. Heartbeat
  BY Nothing DEF Init, Heartbeat, Labels, AtLoad, AtDecide, AtPublish, AtAdvance, AtReject, AtLaunch, AtPush
<1> QED
  BY <1>1, <1>2, <1>3, <1>4 DEF IInv

LEMMA NextIInv == IInv /\ [Next]_vars => IInv'
<1> SUFFICES ASSUME IInv, [Next]_vars PROVE IInv'
  OBVIOUS
<1>1. CASE UNCHANGED vars
  <2>1. UNCHANGED <<archives, dataset, kernel, artifacts, aged, pc, anchor, source, job, nonces, attempts, resets, faults>>
    BY <1>1 DEF vars, counts
  <2>2. Heartbeat' /\ Counts'
    BY <2>1 DEF IInv, Counts, Heartbeat, AtLoad, AtDecide, AtPublish, AtAdvance, AtReject, AtLaunch, AtPush, Closing,
                Recording, Accepting, Bound, Closed, Follows, ChildOf, Counter, Digests, Witness
  <2> QED
    BY <2>1, <2>2, KeepDurable, KeepRemote DEF IInv
<1> QED
  BY <1>1, StartAndLoad, Decides, Publishes, Accepts, Launches, Leaves, RunsAndAges
     DEF Next, HeartbeatStep, FaultStep

\* The invariant that the theorems below rest on is inductive: the durable
\* side, the remote run and the heartbeat agree at every label.
THEOREM InductiveInvariant == Spec => []IInv
  BY InitIInv, NextIInv, PTL DEF Spec

-----------------------------------------------------------------------------
(* Theorems.                                                               *)

\* Type correctness, for any threshold, number of launches, resets and
\* faults; the count of launches stays within the threshold because it is
\* bounded by the record, whose pending launch leaves room for one failure.
THEOREM TypeCorrect == Spec => []TypeOK
<1>1. IInv => TypeOK
  <2> SUFFICES ASSUME IInv PROVE TypeOK
    OBVIOUS
  <2>1. dataset.transport.failures \in 0..Threshold /\ attempts \in Nat
        /\ Closed(dataset.transport) /\ Bound(attempts, dataset.transport)
    BY VersionFields, TransportFields DEF IInv, Durable, Counts
  <2>2. attempts \in 0..Threshold
    BY <2>1, WakeAssumption DEF Closed, Bound
  <2>3. pc \notin {"idle", "load", "persist"} => source.digest \in Digests
    BY DEF IInv, Heartbeat, Durable, Labels, AtDecide, AtPublish, AtAdvance, AtReject, AtLaunch, AtPush
  <2>4. pc \in {"publish", "advance"} => job.version.digest \in Digests
    BY DEF IInv, Heartbeat, Durable, AtPublish, AtAdvance
  <2> QED
    BY <2>2, <2>3, <2>4 DEF IInv, TypeOK, Durable, Remote, Runs, Counts, Heartbeat, Jobs
<1> QED
  BY <1>1, InductiveInvariant, PTL

\* However heartbeats die and uploads fail, no more launches go out without a
\* published success or reset than the published record accounts for.
THEOREM LaunchesBoundedHolds == Spec => []LaunchesBounded
<1>1. IInv => LaunchesBounded
  BY DEF IInv, Durable, Bound, LaunchesBounded
<1> QED
  BY <1>1, InductiveInvariant, PTL

\* Only the trusted archive is launched, for the launch the dataset announces.
THEOREM LaunchTrustedHolds == Spec => LaunchTrusted
<1>1. IInv /\ [Next]_vars =>
        [kernel'.nonce # kernel.nonce =>
            /\ dataset.transport.pending = kernel'.nonce
            /\ dataset.digest = kernel'.source
            /\ anchor = kernel'.source]_vars
  <2> SUFFICES ASSUME IInv, Next, kernel'.nonce # kernel.nonce
               PROVE  /\ dataset.transport.pending = kernel'.nonce
                      /\ dataset.digest = kernel'.source /\ anchor = kernel'.source
    OBVIOUS
  <2>1. CASE Push \/ PushRaises
    <3>1. pc = "push" /\ kernel' = Launched
      BY <2>1 DEF Push, PushRaises
    <3>2. source = dataset /\ dataset.digest = anchor
      BY <3>1 DEF IInv, Heartbeat, AtPush
    <3>3. Launched.nonce = source.transport.pending /\ Launched.source = source.digest
      BY DEF Launched, NoRun
    <3> QED
      BY <3>1, <3>2, <3>3
  <2>2. CASE RunStep
    <3>1. kernel \in Runs
      BY DEF IInv, Remote
    <3> QED
      BY <2>2, <3>1 DEF RunStep, RunStarts, RunSleeps, RunThinks, RunFails, Runs
  <2>3. CASE UNCHANGED kernel
    BY <2>3
  <2> QED
    BY <2>1, <2>2, <2>3
       DEF Next, HeartbeatStep, FaultStep, OperatorReset, PendingAges, StartHeartbeat, LoadState, Published,
           NothingPending, StillActive, RunFailed, AcceptOutput, RejectOutput, StatusUnknown, Advance, Reject,
           StaysAsleep, PrepareLaunch, PersistWitness, PublishRaises, AdvanceRaises, Crash, Unless, external
<1> QED
  BY <1>1, InductiveInvariant, PTL DEF Spec, LaunchTrusted

\* The witness is one chain of single generations, whatever is lost and
\* wherever a heartbeat dies, also when advancing it raises after its write.
THEOREM WitnessChainHolds == Spec => WitnessChain
<1>1. IInv /\ [Next]_vars =>
        [artifacts' # artifacts =>
            /\ Len(artifacts') = Len(artifacts) + 1
            /\ archives'[Last(artifacts')].parent = Witness
            /\ archives'[Last(artifacts')].counter = Counter(Witness) + 1]_vars
  <2> SUFFICES ASSUME IInv, Next, artifacts' # artifacts
               PROVE  /\ Len(artifacts') = Len(artifacts) + 1
                      /\ archives'[Last(artifacts')].parent = Witness
                      /\ archives'[Last(artifacts')].counter = Counter(Witness) + 1
    OBVIOUS
  <2>1. PersistWitness
    BY DEF Next, HeartbeatStep, RunStep, FaultStep, OperatorReset, PendingAges, StartHeartbeat, LoadState, Published,
           NothingPending, StillActive, RunFailed, AcceptOutput, RejectOutput, StatusUnknown, Advance, Reject,
           StaysAsleep, PrepareLaunch, Push, PushRaises, PublishRaises, AdvanceRaises, Crash, Unless, RunStarts,
           RunSleeps, RunThinks, RunFails
  <2>2. anchor # Witness /\ artifacts' = Append(artifacts, anchor) /\ archives' = archives
    BY <2>1 DEF PersistWitness, external
  <2>3. artifacts \in Seq(Digests) /\ anchor \in Digests /\ ChildOf(anchor, Witness)
    BY <2>2 DEF IInv, Durable, Follows
  <2>4. Len(artifacts') = Len(artifacts) + 1 /\ Last(artifacts') = anchor
    BY <2>2, <2>3 DEF Last
  <2> QED
    BY <2>2, <2>3, <2>4 DEF ChildOf, Counter
<1> QED
  BY <1>1, InductiveInvariant, PTL DEF Spec, WitnessChain

-----------------------------------------------------------------------------
(* The dataset and the witness, if advancing the witness raises only       *)
(* before its write.                                                       *)

Near ==
    /\ (pc \notin {"idle", "load", "persist"} => source.digest = anchor)
    /\ (pc = "publish" => job.version.digest = anchor \/ Accepting)
    /\ (anchor # Witness => dataset.digest = anchor)
    /\ Follows(dataset.digest, Witness)
    /\ (pc = "idle" => anchor = Witness)
    /\ (faults = 0 => dataset.digest = anchor \/ pc = "advance")

\* A step that leaves the archives and the witness artifacts alone.
LEMMA NearKept ==
    ASSUME Near, UNCHANGED <<archives, dataset, artifacts, anchor, faults>>,
           pc' \notin {"idle", "publish"}, pc # "advance",
           pc' \in {"load", "persist"} \/ source'.digest = anchor
    PROVE  Near'
  BY DEF Near, Follows, ChildOf, Counter, Witness

LEMMA NearPublishes ==
    ASSUME Near, UNCHANGED <<archives, dataset, artifacts, anchor>>, faults' \in Nat,
           pc \notin {"idle", "load", "persist", "advance"}, faults' = 0 => faults = 0,
           pc' = "publish", source'.digest = anchor, job'.version.digest = anchor \/ Accepting'
    PROVE  Near'
  BY DEF Near, Follows, ChildOf, Counter, Witness

\* A heartbeat that exits.
LEMMA NearExits ==
    ASSUME Near, Exit, UNCHANGED <<archives, dataset, artifacts, anchor>>, pc # "advance",
           faults' = 0 => faults = 0
    PROVE  Near'
  BY DEF Near, Exit, Follows, ChildOf, Counter, Witness

LEMMA NearDecides ==
    ASSUME IInv, Near,
           OperatorReset \/ NothingPending \/ StillActive \/ RunFailed \/ AcceptOutput
           \/ RejectOutput \/ StatusUnknown
    PROVE  Near'
<1>1. /\ pc = "decide" /\ UNCHANGED <<archives, dataset, artifacts, anchor>>
      /\ faults' \in Nat /\ (faults' = 0 => faults = 0)
  BY WakeAssumption
     DEF OperatorReset, NothingPending, StillActive, RunFailed, AcceptOutput, RejectOutput, StatusUnknown,
         Pending, Unless, external, counts, Fault, IInv, Counts
<1>2. source.digest = anchor
  BY <1>1 DEF Near
<1>3. CASE Exit
  BY <1>1, <1>3, NearExits
<1>4. CASE PublishFailure
  <2>1. pc' = "publish" /\ source' = source /\ job'.version.digest = source.digest
    BY <1>4 DEF PublishFailure, Publish
  <2> QED
    BY <1>1, <1>2, <2>1, NearPublishes
<1>5. CASE NothingPending
  BY <1>1, <1>2, <1>5, NearKept DEF NothingPending, counts
<1>6. CASE OperatorReset /\ ~Exit
  <2>1. pc' = "publish" /\ source' = source /\ job'.version.digest = source.digest
    BY <1>6 DEF OperatorReset, PublishCleared
  <2> QED
    BY <1>1, <1>2, <2>1, NearPublishes
<1>7. CASE AcceptOutput
  <2>1. Heartbeat' /\ pc' = "publish" /\ source' = source /\ job'.then = "advance"
    BY <1>7, Decides DEF IInv, AcceptOutput, PublishCleared
  <2>2. Accepting'
    BY <2>1 DEF Heartbeat, AtPublish, Closing, Recording
  <2> QED
    BY <1>1, <1>2, <2>1, <2>2, NearPublishes
<1> QED
  BY <1>3, <1>4, <1>5, <1>6, <1>7 DEF StillActive, RunFailed, RejectOutput, StatusUnknown

LEMMA NearPublished ==
    ASSUME IInv, Near, Published \/ PublishRaises
    PROVE  Near'
<1>1. /\ pc = "publish" /\ UNCHANGED <<archives, artifacts, anchor>>
      /\ dataset' \in {dataset, job.version} /\ source.digest = anchor
      /\ Follows(dataset.digest, Witness)
  BY DEF Near, Published, PublishRaises, external
<1>2. Published => dataset' = job.version /\ faults' = faults
  BY DEF Published
<1>3. PublishRaises => faults' # 0
  BY WakeAssumption DEF PublishRaises, Fault, IInv, Counts
<1>4. Closing \/ Recording \/ Accepting
  BY <1>1 DEF IInv, Heartbeat, AtPublish
<1>5. CASE Accepting
  <2>1. anchor = Witness /\ Follows(job.version.digest, Witness)
    BY <1>5 DEF Accepting
  <2>2. (Published => pc' = "advance") /\ (PublishRaises => pc' = "reject") /\ source' = source
    BY <1>5 DEF Accepting, Published, PublishRaises, GoOn
  <2> QED
    BY <1>1, <1>2, <1>3, <2>1, <2>2 DEF Near, Follows, ChildOf, Counter, Witness
<1>6. CASE ~Accepting
  <2>1. job.version.digest = anchor /\ Follows(anchor, Witness)
    BY <1>1, <1>6 DEF Near, IInv, Durable
  <2>2. pc' \in {"persist", "push"} /\ (pc' = "push" => source' = source)
    BY <1>4, <1>6 DEF Closing, Recording, Published, PublishRaises, GoOn, Exit
  <2>3. (anchor # Witness => dataset.digest = anchor) /\ (Published => dataset'.digest = anchor)
    BY <1>2, <2>1 DEF Near
  <2> QED
    BY <1>1, <1>2, <1>3, <2>1, <2>2, <2>3 DEF Near, Follows, ChildOf, Counter, Witness
<1> QED
  BY <1>5, <1>6

LEMMA NearNext ==
    ASSUME "after" \notin AnchorFaults, IInv, Near, [Next]_vars
    PROVE  Near'
<1>1. CASE StartHeartbeat
  BY <1>1 DEF StartHeartbeat, Restored, external, counts, Near, Follows, ChildOf, Counter, Witness
<1>2. CASE LoadState
  <2>1. UNCHANGED <<archives, dataset, artifacts, anchor, faults>> /\ pc = "load"
    BY <1>2 DEF LoadState, external, counts
  <2>2. CASE Exit
    BY <2>1, <2>2, NearExits
  <2>3. CASE pc' = "decide" /\ source' = dataset /\ dataset.digest = anchor
    BY <2>1, <2>3, NearKept
  <2> QED
    BY <1>2, <2>2, <2>3 DEF LoadState, Verified
<1>3. CASE Advance
  <2>1. /\ pc = "advance" /\ pc' = "launch" /\ anchor' = job.version.digest /\ source' = job.version
        /\ UNCHANGED <<archives, dataset, artifacts, faults>>
    BY <1>3 DEF Advance, external, counts
  <2>2. job.version = dataset
    BY <2>1 DEF IInv, Heartbeat, AtAdvance
  <2> QED
    BY <2>1, <2>2 DEF Near, Follows, ChildOf, Counter, Witness
<1>4. CASE AdvanceRaises
  <2>1. /\ pc = "advance" /\ pc' = "reject" /\ anchor' = anchor /\ source' = source
        /\ UNCHANGED <<archives, dataset, artifacts>> /\ faults' # 0
    BY <1>4, WakeAssumption DEF AdvanceRaises, external, Fault, IInv, Counts
  <2> QED
    BY <2>1 DEF Near, Follows, ChildOf, Counter, Witness
<1>5. CASE Reject
  <2>1. /\ pc = "reject" /\ pc' = "publish" /\ source' = source /\ job'.version.digest = source.digest
        /\ UNCHANGED <<archives, dataset, artifacts, anchor, faults>> /\ faults \in Nat
    BY <1>5, WakeAssumption DEF Reject, PublishFailure, Publish, Unless, external, counts, IInv, Counts
  <2> QED
    BY <2>1, NearPublishes DEF Near
<1>6. CASE StaysAsleep
  <2>1. pc = "launch" /\ Exit /\ UNCHANGED <<archives, dataset, artifacts, anchor, faults>>
    BY <1>6 DEF StaysAsleep, Unless, external, counts
  <2> QED
    BY <2>1, NearExits
<1>7. CASE PrepareLaunch
  <2>1. /\ pc = "launch" /\ pc' = "publish" /\ job'.version.digest = source.digest
        /\ UNCHANGED <<archives, dataset, artifacts, anchor, faults>> /\ faults \in Nat
    BY <1>7, WakeAssumption DEF PrepareLaunch, Publish, Unless, external, IInv, Counts
  <2>2. source'.digest = source.digest
    BY <1>7, VersionFields DEF PrepareLaunch, Versions, IInv, Heartbeat
  <2> QED
    BY <2>1, <2>2, NearPublishes DEF Near
<1>8. CASE Push
  <2>1. pc = "push" /\ Exit /\ UNCHANGED <<archives, dataset, artifacts, anchor, faults>>
    BY <1>8 DEF Push
  <2> QED
    BY <2>1, NearExits
<1>9. CASE PushRaises
  <2>1. /\ pc = "push" /\ pc' = "publish" /\ source' = source /\ job'.version.digest = source.digest
        /\ UNCHANGED <<archives, dataset, artifacts, anchor>> /\ faults' \in Nat /\ faults' # 0
    BY <1>9, WakeAssumption DEF PushRaises, PublishFailure, Publish, Fault, IInv, Counts
  <2> QED
    BY <2>1, NearPublishes DEF Near
<1>10. CASE PersistWitness
  <2>1. /\ pc = "persist" /\ pc' = "idle" /\ UNCHANGED <<archives, dataset, anchor, faults>>
        /\ artifacts' = IF anchor = Witness THEN artifacts ELSE Append(artifacts, anchor)
    BY <1>10 DEF PersistWitness, external, counts
  <2>2. artifacts \in Seq(Digests) /\ anchor \in Digests
    BY DEF IInv, Durable
  <2>3. Witness' = anchor
    BY <2>1, <2>2 DEF Witness, Last
  <2> QED
    BY <2>1, <2>3 DEF Near, Follows, ChildOf, Counter
<1>11. CASE Crash
  <2>1. /\ pc' = "idle" /\ anchor' = Witness /\ faults' # 0
        /\ UNCHANGED <<archives, dataset, artifacts>>
    BY <1>11, WakeAssumption DEF Crash, Fault, external, IInv, Counts
  <2> QED
    BY <2>1 DEF Near, Follows, ChildOf, Counter, Witness
<1>12. CASE RunStep \/ PendingAges \/ UNCHANGED vars
  <2>1. UNCHANGED <<dataset, artifacts, pc, anchor, source, job, attempts, faults>>
    BY <1>12 DEF RunStep, RunStarts, RunSleeps, RunThinks, RunFails, PendingAges, heartbeat, counts, vars
  <2>2. /\ archives \in Seq([counter : Nat, parent : Nat]) /\ dataset.digest \in Digests /\ Witness \in Digests
    BY WitnessKnown DEF IInv, Durable, ArchivesOK
  <2>3. \A d \in Digests : archives'[d] = archives[d]
    <3>1. CASE RunThinks
      <4>1. PICK made : archives' = Append(archives, made)
        BY <3>1 DEF RunThinks
      <4> QED
        BY <2>2, <4>1 DEF Digests
    <3>2. CASE UNCHANGED archives
      BY <3>2
    <3> QED
      BY <1>12, <3>1, <3>2 DEF RunStep, RunStarts, RunSleeps, RunFails, PendingAges, vars
  <2>4. Follows(dataset.digest, Witness)' /\ Witness' = Witness
    BY <2>1, <2>2, <2>3 DEF Near, Follows, ChildOf, Counter, Witness
  <2>5. IInv'
    BY NextIInv
  <2>6. pc = "publish" => (job.version.digest = anchor \/ Accepting)'
    <3>1. pc = "publish" /\ Accepting => Accepting'
      BY <2>1, <2>5 DEF IInv, Heartbeat, AtPublish, Accepting, Closing, Recording
    <3> QED
      BY <2>1, <3>1 DEF Near
  <2> QED
    BY <2>1, <2>4, <2>6 DEF Near
<1> QED
  BY <1>1, <1>2, <1>3, <1>4, <1>5, <1>6, <1>7, <1>8, <1>9, <1>10, <1>11, <1>12, NearDecides, NearPublished
     DEF Next, HeartbeatStep, FaultStep

\* The published archive is never behind the trusted one and at most one
\* generation ahead, and without a fault it is the trusted one whenever no
\* heartbeat runs.  The assumption is needed: a heartbeat whose witness was
\* written although advancing it raised publishes the old archive again.
THEOREM DatasetNotBehindHolds ==
    ASSUME "after" \notin AnchorFaults
    PROVE  Spec => []DatasetNotBehind
<1>1. Init => Near
  BY DEF Init, Near, Witness, Last, Follows
<1>2. IInv /\ Near /\ [Next]_vars => Near'
  BY NearNext
<1>3. Near => DatasetNotBehind
  BY DEF Near, DatasetNotBehind, Follows
<1> QED
  BY <1>1, <1>2, <1>3, InductiveInvariant, PTL DEF Spec

=============================================================================
