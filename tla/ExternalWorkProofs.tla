-------------------------- MODULE ExternalWorkProofs --------------------------
(***************************************************************************)
(* Theorems about ExternalWork for every value of its constants.           *)
(***************************************************************************)
EXTENDS ExternalWork, TLAPS

-----------------------------------------------------------------------------
(* The inductive invariant.                                                *)

\* Mutually consistent rows of one database, and what the remote side made
\* of each item.
Rows(d, r) ==
    /\ \A w \in Items :
          /\ d.work[w] = "realized" => d.payer[w] # NoEvent
          /\ d.payer[w] # NoEvent =>
                r[w] = "accepted" /\ d.work[w] \notin {"none", "planned", "staged"}
          /\ d.work[w] \in {"submitted", "accepted", "rejected", "realized"} => r[w] # "none"
          /\ d.work[w] = "accepted" => d.submission[w] = "accepted" \/ d.payer[w] # NoEvent
          /\ d.work[w] = "rejected" => r[w] = "rejected"
          /\ d.submission[w] # "none" => r[w] # "none"
          /\ d.submission[w] \in {"accepted", "rejected"} => r[w] = d.submission[w]
          /\ d.intent[w] # "none" \/ d.submission[w] # "none" => d.work[w] # "none"
    /\ \A e \in Events : d.ingress[e].item \in Items => d.work[d.ingress[e].item] # "none"

\* An event that paid is booked once, signed and realized for its item.
Backed ==
    /\ \A e \in Events : db.booked[e] <= 1
    /\ \A w \in Items : db.payer[w] # NoEvent =>
          /\ SignedFor[db.payer[w]] = w
          /\ db.booked[db.payer[w]] = 1
          /\ db.ingress[db.payer[w]].status = "realized"
          /\ db.ingress[db.payer[w]].item = w

\* Only a late update parts an item that was paid from "realized".
Reopened ==
    \A w \in Items :
        /\ w \in reopened => db.payer[w] # NoEvent /\ db.work[w] # "realized"
        /\ db.payer[w] # NoEvent /\ w \notin reopened => db.work[w] = "realized"

\* What a status command read stays true enough for its update.
Checked ==
    \A w \in checked \cap Items :
        /\ remote[w] # "none" /\ db.work[w] # "none"
        /\ copy # NoCopy => copy.work[w] # "none"

MayResend(w) == sends[w] = 0 \/ w \in absent

\* What may still be sent was not sent, or is known not to have arrived.
Sendable ==
    \A w \in Items :
        db.payer[w] = NoEvent /\ db.intent[w] \in {"none", "prepared"} => MayResend(w)

\* What a cycle learnt of the outside is only added to.
Forward(old, new) ==
    \A w \in Items :
        /\ old.work[w] # "none" => new.work[w] # "none"
        /\ old.payer[w] # NoEvent => new.payer[w] # NoEvent
        /\ old.submission[w] # "none" => new.submission[w] # "none"
        /\ old.submission[w] \in {"accepted", "rejected"} => new.submission[w] = old.submission[w]

\* The copy can be restored at any moment.
Undo == copy # NoCopy => Rows(copy, remote) /\ Forward(copy, db) /\ KeysSatisfied(db, copy)

Data == Rows(db, remote) /\ Backed /\ Reopened /\ Checked /\ Sendable /\ Undo

Capability == Submitting \cup Reading \cup Recording \cup Crediting

AtCycle ==
    pc = "cycle" =>
        \A w \in Items : copy.work[w] = "none" => db.work[w] \in {"none", "planned", "abandoned"}

AtCapability == pc \in Capability /\ op.item \in Items => copy.work[op.item] # "none"

AtSubmit ==
    /\ (pc \in {"prepared", "calling"} => db.submission[op.item] = "none" /\ MayResend(op.item))
    /\ (pc = "prepared" => db.intent[op.item] = "prepared")
    /\ (pc = "calling" => db.intent[op.item] \in Ambiguous)

AtNotFound == pc = "notfound" => op.item \in absent

AtRecording ==
    /\ (pc \in Recording =>
            /\ remote[op.item] # "none"
            /\ op.answer \in {"accepted", "rejected"} => remote[op.item] = op.answer
            /\ db.submission[op.item] \in {"accepted", "rejected"} => op.answer = db.submission[op.item])
    /\ (pc = "record" => op.answer # "submitted")
    /\ (pc = "outcome" => op.answer \in {"accepted", "rejected"} /\ db.submission[op.item] = op.answer)

AtCrediting ==
    /\ (pc \in Crediting => SignedFor[op.event] = op.item)
    /\ (pc \in {"book", "mark", "link"} =>
            db.ingress[op.event].status # "unseen" /\ db.ingress[op.event].item = op.item)
    /\ (pc \in {"mark", "link"} => db.booked[op.event] = 1)
    /\ (pc = "link" => db.ingress[op.event].status = "realized")

Process == AtCycle /\ AtCapability /\ AtSubmit /\ AtNotFound /\ AtRecording /\ AtCrediting

IInv == TypeOK /\ Data /\ Process

-----------------------------------------------------------------------------
(* What each operation does to the tables.                                 *)

LEMMA Tables ==
    ASSUME NEW d \in Databases
    PROVE  /\ d.work \in [Items -> WorkStatuses] /\ d.payer \in [Items -> Events \cup {NoEvent}]
           /\ d.intent \in [Items -> IntentStatuses] /\ d.submission \in [Items -> RemoteStatuses]
           /\ d.ingress \in [Events -> IngressRows] /\ d.booked \in [Events -> Nat]
  BY DEF Databases

Same(d, e, tables) ==
    /\ "work" \in tables => e.work = d.work
    /\ "payer" \in tables => e.payer = d.payer
    /\ "intent" \in tables => e.intent = d.intent
    /\ "submission" \in tables => e.submission = d.submission
    /\ "ingress" \in tables => e.ingress = d.ingress
    /\ "booked" \in tables => e.booked = d.booked

LEMMA SetWorkTables ==
    ASSUME NEW d \in Databases, NEW w \in Items, NEW s \in WorkStatuses
    PROVE  /\ SetWork(d, w, s) \in Databases
           /\ SetWork(d, w, s).work = [d.work EXCEPT ![w] = s]
           /\ Same(d, SetWork(d, w, s), {"payer", "intent", "submission", "ingress", "booked"})
  BY DEF SetWork, Databases, Same

LEMMA SetIntentTables ==
    ASSUME NEW d \in Databases, NEW w \in Items, NEW s \in IntentStatuses
    PROVE  /\ SetIntent(d, w, s) \in Databases
           /\ SetIntent(d, w, s).intent = [d.intent EXCEPT ![w] = s]
           /\ Same(d, SetIntent(d, w, s), {"work", "payer", "submission", "ingress", "booked"})
  BY DEF SetIntent, Databases, Same

LEMMA SetSubmissionTables ==
    ASSUME NEW d \in Databases, NEW w \in Items, NEW s \in RemoteStatuses
    PROVE  /\ SetSubmission(d, w, s) \in Databases
           /\ SetSubmission(d, w, s).submission = [d.submission EXCEPT ![w] = s]
           /\ Same(d, SetSubmission(d, w, s), {"work", "payer", "intent", "ingress", "booked"})
  BY DEF SetSubmission, Databases, Same

LEMMA FinalizeTables ==
    ASSUME NEW d \in Databases, NEW w \in Items, d.submission[w] = "none"
    PROVE  /\ FinalizeSubmission(d, w) \in Databases
           /\ FinalizeSubmission(d, w).submission = [d.submission EXCEPT ![w] = "submitted"]
           /\ FinalizeSubmission(d, w).intent = [d.intent EXCEPT ![w] = "submitted"]
           /\ Same(d, FinalizeSubmission(d, w), {"work", "payer", "ingress", "booked"})
  BY DEF FinalizeSubmission, Databases, IntentStatuses, RemoteStatuses, Same

LEMMA LinkTables ==
    ASSUME NEW d \in Databases, NEW w \in Items, NEW e \in Events
    PROVE  /\ LinkResource(d, w, e) \in Databases
           /\ LinkResource(d, w, e).work = [d.work EXCEPT ![w] = "realized"]
           /\ LinkResource(d, w, e).payer = [d.payer EXCEPT ![w] = e]
           /\ Same(d, LinkResource(d, w, e), {"intent", "submission", "ingress", "booked"})
  BY DEF LinkResource, Databases, WorkStatuses, Same

LEMMA ReserveTables ==
    ASSUME NEW d \in Databases, NEW e \in Events, NEW w \in Items \cup {NoItem}
    PROVE  /\ Reserve(d, e, w) \in Databases
           /\ Same(d, Reserve(d, e, w), {"work", "payer", "intent", "submission", "booked"})
           /\ d.ingress[e].status # "unseen" => Reserve(d, e, w) = d
           /\ d.ingress[e].status = "unseen" =>
                 Reserve(d, e, w).ingress = [d.ingress EXCEPT ![e] = [status |-> "observed", item |-> w]]
  BY DEF Reserve, Databases, IngressRows, Same

LEMMA BookTables ==
    ASSUME NEW d \in Databases, NEW e \in Events
    PROVE  /\ Book(d, e) \in Databases
           /\ Same(d, Book(d, e), {"work", "payer", "intent", "submission", "ingress"})
           /\ d.booked[e] # 0 => Book(d, e) = d
           /\ d.booked[e] = 0 => Book(d, e).booked = [d.booked EXCEPT ![e] = 1]
  BY DEF Book, Databases, Same

LEMMA RealizedTables ==
    ASSUME NEW d \in Databases, NEW e \in Events
    PROVE  /\ MarkRealized(d, e) \in Databases
           /\ Same(d, MarkRealized(d, e), {"work", "payer", "intent", "submission", "booked"})
           /\ \A f \in Events : MarkRealized(d, e).ingress[f].item = d.ingress[f].item
           /\ \A f \in Events : MarkRealized(d, e).ingress[f].status =
                 IF f = e THEN "realized" ELSE d.ingress[f].status
  BY DEF MarkRealized, Databases, IngressRows, Same

LEMMA InterruptedTables ==
    ASSUME NEW d \in Databases
    PROVE  /\ RecoverInterruptedIntents(d) \in Databases
           /\ Same(d, RecoverInterruptedIntents(d), {"work", "payer", "submission", "ingress", "booked"})
           /\ \A w \in Items : RecoverInterruptedIntents(d).intent[w] =
                 IF d.intent[w] = "sending" THEN "indeterminate" ELSE d.intent[w]
  BY DEF RecoverInterruptedIntents, Databases, IntentStatuses, Same

LEMMA ProjectionTables ==
    ASSUME NEW d \in Databases
    PROVE  /\ ReconcileLocalProjection(d) \in Databases
           /\ Same(d, ReconcileLocalProjection(d), {"payer", "intent", "submission", "ingress", "booked"})
           /\ \A w \in Items : ReconcileLocalProjection(d).work[w] =
                 IF d.submission[w] \in ActiveSubmission /\ d.work[w] = "staged"
                 THEN "submitted" ELSE d.work[w]
  BY DEF ReconcileLocalProjection, Databases, WorkStatuses, Same

LEMMA RolledBackTables ==
    ASSUME NEW d \in Databases, NEW b \in Databases
    PROVE  /\ RolledBack(d, b) \in Databases
           /\ Same(d, RolledBack(d, b), {"ingress", "booked"})
           /\ \A w \in Items : d.payer[w] # NoEvent =>
                 /\ RolledBack(d, b).work[w] = d.work[w] /\ RolledBack(d, b).payer[w] = d.payer[w]
                 /\ RolledBack(d, b).intent[w] = "none" /\ RolledBack(d, b).submission[w] = "none"
           /\ \A w \in Items : d.payer[w] = NoEvent =>
                 /\ RolledBack(d, b).work[w] = b.work[w] /\ RolledBack(d, b).payer[w] = b.payer[w]
                 /\ RolledBack(d, b).intent[w] = IF d.intent[w] = "none" THEN b.intent[w] ELSE d.intent[w]
                 /\ RolledBack(d, b).submission[w] =
                       IF d.submission[w] = "none" THEN b.submission[w] ELSE d.submission[w]
<1>1. RolledBack(d, b) \in Databases
  BY Tables DEF RolledBack, Databases, Reinserted, IntentStatuses, RemoteStatuses
<1> QED
  BY <1>1 DEF RolledBack, Exported, Reinserted, Same

LEMMA NoCopyNoDatabase == NoCopy \notin Databases
  BY ExternalAssumption

-----------------------------------------------------------------------------
(* Steps on the rows.                                                      *)

\* The remote side forgets nothing and decides once.
Later(r, q) ==
    \A w \in Items :
        /\ r[w] # "none" => q[w] # "none"
        /\ r[w] \in {"accepted", "rejected"} => q[w] = r[w]

LEMMA RowsLater ==
    ASSUME NEW d, NEW r, NEW q, Rows(d, r), Later(r, q)
    PROVE  Rows(d, q)
  BY DEF Rows, Later

\* Nothing is stored; the world may have moved.
LEMMA DataKept ==
    ASSUME Data, UNCHANGED <<db, checked, reopened>>, copy' \in {copy, NoCopy},
           Later(remote, remote'),
           \A w \in Items : MayResend(w) /\ db.intent[w] \in {"none", "prepared"} => MayResend(w)'
    PROVE  Data'
<1>1. Rows(db', remote')
  BY RowsLater DEF Data
<1>2. Backed' /\ Reopened'
  BY DEF Data, Backed, Reopened
<1>3. Checked'
  BY DEF Data, Checked, Later
<1>4. Sendable'
  BY DEF Data, Sendable
<1>5. Undo'
  BY RowsLater DEF Data, Undo
<1> QED
  BY <1>1, <1>2, <1>3, <1>4, <1>5 DEF Data

\* A work item that is not paid moves on.
LEMMA WorkStep ==
    ASSUME Data, db \in Databases, NEW w \in Items, NEW s \in WorkStatuses \ {"none", "realized"},
           db' = SetWork(db, w, s),
           UNCHANGED <<copy, remote, sends, absent, checked, reopened>>,
           db.work[w] # "realized", s \in {"planned", "staged"} => db.payer[w] = NoEvent,
           s \in {"submitted", "accepted", "rejected"} => remote[w] # "none",
           s = "accepted" => db.submission[w] = "accepted",
           s = "rejected" => remote[w] = "rejected"
    PROVE  /\ Data' /\ db' \in Databases
           /\ db'.work = [db.work EXCEPT ![w] = s] /\ db'.payer = db.payer /\ db'.intent = db.intent
           /\ db'.submission = db.submission /\ db'.ingress = db.ingress /\ db'.booked = db.booked
<1>1. /\ db' \in Databases /\ db'.work = [db.work EXCEPT ![w] = s]
      /\ db'.payer = db.payer /\ db'.intent = db.intent /\ db'.submission = db.submission
      /\ db'.ingress = db.ingress /\ db'.booked = db.booked /\ db.work \in [Items -> WorkStatuses]
  BY SetWorkTables, Tables DEF Same
<1>2. Rows(db', remote')
  BY <1>1 DEF Data, Rows
<1>3. Backed' /\ Sendable'
  BY <1>1 DEF Data, Backed, Sendable, MayResend
<1>4. Undo'
  BY <1>1 DEF Data, Undo, Forward, KeysSatisfied
<1>5. Reopened' /\ Checked'
  BY <1>1 DEF Data, Reopened, Checked
<1> QED
  BY <1>1, <1>2, <1>3, <1>4, <1>5 DEF Data

\* An intent of an item the copy knows.
LEMMA IntentStep ==
    ASSUME Data, db \in Databases, NEW w \in Items, NEW s \in IntentStatuses \ {"none"},
           db' = SetIntent(db, w, s),
           UNCHANGED <<copy, remote, sends, absent, checked, reopened>>,
           db.work[w] # "none", copy # NoCopy => copy.work[w] # "none",
           s = "prepared" => MayResend(w)
    PROVE  /\ Data' /\ db' \in Databases
           /\ db'.intent = [db.intent EXCEPT ![w] = s] /\ db'.work = db.work /\ db'.payer = db.payer
           /\ db'.submission = db.submission /\ db'.ingress = db.ingress /\ db'.booked = db.booked
<1>1. /\ db' \in Databases /\ db'.intent = [db.intent EXCEPT ![w] = s]
      /\ db'.payer = db.payer /\ db'.work = db.work /\ db'.submission = db.submission
      /\ db'.ingress = db.ingress /\ db'.booked = db.booked /\ db.intent \in [Items -> IntentStatuses]
  BY SetIntentTables, Tables DEF Same
<1>2. Rows(db', remote')
  BY <1>1 DEF Data, Rows
<1>3. Backed' /\ Reopened' /\ Checked'
  BY <1>1 DEF Data, Backed, Reopened, Checked
<1>4. Sendable'
  BY <1>1 DEF Data, Sendable, MayResend
<1>5. Undo'
  BY <1>1 DEF Data, Undo, Forward, KeysSatisfied
<1> QED
  BY <1>1, <1>2, <1>3, <1>4, <1>5 DEF Data

\* An ambiguous intent is marked indeterminate, another one is left alone.
LEMMA IndeterminateStep ==
    ASSUME Data, db \in Databases, NEW w \in Items,
           db' = MarkIndeterminate(db, w),
           UNCHANGED <<copy, remote, sends, absent, checked, reopened>>
    PROVE  /\ Data' /\ db' \in Databases
           /\ db'.work = db.work /\ db'.payer = db.payer /\ db'.submission = db.submission
           /\ db'.ingress = db.ingress /\ db'.booked = db.booked
           /\ \A v \in Items : db.intent[v] \in Ambiguous => db'.intent[v] \in Ambiguous
           /\ \A v \in Items : db.intent[v] = "prepared" => db'.intent[v] = "prepared"
<1>1. CASE db.intent[w] \in Ambiguous
  <2>1. db' = SetIntent(db, w, "indeterminate")
    BY <1>1 DEF MarkIndeterminate
  <2>2. db.work[w] # "none" /\ (copy # NoCopy => copy.work[w] # "none")
    BY <1>1 DEF Ambiguous, Data, Rows, Undo, KeysSatisfied
  <2>3. Data' /\ db' \in Databases
    BY <2>1, <2>2, IntentStep DEF IntentStatuses
  <2>4. "indeterminate" \in IntentStatuses /\ db.intent \in [Items -> IntentStatuses]
    BY Tables DEF IntentStatuses
  <2> DEFINE marked == SetIntent(db, w, "indeterminate")
  <2>5. /\ marked.intent = [db.intent EXCEPT ![w] = "indeterminate"]
        /\ marked.work = db.work /\ marked.payer = db.payer /\ marked.submission = db.submission
        /\ marked.ingress = db.ingress /\ marked.booked = db.booked
    BY <2>4, SetIntentTables DEF Same
  <2> HIDE DEF marked
  <2>6. db' = marked
    BY <2>1 DEF marked
  <2> QED
    BY <1>1, <2>3, <2>4, <2>5, <2>6 DEF Ambiguous
<1>2. CASE db.intent[w] \notin Ambiguous
  <2>1. db' = db
    BY <1>2 DEF MarkIndeterminate
  <2>2. Data'
    BY <2>1, DataKept DEF Later, MayResend
  <2> QED
    BY <2>1, <2>2
<1> QED
  BY <1>1, <1>2

LEMMA FinalizeStep ==
    ASSUME Data, db \in Databases, NEW w \in Items, MayFinalize(db, w),
           db' = FinalizeSubmission(db, w),
           UNCHANGED <<copy, remote, sends, absent, checked, reopened>>,
           remote[w] # "none"
    PROVE  /\ Data' /\ db' \in Databases
           /\ db'.work = db.work /\ db'.payer = db.payer /\ db'.ingress = db.ingress /\ db'.booked = db.booked
           /\ db'.submission = IF db.submission[w] = "none"
                                THEN [db.submission EXCEPT ![w] = "submitted"] ELSE db.submission
<1>1. CASE db.submission[w] # "none"
  <2>1. db' = db
    BY <1>1 DEF FinalizeSubmission
  <2> QED
    BY <1>1, <2>1, DataKept DEF Later, MayResend
<1>2. CASE db.submission[w] = "none"
  <2>1. /\ db' \in Databases /\ db'.intent = [db.intent EXCEPT ![w] = "submitted"]
        /\ db'.submission = [db.submission EXCEPT ![w] = "submitted"]
        /\ db'.payer = db.payer /\ db'.work = db.work /\ db'.ingress = db.ingress /\ db'.booked = db.booked
        /\ db.intent \in [Items -> IntentStatuses] /\ db.submission \in [Items -> RemoteStatuses]
    BY <1>2, FinalizeTables, Tables DEF Same
  <2>2. db.intent[w] # "none"
    BY <1>2 DEF MayFinalize, Ambiguous
  <2>3. Rows(db', remote')
    BY <1>2, <2>1, <2>2 DEF Data, Rows
  <2>4. Backed' /\ Reopened' /\ Checked' /\ Sendable'
    BY <2>1 DEF Data, Backed, Reopened, Checked, Sendable, MayResend
  <2>5. Undo'
    BY <1>2, <2>1, <2>2 DEF Data, Undo, Forward, KeysSatisfied
  <2> QED
    BY <1>2, <2>1, <2>3, <2>4, <2>5 DEF Data
<1> QED
  BY <1>1, <1>2

LEMMA OutcomeStep ==
    ASSUME Data, db \in Databases, NEW w \in Items, NEW s \in RemoteStatuses \ {"none"},
           db' = SetSubmission(db, w, s),
           UNCHANGED <<copy, remote, sends, absent, checked, reopened>>,
           db.submission[w] # "none",
           s \in {"accepted", "rejected"} => remote[w] = s,
           db.submission[w] \in {"accepted", "rejected"} => s = db.submission[w]
    PROVE  /\ Data' /\ db' \in Databases
           /\ db'.submission = [db.submission EXCEPT ![w] = s] /\ db'.work = db.work /\ db'.payer = db.payer
           /\ db'.intent = db.intent /\ db'.ingress = db.ingress /\ db'.booked = db.booked
<1>1. /\ db' \in Databases /\ db'.submission = [db.submission EXCEPT ![w] = s]
      /\ db'.payer = db.payer /\ db'.work = db.work /\ db'.intent = db.intent
      /\ db'.ingress = db.ingress /\ db'.booked = db.booked /\ db.submission \in [Items -> RemoteStatuses]
  BY SetSubmissionTables, Tables DEF Same
<1>2. Rows(db', remote')
  BY <1>1 DEF Data, Rows
<1>3. Backed' /\ Reopened' /\ Checked' /\ Sendable'
  BY <1>1 DEF Data, Backed, Reopened, Checked, Sendable, MayResend
<1>4. Undo'
  <2>1. copy # NoCopy => Forward(copy, db')
    BY <1>1 DEF Data, Undo, Forward
  <2> QED
    BY <1>1, <2>1 DEF Data, Undo, KeysSatisfied
<1> QED
  BY <1>1, <1>2, <1>3, <1>4 DEF Data

LEMMA ReserveStep ==
    ASSUME Data, db \in Databases, NEW e \in Events, NEW w \in Items \cup {NoItem},
           db' = Reserve(db, e, w),
           UNCHANGED <<copy, remote, sends, absent, checked, reopened>>,
           w \in Items => db.work[w] # "none" /\ (copy # NoCopy => copy.work[w] # "none")
    PROVE  /\ Data' /\ db' \in Databases
           /\ db'.work = db.work /\ db'.payer = db.payer /\ db'.intent = db.intent
           /\ db'.submission = db.submission /\ db'.booked = db.booked
           /\ MayReserve(db, e, w) => db'.ingress[e].status # "unseen" /\ db'.ingress[e].item = w
<1>1. CASE db.ingress[e].status # "unseen"
  <2>1. db' = db
    BY <1>1, ReserveTables
  <2> QED
    BY <1>1, <2>1, DataKept DEF Later, MayResend, MayReserve
<1>2. CASE db.ingress[e].status = "unseen"
  <2>1. /\ db' \in Databases /\ db'.ingress = [db.ingress EXCEPT ![e] = [status |-> "observed", item |-> w]]
        /\ db'.payer = db.payer /\ db'.work = db.work /\ db'.intent = db.intent
        /\ db'.submission = db.submission /\ db'.booked = db.booked /\ db.ingress \in [Events -> IngressRows]
        /\ db.payer \in [Items -> Events \cup {NoEvent}]
    BY <1>2, ReserveTables, Tables DEF Same
  <2>2. \A f \in Events : db'.ingress[f] =
           IF f = e THEN [status |-> "observed", item |-> w] ELSE db.ingress[f]
    BY <2>1
  <2>3. \A f \in Events : db'.ingress[f].item = IF f = e THEN w ELSE db.ingress[f].item
    BY <2>2
  <2>4. Rows(db', remote')
    BY <2>1, <2>3 DEF Data, Rows
  <2>5. \A v \in Items : db.payer[v] # NoEvent => db.payer[v] # e /\ db.payer[v] \in Events
    BY <1>2, <2>1 DEF Data, Backed
  <2>6. Backed'
    BY <2>1, <2>2, <2>5 DEF Data, Backed
  <2>7. Sendable' /\ Reopened' /\ Checked' /\ Undo'
    BY <2>1, <2>3 DEF Data, Sendable, MayResend, Reopened, Checked, Undo, Forward, KeysSatisfied
  <2> QED
    BY <2>1, <2>4, <2>6, <2>7 DEF Data
<1> QED
  BY <1>1, <1>2

LEMMA BookStep ==
    ASSUME Data, db \in Databases, NEW e \in Events,
           db' = Book(db, e), UNCHANGED <<copy, remote, sends, absent, checked, reopened>>
    PROVE  /\ Data' /\ db' \in Databases /\ db'.booked[e] = 1
           /\ db'.work = db.work /\ db'.payer = db.payer /\ db'.intent = db.intent
           /\ db'.submission = db.submission /\ db'.ingress = db.ingress
           /\ db'.booked = db.booked \/ db'.booked = [db.booked EXCEPT ![e] = 1]
<1>1. db.booked \in [Events -> Nat] /\ db.booked[e] <= 1 /\ db.payer \in [Items -> Events \cup {NoEvent}]
  BY Tables DEF Data, Backed
<1>2. CASE db.booked[e] # 0
  <2>1. db' = db
    BY <1>2, BookTables
  <2> QED
    BY <1>1, <1>2, <2>1, DataKept DEF Later, MayResend
<1>3. CASE db.booked[e] = 0
  <2>1. /\ db' \in Databases /\ db'.booked = [db.booked EXCEPT ![e] = 1]
        /\ db'.payer = db.payer /\ db'.work = db.work /\ db'.intent = db.intent
        /\ db'.submission = db.submission /\ db'.ingress = db.ingress
    BY <1>3, BookTables DEF Same
  <2>2. Rows(db', remote') /\ Reopened' /\ Checked' /\ Sendable' /\ Undo'
    BY <2>1 DEF Data, Rows, Reopened, Checked, Sendable, MayResend, Undo, Forward,
       KeysSatisfied
  <2>3. Backed'
    BY <1>1, <2>1 DEF Data, Backed
  <2> QED
    BY <1>1, <2>1, <2>2, <2>3 DEF Data
<1> QED
  BY <1>2, <1>3

LEMMA MarkStep ==
    ASSUME Data, db \in Databases, NEW e \in Events,
           db' = MarkRealized(db, e),
           UNCHANGED <<copy, remote, sends, absent, checked, reopened>>
    PROVE  /\ Data' /\ db' \in Databases
           /\ db'.work = db.work /\ db'.payer = db.payer /\ db'.intent = db.intent
           /\ db'.submission = db.submission /\ db'.booked = db.booked
           /\ \A f \in Events : db'.ingress[f].item = db.ingress[f].item
           /\ db'.ingress[e].status = "realized"
<1>1. /\ db' \in Databases
      /\ db'.payer = db.payer /\ db'.work = db.work /\ db'.intent = db.intent
      /\ db'.submission = db.submission /\ db'.booked = db.booked
      /\ db.payer \in [Items -> Events \cup {NoEvent}]
  BY RealizedTables, Tables DEF Same
<1>2. \A f \in Events :
         /\ db'.ingress[f].item = db.ingress[f].item
         /\ db'.ingress[f].status = IF f = e THEN "realized" ELSE db.ingress[f].status
  BY RealizedTables
<1>3. Rows(db', remote')
  BY <1>1, <1>2 DEF Data, Rows
<1>4. Backed'
  BY <1>1, <1>2 DEF Data, Backed
<1>5. Reopened' /\ Checked' /\ Sendable' /\ Undo'
  BY <1>1, <1>2 DEF Data, Reopened, Checked, Sendable, MayResend, Undo, Forward, KeysSatisfied
<1> QED
  BY <1>1, <1>2, <1>3, <1>4, <1>5 DEF Data

LEMMA LinkStep ==
    ASSUME Data, db \in Databases, NEW w \in Items, NEW e \in Events,
           db' = LinkResource(db, w, e), reopened' = reopened \ {w},
           UNCHANGED <<copy, remote, sends, absent, checked>>,
           db.work[w] = "accepted", SignedFor[e] = w, db.booked[e] = 1,
           db.ingress[e].status = "realized", db.ingress[e].item = w
    PROVE  /\ Data' /\ db' \in Databases
           /\ db'.work = [db.work EXCEPT ![w] = "realized"] /\ db'.payer = [db.payer EXCEPT ![w] = e]
           /\ db'.intent = db.intent /\ db'.submission = db.submission
           /\ db'.ingress = db.ingress /\ db'.booked = db.booked
<1>1. /\ db' \in Databases /\ db'.work = [db.work EXCEPT ![w] = "realized"]
      /\ db'.payer = [db.payer EXCEPT ![w] = e] /\ db'.intent = db.intent
      /\ db'.submission = db.submission /\ db'.ingress = db.ingress /\ db'.booked = db.booked
      /\ db.work \in [Items -> WorkStatuses] /\ db.payer \in [Items -> Events \cup {NoEvent}]
  BY LinkTables, Tables DEF Same
<1>2. e # NoEvent /\ remote[w] = "accepted"
  BY WorkAssumption DEF Data, Rows
<1>3. Rows(db', remote')
  BY <1>1, <1>2 DEF Data, Rows
<1>4. Backed' /\ Sendable'
  BY <1>1, <1>2 DEF Data, Backed, Sendable, MayResend
<1>5. Undo'
  BY <1>1, <1>2 DEF Data, Undo, Forward, KeysSatisfied
<1>6. Reopened' /\ Checked'
  BY <1>1, <1>2 DEF Data, Reopened, Checked
<1> QED
  BY <1>1, <1>3, <1>4, <1>5, <1>6 DEF Data

\* A late status update of an item found staged: its row is there, and so is
\* the submission on the remote side.
LEMMA UpdateStep ==
    ASSUME Data, db \in Databases, NEW w \in Items, w \in checked,
           db' = UpdateSubmitted(db, w),
           reopened' = IF db.work[w] = "realized" THEN reopened \cup {w} ELSE reopened,
           UNCHANGED <<copy, remote, sends, absent, checked>>
    PROVE  /\ Data' /\ db' \in Databases
           /\ db'.work = [db.work EXCEPT ![w] = "submitted"] /\ db'.payer = db.payer
           /\ db'.intent = db.intent /\ db'.submission = db.submission
           /\ db'.ingress = db.ingress /\ db'.booked = db.booked
<1>1. /\ db' \in Databases /\ db'.work = [db.work EXCEPT ![w] = "submitted"]
      /\ db'.payer = db.payer /\ db'.intent = db.intent /\ db'.submission = db.submission
      /\ db'.ingress = db.ingress /\ db'.booked = db.booked /\ db.work \in [Items -> WorkStatuses]
  <2>1. "submitted" \in WorkStatuses
    BY DEF WorkStatuses
  <2> DEFINE e == SetWork(db, w, "submitted")
  <2>2. /\ e \in Databases /\ e.work = [db.work EXCEPT ![w] = "submitted"]
        /\ Same(db, e, {"payer", "intent", "submission", "ingress", "booked"})
    BY <2>1, SetWorkTables
  <2> HIDE DEF e
  <2>3. db' = e
    BY DEF UpdateSubmitted, e
  <2> QED
    BY <2>2, <2>3, Tables DEF Same
<1>2. remote[w] # "none"
  BY DEF Data, Checked
<1>3. Rows(db', remote')
  BY <1>1, <1>2 DEF Data, Rows
<1>4. Backed' /\ Sendable'
  BY <1>1 DEF Data, Backed, Sendable, MayResend
<1>5. Reopened'
  BY <1>1 DEF Data, Rows, Reopened
<1>6. Checked'
  BY <1>1 DEF Data, Checked
<1>7. Undo'
  BY <1>1 DEF Data, Undo, Forward, KeysSatisfied
<1> QED
  BY <1>1, <1>3, <1>4, <1>5, <1>6, <1>7 DEF Data

LEMMA RollbackStep ==
    ASSUME Data, db \in Databases, copy \in Databases, copy # NoCopy,
           db' = RolledBack(db, copy), copy' = NoCopy,
           UNCHANGED <<remote, sends, absent, checked, reopened>>
    PROVE  Data' /\ db' \in Databases
<1>1. /\ db' \in Databases /\ db'.ingress = db.ingress /\ db'.booked = db.booked
      /\ db.payer \in [Items -> Events \cup {NoEvent}]
  BY RolledBackTables, Tables DEF Same
<1>2. \A w \in Items : db.payer[w] # NoEvent =>
         /\ db'.work[w] = db.work[w] /\ db'.payer[w] = db.payer[w]
         /\ db'.intent[w] = "none" /\ db'.submission[w] = "none"
  BY RolledBackTables
<1>3. \A w \in Items : db.payer[w] = NoEvent =>
         /\ db'.work[w] = copy.work[w] /\ db'.payer[w] = NoEvent /\ copy.payer[w] = NoEvent
         /\ db'.intent[w] = IF db.intent[w] = "none" THEN copy.intent[w] ELSE db.intent[w]
         /\ db'.submission[w] = db.submission[w] \/ db'.submission[w] = copy.submission[w]
         /\ db'.submission[w] = IF db.submission[w] = "none" THEN copy.submission[w] ELSE db.submission[w]
  BY RolledBackTables DEF Data, Undo, Forward
<1>4. Rows(db', remote')
  <2>1. \A w \in Items : db.payer[w] # NoEvent =>
           /\ remote[w] = "accepted" /\ db'.work[w] \notin {"none", "planned", "staged"}
           /\ db'.work[w] = "rejected" => remote[w] = "rejected"
    BY <1>2 DEF Data, Rows
  <2>2. \A w \in Items : db.payer[w] = NoEvent /\ copy.submission[w] = "accepted"
                            => db'.submission[w] = "accepted"
    BY <1>3 DEF Data, Undo, Forward
  <2>3. \A w \in Items : db'.work[w] # "none" \/ (db'.intent[w] = "none" /\ db'.submission[w] = "none")
    BY <1>2, <1>3 DEF Data, Undo, Rows, KeysSatisfied
  <2>4. \A e \in Events : db'.ingress[e].item \in Items => db'.work[db'.ingress[e].item] # "none"
    BY <1>1, <1>3, <2>1 DEF Data, Undo, KeysSatisfied
  <2>5. ASSUME NEW w \in Items, db.payer[w] = NoEvent
        PROVE  /\ db'.work[w] = "realized" => db'.payer[w] # NoEvent
               /\ db'.work[w] \in {"submitted", "accepted", "rejected", "realized"} => remote[w] # "none"
               /\ db'.work[w] = "accepted" => db'.submission[w] = "accepted"
               /\ db'.work[w] = "rejected" => remote[w] = "rejected"
               /\ db'.submission[w] # "none" => remote[w] # "none"
               /\ db'.submission[w] \in {"accepted", "rejected"} => remote[w] = db'.submission[w]
    BY <1>3, <2>2, <2>5 DEF Data, Undo, Rows
  <2> QED
    BY <1>2, <1>3, <2>1, <2>3, <2>4, <2>5 DEF Rows
<1>5. Backed'
  BY <1>1, <1>2, <1>3 DEF Data, Backed
<1>6. Sendable'
  BY <1>1, <1>2, <1>3 DEF Data, Sendable, MayResend
<1>7. Reopened'
  BY <1>2, <1>3 DEF Data, Undo, Rows, Reopened
<1>8. Checked'
  BY <1>2, <1>3 DEF Data, Checked
<1> QED
  BY <1>1, <1>4, <1>5, <1>6, <1>7, <1>8 DEF Data, Undo

LEMMA RepairedRows ==
    ASSUME Data, copy = NoCopy, UNCHANGED <<copy, remote, sends, absent, checked, reopened>>,
           db'.payer = db.payer, db'.submission = db.submission,
           db'.ingress = db.ingress, db'.booked = db.booked,
           \A w \in Items : db'.intent[w] =
              IF db.intent[w] = "sending" THEN "indeterminate" ELSE db.intent[w],
           \A w \in Items : db'.work[w] = db.work[w]
              \/ (db.submission[w] \in ActiveSubmission /\ db.work[w] = "staged" /\ db'.work[w] = "submitted")
    PROVE  Data'
<1>1. Rows(db', remote')
  BY DEF Data, Rows, ActiveSubmission
<1>2. Backed' /\ Sendable' /\ Undo'
  BY DEF Data, Backed, Sendable, MayResend, Undo
<1>3. Reopened' /\ Checked'
  BY DEF Data, Reopened, Checked
<1> QED
  BY <1>1, <1>2, <1>3 DEF Data

LEMMA RepairedStep ==
    ASSUME Data, db \in Databases, copy = NoCopy,
           UNCHANGED <<copy, remote, sends, absent, checked, reopened>>,
           db' \in {db, RecoverInterruptedIntents(db), Repaired(db)}
    PROVE  Data' /\ db' \in Databases
<1>1. CASE db' = db
  BY <1>1, DataKept DEF Later, MayResend
<1>2. CASE db' = RecoverInterruptedIntents(db) \/ db' = Repaired(db)
  <2> DEFINE closed == RecoverInterruptedIntents(db)
  <2>1. /\ closed \in Databases /\ closed.work = db.work
        /\ closed.payer = db.payer /\ closed.submission = db.submission
        /\ closed.ingress = db.ingress /\ closed.booked = db.booked
        /\ \A w \in Items : closed.intent[w] =
              IF db.intent[w] = "sending" THEN "indeterminate" ELSE db.intent[w]
    BY InterruptedTables DEF Same
  <2> HIDE DEF closed
  <2>2. /\ db' \in Databases /\ db'.payer = db.payer /\ db'.submission = db.submission
        /\ db'.ingress = db.ingress /\ db'.booked = db.booked
        /\ db'.intent = closed.intent
        /\ \A w \in Items : db'.work[w] = db.work[w]
              \/ (db.submission[w] \in ActiveSubmission /\ db.work[w] = "staged" /\ db'.work[w] = "submitted")
    <3>1. CASE db' = closed
      BY <2>1, <3>1
    <3>2. CASE db' = ReconcileLocalProjection(closed)
      <4> DEFINE projected == ReconcileLocalProjection(closed)
      <4>1. /\ projected \in Databases /\ projected.payer = closed.payer
            /\ projected.intent = closed.intent /\ projected.submission = closed.submission
            /\ projected.ingress = closed.ingress /\ projected.booked = closed.booked
            /\ \A w \in Items : projected.work[w] =
                  IF closed.submission[w] \in ActiveSubmission /\ closed.work[w] = "staged"
                  THEN "submitted" ELSE closed.work[w]
        BY <2>1, ProjectionTables DEF Same
      <4> HIDE DEF projected
      <4>2. db' = projected
        BY <3>2 DEF projected
      <4>3. \A w \in Items : db'.work[w] = db.work[w]
               \/ (db.submission[w] \in ActiveSubmission /\ db.work[w] = "staged" /\ db'.work[w] = "submitted")
        BY <2>1, <4>1, <4>2
      <4> QED
        BY <2>1, <4>1, <4>2, <4>3
    <3> QED
      BY <1>2, <3>1, <3>2 DEF Repaired, closed
  <2>3. \A w \in Items : db'.intent[w] =
           IF db.intent[w] = "sending" THEN "indeterminate" ELSE db.intent[w]
    BY <2>1, <2>2
  <2> QED
    BY <2>2, <2>3, RepairedRows
<1> QED
  BY <1>1, <1>2

-----------------------------------------------------------------------------
(* Steps that store nothing.                                               *)

LEMMA NoOpType == NoOp \in Ops
  BY DEF NoOp, Ops, RemoteStatuses

LEMMA ItemOp ==
    ASSUME NEW w \in Items
    PROVE  [NoOp EXCEPT !.item = w] \in Ops /\ [NoOp EXCEPT !.item = w].item = w
  BY DEF NoOp, Ops, RemoteStatuses

LEMMA AnsweredOp ==
    ASSUME NEW o \in Ops, NEW s \in RemoteStatuses, NEW a, a = [o EXCEPT !.answer = s]
    PROVE  a \in Ops /\ a.item = o.item /\ a.event = o.event /\ a.answer = s
  BY DEF Ops, RemoteStatuses

LEMMA BeginKeeps == ASSUME IInv, Begin PROVE IInv'
<1>1. TypeOK'
  BY NoCopyNoDatabase DEF IInv, Begin, Goto, world, late, TypeOK, Labels, InCycle, Submitting,
     Reading, Recording, Crediting
<1>2. Data'
  BY DEF IInv, Begin, Goto, world, late, Data, Rows, Backed, Reopened, Checked, Sendable,
     MayResend, Undo, Forward, KeysSatisfied
<1>3. Process'
  BY DEF IInv, Begin, Goto, world, late, WorkStatuses, Process, AtCycle, AtCapability, AtSubmit,
     AtNotFound, AtRecording, AtCrediting, Capability, Submitting, Reading, Recording,
     Crediting
<1> QED
  BY <1>1, <1>2, <1>3 DEF IInv

\* The end of a capability, a cycle or a session.
LEMMA EndKeeps ==
    ASSUME IInv, NoExternalWork \/ LookupFails \/ Accept \/ Stop
    PROVE  IInv'
<1>1. TypeOK'
  BY NoOpType DEF IInv, NoExternalWork, LookupFails, Accept, Stop, Return, Goto, world, late,
     TypeOK, Labels, InCycle, Submitting, Reading, Recording, Crediting
<1>2. Data'
  BY DataKept DEF IInv, NoExternalWork, LookupFails, Accept, Stop, Return, Goto, world, late,
     Later, MayResend
<1>3. Process'
  BY DEF IInv, NoExternalWork, LookupFails, Accept, Stop, Return, Goto, world, late, Process,
     AtCycle, AtCapability, AtSubmit, AtNotFound, AtRecording, AtCrediting, Capability,
     Submitting, Reading, Recording, Crediting
<1> QED
  BY <1>1, <1>2, <1>3 DEF IInv

LEMMA CheckOutcomeKeeps ==
    ASSUME IInv, NEW w \in Items, CheckOutcome(w)
    PROVE  IInv'
<1> PICK s \in Answers(w) \ {"none", "submitted"} : op' = [NoOp EXCEPT !.item = w, !.answer = s]
  BY DEF CheckOutcome
<1>1. /\ pc = "cycle" /\ pc' = "record" /\ db.submission[w] # "none" /\ copy # NoCopy
      /\ UNCHANGED <<db, copy, remote, inflight, sends, absent, checked, reopened, faults>>
  BY DEF CheckOutcome, IInv, world, late, TypeOK, InCycle
<1>2. /\ s \in RemoteStatuses \ {"none"} /\ remote[w] # "none"
      /\ s \in {"accepted", "rejected"} => remote[w] = s
      /\ remote[w] \in {"accepted", "rejected"} => s = remote[w]
      /\ db.submission[w] \in {"accepted", "rejected"} => s = db.submission[w]
  <2>1. remote[w] \in {"submitted", "accepted", "rejected"}
        /\ (db.submission[w] \in {"accepted", "rejected"} => remote[w] = db.submission[w])
    BY <1>1 DEF IInv, Data, Rows, TypeOK
  <2> QED
    BY <2>1 DEF Answers, RemoteStatuses
<1>3. op' \in Ops /\ op'.item = w /\ op'.answer = s
  BY <1>2 DEF NoOp, Ops, RemoteStatuses
<1>4. copy.work[w] # "none"
  BY <1>1 DEF IInv, Data, Undo, KeysSatisfied
<1>5. TypeOK'
  BY <1>1, <1>2, <1>3 DEF IInv, TypeOK, Labels, InCycle, Submitting, Reading, Recording,
     Crediting
<1>6. Data'
  BY <1>1, DataKept DEF IInv, Later, MayResend
<1>7. Process'
  BY <1>1, <1>2, <1>3, <1>4 DEF IInv, Process, AtCycle, AtCapability, AtSubmit, AtNotFound,
     AtRecording, AtCrediting, Capability, Submitting, Reading, Recording, Crediting
<1> QED
  BY <1>5, <1>6, <1>7 DEF IInv

LEMMA CheckIngressKeeps ==
    ASSUME IInv, NEW e \in Events, NEW w \in Items \cup {NoItem}, CheckIngress(e, w)
    PROVE  IInv'
<1>1. /\ pc = "cycle" /\ pc' = "reserve" /\ SignedFor[e] = w /\ copy # NoCopy
      /\ UNCHANGED <<db, copy, remote, inflight, sends, absent, checked, reopened, faults>>
  BY DEF CheckIngress, IInv, world, late, TypeOK, InCycle
<1>2. op' \in Ops /\ op'.item = w /\ op'.event = e
  BY DEF CheckIngress, NoOp, Ops, RemoteStatuses
<1>3. w \in Items => copy.work[w] # "none"
  BY <1>1, WorkAssumption DEF CheckIngress, ValidTarget, IInv, Process, AtCycle
<1>4. TypeOK'
  BY <1>1, <1>2 DEF IInv, TypeOK, Labels, InCycle, Submitting, Reading, Recording, Crediting
<1>5. Data'
  BY <1>1, DataKept DEF IInv, Later, MayResend
<1>6. Process'
  BY <1>1, <1>2, <1>3 DEF IInv, Process, AtCycle, AtCapability, AtSubmit, AtNotFound,
     AtRecording, AtCrediting, Capability, Submitting, Reading, Recording, Crediting
<1> QED
  BY <1>4, <1>5, <1>6 DEF IInv

LEMMA CallSubmitKeeps == ASSUME IInv, CallSubmit PROVE IInv'
<1>1. /\ pc = "calling" /\ op.item \in Items /\ op \in Ops /\ db.intent[op.item] \in Ambiguous
      /\ sends[op.item] < MaxSends /\ sends \in [Items -> 0..MaxSends] /\ MaxSends \in Nat
      /\ sends' = [sends EXCEPT ![op.item] = @ + 1] /\ absent' = absent \ {op.item}
      /\ UNCHANGED <<db, copy, checked, reopened, faults>> /\ copy # NoCopy
  BY ExternalAssumption DEF CallSubmit, late, IInv, TypeOK, Labels, InCycle, Submitting, Reading,
     Recording, Crediting, Process, AtSubmit
<1>2. remote' \in {remote, Received(op.item)} /\ remote \in [Items -> {"none", "submitted", "accepted", "rejected"}]
  BY DEF CallSubmit, IInv, TypeOK
<1>3. Later(remote, remote') /\ remote' \in [Items -> {"none", "submitted", "accepted", "rejected"}]
  BY <1>1, <1>2 DEF Received, Later
<1>4. \/ pc' = "failed" /\ op' = op
      \/ /\ pc' = "finalize" /\ op' \in Ops /\ op'.item = op.item /\ op'.answer = "submitted"
         /\ remote'[op.item] # "none"
  <2>1. "submitted" \in RemoteStatuses
    BY DEF RemoteStatuses
  <2> QED
    <3>1. CASE pc' = "failed" /\ op' = op
      BY <3>1
    <3>2. CASE remote' = Received(op.item) /\ pc' = "finalize" /\ op' = [op EXCEPT !.answer = "submitted"]
      BY <1>1, <1>2, <2>1, <3>2 DEF Received, Ops, RemoteStatuses
    <3> QED
      BY <3>1, <3>2 DEF CallSubmit
<1>5. sends' \in [Items -> 0..MaxSends]
  BY <1>1
<1>6. inflight' \subseteq Items /\ absent' \subseteq Items
  BY <1>1 DEF CallSubmit, IInv, TypeOK
<1>7. TypeOK'
  BY <1>1, <1>3, <1>4, <1>5, <1>6 DEF IInv, TypeOK, Labels, InCycle, Submitting, Reading,
     Recording, Crediting
<1>8. Data'
  BY <1>1, <1>3, DataKept DEF IInv, MayResend, Ambiguous
<1>9. Process'
  <2>1. db.submission[op.item] = "none" /\ copy.work[op.item] # "none"
    BY <1>1 DEF IInv, Process, AtCycle, AtCapability, AtSubmit, AtNotFound, AtRecording,
       AtCrediting, Capability, Submitting, Reading, Recording, Crediting
  <2> QED
    BY <1>1, <1>4, <2>1 DEF IInv, Process, AtCycle, AtCapability, AtSubmit, AtNotFound,
       AtRecording, AtCrediting, Capability, Submitting, Reading, Recording, Crediting
<1> QED
  BY <1>7, <1>8, <1>9 DEF IInv

LEMMA LookupNotFoundKeeps == ASSUME IInv, LookupNotFound PROVE IInv'
<1>1. TypeOK'
  BY DEF IInv, LookupNotFound, late, Goto, TypeOK, Labels, InCycle, Submitting, Reading,
     Recording, Crediting
<1>2. Data'
  BY DataKept DEF IInv, LookupNotFound, late, Later, MayResend
<1>3. Process'
  BY DEF IInv, LookupNotFound, Goto, Process, AtCycle, AtCapability, AtSubmit, AtNotFound,
     AtRecording, AtCrediting, Capability, Submitting, Reading, Recording, Crediting
<1> QED
  BY <1>1, <1>2, <1>3 DEF IInv

LEMMA LookupFoundKeeps == ASSUME IInv, LookupFound PROVE IInv'
<1> PICK s \in Answers(op.item) : op' = [op EXCEPT !.answer = s]
  BY DEF LookupFound
<1>1. /\ pc = "lookup" /\ pc' = "finalize" /\ op.item \in Items /\ op \in Ops
      /\ remote[op.item] # "none" /\ UNCHANGED <<db, copy, remote, inflight, sends, absent, checked, reopened, faults>>
  BY DEF LookupFound, Goto, world, late, IInv, TypeOK, Reading
<1>2. s \in RemoteStatuses \ {"none"} /\ (s \in {"accepted", "rejected"} => remote[op.item] = s)
      /\ (remote[op.item] \in {"accepted", "rejected"} => s = remote[op.item])
  BY <1>1 DEF Answers, IInv, TypeOK, RemoteStatuses
<1>3. op' \in Ops /\ op'.item = op.item /\ op'.answer = s
  BY <1>1, <1>2, AnsweredOp
<1>4. TypeOK'
  BY <1>1, <1>2, <1>3 DEF IInv, TypeOK, Labels, InCycle, Submitting, Reading, Recording,
     Crediting
<1>5. Data'
  BY <1>1, DataKept DEF IInv, Later, MayResend
<1>6. Process'
  BY <1>1, <1>2, <1>3 DEF IInv, Data, Rows, Process, AtCycle, AtCapability, AtSubmit,
     AtNotFound, AtRecording, AtCrediting, Capability, Submitting, Reading, Recording,
     Crediting
<1> QED
  BY <1>4, <1>5, <1>6 DEF IInv

\* The process dies; its memory is lost, its database is not.
LEMMA CrashKeeps == ASSUME IInv, Crash PROVE IInv'
<1>1. TypeOK'
  BY NoOpType, ExternalAssumption DEF IInv, Crash, Fault, world, late, TypeOK, Labels, InCycle,
     Submitting, Reading, Recording, Crediting
<1>2. Data'
  BY DataKept DEF IInv, Crash, Fault, world, late, Later, MayResend
<1>3. Process'
  BY DEF IInv, Crash, world, late, Process, AtCycle, AtCapability, AtSubmit, AtNotFound,
     AtRecording, AtCrediting, Capability, Submitting, Reading, Recording, Crediting
<1> QED
  BY <1>1, <1>2, <1>3 DEF IInv

\* The remote side moves on, whatever the organism is doing.
LEMMA RemoteKeeps ==
    ASSUME IInv, NEW w \in Items, LateRequest(w) \/ RemoteDecides(w)
    PROVE  IInv'
<1>1. /\ UNCHANGED <<db, copy, pc, op, sends, absent, checked, reopened, faults>>
      /\ inflight' \subseteq Items
      /\ remote \in [Items -> {"none", "submitted", "accepted", "rejected"}]
  BY DEF LateRequest, RemoteDecides, late, IInv, TypeOK
<1>2. Later(remote, remote') /\ remote' \in [Items -> {"none", "submitted", "accepted", "rejected"}]
  BY <1>1 DEF LateRequest, RemoteDecides, Received, Later
<1>3. TypeOK'
  BY <1>1, <1>2 DEF IInv, TypeOK
<1>4. Data'
  BY <1>1, <1>2, DataKept DEF IInv, MayResend
<1>5. Process'
  BY <1>1, <1>2 DEF IInv, TypeOK, Later, MayResend, Process, AtCycle, AtCapability,
     AtSubmit, AtNotFound, AtRecording, AtCrediting, Capability, Submitting, Reading,
     Recording, Crediting
<1> QED
  BY <1>3, <1>4, <1>5 DEF IInv

-----------------------------------------------------------------------------
(* Steps that store something.                                             *)

\* A capability that ends has nothing left to keep but the database.
LEMMA ReturnKeeps ==
    ASSUME IInv, Data', db' \in Databases, pc \in InCycle, Return,
           UNCHANGED <<copy, remote, inflight, sends, absent, checked>>,
           reopened' \subseteq reopened, faults' \in 0..MaxFaults
    PROVE  IInv'
<1>1. TypeOK'
  BY NoOpType DEF IInv, Return, world, late, TypeOK, Labels, InCycle, Submitting, Reading,
     Recording, Crediting
<1>2. Process'
  BY DEF Return, Process, AtCycle, AtCapability, AtSubmit, AtNotFound, AtRecording,
     AtCrediting, Capability, Submitting, Reading, Recording, Crediting
<1> QED
  BY <1>1, <1>2 DEF IInv

LEMMA PlanKeeps ==
    ASSUME IInv, NEW w \in Items, PlanWork(w) \/ AbandonWork(w)
    PROVE  IInv'
<1>1. PICK s \in {"planned", "abandoned"} :
         db' = SetWork(db, w, s) /\ (s = "planned" => db.work[w] = "none")
  BY WorkAssumption DEF PlanWork, AbandonWork, MayPlan
<1>2. /\ pc = "cycle" /\ db.work[w] # "realized" /\ db \in Databases
      /\ UNCHANGED <<copy, pc, op, remote, inflight, sends, absent, checked, reopened, faults>>
  BY WorkAssumption DEF PlanWork, AbandonWork, MayPlan, MayAbandon, TerminalWork, world, late,
     IInv, TypeOK
<1>3. /\ s \in WorkStatuses \ {"none", "realized"} /\ s \notin {"submitted", "accepted", "rejected"}
      /\ s \in {"planned", "staged"} => db.payer[w] = NoEvent
  BY <1>1 DEF WorkStatuses, IInv, Data, Rows
<1>4. Data' /\ db' \in Databases /\ db'.work = [db.work EXCEPT ![w] = s]
  BY <1>1, <1>2, <1>3, WorkStep DEF IInv
<1>5. TypeOK'
  BY <1>2, <1>4 DEF IInv, TypeOK
<1>6. db.work \in [Items -> WorkStatuses]
  BY <1>2, Tables
<1>7. Process'
  BY <1>2, <1>4, <1>6 DEF IInv, Process, AtCycle, AtCapability, AtSubmit, AtNotFound,
     AtRecording, AtCrediting, Capability, Submitting, Reading, Recording, Crediting
<1> QED
  BY <1>4, <1>5, <1>7 DEF IInv

LEMMA StageKeeps ==
    ASSUME IInv, NEW w \in Items, StageDeliverable(w)
    PROVE  IInv'
<1>1. /\ db' = SetWork(db, w, "staged") /\ pc = "cycle" /\ db.work[w] # "realized" /\ db \in Databases
      /\ UNCHANGED <<copy, remote, inflight, sends, absent, checked, reopened, faults>>
      /\ faults \in 0..MaxFaults
  BY DEF StageDeliverable, MayStage, world, late, IInv, TypeOK
<1>2. Data' /\ db' \in Databases
  <2>1. db.payer[w] = NoEvent
    BY DEF StageDeliverable, MayStage, IInv, Data, Rows
  <2> QED
    BY <1>1, <2>1, WorkStep DEF WorkStatuses, IInv
<1> QED
  BY <1>1, <1>2, ReturnKeeps DEF StageDeliverable, world, late, InCycle

\* The projection of a submission onto its item, by the port.
LEMMA ProjectStep ==
    ASSUME Data, db \in Databases, NEW w \in Items, db' = RecordSubmission(db, w),
           UNCHANGED <<copy, remote, sends, absent, checked, reopened>>, remote[w] # "none"
    PROVE  /\ Data' /\ db' \in Databases
           /\ \/ db' = db
              \/ /\ db.work[w] = "staged"
                 /\ db'.work = [db.work EXCEPT ![w] = "submitted"] /\ db'.payer = db.payer
                 /\ db'.intent = db.intent /\ db'.submission = db.submission
                 /\ db'.ingress = db.ingress /\ db'.booked = db.booked
<1>1. CASE db.work[w] = "staged"
  BY <1>1, WorkStep DEF RecordSubmission, UpdateSubmitted, WorkStatuses
<1>2. CASE db.work[w] # "staged"
  <2>1. db' = db
    BY <1>2 DEF RecordSubmission
  <2> QED
    BY <2>1, DataKept DEF Later, MayResend
<1> QED
  BY <1>1, <1>2

LEMMA ProjectKeeps == ASSUME IInv, Project PROVE IInv'
<1>1. /\ pc = "project" /\ op.item \in Items /\ db \in Databases /\ remote[op.item] # "none"
      /\ UNCHANGED <<copy, remote, inflight, sends, absent, checked, reopened, faults>>
      /\ faults \in 0..MaxFaults
  BY DEF Project, world, late, IInv, TypeOK, Process, AtCycle, AtCapability, AtSubmit, AtNotFound,
     AtRecording, AtCrediting, Capability, Submitting, Reading, Recording, Crediting
<1>2. /\ Data' /\ db' \in Databases /\ db'.submission = db.submission
  BY <1>1, ProjectStep DEF Project, IInv
<1>3. CASE Return
  BY <1>1, <1>2, <1>3, ReturnKeeps DEF world, late, InCycle, Recording
<1>4. CASE pc' = "record" /\ op' = op /\ op.answer # "submitted"
  <2>1. TypeOK'
    BY <1>1, <1>2, <1>4 DEF IInv, TypeOK, Labels, InCycle, Submitting, Reading, Recording,
       Crediting
  <2>2. Process'
    BY <1>1, <1>2, <1>4 DEF IInv, Process, AtCycle, AtCapability, AtSubmit, AtNotFound,
       AtRecording, AtCrediting, Capability, Submitting, Reading, Recording, Crediting
  <2> QED
    BY <1>2, <2>1, <2>2 DEF IInv
<1> QED
  BY <1>3, <1>4 DEF Project

LEMMA ApplyOutcomeKeeps == ASSUME IInv, ApplyOutcome PROVE IInv'
<1>1. /\ pc = "outcome" /\ op.item \in Items /\ db \in Databases
      /\ op.answer \in {"accepted", "rejected"} /\ db.submission[op.item] = op.answer
      /\ remote[op.item] = op.answer
      /\ UNCHANGED <<copy, remote, inflight, sends, absent, checked, reopened, faults>>
      /\ faults \in 0..MaxFaults
  BY DEF ApplyOutcome, world, late, IInv, TypeOK, Process, AtCycle, AtCapability, AtSubmit,
     AtNotFound, AtRecording, AtCrediting, Capability, Submitting, Reading, Recording,
     Crediting
<1>2. Data' /\ db' \in Databases
  <2>1. CASE db.work[op.item] = "submitted"
    BY <1>1, <2>1, WorkStep DEF ApplyOutcome, RecordExternalOutcome, IInv, WorkStatuses
  <2>2. CASE db.work[op.item] # "submitted"
    <3>1. db' = db
      BY <2>2 DEF ApplyOutcome, RecordExternalOutcome
    <3> QED
      BY <1>1, <3>1, DataKept DEF IInv, Later, MayResend
  <2> QED
    BY <2>1, <2>2
<1> QED
  BY <1>1, <1>2, ReturnKeeps DEF ApplyOutcome, world, late, InCycle, Recording

\* An intent leads to a row of an item that the copy knows.
LEMMA KnownItem ==
    ASSUME IInv, NEW w \in Items, db.intent[w] # "none" \/ db.submission[w] # "none"
    PROVE  db.work[w] # "none" /\ (copy # NoCopy => copy.work[w] # "none")
  BY DEF IInv, Data, Rows, Undo, KeysSatisfied

\* A status command that is about to update what it read.
LEMMA StatusChecksKeeps ==
    ASSUME IInv, NEW w \in Items, StatusChecks(w)
    PROVE  IInv'
<1>1. /\ db.submission[w] # "none" /\ checked' = checked \cup {w}
      /\ UNCHANGED <<db, copy, pc, op, remote, inflight, sends, absent, reopened, faults>>
  BY DEF StatusChecks
<1>2. remote[w] # "none" /\ db.work[w] # "none" /\ (copy # NoCopy => copy.work[w] # "none")
  BY <1>1, KnownItem DEF IInv, Data, Rows
<1>3. Checked'
  BY <1>1, <1>2 DEF IInv, Data, Checked
<1>4. Data'
  BY <1>1, <1>3 DEF IInv, Data, Rows, Backed, Reopened, Sendable, MayResend, Undo, Forward,
     KeysSatisfied
<1>5. TypeOK'
  BY <1>1 DEF IInv, TypeOK
<1>6. Process'
  BY <1>1 DEF IInv, MayResend, Process, AtCycle, AtCapability, AtSubmit, AtNotFound,
     AtRecording, AtCrediting, Capability, Submitting, Reading, Recording, Crediting
<1> QED
  BY <1>4, <1>5, <1>6 DEF IInv

LEMMA StatusUpdatesKeeps ==
    ASSUME IInv, NEW w \in Items, StatusUpdates(w)
    PROVE  IInv'
<1>1. /\ w \in checked /\ db' = UpdateSubmitted(db, w) /\ db \in Databases
      /\ reopened' = IF db.work[w] = "realized" THEN reopened \cup {w} ELSE reopened
      /\ UNCHANGED <<copy, pc, op, remote, inflight, sends, absent, checked, faults>>
  BY DEF StatusUpdates, IInv, TypeOK
<1>2. /\ Data' /\ db' \in Databases /\ db.work \in [Items -> WorkStatuses]
      /\ db'.work = [db.work EXCEPT ![w] = "submitted"]
      /\ db'.intent = db.intent /\ db'.submission = db.submission
      /\ db'.ingress = db.ingress /\ db'.booked = db.booked
  BY <1>1, UpdateStep, Tables DEF IInv
<1>3. copy # NoCopy => copy.work[w] # "none"
  BY <1>1 DEF IInv, Data, Checked
<1>4. TypeOK'
  BY <1>1, <1>2 DEF IInv, TypeOK
<1>5. Process'
  <2>1. AtCycle'
    BY <1>1, <1>2, <1>3 DEF IInv, TypeOK, Process, AtCycle, InCycle
  <2> QED
    BY <1>1, <1>2, <2>1 DEF IInv, MayResend, Process, AtCapability, AtSubmit, AtNotFound,
       AtRecording, AtCrediting, Capability, Submitting, Reading, Recording, Crediting
<1> QED
  BY <1>2, <1>4, <1>5 DEF IInv

LEMMA PrepareIntentKeeps ==
    ASSUME IInv, NEW w \in Items, PrepareIntent(w)
    PROVE  IInv'
<1>1. /\ db' = SetIntent(db, w, "prepared") /\ pc = "cycle" /\ pc' = "prepared" /\ copy # NoCopy
      /\ db.submission[w] = "none" /\ db.work[w] = "staged" /\ db.intent[w] \in {"none", "prepared"}
      /\ db \in Databases /\ UNCHANGED <<copy, remote, inflight, sends, absent, checked, reopened, faults>>
  BY DEF PrepareIntent, MaySubmit, world, late, IInv, TypeOK, InCycle
<1>2. op' \in Ops /\ op'.item = w
  BY ItemOp DEF PrepareIntent
<1>3. copy.work[w] # "none"
  BY <1>1 DEF IInv, Process, AtCycle
<1>4. MayResend(w)
  BY <1>1 DEF IInv, Data, Rows, Sendable
<1>5. /\ Data' /\ db' \in Databases /\ db'.submission = db.submission
      /\ db'.intent = [db.intent EXCEPT ![w] = "prepared"] /\ db.intent \in [Items -> IntentStatuses]
  BY <1>1, <1>3, <1>4, IntentStep, Tables DEF IntentStatuses, IInv
<1>6. TypeOK'
  BY <1>1, <1>2, <1>5 DEF IInv, TypeOK, Labels, InCycle, Submitting, Reading, Recording,
     Crediting
<1>7. Process'
  BY <1>1, <1>2, <1>3, <1>4, <1>5 DEF IInv, MayResend, Process, AtCycle, AtCapability,
     AtSubmit, AtNotFound, AtRecording, AtCrediting, Capability, Submitting, Reading,
     Recording, Crediting
<1> QED
  BY <1>5, <1>6, <1>7 DEF IInv

LEMMA RefuseKeeps ==
    ASSUME IInv, NEW w \in Items, RefuseBlindSend(w)
    PROVE  IInv'
<1>1. /\ db' = MarkIndeterminate(db, w) /\ pc = "cycle" /\ db \in Databases
      /\ UNCHANGED <<copy, remote, inflight, sends, absent, checked, reopened, faults>>
      /\ faults \in 0..MaxFaults
  BY DEF RefuseBlindSend, world, late, IInv, TypeOK
<1>2. Data' /\ db' \in Databases
  BY <1>1, IndeterminateStep DEF IInv
<1> QED
  BY <1>1, <1>2, ReturnKeeps DEF RefuseBlindSend, world, late, InCycle

LEMMA MarkSendingKeeps == ASSUME IInv, MarkSending PROVE IInv'
<1>1. /\ db' = SetIntent(db, op.item, "sending") /\ pc = "prepared" /\ pc' = "calling"
      /\ op.item \in Items /\ db \in Databases /\ copy # NoCopy /\ copy.work[op.item] # "none"
      /\ UNCHANGED <<copy, op, remote, inflight, sends, absent, checked, reopened, faults>>
  BY DEF MarkSending, Goto, world, late, IInv, InCycle, TypeOK, Process, AtCycle, AtCapability,
     AtSubmit, AtNotFound, AtRecording, AtCrediting, Capability, Submitting, Reading,
     Recording, Crediting
<1>2. db.work[op.item] # "none"
  BY <1>1, KnownItem DEF IInv, Process, AtSubmit
<1>3. /\ Data' /\ db' \in Databases /\ db'.submission = db.submission
      /\ db'.intent = [db.intent EXCEPT ![op.item] = "sending"] /\ db.intent \in [Items -> IntentStatuses]
  BY <1>1, <1>2, IntentStep, Tables DEF IntentStatuses, IInv
<1>4. TypeOK'
  BY <1>1, <1>3 DEF IInv, TypeOK, Labels, InCycle, Submitting, Reading, Recording, Crediting
<1>5. Process'
  BY <1>1, <1>3 DEF IInv, MayResend, Ambiguous, Process, AtCycle, AtCapability, AtSubmit,
     AtNotFound, AtRecording, AtCrediting, Capability, Submitting, Reading, Recording,
     Crediting
<1> QED
  BY <1>3, <1>4, <1>5 DEF IInv

LEMMA SubmitFailedKeeps == ASSUME IInv, SubmitFailed PROVE IInv'
<1>1. /\ db' = MarkIndeterminate(db, op.item) /\ pc = "failed" /\ op.item \in Items /\ db \in Databases
      /\ UNCHANGED <<copy, remote, inflight, sends, absent, checked, reopened, faults>>
      /\ faults \in 0..MaxFaults
  BY DEF SubmitFailed, world, late, IInv, TypeOK, Submitting
<1>2. Data' /\ db' \in Databases
  BY <1>1, IndeterminateStep DEF IInv
<1> QED
  BY <1>1, <1>2, ReturnKeeps DEF SubmitFailed, world, late, InCycle, Submitting

LEMMA ReconcileKeeps ==
    ASSUME IInv, NEW w \in Items, Reconcile(w)
    PROVE  IInv'
<1>1. /\ db' = MarkIndeterminate(db, w) /\ pc = "cycle" /\ pc' = "lookup" /\ db \in Databases
      /\ db.intent[w] \in Ambiguous /\ copy # NoCopy
      /\ UNCHANGED <<copy, remote, inflight, sends, absent, checked, reopened, faults>>
  BY DEF Reconcile, world, late, IInv, TypeOK, InCycle
<1>2. op' \in Ops /\ op'.item = w
  BY ItemOp DEF Reconcile
<1>3. Data' /\ db' \in Databases
  BY <1>1, IndeterminateStep DEF IInv
<1>4. copy.work[w] # "none"
  BY <1>1, KnownItem DEF Ambiguous
<1>5. TypeOK'
  BY <1>1, <1>2, <1>3 DEF IInv, TypeOK, Labels, InCycle, Submitting, Reading, Recording,
     Crediting
<1>6. Process'
  BY <1>1, <1>2, <1>4 DEF Process, AtCycle, AtCapability, AtSubmit, AtNotFound, AtRecording,
     AtCrediting, Capability, Submitting, Reading, Recording, Crediting
<1> QED
  BY <1>3, <1>5, <1>6 DEF IInv

LEMMA MarkNotFoundKeeps == ASSUME IInv, MarkNotFound PROVE IInv'
<1>1. /\ db' = SetIntent(db, op.item, "prepared") /\ pc = "notfound" /\ op.item \in Items
      /\ db \in Databases /\ db.intent[op.item] # "none" /\ op.item \in absent
      /\ UNCHANGED <<copy, remote, inflight, sends, absent, checked, reopened, faults>>
      /\ faults \in 0..MaxFaults
  BY DEF MarkNotFound, Ambiguous, world, late, IInv, TypeOK, Process, AtNotFound, Reading
<1>2. Data' /\ db' \in Databases
  BY <1>1, KnownItem, IntentStep DEF IntentStatuses, IInv, MayResend
<1> QED
  BY <1>1, <1>2, ReturnKeeps DEF MarkNotFound, world, late, InCycle, Reading

LEMMA StatusRecoversKeeps ==
    ASSUME IInv, NEW w \in Items, StatusRecovers(w)
    PROVE  IInv'
<1>1. /\ db' = MarkIndeterminate(db, w) /\ db \in Databases
      /\ UNCHANGED <<copy, pc, op, remote, inflight, sends, absent, checked, reopened, faults>>
  BY DEF StatusRecovers, world, late, IInv, TypeOK
<1>2. /\ Data' /\ db' \in Databases
      /\ db'.work = db.work /\ db'.submission = db.submission
      /\ db'.ingress = db.ingress /\ db'.booked = db.booked
      /\ \A v \in Items : db.intent[v] \in Ambiguous => db'.intent[v] \in Ambiguous
      /\ \A v \in Items : db.intent[v] = "prepared" => db'.intent[v] = "prepared"
  BY <1>1, IndeterminateStep DEF IInv
<1>3. TypeOK'
  BY <1>1, <1>2 DEF IInv, TypeOK
<1>4. Process'
  BY <1>1, <1>2 DEF IInv, TypeOK, MayResend, Process, AtCycle, AtCapability, AtSubmit,
     AtNotFound, AtRecording, AtCrediting, Capability, Submitting, Reading, Recording,
     Crediting
<1> QED
  BY <1>2, <1>3, <1>4 DEF IInv

LEMMA FinalizeKeeps == ASSUME IInv, Finalize PROVE IInv'
<1>1. /\ db' = FinalizeSubmission(db, op.item) /\ MayFinalize(db, op.item) /\ pc = "finalize"
      /\ pc' = "project" /\ op.item \in Items /\ db \in Databases /\ remote[op.item] # "none"
      /\ UNCHANGED <<copy, op, remote, inflight, sends, absent, checked, reopened, faults>>
  BY DEF Finalize, Goto, world, late, IInv, TypeOK, Process, AtCycle, AtCapability, AtSubmit,
     AtNotFound, AtRecording, AtCrediting, Capability, Submitting, Reading, Recording,
     Crediting
<1>2. /\ Data' /\ db' \in Databases /\ db.submission \in [Items -> RemoteStatuses]
      /\ db'.submission = IF db.submission[op.item] = "none"
                          THEN [db.submission EXCEPT ![op.item] = "submitted"] ELSE db.submission
  BY <1>1, FinalizeStep, Tables DEF IInv
<1>3. TypeOK'
  BY <1>1, <1>2 DEF IInv, TypeOK, Labels, InCycle, Submitting, Reading, Recording, Crediting
<1>4. Process'
  BY <1>1, <1>2 DEF IInv, Process, AtCycle, AtCapability, AtSubmit, AtNotFound, AtRecording,
     AtCrediting, Capability, Submitting, Reading, Recording, Crediting
<1> QED
  BY <1>2, <1>3, <1>4 DEF IInv

LEMMA RecordOutcomeKeeps == ASSUME IInv, RecordOutcome PROVE IInv'
<1>1. /\ db' = SetSubmission(db, op.item, op.answer) /\ pc = "record" /\ db.submission[op.item] # "none"
      /\ op.item \in Items /\ op.answer \in RemoteStatuses \ {"none", "submitted"} /\ db \in Databases
      /\ op.answer \in {"accepted", "rejected"} => remote[op.item] = op.answer
      /\ db.submission[op.item] \in {"accepted", "rejected"} => op.answer = db.submission[op.item]
      /\ remote[op.item] # "none"
      /\ UNCHANGED <<copy, remote, inflight, sends, absent, checked, reopened, faults>>
      /\ faults \in 0..MaxFaults
  BY DEF RecordOutcome, world, late, IInv, TypeOK, Ops, Process, AtRecording, Recording
<1>2. /\ Data' /\ db' \in Databases /\ db.submission \in [Items -> RemoteStatuses]
      /\ db'.submission = [db.submission EXCEPT ![op.item] = op.answer]
  BY <1>1, OutcomeStep, Tables DEF IInv
<1>3. CASE Return
  BY <1>1, <1>2, <1>3, ReturnKeeps DEF world, late, InCycle, Recording
<1>4. CASE pc' = "outcome" /\ op' = op /\ op.answer # "pending"
  <2>1. TypeOK'
    BY <1>1, <1>2, <1>4 DEF IInv, TypeOK, Labels, InCycle, Submitting, Reading, Recording,
       Crediting
  <2>2. op.answer \in {"accepted", "rejected"}
    BY <1>1, <1>4 DEF RemoteStatuses
  <2>3. Process'
    BY <1>1, <1>2, <1>4, <2>2 DEF IInv, Process, AtCycle, AtCapability, AtSubmit,
       AtNotFound, AtRecording, AtCrediting, Capability, Submitting, Reading, Recording,
       Crediting
  <2> QED
    BY <1>2, <2>1, <2>3 DEF IInv
<1> QED
  BY <1>3, <1>4 DEF RecordOutcome

LEMMA ReserveKeeps == ASSUME IInv, ReserveEvent PROVE IInv'
<1>1. /\ pc = "reserve" /\ op.event \in Events /\ op.item \in Items \cup {NoItem} /\ db \in Databases
      /\ SignedFor[op.event] = op.item /\ copy # NoCopy
      /\ op.item \in Items => copy.work[op.item] # "none"
      /\ UNCHANGED <<copy, remote, inflight, sends, absent, checked, reopened, faults>>
      /\ faults \in 0..MaxFaults
  BY DEF ReserveEvent, world, late, IInv, TypeOK, Ops, InCycle, Process, AtCycle, AtCapability,
     AtSubmit, AtNotFound, AtRecording, AtCrediting, Capability, Submitting, Reading,
     Recording, Crediting
<1>2. CASE MayReserve(db, op.event, op.item) /\ db' = Reserve(db, op.event, op.item)
           /\ pc' = "book" /\ op' = op
  <2>1. op.item \in Items => db.work[op.item] # "none"
    BY <1>1 DEF IInv, Data, Undo, Forward
  <2>2. /\ Data' /\ db' \in Databases /\ db'.submission = db.submission
        /\ db'.ingress[op.event].status # "unseen" /\ db'.ingress[op.event].item = op.item
    BY <1>1, <1>2, <2>1, ReserveStep DEF IInv
  <2>3. TypeOK'
    BY <1>1, <1>2, <2>2 DEF IInv, TypeOK, Labels, InCycle, Submitting, Reading, Recording,
       Crediting
  <2>4. Process'
    BY <1>1, <1>2, <2>2 DEF IInv, Process, AtCycle, AtCapability, AtSubmit, AtNotFound,
       AtRecording, AtCrediting, Capability, Submitting, Reading, Recording, Crediting
  <2> QED
    BY <2>2, <2>3, <2>4 DEF IInv
<1>3. CASE Return /\ db' = db
  <2>1. Data'
    BY <1>1, <1>3, DataKept DEF IInv, Later, MayResend
  <2> QED
    BY <1>1, <1>3, <2>1, ReturnKeeps DEF world, late, InCycle, Crediting
<1> QED
  BY <1>2, <1>3 DEF ReserveEvent

LEMMA BookKeeps == ASSUME IInv, BookEvent PROVE IInv'
<1>1. /\ pc = "book" /\ pc' = "mark" /\ op.event \in Events /\ db \in Databases /\ db' = Book(db, op.event)
      /\ UNCHANGED <<copy, op, remote, inflight, sends, absent, checked, reopened, faults>>
  BY DEF BookEvent, Goto, world, late, IInv, TypeOK, Crediting
<1>2. /\ Data' /\ db' \in Databases /\ db'.booked[op.event] = 1
      /\ db'.ingress = db.ingress /\ db'.submission = db.submission
  BY <1>1, BookStep DEF IInv
<1>3. TypeOK'
  BY <1>1, <1>2 DEF IInv, TypeOK, Labels, InCycle, Submitting, Reading, Recording, Crediting
<1>4. Process'
  BY <1>1, <1>2 DEF IInv, Process, AtCycle, AtCapability, AtSubmit, AtNotFound, AtRecording,
     AtCrediting, Capability, Submitting, Reading, Recording, Crediting
<1> QED
  BY <1>2, <1>3, <1>4 DEF IInv

LEMMA MarkKeeps == ASSUME IInv, MarkEvent PROVE IInv'
<1>1. /\ pc = "mark" /\ op.event \in Events /\ db \in Databases /\ db' = MarkRealized(db, op.event)
      /\ op \in Ops
      /\ UNCHANGED <<copy, remote, inflight, sends, absent, checked, reopened, faults>>
      /\ faults \in 0..MaxFaults
  BY DEF MarkEvent, world, late, IInv, TypeOK, Crediting
<1>2. /\ Data' /\ db' \in Databases /\ db'.booked = db.booked /\ db'.submission = db.submission
      /\ db'.ingress[op.event].item = db.ingress[op.event].item
      /\ db'.ingress[op.event].status = "realized"
  BY <1>1, MarkStep DEF IInv
<1>3. CASE Return
  BY <1>1, <1>2, <1>3, ReturnKeeps DEF world, late, InCycle, Crediting
<1>4. CASE op.item # NoItem /\ pc' = "link" /\ op' = op
  <2>1. TypeOK'
    BY <1>1, <1>2, <1>4 DEF IInv, Ops, TypeOK, Labels, InCycle, Submitting, Reading,
       Recording, Crediting
  <2>2. Process'
    BY <1>1, <1>2, <1>4 DEF IInv, Process, AtCycle, AtCapability, AtSubmit, AtNotFound,
       AtRecording, AtCrediting, Capability, Submitting, Reading, Recording, Crediting
  <2> QED
    BY <1>2, <2>1, <2>2 DEF IInv
<1> QED
  BY <1>3, <1>4 DEF MarkEvent

LEMMA LinkKeeps == ASSUME IInv, LinkWork PROVE IInv'
<1>1. /\ pc = "link" /\ op.item \in Items /\ op.event \in Events /\ db \in Databases
      /\ SignedFor[op.event] = op.item /\ db.booked[op.event] = 1
      /\ db.ingress[op.event].status = "realized" /\ db.ingress[op.event].item = op.item
      /\ UNCHANGED <<copy, remote, inflight, sends, absent, checked, faults>>
      /\ faults \in 0..MaxFaults
      /\ reopened' \subseteq reopened
  BY DEF LinkWork, world, late, IInv, TypeOK, Process, AtCycle, AtCapability, AtSubmit,
     AtNotFound, AtRecording, AtCrediting, Capability, Submitting, Reading, Recording,
     Crediting
<1>2. Data' /\ db' \in Databases
  <2>1. CASE db.work[op.item] = "accepted"
    BY <1>1, <2>1, LinkStep DEF LinkWork, IInv
  <2>2. CASE db.work[op.item] # "accepted"
    <3>1. UNCHANGED <<db, reopened>>
      BY <2>2 DEF LinkWork
    <3> QED
      BY <1>1, <3>1, DataKept DEF IInv, Later, MayResend
  <2> QED
    BY <2>1, <2>2
<1> QED
  BY <1>1, <1>2, ReturnKeeps DEF LinkWork, world, late, InCycle, Crediting

-----------------------------------------------------------------------------
(* Failures and repairs.                                                   *)

LEMMA RaiseKeeps == ASSUME IInv, CapabilityRaises PROVE IInv'
<1>1. /\ pc \in InCycle /\ db \in Databases /\ Return
      /\ UNCHANGED <<copy, remote, inflight, sends, absent, checked, reopened>>
      /\ faults' \in 0..MaxFaults
  BY ExternalAssumption DEF CapabilityRaises, Fault, world, late, IInv, TypeOK, InCycle
<1>2. Data' /\ db' \in Databases
  <2>1. CASE db' = db
    BY <1>1, <2>1, DataKept DEF IInv, Later, MayResend
  <2>2. CASE \E w \in Items : db' = MarkIndeterminate(db, w)
    BY <1>1, <2>2, IndeterminateStep DEF IInv
  <2> QED
    BY <2>1, <2>2 DEF CapabilityRaises
<1> QED
  BY <1>1, <1>2, ReturnKeeps DEF CapabilityRaises, world, late

\* The guard rewinds a cycle, at once or in the next process.
LEMMA RewindKeeps ==
    ASSUME IInv, CycleRaises \/ Recover
    PROVE  IInv'
<1>1. /\ db' = RolledBack(db, copy) /\ copy' = NoCopy /\ copy # NoCopy
      /\ db \in Databases /\ copy \in Databases
      /\ UNCHANGED <<remote, inflight, sends, absent, checked, reopened>>
      /\ faults' \in 0..MaxFaults
      /\ op' \in Ops /\ pc' \in {"down", "rolledback"}
  BY NoOpType, ExternalAssumption DEF CycleRaises, Recover, Fault, world, late, IInv, TypeOK
<1>2. Data' /\ db' \in Databases
  BY <1>1, RollbackStep DEF IInv
<1>3. TypeOK'
  BY <1>1, <1>2 DEF IInv, TypeOK, Labels, InCycle, Submitting, Reading, Recording, Crediting
<1>4. Process'
  BY <1>1 DEF Process, AtCycle, AtCapability, AtSubmit, AtNotFound, AtRecording,
     AtCrediting, Capability, Submitting, Reading, Recording, Crediting
<1> QED
  BY <1>2, <1>3, <1>4 DEF IInv

LEMMA RepairKeeps ==
    ASSUME IInv, AfterRollback \/ AfterRollbackRaises \/ Boot
    PROVE  IInv'
<1>1. /\ db' \in {db, RecoverInterruptedIntents(db), Repaired(db)} /\ copy = NoCopy /\ db \in Databases
      /\ UNCHANGED <<copy, op, remote, inflight, sends, absent, checked, reopened>>
      /\ faults' \in 0..MaxFaults /\ pc' = "idle"
  BY ExternalAssumption DEF AfterRollback, AfterRollbackRaises, Boot, Goto, Fault, world, late,
     IInv, TypeOK
<1>2. Data' /\ db' \in Databases
  BY <1>1, RepairedStep DEF IInv
<1>3. TypeOK'
  BY <1>1, <1>2 DEF IInv, TypeOK, Labels, InCycle, Submitting, Reading, Recording, Crediting
<1>4. Process'
  BY <1>1 DEF Process, AtCycle, AtCapability, AtSubmit, AtNotFound, AtRecording,
     AtCrediting, Capability, Submitting, Reading, Recording, Crediting
<1> QED
  BY <1>2, <1>3, <1>4 DEF IInv

-----------------------------------------------------------------------------
(* Every step.                                                             *)

LEMMA Initially == Init => IInv
<1> SUFFICES ASSUME Init PROVE IInv
  OBVIOUS
<1>1. EmptyDatabase \in Databases
  BY WorkAssumption DEF EmptyDatabase, Databases, WorkStatuses, IntentStatuses,
     RemoteStatuses, IngressRows
<1>2. /\ db.work = [w \in Items |-> "none"] /\ db.payer = [w \in Items |-> NoEvent]
      /\ db.intent = [w \in Items |-> "none"] /\ db.submission = [w \in Items |-> "none"]
      /\ db.ingress = [e \in Events |-> [status |-> "unseen", item |-> NoItem]]
      /\ db.booked = [e \in Events |-> 0]
  BY DEF Init, EmptyDatabase
<1>3. TypeOK
  BY <1>1, NoOpType, ExternalAssumption DEF Init, TypeOK, Labels, InCycle, Submitting,
     Reading, Recording, Crediting
<1>4. Data
  BY <1>2, WorkAssumption DEF Init, Data, Rows, Backed, Reopened, Checked, Sendable,
     MayResend, Undo
<1>5. Process
  BY DEF Init, Process, AtCycle, AtCapability, AtSubmit, AtNotFound, AtRecording,
     AtCrediting, Capability, Submitting, Reading, Recording, Crediting
<1> QED
  BY <1>3, <1>4, <1>5 DEF IInv

LEMMA StutterKeeps == ASSUME IInv, UNCHANGED vars PROVE IInv'
<1>1. UNCHANGED <<db, copy, pc, op, remote, inflight, sends, absent, checked, reopened, faults>>
  BY DEF vars, world, late
<1>2. Data'
  BY <1>1, DataKept DEF IInv, Later, MayResend
<1>3. TypeOK' /\ Process'
  BY <1>1 DEF IInv, TypeOK, MayResend, Process, AtCycle, AtCapability, AtSubmit, AtNotFound,
     AtRecording, AtCrediting, Capability, Submitting, Reading, Recording, Crediting
<1> QED
  BY <1>2, <1>3 DEF IInv

LEMMA Inductive == ASSUME IInv, [Next]_vars PROVE IInv'
<1>1. CASE CycleStep
  BY <1>1, BeginKeeps, EndKeeps, PlanKeeps, StageKeeps, PrepareIntentKeeps, RefuseKeeps,
     ReconcileKeeps, CheckOutcomeKeeps, CheckIngressKeeps DEF CycleStep
<1>2. CASE CapabilityStep
  BY <1>2, MarkSendingKeeps, CallSubmitKeeps, SubmitFailedKeeps, LookupNotFoundKeeps,
     LookupFoundKeeps, EndKeeps, MarkNotFoundKeeps, FinalizeKeeps, ProjectKeeps,
     RecordOutcomeKeeps, ApplyOutcomeKeeps, ReserveKeeps, BookKeeps, MarkKeeps, LinkKeeps
     DEF CapabilityStep
<1>3. CASE Accept \/ Stop
  BY <1>3, EndKeeps
<1>4. CASE RepairStep
  BY <1>4, RewindKeeps, RepairKeeps DEF RepairStep
<1>5. CASE FaultStep
  BY <1>5, RaiseKeeps, RewindKeeps, RepairKeeps, CrashKeeps DEF FaultStep
<1>6. CASE Outside
  BY <1>6, StatusRecoversKeeps, StatusChecksKeeps, StatusUpdatesKeeps, RemoteKeeps DEF Outside
<1>7. CASE UNCHANGED vars
  BY <1>7, StutterKeeps
<1> QED
  BY <1>1, <1>2, <1>3, <1>4, <1>5, <1>6, <1>7 DEF Next

\* The invariant that the theorems below rest on is inductive.
THEOREM InductiveInvariant == Spec => []IInv
<1>1. Init => IInv
  BY Initially
<1>2. IInv /\ [Next]_vars => IInv'
  BY Inductive
<1> QED
  BY <1>1, <1>2, PTL DEF Spec

\* Type correctness of external work, for any number of items, events,
\* submit calls and faults.
THEOREM TypeCorrect == Spec => []TypeOK
<1>1. IInv => TypeOK
  BY DEF IInv
<1> QED
  BY <1>1, InductiveInvariant, PTL

\* The local lifecycle never runs ahead of the remote side.
THEOREM NotNarratedHolds == Spec => []NotNarrated
<1>1. IInv => NotNarrated
  BY DEF IInv, Data, Rows, NotNarrated
<1> QED
  BY <1>1, InductiveInvariant, PTL

\* Every realized item is backed by one booked, signed and realized event.
THEOREM RealizedBackedHolds == Spec => []RealizedBacked
<1>1. IInv => RealizedBacked
  <2> SUFFICES ASSUME IInv PROVE RealizedBacked
    OBVIOUS
  <2>1. db.ingress \in [Events -> IngressRows] /\ db.payer \in [Items -> Events \cup {NoEvent}]
    BY Tables DEF IInv, TypeOK
  <2>2. ASSUME NEW w \in Items, db.payer[w] # NoEvent
        PROVE  db.ingress[db.payer[w]] = [status |-> "realized", item |-> w]
    <3>1. db.ingress[db.payer[w]] \in IngressRows
      BY <2>1, <2>2
    <3> QED
      BY <2>2, <3>1 DEF IInv, Data, Backed, IngressRows
  <2> QED
    BY <2>2 DEF IInv, Data, Rows, Backed, Reopened, RealizedBacked
<1> QED
  BY <1>1, InductiveInvariant, PTL

\* The foreign keys of a rollback are always satisfied.
THEOREM RollbackPossibleHolds == Spec => []RollbackPossible
<1>1. IInv => RollbackPossible
  BY DEF IInv, Data, Undo, RollbackPossible
<1> QED
  BY <1>1, InductiveInvariant, PTL

LEMMA SendsKept ==
    ASSUME [Next]_vars, ~CallSubmit
    PROVE  sends' = sends
<1>1. CASE CycleStep
  BY <1>1 DEF CycleStep, Begin, NoExternalWork, PlanWork, AbandonWork, StageDeliverable,
     PrepareIntent, RefuseBlindSend, Reconcile, CheckOutcome, CheckIngress, world, late
<1>2. CASE CapabilityStep
  BY <1>2 DEF CapabilityStep, MarkSending, SubmitFailed, LookupNotFound, LookupFound,
     LookupFails, MarkNotFound, Finalize, Project, RecordOutcome, ApplyOutcome,
     ReserveEvent, BookEvent, MarkEvent, LinkWork, world, late
<1>3. CASE Accept \/ Stop \/ RepairStep \/ FaultStep \/ UNCHANGED vars
  BY <1>3 DEF Accept, Stop, RepairStep, AfterRollback, Recover, Boot, FaultStep,
     CapabilityRaises, CycleRaises, AfterRollbackRaises, Crash, vars, world, late
<1>4. CASE Outside
  BY <1>4 DEF Outside, StatusRecovers, StatusChecks, StatusUpdates, LateRequest, RemoteDecides, world, late
<1> QED
  BY <1>1, <1>2, <1>3, <1>4 DEF Next

\* No submission of unknown outcome is sent again.
THEOREM NoBlindSendHolds == Spec => NoBlindSend
<1>1. IInv /\ [Next]_vars
        => [\A w \in Items : sends'[w] # sends[w] => sends[w] = 0 \/ w \in absent]_vars
  <2> SUFFICES ASSUME IInv, [Next]_vars, NEW w \in Items, sends'[w] # sends[w]
               PROVE  sends[w] = 0 \/ w \in absent
    OBVIOUS
  <2>1. CallSubmit
    BY SendsKept
  <2>2. sends' = [sends EXCEPT ![op.item] = @ + 1] /\ pc = "calling" /\ sends \in [Items -> 0..MaxSends]
    BY <2>1 DEF CallSubmit, IInv, TypeOK
  <2>3. w = op.item
    BY <2>2
  <2> QED
    BY <2>2, <2>3 DEF IInv, Process, AtSubmit, MayResend
<1> QED
  BY <1>1, InductiveInvariant, PTL DEF Spec, NoBlindSend

-----------------------------------------------------------------------------
(* The refinement.                                                         *)

LEMMA Invisible ==
    ASSUME db'.payer = db.payer, db'.submission = db.submission, db'.booked = db.booked,
           reopened' = reopened
    PROVE  UNCHANGED Truth!vars
  BY DEF Truth!vars, KnownStage

\* Steps on the rows that the abstract specification does not see.
LEMMA QuietStep ==
    ASSUME IInv, [Next]_vars, ~Finalize, ~RecordOutcome, ~BookEvent, ~LinkWork, ~CycleRaises, ~Recover,
           \A w \in Items : ~StatusUpdates(w)
    PROVE  /\ db'.payer = db.payer /\ db'.submission = db.submission /\ db'.booked = db.booked
           /\ reopened' = reopened
<1> DEFINE Kept(d) == d.payer = db.payer /\ d.submission = db.submission /\ d.booked = db.booked
<1>0. db \in Databases
  BY DEF IInv, TypeOK
<1>9. Kept(db)
  OBVIOUS
<1>1. \A w \in Items, s \in WorkStatuses : Kept(SetWork(db, w, s))
  BY <1>0, SetWorkTables DEF Same
<1>2. \A w \in Items, s \in IntentStatuses : Kept(SetIntent(db, w, s))
  BY <1>0, SetIntentTables DEF Same
<1>3. \A w \in Items : Kept(MarkIndeterminate(db, w))
  BY <1>2 DEF MarkIndeterminate, IntentStatuses
<1>4. \A w \in Items : Kept(RecordSubmission(db, w))
  BY <1>1, <1>9 DEF RecordSubmission, UpdateSubmitted, WorkStatuses
<1>5. Kept(RecoverInterruptedIntents(db))
  BY <1>0, InterruptedTables DEF Same
<1>6. Kept(Repaired(db))
  BY <1>0, <1>5, InterruptedTables, ProjectionTables DEF Same, Repaired
<1>7. \A e \in Events, w \in Items \cup {NoItem} : Kept(Reserve(db, e, w))
  BY <1>0, ReserveTables DEF Same
<1>8. \A e \in Events : Kept(MarkRealized(db, e))
  BY <1>0, RealizedTables DEF Same
<1> HIDE DEF Kept
<1>10. Kept(db')
  <2>1. CASE CycleStep
    BY <1>1, <1>2, <1>3, <1>9, <2>1 DEF CycleStep, Begin, NoExternalWork, PlanWork,
       AbandonWork, StageDeliverable, PrepareIntent, RefuseBlindSend, Reconcile,
       CheckOutcome, CheckIngress, WorkStatuses, IntentStatuses
  <2>2. CASE CapabilityStep
    <3>1. (pc \in Submitting \cup Reading \cup Recording => op.item \in Items)
          /\ (pc \in Crediting => op.event \in Events) /\ op.item \in Items \cup {NoItem}
      BY DEF IInv, TypeOK, Ops
    <3>2. CASE MarkSending \/ SubmitFailed \/ MarkNotFound
      BY <1>2, <1>3, <3>1, <3>2 DEF MarkSending, SubmitFailed, MarkNotFound, Goto,
         IntentStatuses, Submitting, Reading
    <3>3. CASE CallSubmit \/ LookupNotFound \/ LookupFound \/ LookupFails
      BY <1>9, <3>3 DEF CallSubmit, LookupNotFound, LookupFound, LookupFails
    <3>4. CASE Project
      BY <1>4, <3>1, <3>4 DEF Project, Recording
    <3>5. CASE ApplyOutcome
      <4>1. op.answer \in WorkStatuses /\ op.item \in Items
        BY <3>5 DEF ApplyOutcome, IInv, TypeOK, Recording, Process, AtRecording,
           WorkStatuses
      <4> QED
        BY <1>1, <1>9, <3>5, <4>1 DEF ApplyOutcome, RecordExternalOutcome
    <3>6. CASE ReserveEvent
      BY <1>7, <1>9, <3>1, <3>6 DEF ReserveEvent, Crediting
    <3>7. CASE MarkEvent
      BY <1>8, <3>1, <3>7 DEF MarkEvent, Crediting
    <3> QED
      BY <2>2, <3>2, <3>3, <3>4, <3>5, <3>6, <3>7 DEF CapabilityStep
  <2>3. CASE Accept \/ Stop \/ Crash \/ UNCHANGED vars
    BY <1>9, <2>3 DEF Accept, Stop, Crash, vars
  <2>4. CASE AfterRollback \/ Boot \/ AfterRollbackRaises
    BY <1>5, <1>6, <1>9, <2>4 DEF AfterRollback, Boot, AfterRollbackRaises
  <2>5. CASE CapabilityRaises
    BY <1>3, <1>9, <2>5 DEF CapabilityRaises
  <2>6. CASE Outside
    BY <1>3, <1>9, <2>6 DEF Outside, StatusRecovers, StatusChecks, LateRequest, RemoteDecides
  <2> QED
    BY <2>1, <2>2, <2>3, <2>4, <2>5, <2>6 DEF Next, RepairStep, FaultStep
<1>11. reopened' = reopened
  <2>1. CASE CycleStep
    BY <2>1 DEF CycleStep, Begin, NoExternalWork, PlanWork, AbandonWork, StageDeliverable,
       PrepareIntent, RefuseBlindSend, Reconcile, CheckOutcome, CheckIngress, world, late
  <2>2. CASE CapabilityStep
    BY <2>2 DEF CapabilityStep, MarkSending, CallSubmit, SubmitFailed, LookupNotFound,
       LookupFound, LookupFails, MarkNotFound, Project, ApplyOutcome, ReserveEvent,
       MarkEvent, world, late
  <2>3. CASE Accept \/ Stop \/ RepairStep \/ FaultStep \/ UNCHANGED vars
    BY <2>3 DEF Accept, Stop, RepairStep, AfterRollback, Boot, FaultStep, CapabilityRaises,
       AfterRollbackRaises, Crash, vars, world, late
  <2>4. CASE Outside
    BY <2>4 DEF Outside, StatusRecovers, StatusChecks, LateRequest, RemoteDecides, world, late
  <2> QED
    BY <2>1, <2>2, <2>3, <2>4 DEF Next
<1> QED
  BY <1>10, <1>11 DEF Kept

LEMMA FinalizeRefines == ASSUME IInv, Finalize PROVE [Truth!Next]_(Truth!vars)
<1> DEFINE w == op.item
<1>1. /\ w \in Items /\ db.submission \in [Items -> RemoteStatuses]
      /\ db'.payer = db.payer /\ db'.booked = db.booked /\ reopened' = reopened
      /\ db'.submission = IF db.submission[w] = "none"
                          THEN [db.submission EXCEPT ![w] = "submitted"] ELSE db.submission
  BY FinalizeStep, Tables DEF Finalize, Goto, world, late, IInv, TypeOK, Recording, Process,
     AtRecording
<1> HIDE DEF w
<1>2. CASE db.submission[w] # "none" \/ db.payer[w] # NoEvent
  <2>1. KnownStage' = KnownStage
    BY <1>1, <1>2 DEF KnownStage
  <2> QED
    BY <1>1, <2>1 DEF Truth!vars
<1>3. CASE db.submission[w] = "none" /\ db.payer[w] = NoEvent
  <2>1. KnownStage[w] = "local" /\ KnownStage' = [KnownStage EXCEPT ![w] = "sent"]
    BY <1>1, <1>3 DEF KnownStage
  <2>2. Truth!Sent(w)
    BY <1>1, <2>1 DEF Truth!Sent
  <2> QED
    BY <1>1, <2>2 DEF Truth!Next
<1> QED
  BY <1>2, <1>3

LEMMA RecordOutcomeRefines == ASSUME IInv, RecordOutcome PROVE [Truth!Next]_(Truth!vars)
<1> DEFINE w == op.item
           s == op.answer
<1>1. /\ w \in Items /\ s \in {"pending", "accepted", "rejected"} /\ db \in Databases
      /\ db' = SetSubmission(db, w, s) /\ db.submission[w] # "none"
      /\ db.submission[w] \in {"accepted", "rejected"} => s = db.submission[w]
      /\ reopened' = reopened
  BY DEF RecordOutcome, world, late, IInv, TypeOK, Ops, RemoteStatuses, Recording, Process,
     AtRecording
<1> HIDE DEF w, s
<1>2. /\ db.submission \in [Items -> RemoteStatuses]
      /\ db'.payer = db.payer /\ db'.booked = db.booked /\ db'.submission = [db.submission EXCEPT ![w] = s]
  BY <1>1 DEF SetSubmission, Databases
<1>3. CASE db.payer[w] # NoEvent \/ s = "pending" \/ db.submission[w] \in {"accepted", "rejected"}
  <2>1. KnownStage' = KnownStage
    BY <1>1, <1>2, <1>3 DEF KnownStage, RemoteStatuses
  <2> QED
    BY <1>1, <1>2, <2>1 DEF Truth!vars
<1>4. CASE db.payer[w] = NoEvent /\ s # "pending" /\ db.submission[w] \notin {"accepted", "rejected"}
  <2>1. KnownStage[w] = "sent" /\ KnownStage' = [KnownStage EXCEPT ![w] = s]
    BY <1>1, <1>2, <1>4 DEF KnownStage, RemoteStatuses
  <2>2. Truth!Decided(w)
    BY <1>1, <1>2, <1>4, <2>1 DEF Truth!Decided
  <2> QED
    BY <1>1, <2>2 DEF Truth!Next
<1> QED
  BY <1>3, <1>4

LEMMA BookRefines == ASSUME IInv, BookEvent PROVE [Truth!Next]_(Truth!vars)
<1> PICK e \in Events : e = op.event
  BY DEF BookEvent, Goto, IInv, TypeOK, Crediting
<1>1. /\ db'.payer = db.payer /\ db'.submission = db.submission /\ reopened' = reopened
      /\ db.booked \in [Events -> Nat] /\ db'.booked[e] = 1
      /\ db'.booked = db.booked \/ db'.booked = [db.booked EXCEPT ![e] = 1]
  BY BookStep, Tables DEF BookEvent, Goto, world, late, IInv, TypeOK, Crediting
<1>2. KnownStage' = KnownStage
  BY <1>1 DEF KnownStage
<1>3. CASE db.booked[e] > 0
  <2>1. \A f \in Events : db'.booked[f] > 0 <=> db.booked[f] > 0
    BY <1>1, <1>3
  <2>2. UNCHANGED Truth!vars
    BY <1>1, <1>2, <2>1 DEF Truth!vars
  <2> QED
    BY <2>2
<1>4. CASE ~(db.booked[e] > 0)
  <2>1. \A f \in Events : db'.booked[f] > 0 <=> (db.booked[f] > 0 \/ f = e)
    BY <1>1, <1>4
  <2> DEFINE credited == {f \in Events : db.booked[f] > 0}
  <2>2. e \notin credited /\ credited' = credited \cup {e}
    BY <1>1, <1>4, <2>1
  <2> HIDE DEF credited
  <2>3. Truth!Credit(e)
    BY <1>1, <1>2, <2>2 DEF Truth!Credit, credited
  <2> QED
    BY <2>3 DEF Truth!Next
<1> QED
  BY <1>3, <1>4

LEMMA LinkRefines == ASSUME IInv, LinkWork PROVE [Truth!Next]_(Truth!vars)
<1> DEFINE w == op.item
           e == op.event
<1>1. /\ w \in Items /\ e \in Events /\ db \in Databases /\ SignedFor[e] = w /\ db.booked[e] = 1
      /\ IF db.work[w] = "accepted"
         THEN db' = LinkResource(db, w, e) /\ reopened' = reopened \ {w}
         ELSE UNCHANGED <<db, reopened>>
  BY DEF LinkWork, IInv, TypeOK, Crediting, Process, AtCrediting
<1> HIDE DEF w, e
<1>2. CASE db.work[w] # "accepted"
  BY <1>1, <1>2, Invisible
<1>3. CASE db.work[w] = "accepted"
  <2>1. /\ db'.payer = [db.payer EXCEPT ![w] = e] /\ db.payer \in [Items -> Events \cup {NoEvent}]
        /\ db'.submission = db.submission /\ db'.booked = db.booked
    BY <1>1, <1>3 DEF LinkResource, Databases
  <2>2. e # NoEvent /\ (db.payer[w] = NoEvent => db.submission[w] = "accepted")
        /\ (db.payer[w] = NoEvent \/ w \in reopened)
    BY <1>1, <1>3, WorkAssumption DEF IInv, Data, Rows, Reopened
  <2>3. \A v \in Items \ {w} : db.payer[v] # e
    BY <1>1, <2>2 DEF IInv, Data, Backed
  <2>4. KnownStage[w] = "accepted" /\ KnownStage' = KnownStage
    BY <1>1, <2>1, <2>2 DEF KnownStage
  <2>5. Truth!Pay(w, e)
    BY <1>1, <1>3, <2>1, <2>2, <2>3, <2>4 DEF Truth!Pay
  <2> QED
    BY <1>1, <2>5 DEF Truth!Next
<1> QED
  BY <1>2, <1>3

\* A rollback forgets nothing of what the abstract specification knows.
LEMMA RewindRefines == ASSUME IInv, CycleRaises \/ Recover PROVE UNCHANGED Truth!vars
<1>1. /\ db' = RolledBack(db, copy) /\ copy # NoCopy /\ db \in Databases /\ copy \in Databases
  BY DEF CycleRaises, Recover, IInv, TypeOK, InCycle
<1>2. db'.booked = db.booked /\ db' \in Databases /\ reopened' = reopened
  BY <1>1, RolledBackTables DEF Same, CycleRaises, Recover, world, late
<1>3. \A w \in Items : db.payer[w] # NoEvent => db'.payer[w] = db.payer[w]
  BY <1>1, RolledBackTables
<1>4. \A w \in Items : db.payer[w] = NoEvent =>
         db'.payer[w] = NoEvent /\ db'.submission[w] = db.submission[w]
  BY <1>1, RolledBackTables DEF IInv, Data, Undo, Forward
<1>5. db'.payer = db.payer
  BY <1>1, <1>2, <1>3, <1>4, Tables
<1>6. KnownStage' = KnownStage
  BY <1>4, <1>5 DEF KnownStage
<1> QED
  BY <1>2, <1>5, <1>6 DEF Truth!vars

LEMMA UpdateRefines ==
    ASSUME IInv, NEW w \in Items, StatusUpdates(w)
    PROVE  [Truth!Next]_(Truth!vars)
<1>1. /\ db'.payer = db.payer /\ db'.submission = db.submission /\ db'.booked = db.booked
      /\ reopened' = IF db.work[w] = "realized" THEN reopened \cup {w} ELSE reopened
  BY UpdateStep DEF StatusUpdates, IInv, TypeOK
<1>2. CASE db.work[w] # "realized"
  BY <1>1, <1>2, Invisible
<1>3. CASE db.work[w] = "realized"
  <2>1. db.payer[w] # NoEvent /\ KnownStage' = KnownStage
    BY <1>1, <1>3 DEF IInv, Data, Rows, KnownStage
  <2>2. Truth!Reopen(w)
    BY <1>1, <1>3, <2>1 DEF Truth!Reopen
  <2> QED
    BY <2>2 DEF Truth!Next
<1> QED
  BY <1>2, <1>3

LEMMA RefinementStep == ASSUME IInv, [Next]_vars PROVE [Truth!Next]_(Truth!vars)
<1>1. CASE Finalize \/ RecordOutcome \/ BookEvent \/ LinkWork
  BY <1>1, FinalizeRefines, RecordOutcomeRefines, BookRefines, LinkRefines
<1>2. CASE CycleRaises \/ Recover
  BY <1>2, RewindRefines
<1>3. CASE \E w \in Items : StatusUpdates(w)
  BY <1>3, UpdateRefines
<1>4. CASE ~(Finalize \/ RecordOutcome \/ BookEvent \/ LinkWork \/ CycleRaises \/ Recover)
           /\ ~\E w \in Items : StatusUpdates(w)
  BY <1>4, QuietStep, Invisible
<1> QED
  BY <1>1, <1>2, <1>3, <1>4

\* The durable knowledge of the outside world implements ExternalTruth, for
\* any number of items, events, rollbacks and crashes.
THEOREM TruthForwardHolds == Spec => TruthForward
<1>1. Init => Truth!Init
  BY DEF Init, EmptyDatabase, Truth!Init, KnownStage
<1>2. IInv /\ [Next]_vars => [Truth!Next]_(Truth!vars)
  BY RefinementStep
<1> QED
  BY <1>1, <1>2, InductiveInvariant, PTL DEF Spec, TruthForward, Truth!Spec

=============================================================================
