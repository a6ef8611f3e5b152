---------------------------- MODULE EffectLedger ----------------------------
(***************************************************************************)
(* The durable ledger of external effects (elia/external_effects.py,       *)
(* table external_effect_intents) as operators on its rows, and the two    *)
(* operations the accepted-transition guard applies to the same rows when  *)
(* it rolls a transition back (elia/transition_kernel.py).                 *)
(*                                                                         *)
(* A row is named by its autoincrement id.  ActionOf[i] is the pair        *)
(* (action_name, arguments_sha256) of row i: two rows with the same        *)
(* ActionOf are the "matching" intents of the code.  Timestamps, hashes    *)
(* and evidence text are abstracted away; an id no row has yet is          *)
(* "absent".                                                               *)
(***************************************************************************)
EXTENDS Naturals

CONSTANTS Intents,      \* ids of external_effect_intents rows
          Actions,      \* (action, arguments) fingerprints
          ActionOf      \* the fingerprint of each row

ASSUME LedgerAssumption ==
    /\ Intents \subseteq Nat
    /\ ActionOf \in [Intents -> Actions]

UnresolvedStatuses == {"prepared", "sending", "indeterminate"}
TerminalStatuses   == {"succeeded", "reconciled_effect", "reconciled_no_effect"}
Statuses           == {"absent"} \cup UnresolvedStatuses \cup TerminalStatuses

\* Statuses in which the remote side may already have been mutated.
CrossedStatuses == {"sending", "succeeded", "reconciled_effect"}

Rows == [Intents -> Statuses]

-----------------------------------------------------------------------------
(* Queries.                                                                *)

MatchingUnresolved(rows, x) ==
    {i \in Intents : ActionOf[i] = x /\ rows[i] \in UnresolvedStatuses}

\* unresolved_for: ORDER BY id DESC LIMIT 1 over the matching unresolved rows.
UnresolvedFor(rows, x, i) ==
    /\ i \in MatchingUnresolved(rows, x)
    /\ \A j \in MatchingUnresolved(rows, x) : j <= i

\* The newest matching unresolved row forbids another attempt.
RetryBlocked(rows, x) ==
    \E i \in Intents : UnresolvedFor(rows, x, i) /\ rows[i] \in {"sending", "indeterminate"}

\* prepare() returns the newest unresolved row when it is still "prepared" ...
Reuses(rows, x, i) == UnresolvedFor(rows, x, i) /\ rows[i] = "prepared"

\* ... and inserts a row with the next id when no matching row is unresolved.
Inserts(rows, x, i) ==
    /\ MatchingUnresolved(rows, x) = {}
    /\ ActionOf[i] = x
    /\ \A j \in Intents : j >= i => rows[j] = "absent"

-----------------------------------------------------------------------------
(* Updates.                                                                *)

Prepared(rows, i) == [rows EXCEPT ![i] = "prepared"]

MarkSending(rows, i) == [rows EXCEPT ![i] = "sending"]

\* Mutant: a status the ledger does not know.
ResultStatus_Failed(ok, noEffectProven) ==
    IF ok THEN "succeeded" ELSE IF noEffectProven THEN "cancelled" ELSE "failed"

\* The status record_result gives a row.
ResultStatus(ok, noEffectProven) ==
    IF ok THEN "succeeded"
    ELSE IF noEffectProven THEN "reconciled_no_effect" ELSE "indeterminate"

RecordResult(rows, i, ok, noEffectProven) ==
    [rows EXCEPT ![i] = ResultStatus(ok, noEffectProven)]

MarkIndeterminate(rows, i) ==
    IF rows[i] \in {"prepared", "sending"}
    THEN [rows EXCEPT ![i] = "indeterminate"] ELSE rows

\* Boot: a send the previous process did not finish becomes ambiguous.
RecoverInterrupted(rows) ==
    [i \in Intents |-> IF rows[i] = "sending" THEN "indeterminate" ELSE rows[i]]

\* The operator's evidence settles an indeterminate row.
Reconcile(rows, i, effectObserved) ==
    [rows EXCEPT ![i] = IF effectObserved THEN "reconciled_effect" ELSE "reconciled_no_effect"]

-----------------------------------------------------------------------------
(* Rollback.                                                               *)

\* A row the failed transition added or changed, and that crossed the
\* boundary, becomes indeterminate; every other row keeps its dirty status.
Quarantine(dirty, acceptedBefore) ==
    [i \in Intents |->
        IF dirty[i] # acceptedBefore[i] /\ dirty[i] \in CrossedStatuses
        THEN "indeterminate" ELSE dirty[i]]

\* INSERT OR REPLACE of the saved rows over the rows of a database.
InsertOrReplace(rows, saved) ==
    [i \in Intents |-> IF saved[i] = "absent" THEN rows[i] ELSE saved[i]]
=============================================================================
