---------------------------- MODULE ExternalTruth ----------------------------
(***************************************************************************)
(* What the organism promises about the world outside it, whatever its own *)
(* accepted state does: what it has durably learnt of an external          *)
(* submission only moves forward, and a provider's event is credited once  *)
(* and pays for at most one piece of work.  Paid work may be reopened, and *)
(* only then be paid again; its payment is never taken away.               *)
(***************************************************************************)
CONSTANTS Items,     \* work items
          Events,    \* events a resource provider reports
          NoEvent    \* this item has not been paid

VARIABLES stage,     \* what is known of each item's submission
          payer,     \* the event that paid for the item
          credited,  \* the events in the verified balance
          reopened   \* paid items that await a payment again

vars == <<stage, payer, credited, reopened>>

Stages == {"local", "sent", "accepted", "rejected"}

Init ==
    /\ stage = [w \in Items |-> "local"]
    /\ payer = [w \in Items |-> NoEvent]
    /\ credited = {} /\ reopened = {}

Sent(w) ==
    /\ stage[w] = "local"
    /\ stage' = [stage EXCEPT ![w] = "sent"]
    /\ UNCHANGED <<payer, credited, reopened>>

Decided(w) ==
    /\ stage[w] = "sent"
    /\ \E s \in {"accepted", "rejected"} : stage' = [stage EXCEPT ![w] = s]
    /\ UNCHANGED <<payer, credited, reopened>>

Credit(e) ==
    /\ e \notin credited
    /\ credited' = credited \cup {e}
    /\ UNCHANGED <<stage, payer, reopened>>

Pay(w, e) ==
    /\ stage[w] = "accepted"
    /\ payer[w] = NoEvent \/ w \in reopened
    /\ e \in credited /\ \A v \in Items \ {w} : payer[v] # e
    /\ payer' = [payer EXCEPT ![w] = e] /\ reopened' = reopened \ {w}
    /\ UNCHANGED <<stage, credited>>

Reopen(w) ==
    /\ payer[w] # NoEvent
    /\ reopened' = reopened \cup {w}
    /\ UNCHANGED <<stage, payer, credited>>

Next ==
    \/ \E w \in Items : Sent(w) \/ Decided(w) \/ Reopen(w)
    \/ \E e \in Events : Credit(e)
    \/ \E w \in Items, e \in Events : Pay(w, e)

Spec == Init /\ [][Next]_vars
=============================================================================
