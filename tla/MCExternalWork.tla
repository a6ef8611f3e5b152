---------------------------- MODULE MCExternalWork ----------------------------
(* Small instances of ExternalWork for TLC.                                *)
EXTENDS ExternalWork, TLC

CONSTANTS shop, paid1, paid2, gift

\* One item that two events are signed for, and one event for no item.
MCOneItem == 1..1
MCOneOpportunityOf == [w \in 1..1 |-> shop]
MCSignedFor == (paid1 :> 1) @@ (paid2 :> 1) @@ (gift :> 0)

\* One event, for the item.
MCPaidOnce == (paid1 :> 1)
=============================================================================
