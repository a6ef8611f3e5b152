--------------------------- MODULE AcceptedState ---------------------------
(***************************************************************************)
(* What the accepted-transition barrier promises, with no word about       *)
(* files, backups or crashes: there is one accepted state, a mind, a       *)
(* Chronicle and a workspace; an open transition that was proposed for     *)
(* acceptance may replace the accepted state in one indivisible step, and  *)
(* any other open transition ends by leaving it exactly as it was.  While  *)
(* no transition is open the runtime may record facts directly (boot, and  *)
(* the run loop between two cycles), never touching the workspace.  The    *)
(* accepted Chronicle is never rewound.                                    *)
(***************************************************************************)
EXTENDS Sequences, Naturals

CONSTANTS Data, Workspaces

VARIABLES accepted,     \* the state a restart would resume from
          phase         \* of the transition: "closed", "open" or "proposed"

vars == <<accepted, phase>>

States == [mind : Data, chronicle : Seq(Data), workspace : Workspaces]

\* State t continues the Chronicle of state s.
Descends(t, s) ==
    /\ Len(s.chronicle) <= Len(t.chronicle)
    /\ SubSeq(t.chronicle, 1, Len(s.chronicle)) = s.chronicle

Init == accepted \in States /\ phase = "closed"

Turn(from, to) == phase = from /\ phase' = to

Begin == Turn("closed", "open") /\ UNCHANGED accepted

Propose == Turn("open", "proposed") /\ UNCHANGED accepted

\* What proposed it died or failed before the acceptance.
Withdraw == Turn("proposed", "open") /\ UNCHANGED accepted

Accept ==
    /\ Turn("proposed", "closed")
    /\ accepted' \in States /\ Descends(accepted', accepted)

Abort == Turn("open", "closed") /\ UNCHANGED accepted

WriteDirectly ==
    /\ phase = "closed" /\ UNCHANGED phase
    /\ accepted' \in States /\ Descends(accepted', accepted)
    /\ accepted'.workspace = accepted.workspace

Next == Begin \/ Propose \/ Withdraw \/ Accept \/ Abort \/ WriteDirectly

Spec == Init /\ [][Next]_vars
=============================================================================
