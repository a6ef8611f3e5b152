------------------------ MODULE MCTransitionKernel ------------------------
(* Small instances of TransitionKernel for TLC.                            *)
EXTENDS TransitionKernel, TLC

CONSTANTS submit, click, a1, a2, d1, d2

\* Two rows of one action.
MCTwoOf == <<submit, submit>>
MCTwoApprovals == [a \in {a1, a2} |-> submit]
MCNoApproval == [a \in {} |-> submit]
=============================================================================
