---------------------------- MODULE MCCheckpoint ----------------------------
(* Instances of Checkpoint for model checking: contents of cognition and   *)
(* approvals are model values.                                             *)
EXTENDS Checkpoint, TLC

CONSTANTS m1, m2, a1, p1, p2

MCMinds     == {m1, m2}
OneMind     == {m1}
MCApprovals == {a1}
NoApprovals == {}
MCPlaces    == {p1, p2}
AutoPlace   == {p1}
=============================================================================
