--------------------------- MODULE MCOwnerControl ---------------------------
(* Small instances of OwnerControl for TLC.                                *)
EXTENDS OwnerControl

CONSTANTS p1, p2
=============================================================================
