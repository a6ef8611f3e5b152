----------------------------- MODULE MCOrganism -----------------------------
(* Small instance of Organism for TLC.                                     *)
EXTENDS Organism, TLC
=============================================================================
