----------------------------- MODULE MCWakeRelay -----------------------------
(* Small instances of WakeRelay for TLC.                                     *)
EXTENDS WakeRelay
=============================================================================
