---------------------------- MODULE MCDeadLetter ----------------------------
(* DeadLetter on a few events; the values are in the configurations.       *)
EXTENDS DeadLetter
=============================================================================
