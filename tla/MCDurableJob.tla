---------------------------- MODULE MCDurableJob ----------------------------
(* Model values for DurableJob; the two runner processes are interchangeable. *)
EXTENDS DurableJob, TLC

Symmetry == Permutations(Runner)
=============================================================================
