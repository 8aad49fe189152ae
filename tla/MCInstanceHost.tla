--------------------------- MODULE MCInstanceHost ---------------------------
(* InstanceHost for TLC. *)
EXTENDS InstanceHost
=============================================================================
