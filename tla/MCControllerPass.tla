-------------------------- MODULE MCControllerPass --------------------------
(* ControllerPass for TLC. *)
EXTENDS ControllerPass
=============================================================================
