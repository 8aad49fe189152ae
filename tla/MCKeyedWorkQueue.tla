-------------------------- MODULE MCKeyedWorkQueue --------------------------
(* KeyedWorkQueue for TLC. *)
EXTENDS KeyedWorkQueue
=============================================================================
