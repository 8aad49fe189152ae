------------------------- MODULE MCOperatorMailbox -------------------------
(* OperatorMailbox for TLC. *)
EXTENDS OperatorMailbox
=============================================================================
