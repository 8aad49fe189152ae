------------------------- MODULE MCWorkflowFileLock -------------------------
(* WorkflowFileLock for TLC. *)
EXTENDS WorkflowFileLock
=============================================================================
