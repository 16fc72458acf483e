--------------------------- MODULE MCWorkflowRun ---------------------------
(* Three thunks for two slots, and caps they can exceed together. *)
EXTENDS WorkflowRun

CONSTANTS t1, t2, t3

ThreeThunks == {t1, t2, t3}
=============================================================================
