--------------------------- MODULE MCSubagentPool ---------------------------
(* Three subagents on two slots. *)
EXTENDS SubagentPool, TLC

CONSTANTS a, b, c, ghost

ThreeTasks == {a, b, c}
NoTask     == {ghost}
=============================================================================
