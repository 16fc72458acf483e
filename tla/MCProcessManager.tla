-------------------------- MODULE MCProcessManager --------------------------
(* A shell and an agent, stopped by a tool and by the shutdown. *)
EXTENDS ProcessManager

CONSTANTS sh1, ag, tool, shutdown

OneShell == {sh1}
OneAgent == {ag}
OneTool  == {tool}
=============================================================================
