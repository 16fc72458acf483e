---------------------------- MODULE MCAgentTurn ----------------------------
(* The agent's turns, by one caller or by two. *)
EXTENDS AgentTurn

CONSTANTS alice, bob

OneCaller  == {alice}
TwoCallers == {alice, bob}
Symmetric  == Permutations(TwoCallers)
=============================================================================
