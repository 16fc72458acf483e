------------------------------ MODULE TaskLife ------------------------------
(***************************************************************************)
(* What the pool of subagents promises (the docstring of TaskPool,         *)
(* src/operator_use/subagent/pool.py): a task runs once, after all the     *)
(* tasks it depends on have settled, and at most MaxConcurrent tasks run   *)
(* at a time (0: no limit).                                                *)
(***************************************************************************)
EXTENDS Naturals, FiniteSets

CONSTANTS Ids, MaxConcurrent

VARIABLES life, deps

vars == <<life, deps>>

Running == {t \in Ids : life[t] = "running"}

Submit(t) ==
  /\ life[t] = "absent"
  /\ life' = [life EXCEPT ![t] = "pending"]
  /\ \E ds \in SUBSET (Ids \ {t}) : deps' = [deps EXCEPT ![t] = ds]

Run(t) ==
  /\ life[t] = "pending"
  /\ \A d \in deps[t] : life[d] = "settled"
  /\ MaxConcurrent = 0 \/ Cardinality(Running) < MaxConcurrent
  /\ life' = [life EXCEPT ![t] = "running"]
  /\ UNCHANGED deps

Settle(t) ==
  /\ life[t] = "running"
  /\ life' = [life EXCEPT ![t] = "settled"]
  /\ UNCHANGED deps

Init == life = [t \in Ids |-> "absent"] /\ deps = [t \in Ids |-> {}]

Next == \E t \in Ids : Submit(t) \/ Run(t) \/ Settle(t)

Spec == Init /\ [][Next]_vars
=============================================================================
