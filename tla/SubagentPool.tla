---------------------------- MODULE SubagentPool ----------------------------
(***************************************************************************)
(* Subagents in the background: SubagentManager.invoke and cancel          *)
(* (src/operator_use/subagent/manager.py), the TaskPool that orders them   *)
(* (pool.py) and Subagent.run with its retries (service.py).               *)
(*                                                                         *)
(* task[t] is the asyncio task and the SubagentRecord of t: where the      *)
(* coroutine awaits, what it depends on, the status of the record, the     *)
(* attempt, the status announced to the conversation, and whether the      *)
(* on_complete listeners were called.  free is the semaphore's value and   *)
(* signalled the tasks whose completion event is set.                      *)
(***************************************************************************)
EXTENDS Naturals, FiniteSets

CONSTANTS
  Tasks,           \* the tasks that invoke may create
  Ghosts,          \* ids that depends_on may name although no task has them
  MaxConcurrent,   \* max_concurrent of the pool, 0 for no limit
  MaxRetries       \* max_retries of the settings

ASSUME PoolAssumption ==
  /\ IsFiniteSet(Tasks) /\ Tasks \cap Ghosts = {}
  /\ MaxConcurrent \in Nat /\ MaxRetries \in Nat

VARIABLES task, free, signalled

vars == <<task, free, signalled>>

\* "gone": cancelled before _run_task; "done": _run_task has returned.
Working == {"starting", "running", "backoff", "ending", "notifying"}
Pcs     == {"absent", "waiting", "gone", "done"} \cup Working
Ends    == {"completed", "failed", "cancelled"}

At(t, pcs) == task[t].pc \in pcs
Holders    == {t \in Tasks : At(t, Working)}

TypeOK ==
  /\ task \in [Tasks -> [pc : Pcs, deps : SUBSET (Tasks \cup Ghosts),
                         status : {"none", "running"} \cup Ends, attempt : 0..MaxRetries,
                         announced : {"none"} \cup Ends, told : BOOLEAN]]
  /\ free \in Nat /\ signalled \subseteq Tasks

----------------------------------------------------------------------------
Limited == MaxConcurrent > 0

\* invoke, up to pool.submit: dependencies name earlier tasks, or nothing.
Invoke(t) ==
  /\ At(t, {"absent"})
  /\ \E ds \in SUBSET ({d \in Tasks : ~At(d, {"absent"})} \cup Ghosts) :
       task' = [task EXCEPT ![t] = [@ EXCEPT !.pc = "waiting", !.deps = ds, !.status = "running"]]
  /\ UNCHANGED <<free, signalled>>

\* _try_launch: every dependency's event, then the semaphore.
LaunchUnordered(t) ==                     \* fault: an event that is not set is not awaited
  /\ At(t, {"waiting"}) /\ (Limited => free > 0)
  /\ task' = [task EXCEPT ![t].pc = "starting"]
  /\ free' = IF Limited THEN free - 1 ELSE free
  /\ UNCHANGED signalled

Launch(t) ==
  /\ At(t, {"waiting"})
  /\ task[t].deps \subseteq signalled
  /\ Limited => free > 0
  /\ task' = [task EXCEPT ![t].pc = "starting"]
  /\ free' = IF Limited THEN free - 1 ELSE free
  /\ UNCHANGED signalled

\* Subagent.run: the start hook, then attempts under a timeout.
Start(t) ==
  /\ At(t, {"starting", "backoff"})
  /\ task' = [task EXCEPT ![t].pc = "running"]
  /\ UNCHANGED <<free, signalled>>

Finish(t) ==
  /\ At(t, {"running"})
  /\ \E end \in {"completed", "failed"} :
       task' = [task EXCEPT ![t] = [@ EXCEPT !.pc = "ending", !.status = end]]
  /\ UNCHANGED <<free, signalled>>

RetryOnceMore(t) ==                       \* fault: one attempt too many
  /\ At(t, {"running"}) /\ task[t].attempt <= MaxRetries
  /\ task' = [task EXCEPT ![t] = [@ EXCEPT !.pc = "backoff", !.attempt = task[t].attempt + 1]]
  /\ UNCHANGED <<free, signalled>>

RetryLater(t) ==
  /\ At(t, {"running"}) /\ task[t].attempt < MaxRetries
  /\ task' = [task EXCEPT ![t] = [@ EXCEPT !.pc = "backoff", !.attempt = task[t].attempt + 1]]
  /\ UNCHANGED <<free, signalled>>

\* The end hook, then _announce; then the listeners, and back in _run_task.
Announce(t) ==
  /\ At(t, {"ending"})
  /\ task' = [task EXCEPT ![t] = [@ EXCEPT !.pc = "notifying", !.announced = task[t].status]]
  /\ UNCHANGED <<free, signalled>>

\* _run_task's finally block sets the event; the semaphore is released.
SettledKeepingSlot(t, r) ==               \* fault: released only without an exception
  /\ task' = [task EXCEPT ![t] = [r EXCEPT !.pc = "done"]]
  /\ signalled' = signalled \cup {t}
  /\ free' = IF Limited /\ r.told THEN free + 1 ELSE free

SettledOnSuccess(t, r) ==                 \* fault: the event is set only on success
  /\ task' = [task EXCEPT ![t] = [r EXCEPT !.pc = "done"]]
  /\ signalled' = IF r.status = "completed" THEN signalled \cup {t} ELSE signalled
  /\ free' = IF Limited THEN free + 1 ELSE free

Settled(t, r) ==
  /\ task' = [task EXCEPT ![t] = [r EXCEPT !.pc = "done"]]
  /\ signalled' = signalled \cup {t}
  /\ free' = IF Limited THEN free + 1 ELSE free

Notify(t) == At(t, {"notifying"}) /\ Settled(t, [task[t] EXCEPT !.told = TRUE])

\* CancelledError is raised where the task awaits.  Waiting, nothing catches
\* it.  In an attempt Subagent.run does and goes on; in the start hook or the
\* backoff only _run_task does.  _announce is shielded, what follows it is not.
CancelMarking(t) ==                       \* fault: a cancellation always marks the record
  /\ At(t, {"notifying"})
  /\ Settled(t, [task[t] EXCEPT !.status = "cancelled"])

Cancel(t) ==
  \/ /\ At(t, {"waiting"})
     /\ task' = [task EXCEPT ![t].pc = "gone"]
     /\ UNCHANGED <<free, signalled>>
  \/ /\ At(t, {"running"})
     /\ task' = [task EXCEPT ![t] = [@ EXCEPT !.pc = "ending", !.status = "cancelled"]]
     /\ UNCHANGED <<free, signalled>>
  \/ At(t, {"starting", "backoff", "ending", "notifying"}) /\ Settled(t, task[t])
  \/ At(t, {"ending"}) /\ Settled(t, [task[t] EXCEPT !.announced = task[t].status])

----------------------------------------------------------------------------
Init ==
  /\ task = [t \in Tasks |-> [pc |-> "absent", deps |-> {}, status |-> "none",
                              attempt |-> 0, announced |-> "none", told |-> FALSE]]
  /\ free = MaxConcurrent
  /\ signalled = {}

Step(t) == Launch(t) \/ Start(t) \/ Finish(t) \/ RetryLater(t) \/ Announce(t) \/ Notify(t)

Next == \E t \in Tasks : Invoke(t) \/ Step(t) \/ Cancel(t)

Spec == Init /\ [][Next]_vars

\* The event loop runs what can run, the timeout ends every attempt, and the
\* semaphore serves its waiters in turn.
FairSpec == Spec /\ \A t \in Tasks : WF_vars(Step(t))

----------------------------------------------------------------------------
(* Properties *)

\* The pool's promise holds of every task, cancelled ones included: one run,
\* after its dependencies have settled, never more than max_concurrent.
LifeOf(i) ==
  IF i \notin Tasks THEN "absent"
  ELSE CASE At(i, {"absent"})          -> "absent"
         [] At(i, {"waiting", "gone"}) -> "pending"
         [] At(i, Working)             -> "running"
         [] OTHER                      -> "settled"

Life == INSTANCE TaskLife WITH
  Ids  <- Tasks \cup Ghosts,
  life <- [i \in Tasks \cup Ghosts |-> LifeOf(i)],
  deps <- [i \in Tasks \cup Ghosts |-> IF i \in Tasks THEN task[i].deps ELSE {}]

KeepsPromise == Life!Spec

\* No path through retries, timeouts, cancellations and failing hooks loses or
\* doubles a slot of the semaphore.
SlotsConserved == Limited => free + Cardinality(Holders) = MaxConcurrent

\* The status announced to the conversation stays the status of the record.
AnnouncedIsRecorded ==
  \A t \in Tasks : task[t].announced # "none" => task[t].announced = task[t].status

\* Tasks do not wait for one another in vain: at last each one is over, or
\* depends on one that was cancelled before it ran or never existed, or on one
\* that waits for such a task itself.
WaitersRun ==
  <>[](\A t \in Tasks : \/ At(t, {"absent", "gone", "done"})
                        \/ /\ At(t, {"waiting"})
                           /\ \E d \in task[t].deps : d \in Ghosts \/ At(d, {"gone", "waiting"}))
=============================================================================
