---------------------------- MODULE WorkflowRun ----------------------------
(***************************************************************************)
(* One run of a workflow: WorkflowManager (src/operator_use/workflow/      *)
(* manager.py) around the workflow's own code, with what the code may call *)
(* of WorkflowExecuteContext (src/operator_use/workflow/context.py).       *)
(*                                                                         *)
(* The workflow's code is any code: it calls agent() and parallel(),       *)
(* catches errors or not, returns or raises, but lets CancelledError pass. *)
(* flow[Script] is the task of the run, flow[t] a thunk of the parallel    *)
(* call in progress: where it is, and the number of its agent() call.      *)
(* rec is the WorkflowRunRecord; stop what interrupts the run, tolerant    *)
(* the return_exceptions of the parallel call.  rec.calls is agent_calls.  *)
(* rec.runs is a history: how many subagents each call ran, of those that  *)
(* ran any.  rec.journal: a result is in the journal; rec.addressed: there *)
(* are a channel, a chat and a bus; rec.pending: the shielded _announce    *)
(* has yet to run; rec.announced: the statuses published.                  *)
(***************************************************************************)
EXTENDS Naturals, FiniteSets, Sequences

CONSTANTS
  Thunks,       \* thunks that a parallel call may be given
  Script,       \* the task of the run
  Concurrency,  \* of a parallel call
  Cap,          \* max_agent_calls of the run's own context
  NestedCap,    \* max_agent_calls of a workflow nested in it
  MaxRetries    \* stall retries of an agent() call

ASSUME WorkflowAssumption ==
  /\ IsFiniteSet(Thunks) /\ Script \notin Thunks
  /\ Concurrency \in Nat \ {0} /\ Cap \in Nat /\ NestedCap \in Nat /\ MaxRetries \in Nat

VARIABLES rec, flow, stop, tolerant

vars == <<rec, flow, stop, tolerant>>

Flows  == Thunks \cup {Script}
Caps   == {Cap, NestedCap}
Holds  == {"code", "agent"}                        \* a thunk past the semaphore
Active == Holds \cup {"waiting", "cancelling"}     \* a thunk that is not done
Ending == {"completed", "failed", "cancelled"}

At(f, pc) == [flow EXCEPT ![f].pc = pc]

Records == [status : Ending \cup {"running"}, calls : Nat, runs : Seq(Nat), journal : BOOLEAN,
            deliver : BOOLEAN, addressed : BOOLEAN, pending : BOOLEAN, announced : Seq(Ending)]
Places  == Active \cup {"none", "ended", "raised", "created", "gather", "reap", "announce", "done"}

TypeOK ==
  /\ rec \in Records
  /\ flow \in [Flows -> [pc : Places, call : Nat]]
  /\ stop \in {"no", "cancel", "timeout"} /\ tolerant \in BOOLEAN

\* invoke: the record, and the task that has not run yet.
Init ==
  /\ \E deliver, addressed \in BOOLEAN :
       rec = [status |-> "running", calls |-> 0, runs |-> <<>>, journal |-> FALSE,
              deliver |-> deliver, addressed |-> addressed, pending |-> FALSE,
              announced |-> <<>>]
  /\ flow = [f \in Flows |-> [pc |-> IF f = Script THEN "created" ELSE "none", call |-> 0]]
  /\ stop = "no" /\ tolerant = FALSE

----------------------------------------------------------------------------
(* agent(), called by the run or by a thunk *)

InCode(f) == flow[f].pc = "code" /\ (f = Script => stop = "no")

CallUncounted(f) ==                     \* fault: counted when the result is there
  /\ InCode(f)
  /\ \E cap \in Caps : rec.calls < cap
  /\ rec' = [rec EXCEPT !.runs = Append(@, 1)]
  /\ flow' = [flow EXCEPT ![f] = [pc |-> "agent", call |-> Len(rec.runs) + 1]]
  /\ UNCHANGED <<stop, tolerant>>

\* The cap, of the run's context or of a nested workflow's own, is checked and
\* the call counted in the record they share, before any wait.  (A call beyond
\* the cap raises: the code goes on or raises.)
Call(f) ==
  /\ InCode(f)
  /\ \E cap \in Caps : rec.calls < cap
  /\ rec' = [rec EXCEPT !.calls = @ + 1, !.runs = Append(@, 1)]
  /\ flow' = [flow EXCEPT ![f] = [pc |-> "agent", call |-> Len(rec.runs) + 1]]
  /\ UNCHANGED <<stop, tolerant>>

\* A resumed call whose result is in the journal counts, and runs nothing.
Cached(f) ==
  /\ InCode(f) /\ rec.journal
  /\ \E cap \in Caps : rec.calls < cap
  /\ rec' = [rec EXCEPT !.calls = @ + 1]
  /\ UNCHANGED <<flow, stop, tolerant>>

\* The subagent does not finish within stall_ms: it is cancelled and run again,
\* which counts as no call.
InAgent(f) == flow[f].pc = "agent" /\ (f = Script => stop = "no")

Stalls(f) ==
  /\ InAgent(f) /\ rec.runs[flow[f].call] <= MaxRetries
  /\ rec' = [rec EXCEPT !.runs[flow[f].call] = @ + 1]
  /\ UNCHANGED <<flow, stop, tolerant>>

\* The call returns, to the journal too if it is resumable, or it raises.
Returned(f) ==
  /\ InAgent(f)
  /\ flow' = [flow EXCEPT ![f] = [pc |-> "code", call |-> 0]]
  /\ \E kept \in {rec.journal, TRUE} : rec' = [rec EXCEPT !.journal = kept]
  /\ UNCHANGED <<stop, tolerant>>

----------------------------------------------------------------------------
(* parallel(), and pipeline(), whose items are thunks *)

Parallel ==
  /\ InCode(Script)
  /\ \E ts \in SUBSET Thunks \ {{}} :
       flow' = [f \in Flows |-> [pc |-> IF f = Script THEN "gather"
                                        ELSE IF f \in ts THEN "waiting" ELSE "none",
                                 call |-> 0]]
  /\ tolerant' \in BOOLEAN
  /\ UNCHANGED <<rec, stop>>

Enter(t) ==
  /\ flow[t].pc = "waiting"
  /\ Cardinality({u \in Thunks : flow[u].pc \in Holds}) < Concurrency
  /\ flow' = At(t, "code")
  /\ UNCHANGED <<rec, stop, tolerant>>

Leave(t) ==
  /\ InCode(t)
  /\ \E pc \in {"ended", "raised"} : flow' = At(t, pc)
  /\ UNCHANGED <<rec, stop, tolerant>>

\* CancelledError has gone through the thunk and what it awaited.
Cancelled(t) ==
  /\ flow[t].pc = "cancelling"
  /\ flow' = At(t, "raised")
  /\ UNCHANGED <<rec, stop, tolerant>>

ThunksDone == \A t \in Thunks : flow[t].pc \notin Active

Gathered ==
  /\ flow[Script].pc = "gather" /\ ThunksDone
  /\ tolerant \/ \A t \in Thunks : flow[t].pc # "raised"
  /\ flow' = At(Script, "code")
  /\ UNCHANGED <<rec, stop, tolerant>>

\* _gather_or_cancel: the thunks that are not done are cancelled, and awaited.
Reaping == [f \in Flows |-> IF f = Script THEN [flow[f] EXCEPT !.pc = "reap"]
                            ELSE IF flow[f].pc \in Active
                              THEN [pc |-> "cancelling", call |-> 0] ELSE flow[f]]

GatherLeaves ==                         \* fault: the error is raised at once
  /\ flow[Script].pc = "gather" /\ ~tolerant
  /\ \E t \in Thunks : flow[t].pc = "raised"
  /\ flow' = At(Script, "code")
  /\ UNCHANGED <<rec, stop, tolerant>>

GatherFails ==
  /\ flow[Script].pc = "gather" /\ ~tolerant
  /\ \E t \in Thunks : flow[t].pc = "raised"
  /\ flow' = Reaping
  /\ UNCHANGED <<rec, stop, tolerant>>

\* The error is raised in the workflow's code; so is CancelledError.
Reaped ==
  /\ flow[Script].pc = "reap" /\ ThunksDone
  /\ flow' = At(Script, "code")
  /\ UNCHANGED <<rec, stop, tolerant>>

----------------------------------------------------------------------------
(* The run *)

Begin ==
  /\ flow[Script].pc = "created"
  /\ flow' = At(Script, "code")
  /\ UNCHANGED <<rec, stop, tolerant>>

\* A task that is cancelled before its first step never runs its handlers.
CancelUnstarted ==
  /\ flow[Script].pc = "created"
  /\ flow' = At(Script, "done")
  /\ UNCHANGED <<rec, stop, tolerant>>

\* cancel, and the timeout of the whole run: CancelledError is raised where the
\* task waits; a gather passes it to the thunks.  A timeout that a cancel
\* joins counts as cancelled.
Interrupt(why) ==
  /\ flow[Script].pc \in Holds \cup {"gather", "reap"}
  /\ stop' = why
  /\ flow' = IF flow[Script].pc = "gather" THEN Reaping ELSE flow
  /\ UNCHANGED <<rec, tolerant>>

Cancel  == stop # "cancel" /\ Interrupt("cancel")
TimeOut == stop = "no" /\ Interrupt("timeout")

\* The end of _run_and_announce: the status, then the announcement, shielded.
Ends(status) ==
  /\ rec' = [rec EXCEPT !.status = status, !.pending = rec.deliver]
  /\ flow' = At(Script, IF rec.deliver THEN "announce" ELSE "done")
  /\ UNCHANGED <<stop, tolerant>>

Finish == InCode(Script) /\ \E status \in {"completed", "failed"} : Ends(status)

Unwound ==
  /\ flow[Script].pc \in Holds /\ stop # "no"
  /\ Ends(IF stop = "cancel" THEN "cancelled" ELSE "failed")

\* It publishes what the record says now, on a queue that is never full, or
\* drops it if there is no channel, chat or bus.
Announce ==
  /\ rec.pending
  /\ rec' = [rec EXCEPT !.pending = FALSE,
       !.announced = IF rec.addressed THEN Append(@, rec.status) ELSE @]
  /\ flow' = At(Script, "done")
  /\ UNCHANGED <<stop, tolerant>>

CancelAnnouncingBare ==                 \* fault: the announcement is not shielded
  /\ flow[Script].pc = "announce"
  /\ flow' = At(Script, "done")
  /\ rec' = [rec EXCEPT !.pending = FALSE]
  /\ UNCHANGED <<stop, tolerant>>

CancelAnnouncingInside ==               \* fault: the announcement is inside the try
  /\ flow[Script].pc = "announce"
  /\ flow' = At(Script, "done")
  /\ rec' = [rec EXCEPT !.status = "cancelled"]
  /\ UNCHANGED <<stop, tolerant>>

\* A cancel while the task awaits the announcement ends the task only.
CancelAnnouncing ==
  /\ flow[Script].pc = "announce"
  /\ flow' = At(Script, "done")
  /\ UNCHANGED <<rec, stop, tolerant>>

----------------------------------------------------------------------------

RunStep == Begin \/ Reaped \/ Unwound \/ Announce
Next ==
  \/ RunStep \/ Parallel \/ Gathered \/ GatherFails \/ Finish
  \/ CancelUnstarted \/ Cancel \/ TimeOut \/ CancelAnnouncing
  \/ \E f \in Flows : Call(f) \/ Cached(f) \/ Stalls(f) \/ Returned(f)
  \/ \E t \in Thunks : Enter(t) \/ Leave(t) \/ Cancelled(t)

Spec == Init /\ [][Next]_vars

\* The event loop runs what is ready, and its timers fire; nothing is assumed
\* of the workflow's code, its agents or its thunks but that they can be cancelled.
FairSpec ==
  /\ Spec
  /\ WF_vars(RunStep) /\ WF_vars(TimeOut)
  /\ \A t \in Thunks : WF_vars(Cancelled(t))

----------------------------------------------------------------------------
(* Properties *)

\* No more calls run subagents than the larger cap of the contexts that share
\* the record allows, however many thunks call agent() at once; each runs one,
\* and one more for every stall up to its retries, which no cap counts.
CapHolds ==
  /\ \E cap \in Caps : Len(rec.runs) <= cap
  /\ \A i \in DOMAIN rec.runs : rec.runs[i] <= MaxRetries + 1

\* Outside a parallel call no thunk is left: not when one has failed, not when
\* the run is cancelled or times out, not after the run.
NoOrphans == flow[Script].pc \in {"gather", "reap"} \/ ThunksDone

\* A status other than running is final; what is announced is the final status,
\* and nothing has been announced before it or is after it.
FinalOnce ==
  [][/\ rec.status # "running" => rec'.status = rec.status
     /\ rec'.announced # rec.announced =>
          rec.status # "running" /\ rec.announced = <<>> /\ rec'.announced = <<rec.status>>]_vars

\* A run that has begun gets a final status, and is announced if it is to be and
\* there is where to, whatever its code, its agents and its cancellations do.
RunReported ==
  flow[Script].pc = "code" ~>
    rec.status # "running" /\ (rec.deliver /\ rec.addressed => rec.announced # <<>>)

=============================================================================
