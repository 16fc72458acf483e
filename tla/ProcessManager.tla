--------------------------- MODULE ProcessManager ---------------------------
(***************************************************************************)
(* Background processes: ProcessManager                                    *)
(* (src/operator_use/process/manager.py) with the operating system's       *)
(* processes, the watchers of shells, the sessions of agents, and callers  *)
(* of stop and close that overlap and may be cancelled.                    *)
(*                                                                         *)
(* proc[p] is a record and what runs for it.  kept: in _records.  handle:  *)
(* in _subprocesses, or with a queue and a session task.  os: the shell    *)
(* and its pipe ("held": it exited and a child of it keeps the pipe open). *)
(* task: where the watcher or the session awaits.  Prompts are numbered as *)
(* they are accepted; wrote, ran, asked and stopped are history: the last  *)
(* prompt accepted and run, the last before the first end sentinel (all    *)
(* three dropped with the queue), and whether a stop has returned.         *)
(* call[k] is a caller inside stop or close: what it still has to stop.    *)
(***************************************************************************)
EXTENDS Naturals, Sequences, FiniteSets

CONSTANTS
  Shells, Agents,  \* the processes that may be started
  Callers,         \* who may call stop
  Closer,          \* who calls close
  MaxTerminated,   \* _max_terminated, 0 for no limit
  MaxPrompts,      \* bound: prompts per agent, the first one included
  MaxAsked,        \* bound: stops may be called while fewer sentinels are queued
  MaxClock         \* bound: the clock; a tick is longer than the grace period

ASSUME ProcessAssumption ==
  /\ Shells \cap Agents = {} /\ IsFiniteSet(Shells) /\ IsFiniteSet(Agents)
  /\ Closer \notin Callers
  /\ MaxTerminated \in Nat /\ MaxPrompts \in Nat \ {0}
  /\ MaxAsked \in Nat /\ MaxClock \in Nat

VARIABLES proc, call, clock

vars == <<proc, call, clock>>

Procs    == Shells \cup Agents
Actors   == Callers \cup {Closer}
Terminal == {"completed", "failed", "killed"}
Living   == {"alive", "dying"}
Over     == {"done", "cancelled"}
NoProc   == "none"
Sentinel == 0                      \* the None that ends a session

Absent == [kept |-> FALSE, status |-> "none", ended |-> 0, os |-> "none", handle |-> FALSE,
           task |-> "none", watched |-> FALSE, queue |-> <<>>, end |-> "none",
           ran |-> 0, wrote |-> 0, asked |-> 0, stopped |-> FALSE]

Idle == [pc |-> "idle", on |-> NoProc, todo |-> {}, agents |-> FALSE]

Records == [kept : BOOLEAN, status : {"none", "running"} \cup Terminal, ended : Nat,
            os : {"none", "held", "gone"} \cup Living, handle : BOOLEAN,
            task : {"none", "live", "run", "closing", "telling"} \cup Over, watched : BOOLEAN,
            queue : Seq(Nat), end : {"none"} \cup Terminal,
            ran : Nat, wrote : Nat, asked : Nat, stopped : BOOLEAN]
Calls   == [pc : {"idle", "next", "term", "kill", "join", "ask", "reap"},
            on : Procs \cup {NoProc}, todo : SUBSET Procs, agents : BOOLEAN]

TypeOK == proc \in [Procs -> Records] /\ call \in [Actors -> Calls] /\ clock \in Nat

Becomes(p, r) == proc' = [proc EXCEPT ![p] = r]
AtCall(k, pcs) == call[k].pc \in pcs

----------------------------------------------------------------------------
(* Start *)

Started == [Absent EXCEPT !.kept = TRUE, !.status = "running", !.handle = TRUE, !.task = "live"]

\* create, and adopt of a command that the terminal tool waited for in vain:
\* it may have ended meanwhile.
Spawn(p) ==
  /\ p \in Shells /\ proc[p] = Absent
  /\ \E os \in {"alive", "held", "gone"} :
       Becomes(p, [Started EXCEPT !.os = os, !.watched = TRUE])
  /\ UNCHANGED <<call, clock>>

CreateAgent(p) ==
  /\ p \in Agents /\ proc[p] = Absent
  /\ Becomes(p, [Started EXCEPT !.queue = <<1>>, !.wrote = 1])
  /\ UNCHANGED <<call, clock>>

Write(p) ==
  /\ p \in Agents /\ proc[p].kept /\ proc[p].status = "running"
  /\ proc[p].wrote < MaxPrompts
  /\ Becomes(p, [proc[p] EXCEPT !.queue = Append(@, proc[p].wrote + 1), !.wrote = @ + 1])
  /\ UNCHANGED <<call, clock>>

----------------------------------------------------------------------------
(* The end of a process *)

\* _prune_terminated: the oldest terminal records beyond the limit, never one
\* that ended within the grace period.
Evicted(procs, gone) ==
  [p \in Procs |-> [procs[p] EXCEPT !.kept = @ /\ p \notin gone]]

Pruned(procs) ==
  LET terminal == {p \in Procs : procs[p].kept /\ procs[p].status \in Terminal}
      old      == {p \in terminal : procs[p].ended < clock}
      excess   == Cardinality(terminal) - MaxTerminated
      count    == IF MaxTerminated = 0 \/ excess <= 0 THEN 0
                  ELSE IF excess > Cardinality(old) THEN Cardinality(old) ELSE excess
      Oldest(ps) == \A p \in ps, q \in old \ ps : procs[p].ended <= procs[q].ended
  IN  {Evicted(procs, gone) : gone \in
        {ps \in SUBSET old : Cardinality(ps) = count /\ Oldest(ps)}}

\* _watch_shell, _watch_adopted: the pipe has ended, and so has the process.
Exited(p, status) ==
  [proc[p] EXCEPT !.status = status, !.ended = clock, !.handle = FALSE, !.task = "telling"]

WatchOverwriting(p) ==                    \* fault: the status is written unconditionally
  /\ p \in Shells /\ proc[p].task = "live" /\ proc[p].os = "gone"
  /\ \E result \in {"completed", "failed"} : Becomes(p, Exited(p, result))
  /\ UNCHANGED <<call, clock>>

WatchWhenAsked(p) ==                      \* fault: the result is fetched when a stop asks
  /\ p \in Shells /\ proc[p].task = "live" /\ proc[p].os = "gone" /\ ~proc[p].watched
  /\ \E result \in {"completed", "failed"} :
       Becomes(p, Exited(p, IF proc[p].status = "running" THEN result ELSE proc[p].status))
  /\ UNCHANGED <<call, clock>>

\* A watcher whose record was evicted meanwhile just ends.
Watch(p) ==
  /\ p \in Shells /\ proc[p].task = "live" /\ proc[p].os = "gone"
  /\ \/ /\ proc[p].kept
        /\ \E result \in {"completed", "failed"} :
             Becomes(p, Exited(p, IF proc[p].status = "running" THEN result
                                  ELSE proc[p].status))
     \/ ~proc[p].kept /\ Becomes(p, [proc[p] EXCEPT !.task = "done"])
  /\ UNCHANGED <<call, clock>>

\* _notify_listeners: when the last listener returns, old records are evicted.
Told(p) ==
  /\ proc[p].task = "telling"
  /\ proc' \in Pruned([proc EXCEPT ![p].task = "done"])
  /\ UNCHANGED <<call, clock>>

\* _run_agent_session runs a prompt, or meets the sentinel and closes the client.
Take(p) ==
  /\ p \in Agents /\ proc[p].task = "live" /\ proc[p].queue # <<>>
  /\ LET head == Head(proc[p].queue)
         rest == [proc[p] EXCEPT !.queue = Tail(@)]
     IN  Becomes(p, IF head = Sentinel
                      THEN [rest EXCEPT !.task = "closing", !.end = "completed"]
                      ELSE [rest EXCEPT !.task = "run", !.ran = head])
  /\ UNCHANGED <<call, clock>>

Answered(p) ==
  /\ proc[p].task = "run"
  /\ Becomes(p, [proc[p] EXCEPT !.task = "live"])
  /\ UNCHANGED <<call, clock>>

\* Connecting or closing the client raises.
SessionFails(p) ==
  /\ p \in Agents /\ proc[p].end # "failed"
  /\ \/ proc[p].task = "closing"
     \/ proc[p].task = "live" /\ proc[p].ran = 0
  /\ Becomes(p, [proc[p] EXCEPT !.task = "closing", !.end = "failed"])
  /\ UNCHANGED <<call, clock>>

Ended(r) == [r EXCEPT !.queue = <<>>, !.end = "none", !.ran = 0, !.wrote = 0, !.asked = 0]

SessionOver(p) ==
  /\ proc[p].task = "closing"
  /\ Becomes(p, Ended(Exited(p, proc[p].end)))
  /\ UNCHANGED <<call, clock>>

\* What cancelling the session task comes to.
CancelledByName(r) ==                     \* fault: the exception's name for the status
  CASE r.task \in {"live", "run", "closing"} -> [r EXCEPT !.task = "closing", !.end = "cancelled"]
    [] r.task = "telling"                    -> [r EXCEPT !.task = "cancelled"]
    [] OTHER                                 -> r

Cancelled(r) ==
  CASE r.task \in {"live", "run", "closing"} -> [r EXCEPT !.task = "closing", !.end = "killed"]
    [] r.task = "telling"                    -> [r EXCEPT !.task = "cancelled"]
    [] OTHER                                 -> r

----------------------------------------------------------------------------
(* stop and close *)

\* The process tool calls stop once; close calls it for what runs, shells first.
Sentinels(p) == Cardinality({n \in DOMAIN proc[p].queue : proc[p].queue[n] = Sentinel})

Stop(k, p) ==
  /\ k \in Callers /\ AtCall(k, {"idle"}) /\ proc[p].kept
  /\ Sentinels(p) < MaxAsked
  /\ call' = [call EXCEPT ![k] = [Idle EXCEPT !.pc = "next", !.todo = {p}]]
  /\ UNCHANGED <<proc, clock>>

Running(procs) == {p \in procs : proc[p].handle}

Close ==
  /\ AtCall(Closer, {"idle"}) /\ \A p \in Agents : Sentinels(p) < MaxAsked
  /\ call' = [call EXCEPT ![Closer] =
                [Idle EXCEPT !.pc = "next", !.todo = Running(Shells), !.agents = TRUE]]
  /\ UNCHANGED <<proc, clock>>

Await(k, p, pc) == call' = [call EXCEPT ![k].pc = pc, ![k].on = p]
Return(k, p)    == call' = [call EXCEPT ![k].pc = "next", ![k].on = NoProc,
                                        ![k].todo = @ \ {p}]
Abandon(k)      == call' = [call EXCEPT ![k] = Idle]

\* The record is killed, whatever was in it.
Killed(p) == [proc[p] EXCEPT !.status = "killed", !.ended = clock]

\* stop of a shell that has exited: its watcher is awaited.
KillRecord(k, p) ==
  LET r == [Killed(p) EXCEPT !.handle = FALSE, !.watched = FALSE]
  IN  IF proc[p].watched /\ proc[p].task \notin Over
        THEN Becomes(p, r) /\ Await(k, p, "join")
        ELSE Becomes(p, [r EXCEPT !.stopped = TRUE]) /\ Return(k, p)

StopShellForgetting(k, p) ==              \* fault: the handle is popped before the wait
  IF proc[p].handle THEN Await(k, p, "term") /\ Becomes(p, [proc[p] EXCEPT !.handle = FALSE])
                    ELSE KillRecord(k, p)

StopShell(k, p) ==
  IF proc[p].handle THEN Await(k, p, "term") /\ UNCHANGED proc
                    ELSE KillRecord(k, p)

StopAgentFirst(k, p) ==                   \* fault: the sentinel overtakes the prompts
  IF proc[p].handle
    THEN /\ Await(k, p, "ask")
         /\ Becomes(p, [proc[p] EXCEPT !.queue = <<Sentinel>> \o @,
                                       !.asked = IF @ = 0 THEN proc[p].wrote ELSE @])
    ELSE Becomes(p, [Killed(p) EXCEPT !.stopped = TRUE]) /\ Return(k, p)

StopAgent(k, p) ==
  IF proc[p].handle
    THEN /\ Await(k, p, "ask")
         /\ Becomes(p, [proc[p] EXCEPT !.queue = Append(@, Sentinel),
                                       !.asked = IF @ = 0 THEN proc[p].wrote ELSE @])
    ELSE Becomes(p, [Killed(p) EXCEPT !.stopped = TRUE]) /\ Return(k, p)

\* The next process of the call; a record that is gone raises KeyError.
Begin(k) ==
  /\ AtCall(k, {"next"})
  /\ \E p \in call[k].todo :
       \/ proc[p].kept /\ p \in Shells /\ StopShell(k, p)
       \/ proc[p].kept /\ p \in Agents /\ StopAgent(k, p)
       \/ ~proc[p].kept /\ Return(k, p) /\ UNCHANGED proc
  /\ UNCHANGED clock

Finish(k) ==
  /\ AtCall(k, {"next"}) /\ call[k].todo = {}
  /\ IF call[k].agents
       THEN call' = [call EXCEPT ![k] = [@ EXCEPT !.todo = Running(Agents), !.agents = FALSE]]
       ELSE Abandon(k)
  /\ UNCHANGED <<proc, clock>>

\* A shell: SIGTERM, after three seconds SIGKILL, then the watcher for two.
Waited(k) ==
  LET p == call[k].on
  IN  /\ AtCall(k, {"term", "kill"}) /\ proc[p].os \notin Living
      /\ KillRecord(k, p)
      /\ UNCHANGED clock

TermIgnored(k) ==
  LET p == call[k].on
  IN  /\ AtCall(k, {"term"}) /\ proc[p].os \in Living
      /\ Await(k, p, "kill") /\ Becomes(p, [proc[p] EXCEPT !.os = "dying"])
      /\ UNCHANGED clock

JoinForEver(k) ==                         \* fault: the watcher is awaited without a limit
  LET p == call[k].on
  IN  /\ AtCall(k, {"join"}) /\ proc[p].task \in Over
      /\ Becomes(p, [proc[p] EXCEPT !.stopped = TRUE]) /\ Return(k, p)
      /\ UNCHANGED clock

Join(k) ==
  LET p == call[k].on
  IN  /\ AtCall(k, {"join"})
      /\ Becomes(p, [proc[p] EXCEPT !.stopped = TRUE,
                                    !.task = IF @ \in Over THEN @ ELSE "cancelled"])
      /\ Return(k, p)
      /\ UNCHANGED clock

\* An agent: the sentinel, after five seconds cancellation.  Waiting for a
\* session that another stop cancelled raises CancelledError here too.
Asked(k) ==
  LET p == call[k].on
  IN  /\ \/ AtCall(k, {"ask"})  /\ proc[p].task = "done"
         \/ AtCall(k, {"reap"}) /\ proc[p].task \in Over
      /\ Becomes(p, [Killed(p) EXCEPT !.stopped = TRUE]) /\ Return(k, p)
      /\ UNCHANGED clock

AskedInVain(k) ==
  LET p == call[k].on
  IN  /\ AtCall(k, {"ask"})
      /\ \/ proc[p].task \notin Over /\ Await(k, p, "reap") /\ Becomes(p, Cancelled(proc[p]))
         \/ proc[p].task = "cancelled" /\ Abandon(k) /\ UNCHANGED proc
      /\ UNCHANGED clock

\* The turn of the tool that called stop is cancelled, or the shutdown is.
\* Awaiting the cancelled session, stop swallows that and passes it on.
CallCancelled(k) ==
  /\ \/ AtCall(k, {"term", "kill", "join", "ask"}) /\ Abandon(k) /\ UNCHANGED proc
     \/ AtCall(k, {"reap"}) /\ Becomes(call[k].on, Cancelled(proc[call[k].on])) /\ UNCHANGED call
  /\ UNCHANGED clock

----------------------------------------------------------------------------
(* The operating system and the clock *)

\* The shell exits; a child of it may keep the pipe open.
Exit(p) ==
  /\ proc[p].os \in Living
  /\ \E os \in {"held", "gone"} : Becomes(p, [proc[p] EXCEPT !.os = os])
  /\ UNCHANGED <<call, clock>>

PipeCloses(p) ==
  /\ proc[p].os = "held"
  /\ Becomes(p, [proc[p] EXCEPT !.os = "gone"])
  /\ UNCHANGED <<call, clock>>

Tick == clock < MaxClock /\ clock' = clock + 1 /\ UNCHANGED <<proc, call>>

Init ==
  /\ proc = [p \in Procs |-> Absent]
  /\ call = [k \in Actors |-> Idle]
  /\ clock = 0

Follow(p)   == Watch(p) \/ Told(p) \/ Take(p) \/ SessionOver(p)
Continue(k) == \/ Begin(k) \/ Finish(k) \/ Waited(k) \/ TermIgnored(k)
               \/ Join(k) \/ Asked(k) \/ AskedInVain(k)

Next ==
  \/ \E p \in Procs : \/ Spawn(p) \/ CreateAgent(p) \/ Write(p) \/ Follow(p)
                      \/ Answered(p) \/ SessionFails(p) \/ Exit(p) \/ PipeCloses(p)
  \/ \E k \in Actors : Continue(k) \/ CallCancelled(k) \/ \E p \in Procs : Stop(k, p)
  \/ Close \/ Tick

Spec == Init /\ [][Next]_vars

\* The event loop runs what can run, timeouts expire, listeners and clients
\* close in the end, and what got SIGKILL dies.  Commands and prompts may run,
\* and pipes stay open, for ever.
FairSpec ==
  /\ Spec
  /\ \A p \in Procs : WF_vars(Follow(p)) /\ WF_vars(proc[p].os = "dying" /\ Exit(p))
  /\ \A k \in Actors : WF_vars(Continue(k))

----------------------------------------------------------------------------
(* Properties *)

\* Nothing runs that close could not stop, and no record is left running: an OS
\* process that lives has a running record, a handle and a watcher, and a
\* running record has somebody at work who will end it, whatever stops were
\* abandoned half way.
Tracked ==
  \A p \in Procs :
    /\ proc[p].os \in Living => proc[p].status = "running"
    /\ proc[p].status = "running" =>
         proc[p].kept /\ proc[p].handle /\ proc[p].task \in {"live", "run", "closing"}

\* Once a stop has returned, its process is dead, an agent's session is over, and
\* the record says killed for good, although the watcher, the session and other
\* stops write the same record.
StopIsFinal ==
  \A p \in Procs : proc[p].stopped =>
    /\ proc[p].status = "killed" /\ proc[p].os \notin Living
    /\ p \in Agents => proc[p].task \in Over \cup {"telling"}

\* A session that was ended by the sentinel has run every prompt that was
\* accepted before it.
AcceptedRan == \A p \in Agents : proc[p].end = "completed" => proc[p].ran >= proc[p].asked

\* Every stop and every close returns, whatever the process, its pipe, its
\* session, a prompt that runs for ever and other stops do.
StopReturns == \A k \in Actors : ~AtCall(k, {"idle"}) ~> AtCall(k, {"idle"})

\* A shell that has exited and closed its pipe gets a terminal status, stopped
\* or not.
ExitRecorded == \A p \in Shells : proc[p].os = "gone" ~> proc[p].status \in Terminal
=============================================================================
