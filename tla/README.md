# Operator-Use in TLA+

A verification project for the Python code under `src/operator_use/`: TLA+
modules translated from the source, TLC runs that check them on small
instances, and TLAPS proofs that hold for every instance. `PROJECT.json` maps
each definition to the lines it models and lists runs, mutants (plausible bugs
that each property must catch), findings, hazards and theorems.

## 1. The system

Operator-Use is an asyncio program that runs language-model agents. A message
comes from a channel, the console, RPC or a schedule; the **agent** appends it
to its **session**, builds a context from the session's tree, and lets the
**engine** alternate requests to a provider with tool calls until the model
stops. Around this sit retries, compaction of long sessions, subagents in the
background, scheduled jobs, workflows and teams of agents.

| Component | State | Operations | Interacts with | Hard behaviour |
|---|---|---|---|---|
| Session store `session/manager.py` | entries, leaf, labels, `flushed`; one JSONL file | appends, labels, branch, reset, remove, patch, fork, branched copy, load | called by agent, runtime, peer tool | death inside a write, lines cut short, entries that wait for the first answer, restart |
| Agent `agent/service.py` | phase, user entry, attempt, error held back | `invoke`, retry, compaction | store, engine, hooks, memory | awaits between check and use, cancellation, overlapping turns |
| Engine `engine/service.py` | steering and follow-up queues, `error_message`, abort signal | `run`, `steer`, `follow_up`, `abort`, `reset` | provider, tools, persist handlers | state shared by runs, abort races, hooks that raise |
| Compaction `compaction/` | none | cut points, summary | store, agent | a cut inside a tool round, a summary awaited while the session moves |
| Subagent pool `subagent/` | tasks, events, semaphore, records, listeners | `invoke`, `cancel`, retry, announce | engine, hooks, gateway | cancellation at every await, dependencies, slots |
| Gateway `gateway/` | session table, tasks, permission futures | incoming message, cancel, new session, stop | agents, channels | handlers that overtake each other, streams from several tasks, futures overwritten |
| Background processes `process/manager.py` | records, watchers, queues | start, write, stop, adopt, prune | OS processes, engine | status written by stop, by another stop and by a watcher; stops cancelled half way |
| Cron `cron/` | job file, in-flight set | tick, run, edit, save | gateway | a job that outlives its period, a torn file |
| Workflow `workflow/` | call count, journal, status | agent, parallel, retry, resume, cancel | subagents | cap under parallelism, thunks that outlive their call, cancellation while announcing |
| Team `team/` | records and mailbox files | send, receive, members | processes on one directory | death between unlink and use, stale records |
| Runtime, RPC, ACP, MCP, channels, console | wiring, connections | fork, switch, reload, requests | all | calls on a busy agent |
| Memory, skills, settings, prompts, browser, computer, inference, auth | files, caches | text and I/O | agent | little control flow |

What makes each right: **store** – memory and file agree after any history,
nothing rolled back returns, a restart finds the same conversation unless a
failed turn was rolled back last. **Agent and engine** – each request is
acceptable to the provider and complete, each turn ends with an answer or an error
once the provider lets it, no ending leaves the agent busy. **Pool** – a
task runs once and after its dependencies, slots are conserved, waiters run.
**Processes** – nothing runs untracked, a stop is final and returns. **Cron** –
a due job fires once, and not never; a death loses no job but in a save.
**Gateway** – no session task is lost, a chat hears the end of every run last,
every message is settled, and none is taken for the reply to a request that is
over. **Workflow** – calls keep to the cap, no thunk is orphaned, one final status is
announced once. **Team** – a message is received once.

## 2. Modules

| Module | Models | Used by |
|---|---|---|
| `SessionTree` | a log of entries as a data structure: branch, context, what a restart rebuilds | `SessionStore`, `AgentTurn`, `SessionTree_proofs` |
| `SessionStore` | `SessionManager` with its file, crashes and restarts | `MCSessionStore`, `SessionStore_proofs` |
| `AgentTurn` | `Agent.invoke`, `_run_with_retry`, `_run_compaction` and `Engine._loop` | `MCAgentTurn`, `AgentTurn_proofs` |
| `TaskLife` | abstract: what the task pool promises | `SubagentPool` |
| `SubagentPool` | `SubagentManager`, `TaskPool`, `Subagent.run` | `MCSubagentPool`, `SubagentPool_proofs` |
| `ProcessManager` | `ProcessManager` with its watchers, agent sessions and the operating system | `MCProcessManager`, `ProcessManager_proofs` |
| `CronScheduler` | `CronScheduler` and `CronJobStore` with its file | `MCCronScheduler`, `CronScheduler_proofs` |
| `Gateway` | `Gateway`, the incoming queue of `Bus`, permission requests of ACP clients | `MCGateway`, `Gateway_proofs` |
| `WorkflowRun` | a run of `WorkflowManager` with `WorkflowExecuteContext` | `MCWorkflowRun`, `WorkflowRun_proofs` |

Operators marked `\* fault:` are mutants: the form the neighbouring definition
would take with a plausible bug. No specification uses them. Each `MC…` module
gives the constants small values and adds nothing else.

The modules compose by what they promise each other rather than in one state
space: `Gateway` takes from `AgentTurn` that a turn ends and that `invoke`
refuses a busy agent only before its first wait; `CronScheduler` takes from
`Gateway` that handing a message to the bus never waits; `WorkflowRun` and `ProcessManager`
take from the agents they run that these can be cancelled.

### SessionTree and SessionStore

A log is a function from ids to entries. The code's ids are random; the list in
memory and the lines of the file are in order of creation, so ids here are
numbers in that order. An entry keeps its kind, parent and reference; text and
metadata are left out. `mem` is the manager, `file` the disk: valid header, the
lines that parse, how the text ends, whether a line inside is garbled. `up`
tells whether the process lives.

Each operation of the manager is one action that includes its write. `Write`
gives every write two outcomes: it is finished, or the process dies in it and
leaves one of the contents a prefix of the write produces. An append after a
line without its newline spoils both (`Appended`), as `read_session_file` skips
what is not JSON. The guard on `BeginTurn` and the variable `turn` are those of
the agent's use of the store: one user entry at a time may be rolled back.

`remove_message` is the one operation that parts the leaf in memory from the one
`_build_index` rebuilds. After a user message, an answer, a branch back to the
message and another message, removing that last one moves the leaf in memory to
the answer, the newest message of any branch (`session/manager.py:240`), while
the file's last line sends a restart to the branch point. The docstring of `branch`
(line 629, and `docs/session.md:84`) says that the navigation survives restarts. `LeafRebuilds` says that
no other step parts the two and that they meet again with the next entry.

Left out: a write that raises and does not end the process; metadata;
`reset_leaf`, which nothing calls; a live manager's `set_session` on a file that
is gone or invalid. A death in
`fork_from` leaves the source file as it was, which `Crash` covers. Messages of
tools and of assistants are one action here (`TurnMessage`), since the store
only asks whether an entry is an assistant's.

### AgentTurn

An action is the code from one await to the next, where asyncio may run another
coroutine. `run[c].pc`:

| pc | the caller is |
|---|---|
| `prepare`, `built` | in `invoke` before and after it reads the context, awaiting hooks |
| `top`, `stream`, `tools` | in `Engine._loop`: before a request, awaiting the answer, running tools |
| `ended` | back in `_run_with_retry`, the run over |
| `compactRetry`, `backoff` | compacting after an overflow, waiting for the next attempt |
| `post`, `compacting` | after a successful turn, perhaps compacting |

`Begin` appends the user message and takes the phase; `Emitted` is the persist
handler, registered once per run on an engine all runs share, so two runs write
a message twice. The provider answers freely: calls, stop, abort, a full
output, or an error of any class. The engine's loop counts neither tool rounds nor
truncated answers (`engine/service.py:590`): it goes on as long as the provider does,
and `TurnEnds` has the provider's end as its premise. The constant `Faults` admits cancellation,
tool hooks that raise, and `fork_session`. `Spare` is a bound: a turn, a tool round or a compaction starts only if the ids it and what follows it may
need are left, so that the bound on ids cuts no run short in the middle. No
property draws on rounds being refused: safety looks at the rounds there are, and
`TurnEnds` is about turns without further rounds.

Left out: the deferred reboot, goal continuation, `run_continue`,
`_rewind_session` (never called), messages extensions add to one request only.
The parallel tools of one answer are one step: their results are emitted
together as one message. An empty closing text after terminating tools leaves
no message; tools always give one. A steering message is not persisted, as in
the code.

### TaskLife and SubagentPool

`task[t]` is the asyncio task with its record. `Cancel` has one disjunct per
place where `CancelledError` can surface, with the handler that catches it
there: nothing while waiting, `Subagent.run` in an attempt, `_run_task`
elsewhere; the shielded announcement goes on. A failing start or end hook is
swallowed by the dispatcher. `Ghosts` are ids named in `depends_on` that no
task has: `submit` makes an event for every id named, and nothing ever sets
theirs. Dependencies on tasks come from ids that `invoke` returned, so they name
earlier tasks.

`Life!Spec` is the abstract pool under the refinement mapping `LifeOf`:
waiting is pending, holding a slot is running, done is settled.

### ProcessManager

`proc[p]` is a record with all that works for it: whether it is in the tables
(`kept`, `handle`), the OS process and its pipe, and where its watcher or agent
session awaits. `call[k]` is a caller inside `stop` or `close`, at the await it
is at (`term`, `kill`, `join` for a shell, `ask`, `reap` for an agent). Two calls
overlap freely, and each may be cancelled at any of these awaits. Cancelling the
watcher and awaiting its end are one step (`Join`): nothing the watcher does
in between is seen.

`Process.wait` returns when the process exits, even if a child of it keeps the
pipe open; the watcher reads to the end of the pipe. `os = "held"` is that state,
in which the record stays running although the command is over. A watcher
cancelled by a stop tells no listener, though `register_completion_listener`
speaks of "any process" (`process/manager.py:286`); a listener may have been told
of a failure that the record then calls killed. A prompt is accepted while the record is
running, also behind the end sentinel, where it is never read; `AcceptedRan`
says what of this may be relied on.

Left out: output and its log (a disk error there leaves the watcher), reading,
the watcher entries of processes that ended by themselves, which are never removed.

### CronScheduler

`jobs` is the store, `file` its JSON file, `tasks[j]` the running tasks of a
job. Saving truncates and writes, so a death in it leaves the file torn, and a
torn file is read as an empty store (`Loaded`). That loss, which the next save
makes permanent, is in the model, as is that a one-shot job fires again when the
process dies between the save of its mark and that of its removal, and that a run
in flight at a death fires again. `NextRuns` abstracts the cron expression to
some later minute, and an invalid interval to no next run.

Left out: how long the loop sleeps (a job added while it sleeps waits up to a
minute), what the handler does with the job (it puts a message on the bus or
starts a subagent), other processes on the same file.

### Gateway

`run[m]` is the session task started for message `m`. Its `stream` is what one
chat is sent of that run, in the order of publication; a handler
subscribed to a shared agent also publishes what other runs emit. Two runs share an
agent when `/new` has dropped the entry of a running one. Handlers are
tasks of their own, so a later message may overtake an earlier one in its hooks. A
task dropped by `/new` runs on and is not cancelled by `stop`: `Reachable` and
`StopLeavesNone` name that exception, and its answer still reaches the chat.
`cancel_session` from one chat of a profile publishes the end to that chat only.
It may be called again while an earlier call awaits the task; `calls` counts those
that wait, and each publishes an END of its own when the task is over
(`gateway/service.py:497`), perhaps after the chat's next run has started, which a
stream per run does not show. `stop` leaves alone the task that calls it
(`phase.self`): a handler whose hook stops the gateway, or a session task in its
deferred reboot (`agent/service.py:1010`), which then waits for the others. An audio answer that cannot be sent leaves the stream without its end
(`broken`). A request for permission that a later one overwrote, or whose future
an earlier one took away, ends by its timer, and the reply to a prompt that was
overwritten answers the later request; `RepliesAwaited` says only that no message
is swallowed for a request that is over.

Left out: a second `stop`, a `cancel_session` by the very task it cancels, direct handlers, the outgoing loop, a failing write of the channel log,
rejections with a message of their own. What becomes of steered text is in
`AgentTurn`; here a steer settles the message, though text steered after the last
drain of a run waits for the next run. Subscribers of an agent's hooks are
assumed not to wait.

### WorkflowRun

`flow[Script]` is the task of the run, the others are the thunks of its current
parallel call. The workflow's own code is arbitrary but lets `CancelledError`
pass. `Call` is `agent()` up to its first await: the cap is tested and the call
counted without an await in between, and `Caps` has two members because a nested
workflow shares the record but takes its cap from its own arguments. A stalled
subagent is run again without being counted (`workflow/context.py:167`), so the history
`rec.runs` keeps how many each call has run: `CapHolds` bounds the calls by the
larger cap and the subagents of one call by its retries and one. A cancel
before the first step leaves the record running and announces nothing; that is
`CancelUnstarted`. A timeout of an `agent()` call that its code does not catch is taken
for the timeout of the run. The announcement is shielded and goes on alone when
the task awaiting it is cancelled; without a channel, a chat or a bus it is dropped
(`rec.addressed`). `rec.announced` is the history of what was published.

The journal belongs to one run id: two equal calls in flight at once both run.
Left out: loading scripts, deeper nesting (rejected), phases and logs, and an
announcement that raises, which a put on an unbounded queue does not.

## 3. Runs

| Run | Instance | States | Shows |
|---|---|---|---|
| `session` | 4 entries | 134,778 | types, `AnswersOnDisk`, `NothingResurrected`, `LeafRebuilds`, `LabelsRebuild`, `ParentsOlder`, `MetadataInvisible` |
| `turn` | 1 caller, 8 entries, 1 retry, 2 inputs, cancellation | 860,730 | `RoundsWhole`, `TurnSoFarSent`, `TurnAnswered`, `SteersInOrder` |
| `overlap` | 2 callers, 6 entries, 1 input, all faults | 1,092,235 | `PhaseReleased` |
| `turn_ends` | 1 caller, 7 entries, 1 retry, cancellation | 45,991 | liveness: `TurnEnds` |
| `tasks` | 3 tasks, 1 unknown id, 2 slots, 1 retry | 655,705 | `SlotsConserved`, `AnnouncedIsRecorded`, refinement `KeepsPromise`, liveness `WaitersRun` |
| `processes` | 1 shell, 1 agent, 1 tool and the shutdown, 2 prompts, 1 kept terminal record | 175,011 | types, `Tracked`, `StopIsFinal`, `AcceptedRan`, liveness `StopReturns`, `ExitRecorded` |
| `cron` | 2 jobs, intervals 2 and invalid, 4 moments | 175,008 | `InFlightOnce`, `DeathKeepsJobs`, `DuesIncrease`, `DisabledRests`, liveness `DueFires` |
| `gateway` | 3 chats, 2 keys (one a profile with two chats), 2 agents, 2 messages, 2 requests, 2 waiting cancellations | 970,521 | `Reachable`, `StreamsClose`, `StopLeavesNone`, `RepliesAwaited`, liveness `MessagesSettle` |
| `workflow` | 3 thunks for 2 slots, caps 2 and 3, 1 retry | 255,304 | `CapHolds`, `NoOrphans`, `FinalOnce`, liveness `RunReported` |
| `crash`, `failed_turn`, `dangling` | small | – | findings, section 5 |

**Bounds.** Four entries fit a turn, a label and its removal, a rollback, a
branched session and two restarts in between, the longest sequences any of the
store's conditions looks back on; a garbled line needs two writes and a
restart. Eight entries fit a turn with a tool round, an error, a compaction and
a retry after a turn before it; one retry already separates *retried* from
*exhausted*; two inputs suffice to be out of order. Overlap needs two callers;
three tasks give a chain of dependencies, a shared one, and a contender for the
second slot. A stop that overlaps the shutdown needs two callers; two prompts
tell one behind the sentinel from one before it; with one terminal record kept
and a clock of two moments, a record is evicted while another ends. Four moments
are two periods, so that a run outlasts its period and is edited after it fired;
a due time fires twice only after that. Two messages are two handlers that race
for one entry, in one chat or in two of a profile, or two runs on one agent, the
first dropped by a `/new`; two requests suffice for one to overwrite the other.
`MaxCancels` bounds the calls of `cancel_session` for its own chat that await one
task, two being the least that publish twice; `Room` has such calls await one task at a
time, as streams of different runs do not meet. A call for another chat of the
profile leaves no trace in a stream and is not counted. Three thunks are one more
than the slots and than the smaller cap; a stall retry happens once or is
exhausted. Callers are symmetric where nothing temporal is checked.
Deadlock is not checked where the system may really stop: all turns or tasks
over, or the bound on ids reached.

**Fairness.** The event loop runs every ready coroutine again: weak fairness of
each caller's and task's steps, and of a provider's answer, of whatever kind, to a
request. Nothing says that answers get better: `TurnEnds` is stated for the turns in
which the provider at some point calls no more tools and cuts no more answers
short, since the code repeats both without a count, and shows that errors,
compactions and retries end by themselves.
For tasks, every attempt is under a timeout, so weak fairness of `Step` ends it.
Weak fairness of `Launch` also suffices for the semaphore: the tasks are
finitely many and each holds its slot for a while only, so a waiter is in the
end alone with a free one; the FIFO order of `asyncio.Semaphore` is not needed. Nothing is assumed of callers,
cancellation, steering or crashes.

`ProcessManager`: the event loop runs what is ready, the timers of stop expire
and a process that got SIGKILL dies; commands, prompts and pipes may go on for
ever. `CronScheduler`: the loop wakes and handlers return, as they only hand the
job on; time need not pass. `Gateway`: loop, handlers and tasks are scheduled,
hooks return, turns end (which `turn_ends` shows for the agent, once its provider
is done); timers of permission requests need not fire, and nothing is assumed of users. `WorkflowRun`: the loop, the timer of the run, and
that cancelled thunks end; the code of the workflow and its agents may run for ever.

## 4. Proofs

The theorems hold for any bound on entries, any finite sets of callers and of
tasks, any number of slots, retries and inputs, and any choice of faults; for any
processes and prompts, any jobs, periods and times, any chats, keys, profiles and
agents, any thunks and caps. The only assumptions are those named in the modules
(`MaxIdAssumption`, `AgentAssumption`, `PoolAssumption`, `ProcessAssumption`,
`CronAssumption`, `GatewayAssumption`, `WorkflowAssumption`): sets that are finite
or disjoint, bounds that are natural numbers, functions with their domains. Three
results about turns ask for more, and say so in their statement (see *Turns* and
*Requests*).

*Tree.* A branch is a recursive function along parent links. The library's
induction theorems take the property as an operator, which no installed prover
can instantiate; so `NumbersFrom` is proved from the well-ordering of the
naturals for a *set* of ids, and each induction is over the set of ids that have
the property. That parents are older (`ParentsOlder`, itself an invariant) is what
makes the walk defined: `BranchUnfolds` gives the recursion equation,
`BranchBelow` the type, and `ContextKept` says that a new entry changes neither
branch nor context of any leaf there was, whatever its kind and parent, and that one
of metadata shows at its own leaf what its parent shows.

*Store.* `AnswersOnDisk` is not inductive: that the append branch of `_persist`
may trust the file needs what `flushed` means. `IInv` adds, for a live manager,
that a log with an answer is flushed, that the file of a flushed log has a
header and exactly the entries in memory unless it is garbled, and that lines of
the file are always entries of memory; and, dead or alive, that links point to
older entries. One
lemma per kind of write (`Persist`, `Rewrite`, `SetSession`, the branched copy)
carries it through the operations; `Invariance` assembles them, and
`AnswersStayOnDisk`, `RollbackIsFinal`, `LogIsWellFounded` and `TypeCorrect`
follow. `LabelsRebuild` and `LeafRebuilds` compare memory with what a restart
folds out of the log. `RebuildInvariance` carries through each operation that the
labels agree (`Rebuilt`: a label's newest change decides) and that in a turn the
leaves agree (`LeafInTurn`). The latter is what the action property needs: a
removal comes at the end of a turn, so it finds leaves that agree, and
`LeafPartsOnRemoval` names the one case in which it parts them. `MetadataInvisible` is an
action property: the entry added has a kind no context shows, and `ContextKept`
does the rest.

*Turns.* `PhaseReleased` says the phase is idle when every caller is outside the
steps that hold it. It is inductive only in the form `PhaseHeld`: a phase that
is taken has a caller at one of these steps; it needs the types beside it. Each
action is shown to be a move of one caller that either stays at such a step or
leaves the phase idle (`Moves`), which carries the invariant whatever the
others do. `TurnsAreAnswered` has the hypothesis `[]Apart`: no two calls hold
the phase at once. That is what the guard of `invoke` is for, but the phase is
checked at `agent/service.py:814` and set at 974, several awaits later, so several
calls may get in; a run that ends without an error may then have
been cleared of it by another's `reset`, and the property is false. Calls that
wait before `Begin`, or after their turn while the next one runs, are within
`Apart`. The strengthening `TurnFine` says that
a run over without an error already has its answer in the log, and that the
user message is older than any id still to be given and is no answer itself. The step
of one call leaves another fine because a call without the phase touches neither
session nor engine (`IdleStays`), and one with it only adds to the log and takes out
its own question (`LogStays`).

*Order.* `SteersInOrder` compares two messages of one request, while what comes
next is still in a queue that all runs share. `Lines` therefore puts a caller's
request and the queue behind it on one line: each kind of input stands there in
the order it was given. A step either leaves the request alone, appends what the
log just recorded, rebuilds it from the log, filters it, or takes the head of a
queue (`Rewrites`), and the filters of the engine keep a subsequence (`Thinned`).
`Messages` and `Usable` are written with `Nth`, the n-th smallest of a set of
ids, and not with a recursive operator, so that a request is a function one can
reason about; `NthOf` is its characterisation. The theorem holds for any number of
overlapping turns and for every fault.

*Requests.* `RoundsWhole` and `TurnSoFarSent` are proved under `[]Apart` and
`Faults \subseteq {"cancel"}`: any number of calls, cancelled at any await,
with aborts, errors of every class, retries and compactions. These conditions are the
code's, not the prover's: overlapping runs record a message twice and interleave
rounds, a tool hook that raises leaves calls unanswered, which a retry first drops
and a second retry sends in the middle of the turn, and a fork moves the leaf
under a turn. TLC finds both properties violated in each of the three cases.
`RoundsWhole` speaks of the calls of the turn; those an earlier, cancelled turn
left are the finding `dangling`. The invariant `Requests` says of
the log that results follow calls and that no summary starts at a result
(`RoundsLogged`); of the session that the turn is one line of entries
from its question to the leaf, open exactly while its tools run (`Linear`); and of
the request that it carries that line or a compaction over it (`Reads`). A retry
rebuilds the request from the branch, and then `ContextTurn` must find
the whole turn in the context: it stands on the branch (`LineBranch`) and no
compaction can hide it without being newer. TLC checked `Requests` on the instance of `turn`, and with
a second caller on all states that satisfy `Apart`, before it was proved.

*Pool.* `IInv` joins types and `SlotsConserved` to two facts: the signalled
tasks are exactly those that are done, and a record whose announcement is due
has its final status, which an announcement then repeats. The cardinality
lemmas say that a task entering or leaving `Working` changes the
holders by one. `PromiseKept` shows initial states map to initial states and
every step to an abstract step or a stutter: `Launch` maps to `Run`, which needs
that a signalled dependency has settled and that a free slot means fewer
running tasks than the limit.

*Processes.* `Tracked` needs who is at work for a record at every await of a
stop. `Shaped` says it per process: a record is running exactly while it has its
handle, and what a stop has left is killed without one. `Aims` ties a call to
what it awaits: a stop joins a watcher only once the handle is gone. Other steps
may come between, so `Onward` names what no step takes back of a process, and
`Move` carries every call's `Aims` over any step of any process by that alone.
`AcceptedRan` needs the queue (`Prompts`): prompts stand in order behind those
that ran, and the last one before the first sentinel has run or still stands
before every sentinel.

*Cron.* No due time fires twice because a job that does not run waits for a
later time than the one it fired for. Alone that is not inductive: the next time
of an interval counts from the last run, so `Waits` adds that the last run is no
earlier than the last firing, and firings are in the past. `Rests` is
asked of the file as well as of memory, since a restart takes the one for the
other, and a dead process has no task, no guard and no firing. One lemma for
`Save` with its two outcomes serves every operation. `JobsOutliveProcess` looks at
each step that ends the process: between saves the file holds what memory
holds, and a save changes one job. That a file cut short loses all of them is left
in the statement, since the code does it.

*Gateway.* `Reachable` needs that a task's message names a chat (`Sent`), for the
key of its entry; `StopLeavesNone` needs that what `stop` found in the table is
marked as cancelled (`Marked`), and `Reachable` turns that into: all but the
dropped tasks and the one that called `stop`. Every step of a session task is shown to keep its message and to end
rather than revive it, which is one lemma for eight actions. `StreamsClose` looks at what a chat
was sent, and a stream alone does not say what may still follow in it. `Streams`
ties it to the place of the run's task: nothing before it starts, open while the task
awaits the agent or the last send, ended when it is done, and a subscription
only while the agent is invoked, so that no event comes after the end; calls of
`cancel_session` add their ENDs only when the task is over (`CutStreams`). `RunStep`
names the things a step can do to a run and its stream, which every action is
shown to be. `RepliesFindRequests` is inductive by itself: a request enters the
table when it starts to wait, and whatever ends it clears the place of its chat.

*Workflow.* `Counted`: at most as many calls that ran subagents as counted calls,
counted calls within one of the two caps, and no call beyond its retries, which needs
that a call in progress has its place in the history. `NoOrphans` is inductive together
with `Closing`, what the record says at each place of the run's task; from it also
follows that the status changes once, and that what is published is that status
and finds nothing published before (`StatusFinal`).

*Only model-checked.* Every safety property that a passing run checks is stated
by a theorem. The liveness properties (`TurnEnds`, `WaitersRun`,
`StopReturns`, `ExitRecorded`, `DueFires`, `MessagesSettle`, `RunReported`) stay with TLC: liveness under fairness and `ENABLED` are outside
what the prover handles.

## 5. Findings

1. **`crash`** – `_rewrite_file`, documented as atomic, truncates first; a death
   in it loses entries that were on disk (`session/manager.py:120`).
2. **`failed_turn`** – the error record is appended under the user message that
   is then removed; the branch ends at the missing parent and later turns do
   not see the earlier conversation (`agent/service.py:982`).
3. **`dangling`** – calls without results left by a cancelled turn are
   filtered only at the end of the context, so the turn after next sends them
   (`agent/service.py:900`).

Seen while modelling, in the model as they are in the code, and without a run of
their own:

- The phase is checked before and set after several awaits; two turns can run on
  one engine (`agent/service.py:974`, against `docs/agent.md:38`). The run
  `overlap` has these turns.
- An abort during an answer does not stop the tools it calls
  (`engine/service.py:519`).
- Listeners registered for completion "in any status" are not called for a task
  cancelled while it waits (`subagent/manager.py:202`), nor for a stopped process.
- A torn `crons.json` is read as empty and then overwritten (`cron/jobs.py:55`,
  against `docs/cron.md:3`, "Jobs persist across restarts").
- The agents of a nested workflow are bounded by its own cap, not by its
  parent's (`workflow/manager.py:195`, against `docs/workflow.md:60`, 299 and 305), and
  the reruns of stalled ones by none (`workflow/context.py:167`).
- After the rollback of a message behind a branch, memory and a restart go on from
  different entries (`session/manager.py:240`, against the docstring at 629 and `docs/session.md:84`).
- A second `cancel_session` publishes a second END (`gateway/service.py:497`).
- Tool rounds and truncated answers repeat without a count
  (`engine/service.py:590`).

## 6. Plan

Done: the modules above. Next, in this order:

1. `Mailbox`: send, receive and a death in between, for `team/`.
2. `SessionStore` with writes that raise (`OSError`).
3. A composition of `AgentTurn` with the file of `SessionStore`: what a crash in
   the middle of a turn leaves for the next start.
4. Requests to peer agents, with their timeouts and cancellations.

### Not modelled

- **Team, peer agents**: planned.
- **Session registry, memory, knowledge, skills, settings, prompts, resources,
  packages**: single reads and writes of files, text and merging of dictionaries;
  few states and nothing that runs concurrently but whole-file writes.
- **Goals**: the continuation of a turn by a goal is one more `invoke`.
- **Guardrails, hooks, extensions, commands, tools**: each is called from a place
  that is modelled, where it may answer, raise, or wait; what it computes is data.
- **RPC, ACP, MCP, channels, console**: wiring to libraries and terminals. Their
  calls appear as inputs: messages, cancellations, steers, permission requests.
- **Inference and authentication**: adapters to providers, modelled as any answer.
- **Browser and computer**: bindings to accessibility and browser interfaces of
  operating systems, by far the most lines of the repository; they hold no
  protocol of this program, and what they return is data of a tool.

This is also why the modelled lines are a small share of all: more than half of
the code is such bindings, adapters, screens and settings.
