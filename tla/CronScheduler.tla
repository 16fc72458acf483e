--------------------------- MODULE CronScheduler ---------------------------
(***************************************************************************)
(* Scheduled jobs: CronScheduler (src/operator_use/cron/scheduler.py) on   *)
(* its CronJobStore (jobs.py), with edits while a job runs, jobs that      *)
(* outlast their period, and death of the process in or between its saves. *)
(*                                                                         *)
(* jobs is the store in memory, a function on the ids it has; file is      *)
(* crons.json, whole or torn.  tasks[j] counts the _run_job tasks of j and *)
(* inflight is the guard against a second one.  fired[j] is history: the   *)
(* due time of the last firing of j since the process started.             *)
(***************************************************************************)
EXTENDS Integers, FiniteSets

CONSTANTS
  Jobs,        \* ids that add_job may give
  Intervals,   \* of schedules in mode 'every'; 0 stands for an invalid schedule
  MaxGap,      \* how far ahead a cron expression looks
  MaxTime      \* bound: the clock

ASSUME CronAssumption ==
  /\ Intervals \subseteq Nat /\ MaxGap \in Nat \ {0} /\ MaxTime \in Nat

VARIABLES jobs, file, up, looping, tasks, inflight, fired, now

vars == <<jobs, file, up, looping, tasks, inflight, fired, now>>

None      == -1
Schedules == [mode : {"every"}, every : Intervals] \cup [mode : {"cron"}, every : {0}]
Moments   == Nat \cup {None}
Job       == [enabled : BOOLEAN, schedule : Schedules, next : Moments, last : Moments,
              oneshot : BOOLEAN]
IsStore(s) == DOMAIN s \subseteq Jobs /\ \A j \in DOMAIN s : s[j] \in Job
Empty     == [j \in {} |-> j]

TypeOK ==
  /\ IsStore(jobs) /\ IsStore(file.jobs) /\ file.whole \in BOOLEAN
  /\ up \in BOOLEAN /\ looping \in BOOLEAN
  /\ tasks \in [Jobs -> Nat] /\ inflight \subseteq Jobs
  /\ fired \in [Jobs -> Moments] /\ now \in 0..MaxTime

Ids == DOMAIN jobs

----------------------------------------------------------------------------
(* The store and its file *)

\* compute_next_run: every n after the last run, or at some later time.
NextRuns(schedule, last) ==
  IF schedule.mode = "cron" THEN {now + gap : gap \in 1..MaxGap}
  ELSE IF schedule.every = 0 THEN {None}
  ELSE {(IF last = None THEN now ELSE last) + schedule.every}

\* load: a file that does not parse is an empty store.
Loaded(f) == IF f.whole THEN f.jobs ELSE Empty
Whole(s)  == [whole |-> TRUE, jobs |-> s]
Torn      == [whole |-> FALSE, jobs |-> Empty]

\* The process dies; what it had in memory is gone.
Dies ==
  /\ up' = FALSE /\ looping' = FALSE
  /\ jobs' = Empty /\ tasks' = [j \in Jobs |-> 0] /\ inflight' = {}
  /\ fired' = [j \in Jobs |-> None]

\* save after a change of the store, and again after a second one: the file is
\* truncated and written anew each time, and the process may die in either.
SaveTwice(first, second) ==
  \/ jobs' = second /\ file' = Whole(second) /\ UNCHANGED <<up, looping>>
  \/ Dies /\ file' \in {Torn, Whole(first)}

Save(s) == SaveTwice(s, s)

Put(s, j, job) == [i \in DOMAIN s \cup {j} |-> IF i = j THEN job ELSE s[i]]
Without(s, j)  == [i \in DOMAIN s \ {j} |-> s[i]]

Quiet == UNCHANGED <<tasks, inflight, fired>>

\* An operation of the store: what it saves, unless the process dies in it.
Edit(s) == up /\ Save(s) /\ (up' => Quiet) /\ UNCHANGED now

AddJob(j) ==
  /\ j \notin Ids /\ fired[j] = None /\ tasks[j] = 0
  /\ \E schedule \in Schedules, enabled, oneshot \in BOOLEAN :
     \E next \in IF enabled THEN NextRuns(schedule, None) ELSE {None} :
       Edit(Put(jobs, j, [enabled |-> enabled, schedule |-> schedule, next |-> next,
                          last |-> None, oneshot |-> oneshot]))

\* update_job, enable_job and disable_job.
UpdateJob(j) ==
  /\ j \in Ids
  /\ \E schedule \in Schedules, enabled \in BOOLEAN :
     \E next \in IF enabled THEN NextRuns(schedule, jobs[j].last) ELSE {None} :
       Edit(Put(jobs, j, [jobs[j] EXCEPT !.enabled = enabled, !.schedule = schedule,
                                         !.next = next]))

RemoveJob(j) == j \in Ids /\ Edit(Without(jobs, j))

----------------------------------------------------------------------------
(* The loop *)

Due(j) == jobs[j].enabled /\ jobs[j].next # None /\ jobs[j].next <= now

TickAll ==                                \* fault: the in-flight guard is dropped
  LET starting == {j \in Ids : Due(j)}
  IN  /\ up /\ looping /\ starting # {}
      /\ inflight' = inflight \cup starting
      /\ tasks' = [j \in Jobs |-> IF j \in starting THEN tasks[j] + 1 ELSE tasks[j]]
      /\ fired' = [j \in Jobs |-> IF j \in starting THEN jobs[j].next ELSE fired[j]]
      /\ UNCHANGED <<jobs, file, up, looping, now>>

\* _tick: a task for every due job that has none.
Tick ==
  LET starting == {j \in Ids : Due(j)} \ inflight
  IN  /\ up /\ looping /\ starting # {}
      /\ inflight' = inflight \cup starting
      /\ tasks' = [j \in Jobs |-> IF j \in starting THEN tasks[j] + 1 ELSE tasks[j]]
      /\ fired' = [j \in Jobs |-> IF j \in starting THEN jobs[j].next ELSE fired[j]]
      /\ UNCHANGED <<jobs, file, up, looping, now>>

\* _sleep_until_next gives an enabled job without a next run one.
FillNext(j) ==
  /\ looping /\ j \in Ids /\ jobs[j].enabled /\ jobs[j].next = None
  /\ \E next \in NextRuns(jobs[j].schedule, jobs[j].last) \ {None} :
       Edit(Put(jobs, j, [jobs[j] EXCEPT !.next = next]))

\* _mark_run: the run is entered and the next one set.
MarksDisabled(j) ==                       \* fault: a job disabled meanwhile is armed again
  {Put(jobs, j, [jobs[j] EXCEPT !.last = now, !.next = next]) :
     next \in NextRuns(jobs[j].schedule, now)}

Marks(j) ==
  {Put(jobs, j, [jobs[j] EXCEPT !.last = now, !.next = next]) :
     next \in IF jobs[j].enabled THEN NextRuns(jobs[j].schedule, now) ELSE {None}}

Released(j) ==
  /\ inflight' = inflight \ {j}
  /\ tasks' = [tasks EXCEPT ![j] = @ - 1]
  /\ UNCHANGED fired

\* _run_job after the handler: marked, removed if it is one-shot and succeeded.
\* A job that was removed meanwhile stays removed.
RunEndsUnsaved(j) ==                      \* fault: the mark is not saved
  /\ up /\ tasks[j] > 0
  /\ IF j \in Ids THEN jobs' \in Marks(j) ELSE UNCHANGED jobs
  /\ Released(j)
  /\ UNCHANGED <<file, up, looping, now>>

RunEndsOnSuccess(j) ==                    \* fault: the guard is released on success
  /\ up /\ tasks[j] > 0
  /\ IF j \notin Ids
       THEN Released(j) /\ UNCHANGED <<jobs, file, up, looping>>
       ELSE \E marked \in Marks(j), ok \in BOOLEAN :
              /\ SaveTwice(marked, IF ok /\ jobs[j].oneshot THEN Without(marked, j) ELSE marked)
              /\ up' => IF ok THEN Released(j) ELSE UNCHANGED <<inflight, fired>>
                              /\ tasks' = [tasks EXCEPT ![j] = @ - 1]
  /\ UNCHANGED now

RunEndsUnmarked(j) ==                     \* fault: a failure does not advance the job
  /\ up /\ tasks[j] > 0
  /\ IF j \notin Ids
       THEN Released(j) /\ UNCHANGED <<jobs, file, up, looping>>
       ELSE \E marked \in Marks(j), ok \in BOOLEAN :
              /\ SaveTwice(IF ok THEN marked ELSE jobs, CASE ~ok -> jobs
                   [] ok /\ jobs[j].oneshot -> Without(marked, j) [] OTHER -> marked)
              /\ up' => Released(j)
  /\ UNCHANGED now

RunEnds(j) ==
  /\ up /\ tasks[j] > 0
  /\ IF j \notin Ids
       THEN Released(j) /\ UNCHANGED <<jobs, file, up, looping>>
       ELSE \E marked \in Marks(j), ok \in BOOLEAN :
              /\ SaveTwice(marked, IF ok /\ jobs[j].oneshot THEN Without(marked, j) ELSE marked)
              /\ up' => Released(j)
  /\ UNCHANGED now

\* stop ends the loop; the runs in flight go on.
Stop ==
  /\ up /\ looping
  /\ looping' = FALSE
  /\ UNCHANGED <<jobs, file, up, tasks, inflight, fired, now>>

Crash == up /\ Dies /\ UNCHANGED <<file, now>>

Restart ==
  /\ ~up
  /\ up' = TRUE /\ looping' = TRUE /\ jobs' = Loaded(file)
  /\ UNCHANGED <<file, tasks, inflight, fired, now>>

Pass == now < MaxTime /\ now' = now + 1 /\ UNCHANGED <<jobs, file, up, looping, tasks, inflight, fired>>

----------------------------------------------------------------------------
\* A file written by hand may name a job without its state (dict_to_job).
HandWritten ==
  \/ jobs = Empty
  \/ \E j \in Jobs, schedule \in Schedules, oneshot \in BOOLEAN :
       jobs = Put(Empty, j, [enabled |-> TRUE, schedule |-> schedule, next |-> None,
                             last |-> None, oneshot |-> oneshot])

Init ==
  /\ HandWritten /\ file = Whole(jobs) /\ up = TRUE /\ looping = TRUE
  /\ tasks = [j \in Jobs |-> 0] /\ inflight = {} /\ fired = [j \in Jobs |-> None]
  /\ now = 0

Next ==
  \/ \E j \in Jobs : AddJob(j) \/ UpdateJob(j) \/ RemoveJob(j) \/ FillNext(j) \/ RunEnds(j)
  \/ Tick \/ Stop \/ Crash \/ Restart \/ Pass

Spec == Init /\ [][Next]_vars

\* The loop wakes, and a handler returns: it only puts a message on the bus or
\* starts a subagent.
FairSpec == Spec /\ WF_vars(Tick) /\ \A j \in Jobs : WF_vars(RunEnds(j)) /\ WF_vars(FillNext(j))

----------------------------------------------------------------------------
(* Properties *)

\* A job runs in one task at a time, and the guard names the jobs that run:
\* edits, removals, failures and handlers that outlast the period included.
InFlightOnce == \A j \in Jobs : tasks[j] = IF j \in inflight THEN 1 ELSE 0

\* A job that does not run waits for a later time than the one it last fired
\* for, so no due time fires twice in the life of a process, however the job
\* was edited while it ran.
DuesIncrease ==
  \A j \in Ids \ inflight : jobs[j].next # None => jobs[j].next > fired[j]

SameBut(s, t, j) ==
  \A i \in Jobs \ {j} : \/ i \notin DOMAIN s \cup DOMAIN t
                        \/ i \in DOMAIN s \cap DOMAIN t /\ s[i] = t[i]

\* A process that dies leaves the next one its jobs and due times.  Only inside
\* a save it may leave one job changed or gone, the one it was saving, or a file
\* cut short, from which the next process loads no job at all (jobs.py: save
\* opens crons.json for writing, load answers a broken file with an empty list).
DeathKeepsJobs ==
  [][ up /\ ~up' =>
        \/ Loaded(file') = jobs
        \/ file' # file /\ (~file'.whole \/ \E j \in Jobs : SameBut(file'.jobs, jobs, j)) ]_vars

\* A disabled job has no next run, although a run that ends sets one.
DisabledRests == \A j \in Ids : ~jobs[j].enabled => jobs[j].next = None

\* A due job fires, or is edited, unless the loop stops.
DueFires == \A j \in Jobs :
  (looping /\ j \in Ids /\ Due(j)) ~> (j \notin Ids \/ ~Due(j) \/ ~looping)
=============================================================================
