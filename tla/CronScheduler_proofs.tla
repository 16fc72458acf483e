----------------------- MODULE CronScheduler_proofs -----------------------
(***************************************************************************)
(* What holds of the scheduler for any jobs, periods and times.  A run     *)
(* that ends, an edit and a restart all put jobs in the store that the     *)
(* next pass of the loop compares with the clock: the invariant says what  *)
(* any store they leave must satisfy, the one in the file included.        *)
(***************************************************************************)
EXTENDS CronScheduler, TLAPS

\* A job that does not run was last run no earlier than it last fired, and its
\* next run is later than that.
Waits(s, running, since) ==
  \A j \in DOMAIN s \ running :
    /\ since[j] # None => s[j].last >= since[j]
    /\ s[j].next # None => s[j].next > since[j]

Rests(s) == \A j \in DOMAIN s : ~s[j].enabled => s[j].next = None

AtRest == /\ \A j \in Jobs : tasks[j] = 0 /\ fired[j] = None
          /\ inflight = {}

\* The file holds what a live process has in memory; a torn one holds no job.
Saved == up => jobs = Loaded(file)

IInv ==
  /\ TypeOK
  /\ InFlightOnce
  /\ \A j \in Jobs : fired[j] <= now
  /\ Waits(jobs, inflight, fired)
  /\ Rests(jobs) /\ Rests(file.jobs)
  /\ Saved
  /\ ~up => AtRest

----------------------------------------------------------------------------
(* Stores *)

\* Put changes one job and nothing else.
LEMMA PutResult ==
  ASSUME NEW s, IsStore(s), NEW j \in Jobs, NEW job \in Job
  PROVE  /\ IsStore(Put(s, j, job))
         /\ DOMAIN Put(s, j, job) = DOMAIN s \cup {j}
         /\ Put(s, j, job)[j] = job
         /\ \A i \in DOMAIN s \ {j} : Put(s, j, job)[i] = s[i]
  BY DEF IsStore, Put

\* Without drops one job and nothing else.
LEMMA WithoutResult ==
  ASSUME NEW s, IsStore(s), NEW j
  PROVE  /\ IsStore(Without(s, j))
         /\ DOMAIN Without(s, j) = DOMAIN s \ {j}
         /\ \A i \in DOMAIN s \ {j} : Without(s, j)[i] = s[i]
  BY DEF IsStore, Without

\* The empty store, of a new file and of a torn one, is a store at rest.
LEMMA EmptyStore ==
  /\ IsStore(Empty) /\ Rests(Empty) /\ DOMAIN Empty = {}
  BY DEF IsStore, Rests, Empty

\* A store stays one, at rest and with later due times, when a job is put in it
\* that is so.
LEMMA PutWaits ==
  ASSUME NEW s, IsStore(s), Rests(s), NEW running, NEW since, Waits(s, running, since),
         NEW j \in Jobs, NEW job \in Job,
         ~job.enabled => job.next = None,
         j \in running \/ (/\ since[j] # None => job.last >= since[j]
                           /\ job.next # None => job.next > since[j])
  PROVE  /\ Rests(Put(s, j, job))
         /\ Waits(Put(s, j, job), running, since)
  <1> DEFINE t == Put(s, j, job)
  <1>1. /\ DOMAIN t = DOMAIN s \cup {j}
        /\ t[j] = job
        /\ \A i \in DOMAIN s \ {j} : t[i] = s[i]
    BY DEF Put
  <1> HIDE DEF t
  <1>2. Rests(t)
    BY <1>1 DEF Rests
  <1>3. Waits(t, running, since)
    <2> SUFFICES ASSUME NEW i \in DOMAIN t \ running
                 PROVE  /\ since[i] # None => t[i].last >= since[i]
                        /\ t[i].next # None => t[i].next > since[i]
      BY DEF Waits
    <2>1. CASE i = j
      BY <2>1, <1>1
    <2>2. CASE i # j
      BY <2>2, <1>1 DEF Waits
    <2> QED
      BY <2>1, <2>2
  <1> QED
    BY <1>2, <1>3 DEF t

\* So it does when a job is dropped.
LEMMA WithoutWaits ==
  ASSUME NEW s, IsStore(s), Rests(s), NEW running, NEW since, Waits(s, running, since), NEW j
  PROVE  /\ Rests(Without(s, j))
         /\ Waits(Without(s, j), running, since)
  <1>1. /\ DOMAIN Without(s, j) = DOMAIN s \ {j}
        /\ \A i \in DOMAIN s \ {j} : Without(s, j)[i] = s[i]
    BY DEF Without
  <1> QED
    BY <1>1 DEF Rests, Waits

\* A next run is none, or later than now, or than the last run.
LEMMA NextIsLater ==
  ASSUME CronAssumption, NEW schedule \in Schedules, NEW last \in Moments, now \in Nat,
         NEW next \in NextRuns(schedule, last)
  PROVE  /\ next \in Moments
         /\ next # None => next > now \/ (last # None /\ next > last)
  <1>1. schedule.mode \in {"cron", "every"} /\ schedule.every \in Nat
    <2>1. CASE schedule \in [mode : {"every"}, every : Intervals]
      BY <2>1 DEF CronAssumption
    <2>2. CASE schedule \in [mode : {"cron"}, every : {0}]
      BY <2>2
    <2> QED
      BY <2>1, <2>2 DEF Schedules
  <1>2. CASE schedule.mode = "cron"
    <2>1. PICK gap \in 1..MaxGap : next = now + gap
      BY <1>2 DEF NextRuns
    <2> QED
      BY <2>1 DEF Moments, CronAssumption, None
  <1>3. CASE schedule.mode # "cron" /\ schedule.every = 0
    BY <1>3 DEF NextRuns, Moments
  <1>4. CASE schedule.mode # "cron" /\ schedule.every # 0 /\ last = None
    BY <1>1, <1>4 DEF NextRuns, Moments, None
  <1>5. CASE schedule.mode # "cron" /\ schedule.every # 0 /\ last # None
    <2>1. next = last + schedule.every /\ last \in Nat
      BY <1>5 DEF NextRuns, Moments
    <2> QED
      BY <1>1, <1>5, <2>1 DEF Moments, None
  <1> QED
    BY <1>2, <1>3, <1>4, <1>5

----------------------------------------------------------------------------
(* What a step leaves *)

\* A process that dies while its store is saved leaves a file that is torn or
\* whole, and nothing else.
LEMMA DeathKeeps ==
  ASSUME TypeOK, NEW s, IsStore(s), Rests(s),
         Dies, file' \in {Torn, Whole(s)} \/ (file' = file /\ Rests(file.jobs)), now' = now
  PROVE  IInv'
  <1>1. /\ up' = FALSE /\ looping' = FALSE /\ jobs' = Empty /\ inflight' = {}
        /\ tasks' = [j \in Jobs |-> 0] /\ fired' = [j \in Jobs |-> None]
    BY DEF Dies
  <1>2. IsStore(file'.jobs) /\ file'.whole \in BOOLEAN /\ Rests(file'.jobs)
    <2>1. CASE file' = Torn
      BY <2>1, EmptyStore DEF Torn
    <2>2. CASE file' = Whole(s)
      BY <2>2 DEF Whole
    <2>3. CASE file' = file /\ Rests(file.jobs)
      BY <2>3 DEF TypeOK
    <2> QED
      BY <2>1, <2>2, <2>3
  <1>3. IsStore(jobs') /\ Rests(jobs') /\ DOMAIN jobs' = {}
    BY <1>1, EmptyStore
  <1>4. TypeOK'
    <2>1. tasks' \in [Jobs -> Nat] /\ fired' \in [Jobs -> Moments] /\ now' \in 0..MaxTime
      BY <1>1 DEF TypeOK, Moments
    <2> QED
      BY <1>1, <1>2, <1>3, <2>1 DEF TypeOK
  <1>5. InFlightOnce' /\ AtRest'
    BY <1>1 DEF InFlightOnce, AtRest
  <1>6. \A j \in Jobs : fired'[j] <= now'
    BY <1>1 DEF None, TypeOK
  <1>7. Waits(jobs', inflight', fired') /\ Saved'
    BY <1>1, <1>3 DEF Waits, Saved
  <1> QED
    BY <1>2, <1>3, <1>4, <1>5, <1>6, <1>7 DEF IInv

\* A save keeps the invariant, if what the process goes on with satisfies it.
LEMMA SaveKeeps ==
  ASSUME IInv, NEW first, IsStore(first), Rests(first),
         NEW second, IsStore(second), Rests(second),
         SaveTwice(first, second), up, now' = now,
         up' => /\ tasks' \in [Jobs -> Nat] /\ inflight' \subseteq Jobs
                /\ fired' = fired /\ InFlightOnce'
                /\ Waits(second, inflight', fired)
  PROVE  IInv'
  <1>1. CASE Dies /\ file' \in {Torn, Whole(first)}
    BY <1>1, DeathKeeps DEF IInv
  <1>2. CASE jobs' = second /\ file' = Whole(second) /\ up' = up /\ looping' = looping
    <2>1. file'.jobs = second /\ file'.whole = TRUE
      BY <1>2 DEF Whole
    <2>2. /\ tasks' \in [Jobs -> Nat] /\ inflight' \subseteq Jobs
          /\ fired' = fired /\ InFlightOnce'
          /\ Waits(second, inflight', fired)
      BY <1>2
    <2>3. TypeOK'
      BY <1>2, <2>1, <2>2 DEF IInv, TypeOK
    <2>4. Saved'
      BY <1>2, <2>1 DEF Saved, Loaded
    <2>5. \A j \in Jobs : fired'[j] <= now'
      BY <2>2 DEF IInv
    <2>6. Rests(jobs') /\ Rests(file'.jobs) /\ Waits(jobs', inflight', fired') /\ up'
      BY <1>2, <2>1, <2>2
    <2> QED
      BY <2>2, <2>3, <2>4, <2>5, <2>6 DEF IInv
  <1> QED
    BY <1>1, <1>2 DEF SaveTwice

\* An operation of the store touches nothing of what runs.
LEMMA EditKeeps ==
  ASSUME IInv, NEW s, IsStore(s), Rests(s), Waits(s, inflight, fired), Edit(s)
  PROVE  IInv'
  <1>1. up /\ SaveTwice(s, s) /\ now' = now
        /\ (up' => tasks' = tasks /\ inflight' = inflight /\ fired' = fired)
    BY DEF Edit, Save, Quiet
  <1>2. up' => /\ tasks' \in [Jobs -> Nat] /\ inflight' \subseteq Jobs
               /\ fired' = fired /\ InFlightOnce'
               /\ Waits(s, inflight', fired)
    BY <1>1 DEF IInv, TypeOK, InFlightOnce
  <1> QED
    BY <1>1, <1>2, SaveKeeps

----------------------------------------------------------------------------
(* The actions *)

\* A new job has not fired; its next run is no time before now.
LEMMA AddKeeps ==
  ASSUME IInv, CronAssumption, NEW j \in Jobs, AddJob(j)
  PROVE  IInv'
  <1>1. PICK schedule \in Schedules, enabled \in BOOLEAN, oneshot \in BOOLEAN :
        \E next \in IF enabled THEN NextRuns(schedule, None) ELSE {None} :
          Edit(Put(jobs, j, [enabled |-> enabled, schedule |-> schedule, next |-> next,
                             last |-> None, oneshot |-> oneshot]))
    BY DEF AddJob
  <1>2. PICK next \in IF enabled THEN NextRuns(schedule, None) ELSE {None} :
          Edit(Put(jobs, j, [enabled |-> enabled, schedule |-> schedule, next |-> next,
                             last |-> None, oneshot |-> oneshot]))
    BY <1>1
  <1> DEFINE job == [enabled |-> enabled, schedule |-> schedule, next |-> next,
                     last |-> None, oneshot |-> oneshot]
  <1>3. now \in Nat /\ IsStore(jobs) /\ Rests(jobs) /\ Waits(jobs, inflight, fired)
    BY DEF IInv, TypeOK
  <1>4. next \in Moments /\ (~enabled => next = None) /\ (next # None => next \in Nat)
    <2>1. CASE enabled
      <3>1. next \in NextRuns(schedule, None) /\ None \in Moments
        BY <2>1, <1>2 DEF Moments
      <3>2. next \in Moments
        BY <3>1, <1>3, NextIsLater
      <3> QED
        BY <2>1, <3>2 DEF Moments
    <2>2. CASE ~enabled
      BY <2>2, <1>2 DEF Moments
    <2> QED
      BY <2>1, <2>2
  <1>5. job \in Job /\ (~job.enabled => job.next = None)
    BY <1>4 DEF Job, Moments
  <1>6. fired[j] = None /\ (job.next # None => job.next > fired[j])
    BY <1>4 DEF AddJob, None
  <1>7. Edit(Put(jobs, j, job))
    BY <1>2
  <1> HIDE DEF job
  <1>8. Rests(Put(jobs, j, job)) /\ Waits(Put(jobs, j, job), inflight, fired)
    BY <1>3, <1>5, <1>6, PutWaits
  <1> QED
    BY <1>3, <1>5, <1>7, <1>8, PutResult, EditKeeps

\* The next run of a job that does not run, computed anew from its last run, is
\* later than the time it last fired for.
LEMMA NextAfterFired ==
  ASSUME IInv, CronAssumption, NEW j \in DOMAIN jobs, NEW schedule \in Schedules,
         NEW next \in NextRuns(schedule, jobs[j].last)
  PROVE  /\ next \in Moments
         /\ j \notin inflight => (next # None => next > fired[j])
  <1>1. now \in Nat /\ j \in Jobs /\ jobs[j].last \in Moments /\ fired[j] \in Moments
    BY DEF IInv, TypeOK, IsStore, Job
  <1>2. fired[j] <= now /\ (j \notin inflight /\ fired[j] # None => jobs[j].last >= fired[j])
    BY <1>1 DEF IInv, Waits
  <1>3. /\ next \in Moments
        /\ next # None => next > now \/ (jobs[j].last # None /\ next > jobs[j].last)
    BY <1>1, NextIsLater
  <1> QED
    BY <1>1, <1>2, <1>3 DEF Moments, None

\* An edit of a job computes its next run, unless it disables the job.
LEMMA UpdateKeeps ==
  ASSUME IInv, CronAssumption, NEW j \in Jobs, UpdateJob(j)
  PROVE  IInv'
  <1>1. PICK schedule \in Schedules, enabled \in BOOLEAN :
        \E next \in IF enabled THEN NextRuns(schedule, jobs[j].last) ELSE {None} :
          Edit(Put(jobs, j, [jobs[j] EXCEPT !.enabled = enabled, !.schedule = schedule,
                                            !.next = next]))
    BY DEF UpdateJob
  <1>2. PICK next \in IF enabled THEN NextRuns(schedule, jobs[j].last) ELSE {None} :
          Edit(Put(jobs, j, [jobs[j] EXCEPT !.enabled = enabled, !.schedule = schedule,
                                            !.next = next]))
    BY <1>1
  <1> DEFINE job == [jobs[j] EXCEPT !.enabled = enabled, !.schedule = schedule, !.next = next]
  <1>3. /\ IsStore(jobs) /\ Rests(jobs) /\ Waits(jobs, inflight, fired)
        /\ j \in DOMAIN jobs /\ jobs[j] \in Job
    BY DEF IInv, TypeOK, IsStore, UpdateJob, Ids
  <1>4. /\ next \in Moments /\ (~enabled => next = None)
        /\ j \notin inflight => (next # None => next > fired[j])
    <2>1. CASE enabled
      BY <2>1, <1>2, <1>3, NextAfterFired
    <2>2. CASE ~enabled
      BY <2>2, <1>2 DEF Moments
    <2> QED
      BY <2>1, <2>2
  <1>6. job \in Job /\ job.enabled = enabled /\ job.next = next /\ job.last = jobs[j].last
    BY <1>3, <1>4 DEF Job
  <1>7. j \notin inflight /\ fired[j] # None => jobs[j].last >= fired[j]
    BY <1>3 DEF Waits
  <1>8. Edit(Put(jobs, j, job))
    BY <1>2
  <1> HIDE DEF job
  <1>9. Rests(Put(jobs, j, job)) /\ Waits(Put(jobs, j, job), inflight, fired)
    BY <1>3, <1>4, <1>6, <1>7, PutWaits
  <1> QED
    BY <1>3, <1>6, <1>8, <1>9, PutResult, EditKeeps

\* The loop gives a job without a next run one.
LEMMA FillKeeps ==
  ASSUME IInv, CronAssumption, NEW j \in Jobs, FillNext(j)
  PROVE  IInv'
  <1>1. PICK next \in NextRuns(jobs[j].schedule, jobs[j].last) \ {None} :
          Edit(Put(jobs, j, [jobs[j] EXCEPT !.next = next]))
    BY DEF FillNext
  <1> DEFINE job == [jobs[j] EXCEPT !.next = next]
  <1>2. /\ IsStore(jobs) /\ Rests(jobs) /\ Waits(jobs, inflight, fired)
        /\ j \in DOMAIN jobs /\ jobs[j] \in Job /\ jobs[j].enabled
    BY DEF IInv, TypeOK, IsStore, FillNext, Ids
  <1>3. jobs[j].schedule \in Schedules /\ jobs[j].last \in Moments
    BY <1>2 DEF Job
  <1>4. next \in Moments /\ (j \notin inflight => next > fired[j])
    BY <1>1, <1>2, <1>3, NextAfterFired
  <1>5. job \in Job /\ job.enabled /\ job.next = next /\ job.last = jobs[j].last
    BY <1>2, <1>4 DEF Job
  <1>6. j \notin inflight /\ fired[j] # None => jobs[j].last >= fired[j]
    BY <1>2 DEF Waits
  <1>7. Edit(Put(jobs, j, job))
    BY <1>1
  <1> HIDE DEF job
  <1>8. Rests(Put(jobs, j, job)) /\ Waits(Put(jobs, j, job), inflight, fired)
    BY <1>2, <1>4, <1>5, <1>6, PutWaits
  <1> QED
    BY <1>2, <1>5, <1>7, <1>8, PutResult, EditKeeps

\* A job that is removed leaves the others as they are.
LEMMA RemoveKeeps ==
  ASSUME IInv, NEW j \in Jobs, RemoveJob(j)
  PROVE  IInv'
  <1>1. IsStore(jobs) /\ Rests(jobs) /\ Waits(jobs, inflight, fired)
    BY DEF IInv, TypeOK
  <1> QED
    BY <1>1, WithoutResult, WithoutWaits, EditKeeps DEF RemoveJob

\* The loop starts the due jobs that do not run: they fire for a time that has
\* come, and what they wait for is of no account until they end.
LEMMA TickKeeps ==
  ASSUME IInv, Tick
  PROVE  IInv'
  <1> DEFINE starting == {j \in Ids : Due(j)} \ inflight
  <1>1. /\ inflight' = inflight \cup starting
        /\ tasks' = [j \in Jobs |-> IF j \in starting THEN tasks[j] + 1 ELSE tasks[j]]
        /\ fired' = [j \in Jobs |-> IF j \in starting THEN jobs[j].next ELSE fired[j]]
        /\ UNCHANGED <<jobs, file, up, looping, now>> /\ up
    BY DEF Tick
  <1>2. \A j \in starting : /\ j \in Jobs /\ j \in DOMAIN jobs /\ jobs[j] \in Job
                            /\ jobs[j].next <= now
    BY DEF IInv, TypeOK, IsStore, Due, Ids
  <1>3. \A j \in starting : jobs[j].next \in Moments
    BY <1>2 DEF Job
  <1>4. starting \cap inflight = {}
    OBVIOUS
  <1> HIDE DEF starting
  <1>5. TypeOK'
    <2>1. tasks' \in [Jobs -> Nat] /\ fired' \in [Jobs -> Moments] /\ inflight' \subseteq Jobs
      BY <1>1, <1>2, <1>3 DEF IInv, TypeOK
    <2> QED
      BY <1>1, <2>1 DEF IInv, TypeOK
  <1>6. InFlightOnce'
    BY <1>1, <1>4 DEF IInv, TypeOK, InFlightOnce
  <1>7. \A j \in Jobs : fired'[j] <= now'
    BY <1>1, <1>2 DEF IInv
  <1>8. Waits(jobs', inflight', fired')
    <2> SUFFICES ASSUME NEW j \in DOMAIN jobs \ inflight'
                 PROVE  /\ fired'[j] # None => jobs[j].last >= fired'[j]
                        /\ jobs[j].next # None => jobs[j].next > fired'[j]
      BY <1>1 DEF Waits
    <2>1. j \in Jobs /\ j \notin starting /\ j \notin inflight /\ fired'[j] = fired[j]
      BY <1>1 DEF IInv, TypeOK, IsStore
    <2> QED
      BY <2>1 DEF IInv, Waits
  <1> QED
    BY <1>1, <1>5, <1>6, <1>7, <1>8 DEF IInv, Saved

\* A run that ends marks its job for a time after now, which is after the time
\* it fired for; the guard that it gives back is the only one there was.
LEMMA RunEndKeeps ==
  ASSUME IInv, CronAssumption, NEW j \in Jobs, RunEnds(j)
  PROVE  IInv'
  <1>1. /\ up /\ tasks[j] = 1 /\ j \in inflight /\ now' = now /\ now \in Nat
        /\ IsStore(jobs) /\ Rests(jobs) /\ Waits(jobs, inflight, fired)
        /\ fired[j] <= now /\ fired[j] \in Moments
    BY DEF IInv, TypeOK, InFlightOnce, RunEnds
  <1>2. ASSUME Released(j)
        PROVE  /\ tasks' \in [Jobs -> Nat] /\ inflight' \subseteq Jobs
               /\ fired' = fired /\ InFlightOnce' /\ inflight' = inflight \ {j}
    BY <1>1, <1>2 DEF IInv, TypeOK, InFlightOnce, Released
  <1>3. CASE j \notin Ids
    <2>1. Released(j) /\ UNCHANGED <<jobs, file, up, looping>>
      BY <1>3 DEF RunEnds
    <2>2. Waits(jobs', inflight', fired')
      BY <1>2, <1>3, <2>1 DEF IInv, Waits, Ids
    <2>3. \A i \in Jobs : fired'[i] <= now'
      BY <1>1, <1>2, <2>1 DEF IInv
    <2> QED
      BY <1>1, <1>2, <2>1, <2>2, <2>3 DEF IInv, TypeOK, Saved
  <1>4. CASE j \in Ids
    <2>1. PICK marked \in Marks(j), ok \in BOOLEAN :
            /\ SaveTwice(marked, IF ok /\ jobs[j].oneshot THEN Without(marked, j) ELSE marked)
            /\ up' => Released(j)
      BY <1>4 DEF RunEnds
    <2>2. PICK next \in IF jobs[j].enabled THEN NextRuns(jobs[j].schedule, now) ELSE {None} :
            marked = Put(jobs, j, [jobs[j] EXCEPT !.last = now, !.next = next])
      BY <2>1 DEF Marks
    <2> DEFINE job == [jobs[j] EXCEPT !.last = now, !.next = next]
               second == IF ok /\ jobs[j].oneshot THEN Without(marked, j) ELSE marked
    <2>3. jobs[j] \in Job /\ jobs[j].schedule \in Schedules /\ now \in Moments
      BY <1>1, <1>4 DEF Ids, IsStore, Job, Moments
    <2>4. /\ next \in Moments /\ (~jobs[j].enabled => next = None)
          /\ next # None => next > fired[j]
      <3>1. CASE jobs[j].enabled
        <4>1. /\ next \in Moments
              /\ next # None => next > now \/ (now # None /\ next > now)
          BY <1>1, <2>2, <2>3, <3>1, NextIsLater
        <4> QED
          BY <1>1, <3>1, <4>1 DEF Moments, None
      <3>2. CASE ~jobs[j].enabled
        BY <3>2, <2>2 DEF Moments
      <3> QED
        BY <3>1, <3>2
    <2>5. /\ job \in Job /\ job.enabled = jobs[j].enabled
          /\ job.next = next /\ job.last = now
      BY <2>3, <2>4 DEF Job
    <2>6. marked = Put(jobs, j, job)
      BY <2>2
    <2> HIDE DEF job
    <2>7. IsStore(marked) /\ Rests(marked) /\ Waits(marked, inflight \ {j}, fired)
      <3>1. /\ IsStore(marked) /\ DOMAIN marked = DOMAIN jobs \cup {j} /\ marked[j] = job
            /\ \A i \in DOMAIN jobs \ {j} : marked[i] = jobs[i]
        BY <1>1, <2>5, <2>6, PutResult
      <3>2. Rests(marked)
        BY <1>1, <2>4, <2>5, <3>1 DEF Rests
      <3>3. ASSUME NEW i \in DOMAIN marked \ (inflight \ {j})
            PROVE  /\ fired[i] # None => marked[i].last >= fired[i]
                   /\ marked[i].next # None => marked[i].next > fired[i]
        <4>1. CASE i = j
          BY <1>1, <2>4, <2>5, <3>1, <4>1
        <4>2. CASE i # j
          BY <1>1, <3>1, <3>3, <4>2 DEF Waits
        <4> QED
          BY <4>1, <4>2
      <3> QED
        BY <3>1, <3>2, <3>3 DEF Waits
    <2>8. IsStore(second) /\ Rests(second) /\ Waits(second, inflight \ {j}, fired)
      BY <2>7, WithoutResult, WithoutWaits
    <2>9. SaveTwice(marked, second)
      BY <2>1
    <2> HIDE DEF second
    <2>10. up' => /\ tasks' \in [Jobs -> Nat] /\ inflight' \subseteq Jobs
                  /\ fired' = fired /\ InFlightOnce'
                  /\ Waits(second, inflight', fired)
      BY <1>2, <2>1, <2>8
    <2> QED
      BY <1>1, <2>7, <2>8, <2>9, <2>10, SaveKeeps
  <1> QED
    BY <1>3, <1>4

\* A restart loads what the file has; nothing runs and nothing has fired.
LEMMA RestartKeeps ==
  ASSUME IInv, Restart
  PROVE  IInv'
  <1>1. /\ up' = TRUE /\ looping' = TRUE /\ jobs' = Loaded(file) /\ AtRest
        /\ UNCHANGED <<file, tasks, inflight, fired, now>>
    BY DEF Restart, IInv
  <1>2. IsStore(jobs') /\ Rests(jobs')
    BY <1>1, EmptyStore DEF Loaded, IInv, TypeOK
  <1>3. Waits(jobs', inflight', fired')
    <2> SUFFICES ASSUME NEW j \in DOMAIN jobs'
                 PROVE  /\ fired[j] = None
                        /\ jobs'[j].next # None => jobs'[j].next > None
      BY <1>1 DEF Waits
    <2>1. j \in Jobs /\ jobs'[j].next \in Moments
      BY <1>2 DEF IsStore, Job
    <2> QED
      BY <1>1, <2>1 DEF AtRest, Moments, None
  <1>4. TypeOK'
    BY <1>1, <1>2 DEF IInv, TypeOK
  <1> QED
    BY <1>1, <1>2, <1>3, <1>4 DEF IInv, InFlightOnce, Saved, Loaded

----------------------------------------------------------------------------
(* The theorems *)

\* The invariant holds of an empty store and of one with a job without a state.
LEMMA InitInv ==
  ASSUME CronAssumption, Init
  PROVE  IInv
  <1>1. /\ \A j \in Jobs : tasks[j] = 0 /\ fired[j] = None
        /\ inflight = {} /\ now = 0 /\ up = TRUE /\ file = Whole(jobs)
        /\ tasks \in [Jobs -> Nat] /\ fired \in [Jobs -> Moments] /\ looping = TRUE
    BY DEF Init, Moments, None
  <1>2. IsStore(jobs) /\ Rests(jobs) /\ \A j \in DOMAIN jobs : jobs[j].next = None
    <2>1. CASE jobs = Empty
      BY <2>1, EmptyStore
    <2>2. ASSUME NEW j \in Jobs, NEW schedule \in Schedules, NEW oneshot \in BOOLEAN,
                 jobs = Put(Empty, j, [enabled |-> TRUE, schedule |-> schedule, next |-> None,
                                       last |-> None, oneshot |-> oneshot])
          PROVE  IsStore(jobs) /\ Rests(jobs) /\ \A i \in DOMAIN jobs : jobs[i].next = None
      <3>1. PICK job : job = [enabled |-> TRUE, schedule |-> schedule, next |-> None,
                              last |-> None, oneshot |-> oneshot]
        OBVIOUS
      <3>2. job \in Job /\ job.enabled /\ job.next = None
        BY <3>1 DEF Job, Moments, None
      <3>3. jobs = Put(Empty, j, job)
        BY <2>2, <3>1
      <3>4. DOMAIN jobs = {j} /\ jobs[j] = job
        BY <3>3 DEF Put, Empty
      <3> QED
        BY <3>2, <3>4 DEF Rests, IsStore
    <2>3. HandWritten
      BY DEF Init
    <2> QED
      BY <2>1, <2>2, <2>3 DEF HandWritten
  <1>3. file.jobs = jobs /\ file.whole = TRUE /\ jobs = Loaded(file)
    BY <1>1 DEF Whole, Loaded
  <1>4. TypeOK /\ InFlightOnce /\ \A j \in Jobs : fired[j] <= now
    <2>1. TypeOK
      <3>1. IsStore(jobs) /\ IsStore(file.jobs) /\ file.whole \in BOOLEAN
        BY <1>2, <1>3
      <3>2. up \in BOOLEAN /\ looping \in BOOLEAN /\ inflight \subseteq Jobs
        BY <1>1
      <3>3. now \in 0..MaxTime
        BY <1>1 DEF CronAssumption
      <3> QED
        BY <1>1, <3>1, <3>2, <3>3 DEF TypeOK
    <2>2. InFlightOnce
      BY <1>1 DEF InFlightOnce
    <2> QED
      BY <1>1, <2>1, <2>2 DEF None
  <1>5. Waits(jobs, inflight, fired)
    <2>1. DOMAIN jobs \subseteq Jobs
      BY <1>2 DEF IsStore
    <2> QED
      BY <1>1, <1>2, <2>1 DEF Waits
  <1> QED
    BY <1>1, <1>2, <1>3, <1>4, <1>5 DEF IInv, Saved

\* Every action keeps the invariant.
LEMMA NextInv ==
  ASSUME CronAssumption, IInv, [Next]_vars
  PROVE  IInv'
  <1>1. CASE \E j \in Jobs : AddJob(j) \/ UpdateJob(j) \/ RemoveJob(j) \/ FillNext(j) \/ RunEnds(j)
    BY <1>1, AddKeeps, UpdateKeeps, RemoveKeeps, FillKeeps, RunEndKeeps
  <1>2. CASE Tick
    BY <1>2, TickKeeps
  <1>3. CASE Stop
    BY <1>3 DEF Stop, IInv, TypeOK, InFlightOnce, Waits, Rests, Saved, Loaded, AtRest
  <1>4. CASE Crash
    BY <1>4, DeathKeeps DEF Crash, IInv, TypeOK
  <1>5. CASE Restart
    BY <1>5, RestartKeeps
  <1>6. CASE Pass
    <2>1. /\ now' = now + 1 /\ now' \in 0..MaxTime /\ now \in 0..MaxTime
          /\ UNCHANGED <<jobs, file, up, looping, tasks, inflight, fired>>
      BY <1>6 DEF Pass, IInv, TypeOK, CronAssumption
    <2>2. TypeOK'
      BY <2>1 DEF IInv, TypeOK
    <2>3. \A j \in Jobs : fired'[j] <= now'
      <3> SUFFICES ASSUME NEW j \in Jobs PROVE fired[j] <= now + 1
        BY <2>1
      <3>1. fired[j] <= now /\ fired[j] \in Moments
        BY DEF IInv, TypeOK
      <3> QED
        BY <2>1, <3>1 DEF Moments, None
    <2> QED
      BY <2>1, <2>2, <2>3 DEF IInv, InFlightOnce, Waits, Rests, Saved, Loaded, AtRest
  <1>7. CASE UNCHANGED vars
    BY <1>7 DEF vars, IInv, TypeOK, InFlightOnce, Waits, Rests, Saved, Loaded, AtRest
  <1> QED
    BY <1>1, <1>2, <1>3, <1>4, <1>5, <1>6, <1>7 DEF Next

\* The strengthening that the theorems below are parts of.
THEOREM Invariant == Spec => []IInv
  <1>1. Init => IInv
    BY InitInv, CronAssumption
  <1>2. IInv /\ [Next]_vars => IInv'
    BY NextInv, CronAssumption
  <1> QED
    BY <1>1, <1>2, PTL DEF Spec

\* The store in memory and in the file keep their shape.
THEOREM TypeCorrect == Spec => []TypeOK
  <1>1. IInv => TypeOK
    BY DEF IInv
  <1> QED
    BY <1>1, Invariant, PTL

\* A job runs in one task at a time, and the guard names the jobs that run.
THEOREM OneTaskPerJob == Spec => []InFlightOnce
  <1>1. IInv => InFlightOnce
    BY DEF IInv
  <1> QED
    BY <1>1, Invariant, PTL

\* No due time fires twice in the life of a process.
THEOREM DueTimesIncrease == Spec => []DuesIncrease
  <1>1. IInv => DuesIncrease
    BY DEF IInv, Waits, DuesIncrease, Ids
  <1> QED
    BY <1>1, Invariant, PTL

\* A process that dies in a save leaves the old file or a torn one, or a store
\* that differs from the one in memory by the job it was saving.
LEMMA DeathInSave ==
  ASSUME up, ~up', NEW j \in Jobs, NEW s, NEW t, SaveTwice(s, t),
         \/ \E job : s = Put(jobs, j, job)
         \/ s = Without(jobs, j)
  PROVE  ~file'.whole \/ SameBut(file'.jobs, jobs, j)
  <1>1. file' = Torn \/ file' = Whole(s) \/ up' = up
    BY DEF SaveTwice
  <1>2. SameBut(s, jobs, j)
    BY DEF SameBut, Put, Without
  <1>3. CASE file' = Torn
    BY <1>3 DEF Torn
  <1>4. CASE file' = Whole(s)
    BY <1>2, <1>4 DEF Whole
  <1> QED
    BY <1>1, <1>3, <1>4

\* A process that dies between saves loses none of its jobs; inside one, the job
\* it was saving may be changed or gone, unless the file is cut short.
THEOREM JobsOutliveProcess == Spec => DeathKeepsJobs
  <1>1. ASSUME IInv, [Next]_vars, up, ~up', file' # file
        PROVE  ~file'.whole \/ \E j \in Jobs : SameBut(file'.jobs, jobs, j)
    <2>1. ASSUME NEW j \in Jobs, AddJob(j) \/ UpdateJob(j) \/ RemoveJob(j) \/ FillNext(j)
          PROVE  ~file'.whole \/ SameBut(file'.jobs, jobs, j)
      <3>1. \E s : /\ SaveTwice(s, s)
                   /\ \/ \E job : s = Put(jobs, j, job)
                      \/ s = Without(jobs, j)
        BY <2>1 DEF AddJob, UpdateJob, RemoveJob, FillNext, Edit, Save
      <3> QED
        BY <1>1, <3>1, DeathInSave
    <2>2. ASSUME NEW j \in Jobs, RunEnds(j)
          PROVE  ~file'.whole \/ SameBut(file'.jobs, jobs, j)
      <3>1. j \in Ids
        BY <1>1, <2>2 DEF RunEnds
      <3>2. PICK s \in Marks(j), ok \in BOOLEAN :
              SaveTwice(s, IF ok /\ jobs[j].oneshot THEN Without(s, j) ELSE s)
        BY <2>2, <3>1 DEF RunEnds
      <3>3. \E job : s = Put(jobs, j, job)
        BY <3>2 DEF Marks
      <3> QED
        BY <1>1, <3>2, <3>3, DeathInSave
    <2>3. CASE Tick \/ Stop \/ Crash \/ Restart \/ Pass \/ UNCHANGED vars
      BY <1>1, <2>3 DEF Tick, Stop, Crash, Restart, Pass, vars
    <2> QED
      BY <1>1, <2>1, <2>2, <2>3 DEF Next
  <1>2. IInv /\ [Next]_vars =>
          [ up /\ ~up' =>
              \/ Loaded(file') = jobs
              \/ file' # file /\ (~file'.whole \/ \E j \in Jobs : SameBut(file'.jobs, jobs, j)) ]_vars
    BY <1>1 DEF IInv, Saved
  <1> QED
    BY <1>2, Invariant, PTL DEF Spec, DeathKeepsJobs

\* A disabled job has no next run, not even when a run of it ends.
THEOREM DisabledJobsRest == Spec => []DisabledRests
  <1>1. IInv => DisabledRests
    BY DEF IInv, Rests, DisabledRests, Ids
  <1> QED
    BY <1>1, Invariant, PTL
=============================================================================
