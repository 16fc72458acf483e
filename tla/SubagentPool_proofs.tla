------------------------ MODULE SubagentPool_proofs ------------------------
(***************************************************************************)
(* Proofs about SubagentPool, for any finite set of tasks, any             *)
(* max_concurrent and any number of retries.  IInv, the inductive          *)
(* invariant, adds to the properties the runs check: the events set are    *)
(* those of the tasks that are done, and a record has its final status     *)
(* from the end of its last attempt on.                                    *)
(***************************************************************************)
EXTENDS SubagentPool, FiniteSetTheorems, TLAPS

\* The events that are set are those of the tasks that are done.
SignalledAreDone == signalled = {t \in Tasks : At(t, {"done"})}

Told(r) ==
  /\ r.pc \in {"ending", "notifying"} => r.status \in Ends
  /\ r.announced # "none" => r.pc \in {"notifying", "done"} /\ r.announced = r.status

Recorded == \A t \in Tasks : Told(task[t])

IInv == TypeOK /\ SlotsConserved /\ SignalledAreDone /\ Recorded

\* What every record of a task is.
Record == [pc : Pcs, deps : SUBSET (Tasks \cup Ghosts),
           status : {"none", "running"} \cup Ends, attempt : 0..MaxRetries,
           announced : {"none"} \cup Ends, told : BOOLEAN]

----------------------------------------------------------------------------
\* A step changes one task, to a record that is one of a task and honest.
StepOf(t, r) ==
  /\ t \in Tasks /\ r \in Record /\ Told(r)
  /\ task' = [task EXCEPT ![t] = r]

\* A task is created.
Submits(t) == \E r : /\ StepOf(t, r)
                     /\ task[t].pc = "absent" /\ r.pc = "waiting" /\ t \notin r.deps
                     /\ UNCHANGED <<free, signalled>>

\* A task keeps its slot, or goes on without one.
Keeps(t) == \E r : /\ StepOf(t, r) /\ r.deps = task[t].deps
                   /\ \/ r.pc \in Working /\ task[t].pc \in Working
                      \/ r.pc = "gone" /\ task[t].pc = "waiting"
                   /\ UNCHANGED <<free, signalled>>

\* A task takes a slot.
Takes(t) == \E r : /\ StepOf(t, r)
                   /\ task[t].pc = "waiting" /\ r.pc = "starting"
                   /\ task[t].deps \subseteq signalled /\ r.deps = task[t].deps
                   /\ Limited => free > 0
                   /\ free' = IF Limited THEN free - 1 ELSE free
                   /\ UNCHANGED signalled

\* A task gives its slot back.
Gives(t) == \E r : /\ StepOf(t, r)
                   /\ task[t].pc \in Working /\ r.pc = "done" /\ r.deps = task[t].deps
                   /\ free' = IF Limited THEN free + 1 ELSE free
                   /\ signalled' = signalled \cup {t}

\* Settled gives the slot of a working task back when its record is honest.
LEMMA SettledGives ==
  ASSUME NEW t \in Tasks, NEW r \in Record, TypeOK, At(t, Working), Settled(t, r),
         r.announced # "none" => r.announced = r.status, r.deps = task[t].deps
  PROVE  Gives(t)
<1> DEFINE q == [r EXCEPT !.pc = "done"]
<1>1. q \in Record /\ q.pc = "done" /\ q.deps = r.deps
         /\ q.status = r.status /\ q.announced = r.announced
  BY DEF Record, Pcs
<1>2. Told(q)
  BY <1>1 DEF Told
<1>3. StepOf(t, q)
  BY <1>1, <1>2 DEF StepOf, Settled
<1>4. QED
  BY <1>1, <1>3 DEF Gives, Settled, At

\* Every step of the pool is one of these four.
LEMMA FourSteps ==
  ASSUME IInv, Next
  PROVE  \E t \in Tasks : Submits(t) \/ Keeps(t) \/ Takes(t) \/ Gives(t)
<1>1. PICK t \in Tasks : Invoke(t) \/ Step(t) \/ Cancel(t)
  BY DEF Next
<1>2. task \in [Tasks -> Record] /\ task[t] \in Record /\ Told(task[t])
  BY DEF IInv, TypeOK, Record, Recorded
<1>3. CASE Invoke(t)
  <2>1. PICK ds \in SUBSET ({d \in Tasks : ~At(d, {"absent"})} \cup Ghosts) :
          task' = [task EXCEPT ![t] = [@ EXCEPT !.pc = "waiting", !.deps = ds, !.status = "running"]]
    BY <1>3 DEF Invoke
  <2> DEFINE r == [task[t] EXCEPT !.pc = "waiting", !.deps = ds, !.status = "running"]
  <2>2. At(t, {"absent"}) /\ UNCHANGED <<free, signalled>>
    BY <1>3 DEF Invoke
  <2>3. r \in Record /\ r.pc = "waiting" /\ r.deps = ds /\ r.announced = task[t].announced
    BY <1>2 DEF Record, Pcs
  <2>4. Told(r)
    BY <1>2, <2>2, <2>3 DEF Told, At
  <2>5. t \notin ds
    BY <2>2, PoolAssumption
  <2>6. StepOf(t, r)
    BY <2>1, <2>3, <2>4 DEF StepOf
  <2>7. Submits(t)
    BY <2>2, <2>3, <2>5, <2>6 DEF Submits, At
  <2>8. QED
    BY <2>7
<1>4. CASE Launch(t)
  <2> DEFINE r == [task[t] EXCEPT !.pc = "starting"]
  <2>1. r \in Record /\ r.pc = "starting" /\ r.deps = task[t].deps
          /\ r.announced = task[t].announced
    BY <1>2 DEF Record, Pcs, Working
  <2>2. Told(r)
    BY <1>2, <1>4, <2>1 DEF Told, Launch, At
  <2>3. StepOf(t, r)
    BY <1>4, <2>1, <2>2 DEF StepOf, Launch
  <2>4. Takes(t)
    BY <1>4, <2>1, <2>3 DEF Takes, Launch, At
  <2>5. QED
    BY <2>4
<1>5. ASSUME NEW r \in Record, r.deps = task[t].deps, Told(r),
             task' = [task EXCEPT ![t] = r], UNCHANGED <<free, signalled>>,
             \/ r.pc \in Working /\ task[t].pc \in Working
             \/ r.pc = "gone" /\ task[t].pc = "waiting"
      PROVE  \E u \in Tasks : Keeps(u)
  <2>1. StepOf(t, r)
    BY <1>5 DEF StepOf
  <2>2. Keeps(t)
    BY <1>5, <2>1 DEF Keeps
  <2>3. QED
    BY <2>2
<1>6. CASE Start(t)
  <2> DEFINE r == [task[t] EXCEPT !.pc = "running"]
  <2>1. r \in Record /\ r.pc = "running" /\ r.deps = task[t].deps
          /\ r.announced = task[t].announced
    BY <1>2 DEF Record, Pcs, Working
  <2>2. Told(r) /\ task[t].pc \in Working
    BY <1>2, <1>6, <2>1 DEF Told, Start, At, Working
  <2>3. QED
    BY <1>5, <1>6, <2>1, <2>2 DEF Start, Working
<1>7. CASE Finish(t)
  <2>1. PICK end \in {"completed", "failed"} :
          task' = [task EXCEPT ![t] = [@ EXCEPT !.pc = "ending", !.status = end]]
    BY <1>7 DEF Finish
  <2> DEFINE r == [task[t] EXCEPT !.pc = "ending", !.status = end]
  <2>2. r \in Record /\ r.pc = "ending" /\ r.deps = task[t].deps
          /\ r.announced = task[t].announced /\ r.status = end
    BY <1>2 DEF Record, Pcs, Working, Ends
  <2>3. Told(r) /\ task[t].pc \in Working
    BY <1>2, <1>7, <2>2 DEF Told, Finish, At, Working, Ends
  <2>4. QED
    BY <1>5, <1>7, <2>1, <2>2, <2>3 DEF Finish, Working
<1>8. CASE RetryLater(t)
  <2> DEFINE r == [task[t] EXCEPT !.pc = "backoff", !.attempt = task[t].attempt + 1]
  <2>a. task[t].attempt \in 0..MaxRetries /\ task[t].attempt < MaxRetries
    BY <1>2, <1>8 DEF Record, RetryLater
  <2>b. task[t].attempt + 1 \in 0..MaxRetries
    BY <2>a, PoolAssumption
  <2>1. r \in Record /\ r.pc = "backoff" /\ r.deps = task[t].deps
          /\ r.announced = task[t].announced
    BY <1>2, <2>b DEF Record, Pcs, Working
  <2>2. Told(r) /\ task[t].pc \in Working
    BY <1>2, <1>8, <2>1 DEF Told, RetryLater, At, Working
  <2>3. QED
    BY <1>5, <1>8, <2>1, <2>2 DEF RetryLater, Working
<1>9. CASE Announce(t)
  <2> DEFINE r == [task[t] EXCEPT !.pc = "notifying", !.announced = task[t].status]
  <2>1. At(t, {"ending"}) /\ task[t].status \in Ends
    BY <1>2, <1>9 DEF Announce, Told, At
  <2>2. r \in Record /\ r.pc = "notifying" /\ r.deps = task[t].deps
          /\ r.announced = task[t].status /\ r.status = task[t].status
    BY <1>2, <2>1 DEF Record, Pcs, Working
  <2>3. Told(r) /\ task[t].pc \in Working
    BY <2>1, <2>2 DEF Told, At, Working
  <2>4. QED
    BY <1>5, <1>9, <2>2, <2>3 DEF Announce, Working
<1>10. CASE Notify(t)
  <2> DEFINE r == [task[t] EXCEPT !.told = TRUE]
  <2>1. r \in Record /\ r.deps = task[t].deps
          /\ r.announced = task[t].announced /\ r.status = task[t].status
    BY <1>2 DEF Record
  <2>2. r.announced # "none" => r.announced = r.status
    BY <1>2, <2>1 DEF Told
  <2>3. At(t, Working) /\ Settled(t, r) /\ TypeOK
    BY <1>10 DEF Notify, At, Working, IInv
  <2>4. QED
    BY <2>1, <2>2, <2>3, SettledGives
<1>11. CASE Cancel(t)
  <2>1. CASE /\ At(t, {"waiting"})
             /\ task' = [task EXCEPT ![t].pc = "gone"]
             /\ UNCHANGED <<free, signalled>>
    <3> DEFINE r == [task[t] EXCEPT !.pc = "gone"]
    <3>1. r \in Record /\ r.pc = "gone" /\ r.deps = task[t].deps
            /\ r.announced = task[t].announced
      BY <1>2 DEF Record, Pcs
    <3>2. Told(r) /\ task[t].pc = "waiting"
      BY <1>2, <2>1, <3>1 DEF Told, At
    <3>3. QED
      BY <1>5, <2>1, <3>1, <3>2
  <2>2. CASE /\ At(t, {"running"})
             /\ task' = [task EXCEPT ![t] = [@ EXCEPT !.pc = "ending", !.status = "cancelled"]]
             /\ UNCHANGED <<free, signalled>>
    <3> DEFINE r == [task[t] EXCEPT !.pc = "ending", !.status = "cancelled"]
    <3>1. r \in Record /\ r.pc = "ending" /\ r.deps = task[t].deps
            /\ r.announced = task[t].announced /\ r.status = "cancelled"
      BY <1>2 DEF Record, Pcs, Working, Ends
    <3>2. Told(r) /\ task[t].pc \in Working
      BY <1>2, <2>2, <3>1 DEF Told, At, Working, Ends
    <3>3. QED
      BY <1>5, <2>2, <3>1, <3>2 DEF Working
  <2>3. CASE At(t, {"starting", "backoff", "ending", "notifying"}) /\ Settled(t, task[t])
    <3>1. At(t, Working) /\ TypeOK
      BY <2>3 DEF At, Working, IInv
    <3>2. task[t].announced # "none" => task[t].announced = task[t].status
      BY <1>2 DEF Told
    <3>3. QED
      BY <1>2, <2>3, <3>1, <3>2, SettledGives
  <2>4. CASE At(t, {"ending"}) /\ Settled(t, [task[t] EXCEPT !.announced = task[t].status])
    <3> DEFINE r == [task[t] EXCEPT !.announced = task[t].status]
    <3>1. task[t].status \in Ends
      BY <1>2, <2>4 DEF Told, At
    <3>2. r \in Record /\ r.deps = task[t].deps /\ r.announced = r.status
      BY <1>2, <3>1 DEF Record
    <3>3. At(t, Working) /\ Settled(t, r) /\ TypeOK
      BY <2>4 DEF At, Working, IInv
    <3>4. QED
      BY <3>2, <3>3, SettledGives
  <2>5. QED
    BY <1>11, <2>1, <2>2, <2>3, <2>4 DEF Cancel
<1>12. QED
  BY <1>1, <1>3, <1>4, <1>5, <1>6, <1>7, <1>8, <1>9, <1>10, <1>11 DEF Step

----------------------------------------------------------------------------
(* The invariant *)

\* What the tasks are after a step.
LEMMA StepEffect ==
  ASSUME IInv, NEW t, NEW r, StepOf(t, r)
  PROVE  /\ task' \in [Tasks -> Record] /\ Recorded'
         /\ task'[t] = r /\ \A u \in Tasks : u # t => task'[u] = task[u]
<1>1. task \in [Tasks -> Record]
  BY DEF IInv, TypeOK, Record
<1>2. task' \in [Tasks -> Record] /\ task'[t] = r /\ \A u \in Tasks : u # t => task'[u] = task[u]
  BY <1>1 DEF StepOf
<1>3. Recorded'
  BY <1>2 DEF StepOf, IInv, Recorded
<1>4. QED
  BY <1>2, <1>3

\* The tasks that hold a slot are finitely many.
LEMMA HoldersFinite == IsFiniteSet(Holders) /\ Cardinality(Holders) \in Nat
<1>1. Holders \in SUBSET Tasks
  BY DEF Holders
<1>2. IsFiniteSet(Holders)
  BY <1>1, PoolAssumption, FS_Subset
<1>3. QED
  BY <1>2, FS_CardinalityType

\* IInv holds initially: no task exists and every slot is free.
LEMMA InitSafe == Init => IInv
<1> SUFFICES ASSUME Init PROVE IInv
  OBVIOUS
<1>1. TypeOK
  BY PoolAssumption DEF Init, TypeOK, Pcs, Ends
<1>2. Holders = {}
  BY DEF Init, Holders, At, Working
<1>3. SlotsConserved
  BY <1>2, FS_EmptySet, PoolAssumption DEF Init, SlotsConserved
<1>4. SignalledAreDone /\ Recorded
  BY DEF Init, SignalledAreDone, Recorded, Told, At
<1>5. QED
  BY <1>1, <1>3, <1>4 DEF IInv

\* A step that leaves the slots and events alone, with the set of the tasks
\* that hold a slot and of those that are done, preserves IInv.
LEMMA KeepsSafe ==
  ASSUME IInv, NEW t \in Tasks, Submits(t) \/ Keeps(t)
  PROVE  IInv'
<1>1. PICK r : /\ StepOf(t, r) /\ UNCHANGED <<free, signalled>>
               /\ r.pc \in Working <=> task[t].pc \in Working
               /\ r.pc # "done" /\ task[t].pc # "done"
  BY DEF Submits, Keeps, Working
<1>2. /\ task' \in [Tasks -> Record] /\ Recorded'
      /\ task'[t] = r /\ \A u \in Tasks : u # t => task'[u] = task[u]
  BY <1>1, StepEffect
<1>3. TypeOK'
  BY <1>1, <1>2 DEF IInv, TypeOK, Record
<1>4. Holders' = Holders
  BY <1>1, <1>2 DEF Holders, At
<1>5. SlotsConserved'
  BY <1>1, <1>4 DEF IInv, SlotsConserved, Limited
<1>6. SignalledAreDone'
  BY <1>1, <1>2 DEF IInv, SignalledAreDone, At
<1>7. QED
  BY <1>2, <1>3, <1>5, <1>6 DEF IInv

\* Taking a slot preserves IInv.
LEMMA TakesSafe ==
  ASSUME IInv, NEW t \in Tasks, Takes(t)
  PROVE  IInv'
<1>1. PICK r : /\ StepOf(t, r) /\ task[t].pc = "waiting" /\ r.pc = "starting"
               /\ Limited => free > 0
               /\ free' = IF Limited THEN free - 1 ELSE free
               /\ UNCHANGED signalled
  BY DEF Takes
<1>2. /\ task' \in [Tasks -> Record] /\ Recorded'
      /\ task'[t] = r /\ \A u \in Tasks : u # t => task'[u] = task[u]
  BY <1>1, StepEffect
<1>3. free \in Nat /\ free' \in Nat
  BY <1>1 DEF IInv, TypeOK
<1>4. TypeOK'
  BY <1>1, <1>2, <1>3 DEF IInv, TypeOK, Record
<1>5. Holders' = Holders \cup {t} /\ t \notin Holders
  BY <1>1, <1>2 DEF Holders, At, Working
<1>6. Cardinality(Holders') = Cardinality(Holders) + 1 /\ Cardinality(Holders) \in Nat
  BY <1>5, HoldersFinite, FS_AddElement
<1>7. SlotsConserved'
  BY <1>1, <1>3, <1>6, PoolAssumption DEF IInv, SlotsConserved, Limited
<1>8. SignalledAreDone'
  BY <1>1, <1>2 DEF IInv, SignalledAreDone, At
<1>9. QED
  BY <1>2, <1>4, <1>7, <1>8 DEF IInv

\* Giving a slot back preserves IInv.
LEMMA GivesSafe ==
  ASSUME IInv, NEW t \in Tasks, Gives(t)
  PROVE  IInv'
<1>1. PICK r : /\ StepOf(t, r) /\ task[t].pc \in Working /\ r.pc = "done"
               /\ free' = IF Limited THEN free + 1 ELSE free
               /\ signalled' = signalled \cup {t}
  BY DEF Gives
<1>2. /\ task' \in [Tasks -> Record] /\ Recorded'
      /\ task'[t] = r /\ \A u \in Tasks : u # t => task'[u] = task[u]
  BY <1>1, StepEffect
<1>3. free \in Nat /\ free' \in Nat
  BY <1>1 DEF IInv, TypeOK
<1>4. TypeOK'
  BY <1>1, <1>2, <1>3 DEF IInv, TypeOK, Record
<1>5. Holders' = Holders \ {t} /\ t \in Holders
  BY <1>1, <1>2 DEF Holders, At, Working
<1>6. Cardinality(Holders') = Cardinality(Holders) - 1 /\ Cardinality(Holders) \in Nat
  BY <1>5, HoldersFinite, FS_RemoveElement
<1>7. SlotsConserved'
  BY <1>1, <1>3, <1>6, PoolAssumption DEF IInv, SlotsConserved, Limited
<1>8. SignalledAreDone'
  BY <1>1, <1>2 DEF IInv, SignalledAreDone, At
<1>9. QED
  BY <1>2, <1>4, <1>7, <1>8 DEF IInv

\* IInv is inductive.
LEMMA NextSafe == IInv /\ [Next]_vars => IInv'
<1>1. CASE IInv /\ Next
  <2>1. PICK t \in Tasks : Submits(t) \/ Keeps(t) \/ Takes(t) \/ Gives(t)
    BY <1>1, FourSteps
  <2>2. QED
    BY <1>1, <2>1, KeepsSafe, TakesSafe, GivesSafe
<1>2. CASE IInv /\ UNCHANGED vars
  BY <1>2 DEF vars, IInv, TypeOK, SlotsConserved, SignalledAreDone, Recorded, Holders, At
<1>3. QED
  BY <1>1, <1>2

\* Every reachable state of the pool satisfies the inductive invariant.
THEOREM Invariance == Spec => []IInv
<1>1. QED
  BY InitSafe, NextSafe, PTL DEF Spec

\* Records, the semaphore and the events keep their types.
THEOREM TypeCorrect == Spec => []TypeOK
<1>1. IInv => TypeOK
  BY DEF IInv
<1>2. QED
  BY <1>1, Invariance, PTL

\* No slot of the semaphore is ever lost or doubled, however tasks end.
THEOREM SlotsAreConserved == Spec => []SlotsConserved
<1>1. IInv => SlotsConserved
  BY DEF IInv
<1>2. QED
  BY <1>1, Invariance, PTL

\* What the conversation was told of a task is what its record says.
THEOREM AnnouncementsHold == Spec => []AnnouncedIsRecorded
<1>1. IInv => AnnouncedIsRecorded
  BY DEF IInv, Recorded, Told, AnnouncedIsRecorded
<1>2. QED
  BY <1>1, Invariance, PTL

----------------------------------------------------------------------------
(* The refinement *)

\* A step in which one task changes moves that task's life and no other.
LEMMA LifeStep ==
  ASSUME IInv, NEW t \in Tasks, NEW r, StepOf(t, r)
  PROVE  /\ \A i \in Tasks \cup Ghosts : i # t => LifeOf(i)' = LifeOf(i)
         /\ task'[t] = r
<1>1. task'[t] = r /\ \A u \in Tasks : u # t => task'[u] = task[u]
  BY StepEffect
<1>2. QED
  BY <1>1 DEF LifeOf, At

\* The abstract running tasks are those that hold a slot.
LEMMA RunningHold ==
  TypeOK => Life!Running = Holders /\ Life!Cardinality(Life!Running) = Cardinality(Holders)
<1> SUFFICES ASSUME TypeOK PROVE Life!Running = Holders
  BY DEF Life!Cardinality, Cardinality
<1>1. ASSUME NEW i \in Tasks \cup Ghosts
      PROVE  LifeOf(i) = "running" <=> i \in Holders
  BY DEF LifeOf, Holders, At, Working
<1>2. Holders \subseteq Tasks \cup Ghosts
  BY DEF Holders
<1>3. QED
  BY <1>1, <1>2 DEF Life!Running

\* Every step of the pool is a step of TaskLife or leaves it unchanged.
LEMMA LifeNext == IInv /\ [Next]_vars => [Life!Next]_(Life!vars)
<1> DEFINE life(i) == LifeOf(i)
           deps(i) == IF i \in Tasks THEN task[i].deps ELSE {}
<1>1. CASE IInv /\ UNCHANGED vars
  BY <1>1 DEF vars, Life!vars, LifeOf, At
<1>2. CASE IInv /\ Next
  <2>1. PICK t \in Tasks : Submits(t) \/ Keeps(t) \/ Takes(t) \/ Gives(t)
    BY <1>2, FourSteps
  <2>2. t \in Tasks \cup Ghosts
    OBVIOUS
  <2>3. ASSUME NEW r, StepOf(t, r)
        PROVE  /\ \A i \in Tasks \cup Ghosts : i # t => LifeOf(i)' = LifeOf(i) /\ deps(i)' = deps(i)
               /\ task'[t] = r /\ deps(t) = task[t].deps /\ deps(t)' = r.deps
    BY <1>2, <2>3, LifeStep, StepEffect
  <2>4. CASE Submits(t)
    <3>1. PICK r : StepOf(t, r) /\ task[t].pc = "absent" /\ r.pc = "waiting" /\ t \notin r.deps
      BY <2>4 DEF Submits
    <3>2. LifeOf(t) = "absent" /\ LifeOf(t)' = "pending"
      BY <2>3, <3>1 DEF LifeOf, At, Working
    <3>3. r.deps \in SUBSET ((Tasks \cup Ghosts) \ {t})
      BY <3>1 DEF StepOf, Record
    <3>4. Life!Submit(t)
      BY <2>2, <2>3, <3>1, <3>2, <3>3 DEF Life!Submit
    <3>5. QED
      BY <2>2, <3>4 DEF Life!Next
  <2>5. CASE Keeps(t)
    <3>1. PICK r : /\ StepOf(t, r) /\ r.deps = task[t].deps
                   /\ \/ r.pc \in Working /\ task[t].pc \in Working
                      \/ r.pc = "gone" /\ task[t].pc = "waiting"
      BY <2>5 DEF Keeps
    <3>2. LifeOf(t)' = LifeOf(t) /\ deps(t)' = deps(t)
      BY <2>3, <3>1 DEF LifeOf, At, Working
    <3>3. QED
      BY <2>3, <3>1, <3>2 DEF Life!vars
  <2>6. CASE Takes(t)
    <3>1. PICK r : /\ StepOf(t, r) /\ task[t].pc = "waiting" /\ r.pc = "starting"
                   /\ task[t].deps \subseteq signalled /\ r.deps = task[t].deps
                   /\ Limited => free > 0
      BY <2>6 DEF Takes
    <3>2. LifeOf(t) = "pending" /\ LifeOf(t)' = "running" /\ deps(t)' = deps(t)
      BY <2>3, <3>1 DEF LifeOf, At, Working
    <3>3. \A d \in deps(t) : d \in Tasks /\ LifeOf(d) = "settled"
      BY <1>2, <3>1 DEF IInv, SignalledAreDone, LifeOf, At, Working
    <3>4. MaxConcurrent = 0 \/ Life!Cardinality(Life!Running) < MaxConcurrent
      BY <1>2, <3>1, RunningHold, HoldersFinite, PoolAssumption
         DEF IInv, TypeOK, SlotsConserved, Limited
    <3>5. Life!Run(t)
      BY <2>2, <2>3, <3>1, <3>2, <3>3, <3>4 DEF Life!Run
    <3>6. QED
      BY <2>2, <3>5 DEF Life!Next
  <2>7. CASE Gives(t)
    <3>1. PICK r : StepOf(t, r) /\ task[t].pc \in Working /\ r.pc = "done" /\ r.deps = task[t].deps
      BY <2>7 DEF Gives
    <3>2. LifeOf(t) = "running" /\ LifeOf(t)' = "settled" /\ deps(t)' = deps(t)
      BY <2>3, <3>1 DEF LifeOf, At, Working
    <3>3. Life!Settle(t)
      BY <2>2, <2>3, <3>1, <3>2 DEF Life!Settle
    <3>4. QED
      BY <2>2, <3>3 DEF Life!Next
  <2>8. QED
    BY <2>1, <2>4, <2>5, <2>6, <2>7
<1>3. QED
  BY <1>1, <1>2

\* The pool implements TaskLife: every task runs once, after the tasks it
\* depends on, and never more than max_concurrent at a time.
THEOREM PromiseKept == Spec => KeepsPromise
<1>1. Init => Life!Init
  <2> SUFFICES ASSUME Init PROVE Life!Init
    OBVIOUS
  <2>1. ASSUME NEW i \in Tasks
        PROVE  LifeOf(i) = "absent" /\ task[i].deps = {}
    BY DEF Init, LifeOf, At, Working
  <2>2. ASSUME NEW i \in Tasks \cup Ghosts
        PROVE  LifeOf(i) = "absent" /\ (IF i \in Tasks THEN task[i].deps ELSE {}) = {}
    BY <2>1 DEF LifeOf
  <2>3. QED
    BY <2>2 DEF Life!Init
<1>2. QED
  BY <1>1, LifeNext, Invariance, PTL DEF Spec, KeepsPromise, Life!Spec
=============================================================================
