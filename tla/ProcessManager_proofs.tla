----------------------- MODULE ProcessManager_proofs -----------------------
(***************************************************************************)
(* What holds of any processes, callers, prompts and limits: nothing runs  *)
(* that is not in the tables with somebody at work who will end it, a stop *)
(* that has returned is final, and a session that was asked to end has run *)
(* the prompts accepted before.                                            *)
(***************************************************************************)
EXTENDS ProcessManager, TLAPS

AtWork == {"live", "run", "closing"}

\* A record is running exactly while it has its handle, and then it is in the
\* tables and its watcher or session is at work; what a stop leaves stays.
Shaped(p, r) ==
  /\ r.handle <=> r.status = "running"
  /\ r.handle => r.kept /\ r.task \in AtWork
  /\ r.os \in Living => r.handle
  /\ r.kept => r.task # "none" /\ r.status # "none"
  /\ p \in Shells => r.task \notin {"run", "closing"}
  /\ p \in Agents => r.os = "none" /\ (r.task \in AtWork => r.handle)
  /\ r.task = "closing" => r.end \in Terminal
  /\ r.stopped => r.status = "killed" /\ (p \in Agents => r.task \in Over \cup {"telling"})

\* The prompts of a session are queued in order, behind those that have run; the
\* last one accepted before the first sentinel has run or is queued before
\* every sentinel.
IsPrompt(q, n) == n \in DOMAIN q /\ q[n] # Sentinel

Prompts(p, r) ==
  /\ p \in Agents /\ r.handle => r.wrote > 0
  /\ r.asked <= r.wrote /\ r.ran <= r.wrote
  /\ \A n \in DOMAIN r.queue : IsPrompt(r.queue, n) => r.ran < r.queue[n] /\ r.queue[n] <= r.wrote
  /\ \A n, o \in DOMAIN r.queue :
       IsPrompt(r.queue, n) /\ IsPrompt(r.queue, o) /\ n < o => r.queue[n] < r.queue[o]
  /\ r.wrote > r.ran /\ r.task \in {"live", "run"} =>
       \E n \in DOMAIN r.queue : r.queue[n] = r.wrote
  /\ r.asked = 0 => \A n \in DOMAIN r.queue : IsPrompt(r.queue, n)
  /\ r.asked > r.ran /\ r.task \in {"live", "run"} =>
       \E n \in DOMAIN r.queue :
         r.queue[n] = r.asked /\ \A o \in DOMAIN r.queue : r.queue[o] = Sentinel => n < o
  /\ p \in Agents /\ r.end = "completed" => r.ran >= r.asked /\ r.asked > 0

\* A stop awaits what is of its kind and was started, and joins a watcher only
\* when the handle is gone.
Aims(c, procs) ==
  /\ c.pc \in {"term", "kill", "join"} => c.on \in Shells /\ procs[c.on].task # "none"
  /\ c.pc = "join" => ~procs[c.on].handle /\ procs[c.on].status = "killed"
  /\ c.pc \in {"ask", "reap"} => c.on \in Agents

IInv ==
  /\ TypeOK
  /\ \A p \in Procs : Shaped(p, proc[p]) /\ Prompts(p, proc[p])
  /\ \A k \in Actors : Aims(call[k], proc)

\* What no step takes back of a process: that it was started, that its handle
\* is gone, and that it was killed.
Onward(old, new) ==
  old.task # "none" =>
    /\ new.task # "none"
    /\ new.handle => old.handle
    /\ old.status = "killed" => new.status = "killed"

----------------------------------------------------------------------------
\* A step of one process and, perhaps, one caller.
LEMMA Move ==
  ASSUME ProcessAssumption, IInv, NEW p \in Procs, NEW r \in Records, Becomes(p, r),
         Shaped(p, r), Prompts(p, r), Onward(proc[p], r), clock' = clock,
         call' \in [Actors -> Calls],
         \A k \in Actors : call'[k] = call[k] \/ Aims(call'[k], proc')
  PROVE  IInv'
  <1>1. /\ proc' \in [Procs -> Records] /\ proc'[p] = r
        /\ \A o \in Procs : o # p => proc'[o] = proc[o]
    BY DEF IInv, TypeOK, Becomes
  <1>2. TypeOK'
    BY <1>1 DEF IInv, TypeOK
  <1>3. ASSUME NEW o \in Procs
        PROVE  Shaped(o, proc'[o]) /\ Prompts(o, proc'[o]) /\ Onward(proc[o], proc'[o])
    BY <1>1 DEF IInv, Onward
  <1>4. ASSUME NEW k \in Actors
        PROVE  Aims(call'[k], proc')
    <2>1. CASE call'[k] = call[k]
      BY <2>1, <1>3 DEF IInv, Aims, Onward, Procs
    <2> QED
      BY <2>1
  <1> QED
    BY <1>2, <1>3, <1>4 DEF IInv

\* A step of one caller alone.
LEMMA CallMove ==
  ASSUME ProcessAssumption, IInv, UNCHANGED <<proc, clock>>,
         call' \in [Actors -> Calls],
         \A k \in Actors : call'[k] = call[k] \/ Aims(call'[k], proc)
  PROVE  IInv'
  BY DEF IInv, TypeOK

\* The changes of a call.
LEMMA CallChanges ==
  ASSUME IInv, NEW k \in Actors, NEW p \in Procs
  PROVE  /\ \A pc \in {"term", "kill", "join", "ask", "reap"} : Await(k, p, pc) =>
              /\ call' \in [Actors -> Calls]
              /\ \A i \in Actors \ {k} : call'[i] = call[i]
              /\ call'[k].pc = pc /\ call'[k].on = p
         /\ Return(k, p) =>
              /\ call' \in [Actors -> Calls]
              /\ \A i \in Actors \ {k} : call'[i] = call[i]
              /\ call'[k].pc = "next"
  <1>1. call \in [Actors -> Calls]
    BY DEF IInv, TypeOK
  <1>2. ASSUME NEW pc \in {"term", "kill", "join", "ask", "reap"}, Await(k, p, pc)
        PROVE  /\ call' \in [Actors -> Calls]
               /\ \A i \in Actors \ {k} : call'[i] = call[i]
               /\ call'[k].pc = pc /\ call'[k].on = p
    <2>1. call' = [call EXCEPT ![k] = [call[k] EXCEPT !.pc = pc, !.on = p]]
      BY <1>1, <1>2 DEF Await, Calls
    <2>2. PICK c : c = [call[k] EXCEPT !.pc = pc, !.on = p]
      OBVIOUS
    <2>3. c \in Calls /\ c.pc = pc /\ c.on = p
      BY <1>1, <2>2 DEF Calls
    <2> QED
      BY <1>1, <2>1, <2>2, <2>3
  <1>3. ASSUME Return(k, p)
        PROVE  /\ call' \in [Actors -> Calls]
               /\ \A i \in Actors \ {k} : call'[i] = call[i]
               /\ call'[k].pc = "next"
    <2>1. PICK c : c = [call[k] EXCEPT !.pc = "next", !.on = NoProc,
                                    !.todo = call[k].todo \ {p}]
      OBVIOUS
    <2>2. call' = [call EXCEPT ![k] = c]
      BY <1>1, <1>3, <2>1 DEF Return, Calls
    <2>3. c \in Calls /\ c.pc = "next"
      BY <1>1, <2>1 DEF Calls
    <2> QED
      BY <1>1, <2>2, <2>3
  <1> QED
    BY <1>2, <1>3

\* A call that ends leaves nothing awaited.
LEMMA AbandonTyped ==
  ASSUME IInv, NEW k \in Actors, Abandon(k)
  PROVE  /\ call' \in [Actors -> Calls]
         /\ \A i \in Actors \ {k} : call'[i] = call[i]
         /\ call'[k].pc = "idle"
  BY DEF IInv, TypeOK, Abandon, Idle, Calls

\* What a change that leaves prompts alone owes to them.
LEMMA SamePrompts ==
  ASSUME NEW p, NEW old, NEW r, Prompts(p, old), r.queue = old.queue, r.ran = old.ran,
         r.wrote = old.wrote, r.asked = old.asked, r.handle => old.handle,
         r.end = "completed" => old.end = "completed",
         r.task \in {"live", "run"} => old.task \in {"live", "run"}
  PROVE  Prompts(p, r)
  BY DEF Prompts

\* Such a change of one process.
LEMMA Change ==
  ASSUME ProcessAssumption, IInv, NEW p \in Procs, NEW r \in Records, Becomes(p, r),
         Shaped(p, r), Onward(proc[p], r), clock' = clock,
         r.queue = proc[p].queue, r.ran = proc[p].ran, r.wrote = proc[p].wrote,
         r.asked = proc[p].asked, r.handle => proc[p].handle,
         r.end = "completed" => proc[p].end = "completed",
         r.task \in {"live", "run"} => proc[p].task \in {"live", "run"},
         call' \in [Actors -> Calls],
         \A k \in Actors : call'[k] = call[k] \/ Aims(call'[k], proc')
  PROVE  IInv'
  <1>1. Prompts(p, proc[p])
    BY DEF IInv
  <1>2. Prompts(p, r)
    BY <1>1, SamePrompts
  <1> QED
    BY <1>2, Move

----------------------------------------------------------------------------
(* Start *)

\* What a new record is.
LEMMA StartedRecord ==
  /\ Started \in Records /\ Started.kept /\ Started.status = "running" /\ Started.handle
  /\ Started.task = "live" /\ Started.os = "none" /\ Started.end = "none" /\ ~Started.stopped
  /\ Started.queue = <<>> /\ Started.ran = 0 /\ Started.wrote = 0 /\ Started.asked = 0
  <1>1. PICK q : q = <<>>
    OBVIOUS
  <1>2. q \in Seq(Nat)
    BY <1>1
  <1>3. Absent = [kept |-> FALSE, status |-> "none", ended |-> 0, os |-> "none",
                  handle |-> FALSE, task |-> "none", watched |-> FALSE, queue |-> q,
                  end |-> "none", ran |-> 0, wrote |-> 0, asked |-> 0, stopped |-> FALSE]
    BY <1>1 DEF Absent
  <1> QED
    BY <1>1, <1>2, <1>3 DEF Started, Records

LEMMA SpawnKeeps ==
  ASSUME ProcessAssumption, IInv, NEW p \in Procs, Spawn(p)
  PROVE  IInv'
  <1>1. PICK os \in {"alive", "held", "gone"} :
          Becomes(p, [Started EXCEPT !.os = os, !.watched = TRUE])
    BY DEF Spawn
  <1>2. PICK r : r = [Started EXCEPT !.os = os, !.watched = TRUE]
    OBVIOUS
  <1>3. p \in Shells /\ p \notin Agents /\ proc[p].task = "none"
    BY DEF Spawn, Absent, ProcessAssumption
  <1>4. /\ r \in Records /\ r.kept /\ r.status = "running" /\ r.handle /\ r.task = "live"
        /\ ~r.stopped /\ r.queue = <<>> /\ r.ran = 0 /\ r.wrote = 0 /\ r.asked = 0
    BY <1>2, StartedRecord DEF Records, Living
  <1>5. Shaped(p, r) /\ Onward(proc[p], r)
    BY <1>3, <1>4 DEF Shaped, Onward, AtWork
  <1>6. Prompts(p, r)
    BY <1>3, <1>4 DEF Prompts
  <1>7. call' = call /\ clock' = clock /\ call \in [Actors -> Calls]
    BY DEF Spawn, IInv, TypeOK
  <1> QED
    BY <1>1, <1>2, <1>4, <1>5, <1>6, <1>7, Move

LEMMA CreateAgentKeeps ==
  ASSUME ProcessAssumption, IInv, NEW p \in Procs, CreateAgent(p)
  PROVE  IInv'
  <1>1. PICK r : r = [Started EXCEPT !.queue = <<1>>, !.wrote = 1]
    OBVIOUS
  <1>2. p \in Agents /\ p \notin Shells /\ proc[p].task = "none"
    BY DEF CreateAgent, Absent, ProcessAssumption
  <1>3. /\ r \in Records /\ r.kept /\ r.status = "running" /\ r.handle /\ r.task = "live"
        /\ r.os = "none" /\ r.end = "none"
        /\ ~r.stopped /\ r.queue = <<1>> /\ r.ran = 0 /\ r.wrote = 1 /\ r.asked = 0
    <2>1. PICK q : q = <<1>>
      OBVIOUS
    <2>2. q \in Seq(Nat)
      BY <2>1
    <2>3. r = [Started EXCEPT !.queue = q, !.wrote = 1]
      BY <1>1, <2>1
    <2> QED
      BY <2>1, <2>2, <2>3, StartedRecord DEF Records
  <1>4. Shaped(p, r) /\ Onward(proc[p], r)
    BY <1>2, <1>3 DEF Shaped, Onward, AtWork, Living
  <1>5. Prompts(p, r)
    BY <1>3 DEF Prompts, IsPrompt, Sentinel
  <1>6. call' = call /\ clock' = clock /\ call \in [Actors -> Calls]
    BY DEF CreateAgent, IInv, TypeOK
  <1>7. Becomes(p, r)
    BY <1>1 DEF CreateAgent
  <1> QED
    BY <1>3, <1>4, <1>5, <1>6, <1>7, Move

\* A number behind a queue.
LEMMA Behind ==
  ASSUME NEW q \in Seq(Nat), NEW x \in Nat
  PROVE  /\ Append(q, x) \in Seq(Nat)
         /\ DOMAIN Append(q, x) = DOMAIN q \cup {Len(q) + 1}
         /\ Append(q, x)[Len(q) + 1] = x
         /\ \A n \in DOMAIN q : Append(q, x)[n] = q[n] /\ n < Len(q) + 1 /\ n \in Nat
  OBVIOUS

LEMMA WriteKeeps ==
  ASSUME ProcessAssumption, IInv, NEW p \in Procs, Write(p)
  PROVE  IInv'
  <1>1. PICK old : old = proc[p]
    OBVIOUS
  <1>2. old \in Records /\ Shaped(p, old) /\ Prompts(p, old)
    BY <1>1 DEF IInv, TypeOK
  <1>3. PICK r : r = [old EXCEPT !.queue = Append(@, old.wrote + 1), !.wrote = @ + 1]
    OBVIOUS
  <1>4. /\ r \in Records /\ r.queue = Append(old.queue, old.wrote + 1) /\ r.wrote = old.wrote + 1
        /\ r.kept = old.kept /\ r.status = old.status /\ r.handle = old.handle
        /\ r.task = old.task /\ r.os = old.os /\ r.end = old.end /\ r.stopped = old.stopped
        /\ r.ran = old.ran /\ r.asked = old.asked
    <2>1. old.queue \in Seq(Nat) /\ old.wrote + 1 \in Nat
      BY <1>2 DEF Records
    <2>2. PICK q : q = Append(old.queue, old.wrote + 1)
      OBVIOUS
    <2>3. q \in Seq(Nat)
      BY <2>1, <2>2
    <2>4. r = [old EXCEPT !.queue = q, !.wrote = old.wrote + 1]
      BY <1>2, <1>3, <2>2 DEF Records
    <2> QED
      BY <1>2, <2>1, <2>2, <2>3, <2>4 DEF Records
  <1>5. Shaped(p, r) /\ Onward(proc[p], r)
    BY <1>1, <1>2, <1>4 DEF Shaped, Onward
  <1>6. Prompts(p, r)
    <2>1. old.queue \in Seq(Nat) /\ old.wrote \in Nat /\ old.ran \in Nat /\ old.asked \in Nat
      BY <1>2 DEF Records
    <2> DEFINE q == r.queue
               top == Len(old.queue) + 1
    <2>2. /\ DOMAIN q = DOMAIN old.queue \cup {top} /\ q[top] = old.wrote + 1
          /\ \A n \in DOMAIN old.queue : q[n] = old.queue[n] /\ n < top /\ n \in Nat
          /\ top \in Nat
      BY <1>4, <2>1, Behind
    <2>3. \A n \in DOMAIN old.queue : old.queue[n] \in Nat
      BY <2>1
    <2>4. \A n \in DOMAIN old.queue : IsPrompt(q, n) <=> IsPrompt(old.queue, n)
      BY <2>2 DEF IsPrompt
    <2> HIDE DEF q, top
    <2>5. \A n \in DOMAIN q : IsPrompt(q, n) => r.ran < q[n] /\ q[n] <= r.wrote
      BY <1>2, <1>4, <2>1, <2>2, <2>3, <2>4 DEF Prompts
    <2>6. \A n, o \in DOMAIN q : IsPrompt(q, n) /\ IsPrompt(q, o) /\ n < o => q[n] < q[o]
      BY <1>2, <1>4, <2>1, <2>2, <2>3, <2>4 DEF Prompts
    <2>7. r.asked = 0 => \A n \in DOMAIN q : IsPrompt(q, n)
      BY <1>2, <1>4, <2>1, <2>2, <2>4 DEF Prompts, IsPrompt, Sentinel
    <2>8. r.asked > r.ran /\ r.task \in {"live", "run"} =>
            \E n \in DOMAIN q : q[n] = r.asked /\ \A o \in DOMAIN q : q[o] = Sentinel => n < o
      BY <1>2, <1>4, <2>1, <2>2 DEF Prompts, Sentinel
    <2>9. r.wrote > r.ran /\ r.task \in {"live", "run"} => \E n \in DOMAIN q : q[n] = r.wrote
      BY <1>4, <2>2
    <2>10. /\ p \in Agents /\ r.handle => r.wrote > 0
           /\ r.asked <= r.wrote /\ r.ran <= r.wrote
           /\ p \in Agents /\ r.end = "completed" => r.ran >= r.asked /\ r.asked > 0
      BY <1>2, <1>4, <2>1 DEF Prompts
    <2> QED
      BY <2>5, <2>6, <2>7, <2>8, <2>9, <2>10 DEF Prompts, q
  <1>7. call' = call /\ clock' = clock /\ call \in [Actors -> Calls]
    BY DEF Write, IInv, TypeOK
  <1>8. Becomes(p, r)
    BY <1>1, <1>3 DEF Write
  <1> QED
    BY <1>4, <1>5, <1>6, <1>7, <1>8, Move

----------------------------------------------------------------------------
(* The end of a process *)

\* A step of one process that leaves its prompts alone, given what it changes.
LEMMA WatchKeeps ==
  ASSUME ProcessAssumption, IInv, NEW p \in Procs, Watch(p)
  PROVE  IInv'
  <1>1. PICK old : old = proc[p]
    OBVIOUS
  <1>2. /\ old \in Records /\ Shaped(p, old) /\ clock \in Nat
        /\ call' = call /\ clock' = clock /\ call \in [Actors -> Calls]
    BY <1>1 DEF IInv, TypeOK, Watch
  <1>3. p \in Shells /\ p \notin Agents /\ old.task = "live" /\ old.os = "gone"
    BY <1>1 DEF Watch, ProcessAssumption
  <1>4. CASE old.kept
    <2>1. PICK status \in Terminal :
            /\ Becomes(p, Exited(p, status))
            /\ old.status # "running" => status = old.status
      <3>1. PICK result \in {"completed", "failed"} :
              Becomes(p, Exited(p, IF proc[p].status = "running" THEN result ELSE proc[p].status))
        BY <1>1, <1>4 DEF Watch
      <3>2. old.status # "none"
        BY <1>2, <1>4 DEF Shaped
      <3> QED
        BY <1>1, <1>2, <3>1, <3>2 DEF Records, Terminal
    <2>2. PICK r : r = [old EXCEPT !.status = status, !.ended = clock, !.handle = FALSE,
                                   !.task = "telling"]
      OBVIOUS
    <2>3. /\ r \in Records /\ r.status = status /\ ~r.handle /\ r.task = "telling"
          /\ r.kept = old.kept /\ r.os = old.os /\ r.end = old.end /\ r.stopped = old.stopped
          /\ r.queue = old.queue /\ r.ran = old.ran /\ r.wrote = old.wrote /\ r.asked = old.asked
      BY <1>2, <2>2 DEF Records
    <2>4. Shaped(p, r) /\ Onward(proc[p], r)
      BY <1>1, <1>2, <1>3, <2>1, <2>3 DEF Shaped, Onward, Terminal, Living, AtWork
    <2>5. Becomes(p, r)
      BY <1>1, <2>1, <2>2 DEF Exited
    <2> QED
      BY <1>1, <1>2, <2>3, <2>4, <2>5, Change
  <1>5. CASE ~old.kept
    <2>1. PICK r : r = [old EXCEPT !.task = "done"]
      OBVIOUS
    <2>2. /\ r \in Records /\ r.status = old.status /\ r.handle = old.handle /\ r.task = "done"
          /\ r.kept = old.kept /\ r.os = old.os /\ r.end = old.end /\ r.stopped = old.stopped
          /\ r.queue = old.queue /\ r.ran = old.ran /\ r.wrote = old.wrote /\ r.asked = old.asked
      BY <1>2, <2>1 DEF Records, Over
    <2>3. Shaped(p, r) /\ Onward(proc[p], r)
      BY <1>1, <1>2, <1>3, <1>5, <2>2 DEF Shaped, Onward, Living, AtWork, Over
    <2>4. Becomes(p, r)
      BY <1>1, <1>5, <2>1 DEF Watch
    <2> QED
      BY <1>1, <1>2, <2>2, <2>3, <2>4, Change
  <1> QED
    BY <1>4, <1>5

\* The record of another process may be evicted here, which only shows in kept.
LEMMA ToldKeeps ==
  ASSUME ProcessAssumption, IInv, NEW p \in Procs, Told(p)
  PROVE  IInv'
  <1> DEFINE told == [proc EXCEPT ![p].task = "done"]
  <1>1. proc \in [Procs -> Records] /\ proc[p].task = "telling" /\ call' = call /\ clock' = clock
    BY DEF Told, IInv, TypeOK
  <1>2. /\ told \in [Procs -> Records]
        /\ \A o \in Procs \ {p} : told[o] = proc[o]
        /\ told[p].task = "done"
        /\ told[p] = [proc[p] EXCEPT !.task = "done"]
    <2>1. PICK r : r = [proc[p] EXCEPT !.task = "done"]
      OBVIOUS
    <2>2. r \in Records /\ r.task = "done"
      BY <1>1, <2>1 DEF Records, Over
    <2>3. told = [proc EXCEPT ![p] = r]
      BY <1>1, <2>1
    <2> QED
      BY <1>1, <2>1, <2>2, <2>3
  <1>3. Shaped(p, told[p]) /\ Prompts(p, told[p]) /\ Onward(proc[p], told[p])
    <2>1. PICK r : r = told[p]
      OBVIOUS
    <2>2. /\ r \in Records /\ r.status = proc[p].status /\ r.handle = proc[p].handle
          /\ r.task = "done" /\ r.kept = proc[p].kept /\ r.os = proc[p].os
          /\ r.end = proc[p].end /\ r.stopped = proc[p].stopped /\ r.queue = proc[p].queue
          /\ r.ran = proc[p].ran /\ r.wrote = proc[p].wrote /\ r.asked = proc[p].asked
      BY <1>1, <1>2, <2>1 DEF Records
    <2>3. Shaped(p, proc[p]) /\ Prompts(p, proc[p])
      BY DEF IInv
    <2>4. Prompts(p, r)
      BY <2>2, <2>3, SamePrompts
    <2>5. Shaped(p, r) /\ Onward(proc[p], r)
      BY <1>1, <2>2, <2>3 DEF Shaped, Onward, AtWork, Over
    <2> QED
      BY <2>1, <2>4, <2>5
  <1>4. PICK gone : /\ proc' = Evicted(told, gone)
                    /\ \A o \in gone : o \in Procs /\ told[o].status \in Terminal
    BY DEF Told, Pruned
  <1> HIDE DEF told
  <1>5. ASSUME NEW o \in Procs
        PROVE  /\ proc'[o] \in Records /\ Shaped(o, proc'[o]) /\ Prompts(o, proc'[o])
               /\ Onward(proc[o], proc'[o])
    <2>1. /\ told[o] \in Records /\ Shaped(o, told[o]) /\ Prompts(o, told[o])
          /\ Onward(proc[o], told[o])
      BY <1>2, <1>3 DEF IInv, Onward
    <2>2. PICK r : r = [told[o] EXCEPT !.kept = told[o].kept /\ o \notin gone]
      OBVIOUS
    <2>3. proc'[o] = r
      BY <1>4, <2>2 DEF Evicted
    <2>4. PICK old : old = told[o]
      OBVIOUS
    <2>5. /\ r \in Records /\ r.status = old.status /\ r.handle = old.handle
          /\ r.task = old.task /\ (r.kept => old.kept) /\ (o \notin gone => r.kept = old.kept)
          /\ r.os = old.os
          /\ r.end = old.end /\ r.stopped = old.stopped /\ r.queue = old.queue
          /\ r.ran = old.ran /\ r.wrote = old.wrote /\ r.asked = old.asked
      BY <2>1, <2>2, <2>4 DEF Records
    <2>6. Prompts(o, r)
      BY <2>1, <2>4, <2>5, SamePrompts
    <2>7. o \in gone => old.status # "running"
      BY <1>4, <2>4 DEF Terminal
    <2>8. Shaped(o, r) /\ Onward(proc[o], r)
      BY <2>1, <2>4, <2>5, <2>7 DEF Shaped, Onward
    <2> QED
      BY <2>3, <2>5, <2>6, <2>8
  <1>6. proc' \in [Procs -> Records]
    BY <1>4, <1>5 DEF Evicted
  <1>7. TypeOK'
    BY <1>1, <1>6 DEF IInv, TypeOK
  <1>8. ASSUME NEW k \in Actors
        PROVE  Aims(call'[k], proc')
    BY <1>1, <1>5 DEF IInv, Aims, Onward, Procs
  <1> QED
    BY <1>5, <1>7, <1>8 DEF IInv

\* A queue without its first number.
LEMMA Taken ==
  ASSUME NEW q \in Seq(Nat), q # <<>>
  PROVE  /\ Head(q) = q[1] /\ q[1] \in Nat /\ Tail(q) \in Seq(Nat)
         /\ \A n \in DOMAIN q : n \in Nat \ {0} /\ q[n] \in Nat
         /\ 1 \in DOMAIN q
         /\ \A n \in DOMAIN Tail(q) : n \in Nat \ {0} /\ n + 1 \in DOMAIN q /\ Tail(q)[n] = q[n + 1]
         /\ \A n \in DOMAIN q : n # 1 => n - 1 \in DOMAIN Tail(q)
  <1>1. Len(q) \in Nat \ {0} /\ DOMAIN q = 1..Len(q)
    OBVIOUS
  <1>2. Head(q) = q[1] /\ Tail(q) \in Seq(Nat) /\ Len(Tail(q)) = Len(q) - 1
    OBVIOUS
  <1>3. DOMAIN Tail(q) = 1..(Len(q) - 1) /\ \A n \in 1..(Len(q) - 1) : Tail(q)[n] = q[n + 1]
    BY <1>1, <1>2
  <1>4. \A n \in DOMAIN q : q[n] \in Nat
    OBVIOUS
  <1> QED
    BY <1>1, <1>2, <1>3, <1>4

LEMMA TakeKeeps ==
  ASSUME ProcessAssumption, IInv, NEW p \in Procs, Take(p)
  PROVE  IInv'
  <1>1. PICK old : old = proc[p]
    OBVIOUS
  <1>2. /\ old \in Records /\ Shaped(p, old) /\ Prompts(p, old)
        /\ call' = call /\ clock' = clock /\ call \in [Actors -> Calls]
    BY <1>1 DEF IInv, TypeOK, Take
  <1>3. p \in Agents /\ p \notin Shells /\ old.task = "live" /\ old.queue # <<>> /\ old.queue \in Seq(Nat)
    BY <1>1, <1>2 DEF Take, ProcessAssumption, Records
  <1>4. PICK rest, head : rest = Tail(old.queue) /\ head = old.queue[1]
    OBVIOUS
  <1> DEFINE q == old.queue
  <1>5. /\ Head(q) = head /\ head \in Nat /\ rest \in Seq(Nat) /\ q[1] = head
        /\ \A n \in DOMAIN q : n \in Nat \ {0} /\ q[n] \in Nat
        /\ 1 \in DOMAIN q
        /\ \A n \in DOMAIN rest : n \in Nat \ {0} /\ n + 1 \in DOMAIN q /\ rest[n] = q[n + 1]
        /\ \A n \in DOMAIN q : n # 1 => n - 1 \in DOMAIN rest
    BY <1>3, <1>4, Taken
  <1>6. old.ran \in Nat /\ old.wrote \in Nat /\ old.asked \in Nat
    BY <1>2 DEF Records
  <1>7. \A n, o \in DOMAIN rest :
          IsPrompt(rest, n) /\ IsPrompt(rest, o) /\ n < o => rest[n] < rest[o]
    <2>1. \A n, o \in DOMAIN q : IsPrompt(q, n) /\ IsPrompt(q, o) /\ n < o => q[n] < q[o]
      BY <1>2 DEF Prompts
    <2>2. SUFFICES ASSUME NEW n \in DOMAIN rest, NEW o \in DOMAIN rest,
                          IsPrompt(rest, n), IsPrompt(rest, o), n < o
                   PROVE  rest[n] < rest[o]
      OBVIOUS
    <2>3. n + 1 \in DOMAIN q /\ o + 1 \in DOMAIN q /\ n + 1 < o + 1
      BY <1>5, <2>2
    <2>4. IsPrompt(q, n + 1) /\ IsPrompt(q, o + 1)
      BY <1>5, <2>2, <2>3 DEF IsPrompt
    <2> QED
      BY <1>5, <2>1, <2>3, <2>4
  <1>8. CASE head = Sentinel
    <2>1. PICK r : r = [old EXCEPT !.queue = rest, !.task = "closing", !.end = "completed"]
      OBVIOUS
    <2>2. /\ r \in Records /\ r.queue = rest /\ r.task = "closing" /\ r.end = "completed"
          /\ r.kept = old.kept /\ r.status = old.status /\ r.handle = old.handle /\ r.os = old.os
          /\ r.stopped = old.stopped /\ r.ran = old.ran /\ r.wrote = old.wrote /\ r.asked = old.asked
      BY <1>2, <1>5, <2>1 DEF Records, Terminal
    <2>3. Shaped(p, r) /\ Onward(proc[p], r)
      BY <1>1, <1>2, <1>3, <2>2 DEF Shaped, Onward, AtWork, Terminal, Over
    <2>4. old.ran >= old.asked /\ old.asked > 0
      <3>1. old.asked > 0
        BY <1>2, <1>5, <1>6, <1>8 DEF Prompts, IsPrompt
      <3>2. SUFFICES ASSUME old.asked > old.ran PROVE FALSE
        BY <1>6, <3>1
      <3>3. PICK n \in DOMAIN q : \A o \in DOMAIN q : q[o] = Sentinel => n < o
        BY <1>2, <1>3, <3>2 DEF Prompts
      <3> QED
        BY <1>5, <1>8, <3>3
    <2>5. Prompts(p, r)
      <3>1. \A n \in DOMAIN rest : IsPrompt(rest, n) => r.ran < rest[n] /\ rest[n] <= r.wrote
        BY <1>2, <1>5, <2>2 DEF Prompts, IsPrompt
      <3>2. r.asked = 0 => \A n \in DOMAIN rest : IsPrompt(rest, n)
        BY <1>2, <1>5, <2>2 DEF Prompts, IsPrompt
      <3> QED
        BY <1>2, <1>7, <2>2, <2>4, <3>1, <3>2 DEF Prompts
    <2>6. Becomes(p, r)
      <3>1. [[proc[p] EXCEPT !.queue = Tail(@)] EXCEPT !.task = "closing", !.end = "completed"] = r
        BY <1>1, <1>2, <1>4, <2>1 DEF Records
      <3> QED
        BY <1>1, <1>5, <1>8, <3>1 DEF Take
    <2> QED
      BY <1>2, <2>2, <2>3, <2>5, <2>6, Move
  <1>9. CASE head # Sentinel
    <2>1. PICK r : r = [old EXCEPT !.queue = rest, !.task = "run", !.ran = head]
      OBVIOUS
    <2>2. /\ r \in Records /\ r.queue = rest /\ r.task = "run" /\ r.ran = head
          /\ r.kept = old.kept /\ r.status = old.status /\ r.handle = old.handle /\ r.os = old.os
          /\ r.stopped = old.stopped /\ r.end = old.end /\ r.wrote = old.wrote /\ r.asked = old.asked
      BY <1>2, <1>5, <2>1 DEF Records
    <2>3. Shaped(p, r) /\ Onward(proc[p], r)
      BY <1>1, <1>2, <1>3, <2>2 DEF Shaped, Onward, AtWork, Over
    <2>4. IsPrompt(q, 1) /\ old.ran < head /\ head <= old.wrote
      BY <1>2, <1>5, <1>9 DEF Prompts, IsPrompt
    <2>5. Prompts(p, r)
      <3>1. \A n \in DOMAIN rest : IsPrompt(rest, n) => r.ran < rest[n] /\ rest[n] <= r.wrote
        BY <1>2, <1>5, <2>2, <2>4 DEF Prompts, IsPrompt
      <3>2. r.asked = 0 => \A n \in DOMAIN rest : IsPrompt(rest, n)
        BY <1>2, <1>5, <2>2 DEF Prompts, IsPrompt
      <3>3. r.wrote > r.ran => \E n \in DOMAIN rest : rest[n] = r.wrote
        <4>1. SUFFICES ASSUME old.wrote > head PROVE \E n \in DOMAIN rest : rest[n] = old.wrote
          BY <2>2
        <4>2. PICK n \in DOMAIN q : q[n] = old.wrote
          BY <1>2, <1>3, <1>5, <1>6, <2>4, <4>1 DEF Prompts
        <4>3. n # 1 /\ n - 1 \in DOMAIN rest /\ (n - 1) + 1 = n
          BY <1>5, <4>1, <4>2
        <4> QED
          BY <1>5, <4>2, <4>3
      <3>4. r.asked > r.ran =>
              \E n \in DOMAIN rest :
                rest[n] = r.asked /\ \A o \in DOMAIN rest : rest[o] = Sentinel => n < o
        <4>1. SUFFICES ASSUME old.asked > head
                       PROVE  \E n \in DOMAIN rest : rest[n] = old.asked /\
                                \A o \in DOMAIN rest : rest[o] = Sentinel => n < o
          BY <2>2
        <4>2. PICK n \in DOMAIN q : q[n] = old.asked /\ \A o \in DOMAIN q : q[o] = Sentinel => n < o
          BY <1>2, <1>3, <1>5, <1>6, <2>4, <4>1 DEF Prompts
        <4>3. n # 1 /\ n - 1 \in DOMAIN rest /\ (n - 1) + 1 = n
          BY <1>5, <4>1, <4>2
        <4>4. \A o \in DOMAIN rest : rest[o] = Sentinel => n - 1 < o
          BY <1>5, <4>2
        <4> QED
          BY <1>5, <4>2, <4>3, <4>4
      <3>5. old.end = "completed" => head >= old.asked /\ old.asked > 0
        BY <1>2, <1>3, <1>5, <1>6, <2>4 DEF Prompts
      <3> QED
        BY <1>2, <1>7, <2>2, <2>4, <3>1, <3>2, <3>3, <3>4, <3>5 DEF Prompts
    <2>6. Becomes(p, r)
      <3>1. [[proc[p] EXCEPT !.queue = Tail(@)] EXCEPT !.task = "run", !.ran = head] = r
        BY <1>1, <1>2, <1>4, <2>1 DEF Records
      <3> QED
        BY <1>1, <1>5, <1>9, <3>1 DEF Take
    <2> QED
      BY <1>2, <2>2, <2>3, <2>5, <2>6, Move
  <1> QED
    BY <1>8, <1>9

\* A step that changes the task of a process, how its session ends, or what the
\* operating system has of it.
LEMMA Turns ==
  ASSUME ProcessAssumption, IInv, NEW p \in Procs, NEW task, NEW end, NEW os,
         Becomes(p, [proc[p] EXCEPT !.task = task, !.end = end, !.os = os]),
         UNCHANGED clock, call' \in [Actors -> Calls],
         \A k \in Actors : call'[k] = call[k] \/ Aims(call'[k], proc'),
         \/ task = proc[p].task
         \/ p \in Agents /\ task \in {"live", "run", "closing"} /\ proc[p].task \in AtWork
         \/ task \in Over /\ ~proc[p].handle /\ proc[p].task # "none",
         task \in {"live", "run"} => proc[p].task \in {"live", "run"},
         end = proc[p].end \/ (end \in {"failed", "killed"}),
         task = "closing" => end \in Terminal,
         \/ os = proc[p].os
         \/ p \in Shells /\ proc[p].os \in Living \cup {"held"} /\ os \in {"held", "gone"}
         \/ p \in Shells /\ proc[p].os \in Living /\ os = "dying"
  PROVE  IInv'
  <1>1. PICK old : old = proc[p]
    OBVIOUS
  <1>2. old \in Records /\ Shaped(p, old) /\ p \in Shells \cup Agents
    BY <1>1 DEF IInv, TypeOK, Procs
  <1>3. PICK r : r = [old EXCEPT !.task = task, !.end = end, !.os = os]
    OBVIOUS
  <1>4. task \in {"none", "live", "run", "closing", "telling"} \cup Over
    BY <1>1, <1>2 DEF Records
  <1>5. end \in {"none"} \cup Terminal /\ os \in {"none", "held", "gone"} \cup Living
    BY <1>1, <1>2 DEF Records, Terminal, Living
  <1>6. /\ r \in Records /\ r.task = task /\ r.end = end /\ r.os = os
        /\ r.kept = old.kept /\ r.status = old.status /\ r.handle = old.handle
        /\ r.stopped = old.stopped /\ r.queue = old.queue
        /\ r.ran = old.ran /\ r.wrote = old.wrote /\ r.asked = old.asked
    BY <1>2, <1>3, <1>4, <1>5 DEF Records
  <1>7. p \in Shells => p \notin Agents
    BY DEF ProcessAssumption
  <1>8. Onward(proc[p], r) /\ Becomes(p, r)
    BY <1>1, <1>3, <1>6 DEF Onward, AtWork, Over
  <1>9. Shaped(p, r)
    <2>1. /\ r.handle <=> r.status = "running"
          /\ r.kept => r.task # "none" /\ r.status # "none"
          /\ r.task = "closing" => r.end \in Terminal
      BY <1>1, <1>2, <1>6 DEF Shaped, Over
    <2>2. r.handle => r.kept /\ r.task \in AtWork
      BY <1>1, <1>2, <1>6 DEF Shaped, AtWork
    <2>3. r.os \in Living => r.handle
      BY <1>1, <1>2, <1>6 DEF Shaped, Living
    <2>4. p \in Shells => r.task \notin {"run", "closing"}
      BY <1>1, <1>2, <1>6, <1>7 DEF Shaped, Over
    <2>5. p \in Agents => r.os = "none" /\ (r.task \in AtWork => r.handle)
      BY <1>1, <1>2, <1>6, <1>7 DEF Shaped, Over, AtWork
    <2>6. r.stopped => r.status = "killed" /\ (p \in Agents => r.task \in Over \cup {"telling"})
      BY <1>1, <1>2, <1>6 DEF Shaped, AtWork, Over
    <2> QED
      BY <2>1, <2>2, <2>3, <2>4, <2>5, <2>6 DEF Shaped
  <1> QED
    BY <1>1, <1>6, <1>8, <1>9, Change

\* The steps of a session and of the operating system that are of that kind.
LEMMA TurnsKeep ==
  ASSUME ProcessAssumption, IInv, NEW p \in Procs,
         Answered(p) \/ SessionFails(p) \/ Exit(p) \/ PipeCloses(p)
  PROVE  IInv'
  <1>1. PICK old : old = proc[p]
    OBVIOUS
  <1>2. /\ old \in Records /\ Shaped(p, old) /\ p \in Shells \cup Agents
        /\ call' = call /\ clock' = clock /\ call \in [Actors -> Calls]
    BY <1>1 DEF IInv, TypeOK, Procs, Answered, SessionFails, Exit, PipeCloses
  <1>3. CASE Answered(p)
    <2>1. old.task = "run" /\ Becomes(p, [old EXCEPT !.task = "live"])
      BY <1>1, <1>3 DEF Answered
    <2>2. [old EXCEPT !.task = "live"] = [old EXCEPT !.task = "live", !.end = old.end, !.os = old.os]
      BY <1>2 DEF Records
    <2>3. p \in Agents
      BY <1>2, <2>1 DEF Shaped
    <2>4. proc[p].task = "run" /\ proc[p].task \in AtWork
      BY <1>1, <2>1 DEF AtWork
    <2>5. PICK task, end, os : task = "live" /\ end = proc[p].end /\ os = proc[p].os
      OBVIOUS
    <2>6. Becomes(p, [proc[p] EXCEPT !.task = task, !.end = end, !.os = os])
      BY <1>1, <2>1, <2>2, <2>5
    <2>7. /\ p \in Agents /\ task \in {"live", "run", "closing"} /\ proc[p].task \in AtWork
          /\ task \in {"live", "run"} => proc[p].task \in {"live", "run"}
          /\ end = proc[p].end /\ os = proc[p].os /\ task # "closing"
      BY <2>3, <2>4, <2>5
    <2> QED
      BY <1>2, <2>6, <2>7, Turns
  <1>4. CASE SessionFails(p)
    <2>1. /\ p \in Agents /\ old.task \in AtWork
          /\ Becomes(p, [old EXCEPT !.task = "closing", !.end = "failed"])
      BY <1>1, <1>4 DEF SessionFails, AtWork
    <2>2. [old EXCEPT !.task = "closing", !.end = "failed"] =
            [old EXCEPT !.task = "closing", !.end = "failed", !.os = old.os]
      BY <1>2 DEF Records
    <2>3. Becomes(p, [proc[p] EXCEPT !.task = "closing", !.end = "failed", !.os = old.os])
      BY <1>1, <2>1, <2>2
    <2> QED
      BY <1>1, <1>2, <2>1, <2>3, Turns DEF Terminal
  <1>5. CASE Exit(p)
    <2>1. PICK os \in {"held", "gone"} : Becomes(p, [old EXCEPT !.os = os])
      BY <1>1, <1>5 DEF Exit
    <2>2. [old EXCEPT !.os = os] = [old EXCEPT !.task = old.task, !.end = old.end, !.os = os]
      BY <1>2 DEF Records
    <2>3. old.os \in Living /\ p \in Shells /\ (old.task = "closing" => old.end \in Terminal)
      BY <1>1, <1>2, <1>5 DEF Exit, Shaped, Living
    <2>4. Becomes(p, [proc[p] EXCEPT !.task = old.task, !.end = old.end, !.os = os])
      BY <1>1, <2>1, <2>2
    <2> QED
      BY <1>1, <1>2, <2>3, <2>4, Turns
  <1>6. CASE PipeCloses(p)
    <2>1. old.os = "held" /\ Becomes(p, [old EXCEPT !.os = "gone"])
      BY <1>1, <1>6 DEF PipeCloses
    <2>2. [old EXCEPT !.os = "gone"] = [old EXCEPT !.task = old.task, !.end = old.end, !.os = "gone"]
      BY <1>2 DEF Records
    <2>3. p \in Shells /\ (old.task = "closing" => old.end \in Terminal)
      BY <1>2, <2>1 DEF Shaped
    <2>4. Becomes(p, [proc[p] EXCEPT !.task = old.task, !.end = old.end, !.os = "gone"])
      BY <1>1, <2>1, <2>2
    <2> QED
      BY <1>1, <1>2, <2>1, <2>3, <2>4, Turns
  <1> QED
    BY <1>3, <1>4, <1>5, <1>6

LEMMA SessionOverKeeps ==
  ASSUME ProcessAssumption, IInv, NEW p \in Procs, SessionOver(p)
  PROVE  IInv'
  <1>1. PICK old : old = proc[p]
    OBVIOUS
  <1>2. /\ old \in Records /\ Shaped(p, old) /\ p \in Shells \cup Agents /\ old.task = "closing"
        /\ call' = call /\ clock' = clock /\ call \in [Actors -> Calls] /\ clock \in Nat
    BY <1>1 DEF IInv, TypeOK, Procs, SessionOver
  <1>3. p \in Agents /\ p \notin Shells /\ old.end \in Terminal
    BY <1>2 DEF Shaped
  <1>4. PICK q : q = <<>>
    OBVIOUS
  <1>5. q \in Seq(Nat) /\ DOMAIN q = {}
    BY <1>4
  <1>6. PICK r : r = [old EXCEPT !.status = old.end, !.ended = clock, !.handle = FALSE,
                                 !.task = "telling", !.queue = q, !.end = "none",
                                 !.ran = 0, !.wrote = 0, !.asked = 0]
    OBVIOUS
  <1>7. /\ r \in Records /\ r.status = old.end /\ ~r.handle /\ r.task = "telling"
        /\ r.queue = q /\ r.end = "none" /\ r.ran = 0 /\ r.wrote = 0 /\ r.asked = 0
        /\ r.kept = old.kept /\ r.os = old.os /\ r.stopped = old.stopped
    BY <1>2, <1>3, <1>5, <1>6 DEF Records
  <1>8. Shaped(p, r) /\ Onward(proc[p], r)
    BY <1>1, <1>2, <1>3, <1>7 DEF Shaped, Onward, AtWork, Terminal, Living, Over
  <1>9. Prompts(p, r)
    BY <1>5, <1>7 DEF Prompts
  <1>10. Becomes(p, r)
    <2>1. Ended(Exited(p, old.end)) = r
      BY <1>1, <1>2, <1>4, <1>6 DEF Ended, Exited, Records
    <2> QED
      BY <1>1, <2>1 DEF SessionOver
  <1> QED
    BY <1>2, <1>7, <1>8, <1>9, <1>10, Move

----------------------------------------------------------------------------
(* stop and close *)

\* A call between two awaits awaits nothing.
LEMMA NothingAwaited ==
  ASSUME NEW c, NEW procs, c.pc \in {"idle", "next"}
  PROVE  Aims(c, procs)
  BY DEF Aims

\* A step that only moves a caller, to such a place.
LEMMA Placed ==
  ASSUME ProcessAssumption, IInv, NEW k \in Actors, UNCHANGED <<proc, clock>>,
         NEW c \in Calls, c.pc \in {"idle", "next"}, call' = [call EXCEPT ![k] = c]
  PROVE  IInv'
  <1>1. /\ call' \in [Actors -> Calls] /\ call'[k] = c
        /\ \A o \in Actors : o # k => call'[o] = call[o]
    BY DEF IInv, TypeOK
  <1>2. Aims(call'[k], proc)
    BY <1>1, NothingAwaited
  <1> QED
    BY <1>1, <1>2, CallMove

LEMMA StopKeeps ==
  ASSUME ProcessAssumption, IInv, NEW k \in Actors, NEW p \in Procs, Stop(k, p)
  PROVE  IInv'
  <1>1. PICK c : c = [Idle EXCEPT !.pc = "next", !.todo = {p}]
    OBVIOUS
  <1>2. c \in Calls /\ c.pc = "next"
    BY <1>1 DEF Idle, Calls
  <1> QED
    BY <1>1, <1>2, Placed DEF Stop

LEMMA CloseKeeps ==
  ASSUME ProcessAssumption, IInv, Close
  PROVE  IInv'
  <1>1. PICK c : c = [Idle EXCEPT !.pc = "next", !.todo = Running(Shells), !.agents = TRUE]
    OBVIOUS
  <1>2. c \in Calls /\ c.pc = "next"
    <2>1. Running(Shells) \subseteq Procs
      BY DEF Running, Procs
    <2> QED
      BY <1>1, <2>1 DEF Idle, Calls
  <1>3. Closer \in Actors
    BY DEF Actors
  <1> QED
    BY <1>1, <1>2, <1>3, Placed DEF Close

LEMMA FinishKeeps ==
  ASSUME ProcessAssumption, IInv, NEW k \in Actors, Finish(k)
  PROVE  IInv'
  <1>1. call \in [Actors -> Calls] /\ call[k].pc = "next" /\ UNCHANGED <<proc, clock>>
    BY DEF IInv, TypeOK, Finish, AtCall
  <1>2. CASE call[k].agents
    <2>1. PICK c : c = [call[k] EXCEPT !.todo = Running(Agents), !.agents = FALSE]
      OBVIOUS
    <2>2. Running(Agents) \subseteq Procs
      BY DEF Running, Procs
    <2>3. c \in Calls /\ c.pc = "next"
      BY <1>1, <2>1, <2>2 DEF Calls
    <2>4. call' = [call EXCEPT ![k] = c]
      BY <1>1, <1>2, <2>1 DEF Finish
    <2> QED
      BY <1>1, <2>3, <2>4, Placed
  <1>3. CASE ~call[k].agents
    <2>1. Idle \in Calls /\ Idle.pc = "idle"
      BY DEF Idle, Calls
    <2>2. call' = [call EXCEPT ![k] = Idle]
      BY <1>3 DEF Finish, Abandon
    <2> QED
      BY <1>1, <2>1, <2>2, Placed
  <1> QED
    BY <1>2, <1>3

\* What has become of a process is what it was told to be.
LEMMA Became ==
  ASSUME IInv, NEW p \in Procs, NEW r, Becomes(p, r)
  PROVE  proc'[p] = r
  BY DEF IInv, TypeOK, Becomes

\* A shell that is not alive is killed in its record, whoever stops it.
LEMMA KillKeeps ==
  ASSUME ProcessAssumption, IInv, NEW k \in Actors, NEW p \in Shells, KillRecord(k, p),
         proc[p].task # "none", proc[p].os \notin Living, clock' = clock
  PROVE  IInv'
  <1>1. PICK old : old = proc[p]
    OBVIOUS
  <1>2. /\ old \in Records /\ Shaped(p, old) /\ clock \in Nat /\ p \in Procs /\ p \notin Agents
    BY <1>1 DEF IInv, TypeOK, Procs, ProcessAssumption
  <1>3. ASSUME NEW stopped \in BOOLEAN,
               NEW r, r = [old EXCEPT !.status = "killed", !.ended = clock, !.handle = FALSE,
                                      !.watched = FALSE, !.stopped = stopped]
        PROVE  /\ r \in Records /\ Shaped(p, r) /\ Onward(proc[p], r)
               /\ r.status = "killed" /\ ~r.handle /\ r.task = old.task /\ r.end = old.end
               /\ r.queue = old.queue /\ r.ran = old.ran /\ r.wrote = old.wrote /\ r.asked = old.asked
    <2>1. /\ r \in Records /\ r.status = "killed" /\ ~r.handle /\ r.task = old.task
          /\ r.kept = old.kept /\ r.os = old.os /\ r.end = old.end
          /\ r.queue = old.queue /\ r.ran = old.ran /\ r.wrote = old.wrote /\ r.asked = old.asked
      BY <1>2, <1>3 DEF Records, Terminal
    <2>2. Shaped(p, r) /\ Onward(proc[p], r)
      BY <1>1, <1>2, <2>1 DEF Shaped, Onward
    <2> QED
      BY <2>1, <2>2
  <1>4. CASE proc[p].watched /\ proc[p].task \notin Over
    <2>1. PICK r : r = [old EXCEPT !.status = "killed", !.ended = clock, !.handle = FALSE,
                                   !.watched = FALSE, !.stopped = old.stopped]
      OBVIOUS
    <2>2. [[old EXCEPT !.status = "killed", !.ended = clock] EXCEPT !.handle = FALSE, !.watched = FALSE] = r
      BY <1>2, <2>1 DEF Records
    <2>3. Becomes(p, r) /\ Await(k, p, "join")
      BY <1>1, <1>4, <2>2 DEF KillRecord, Killed
    <2>4. /\ r \in Records /\ Shaped(p, r) /\ Onward(proc[p], r)
          /\ r.status = "killed" /\ ~r.handle /\ r.task = old.task /\ r.end = old.end
          /\ r.queue = old.queue /\ r.ran = old.ran /\ r.wrote = old.wrote /\ r.asked = old.asked
      BY <1>2, <1>3, <2>1 DEF Records
    <2>5. /\ call' \in [Actors -> Calls] /\ call'[k].pc = "join" /\ call'[k].on = p
          /\ \A i \in Actors \ {k} : call'[i] = call[i]
      BY <1>2, <2>3, CallChanges
    <2>6. Aims(call'[k], proc')
      BY <1>1, <1>2, <2>3, <2>4, <2>5, Became DEF Aims
    <2> QED
      BY <1>1, <1>2, <2>3, <2>4, <2>5, <2>6, Change
  <1>5. CASE ~(proc[p].watched /\ proc[p].task \notin Over)
    <2>1. PICK r : r = [old EXCEPT !.status = "killed", !.ended = clock, !.handle = FALSE,
                                   !.watched = FALSE, !.stopped = TRUE]
      OBVIOUS
    <2>2. [[[old EXCEPT !.status = "killed", !.ended = clock] EXCEPT !.handle = FALSE, !.watched = FALSE]
             EXCEPT !.stopped = TRUE] = r
      BY <1>2, <2>1 DEF Records
    <2>3. Becomes(p, r) /\ Return(k, p)
      BY <1>1, <1>5, <2>2 DEF KillRecord, Killed
    <2>4. /\ r \in Records /\ Shaped(p, r) /\ Onward(proc[p], r)
          /\ ~r.handle /\ r.task = old.task /\ r.end = old.end
          /\ r.queue = old.queue /\ r.ran = old.ran /\ r.wrote = old.wrote /\ r.asked = old.asked
      BY <1>3, <2>1
    <2>5. /\ call' \in [Actors -> Calls] /\ call'[k].pc = "next"
          /\ \A i \in Actors \ {k} : call'[i] = call[i]
      BY <1>2, <2>3, CallChanges
    <2>6. Aims(call'[k], proc')
      BY <2>5, NothingAwaited
    <2> QED
      BY <1>1, <1>2, <2>3, <2>4, <2>5, <2>6, Change
  <1> QED
    BY <1>4, <1>5

\* A sentinel goes behind the prompts; the first one fixes what was accepted.
LEMMA AskingKeeps ==
  ASSUME ProcessAssumption, IInv, NEW k \in Actors, NEW p \in Agents, StopAgent(k, p),
         proc[p].handle, clock' = clock
  PROVE  IInv'
  <1>1. PICK old : old = proc[p]
    OBVIOUS
  <1>2. /\ old \in Records /\ Shaped(p, old) /\ Prompts(p, old) /\ p \in Procs /\ old.handle
        /\ old.queue \in Seq(Nat) /\ old.wrote \in Nat /\ old.asked \in Nat /\ old.ran \in Nat
    BY <1>1 DEF IInv, TypeOK, Procs, Records
  <1>3. PICK q, asked : /\ q = Append(old.queue, Sentinel)
                        /\ asked = IF old.asked = 0 THEN old.wrote ELSE old.asked
    OBVIOUS
  <1>4. PICK r : r = [old EXCEPT !.queue = q, !.asked = asked]
    OBVIOUS
  <1>5. q \in Seq(Nat) /\ asked \in Nat
    BY <1>2, <1>3 DEF Sentinel
  <1>6. /\ r \in Records /\ r.queue = q /\ r.asked = asked
        /\ r.kept = old.kept /\ r.status = old.status /\ r.handle = old.handle /\ r.os = old.os
        /\ r.task = old.task /\ r.end = old.end /\ r.stopped = old.stopped
        /\ r.ran = old.ran /\ r.wrote = old.wrote
    BY <1>2, <1>4, <1>5 DEF Records
  <1>7. Shaped(p, r) /\ Onward(proc[p], r)
    BY <1>1, <1>2, <1>6 DEF Shaped, Onward
  <1>8. Prompts(p, r)
    <2> DEFINE top == Len(old.queue) + 1
    <2>1. /\ DOMAIN q = DOMAIN old.queue \cup {top} /\ q[top] = Sentinel
          /\ \A n \in DOMAIN old.queue : q[n] = old.queue[n] /\ n < top /\ n \in Nat
      BY <1>2, <1>3, Behind DEF Sentinel
    <2> HIDE DEF top
    <2>2. \A n \in DOMAIN q : IsPrompt(q, n) => n \in DOMAIN old.queue /\ IsPrompt(old.queue, n)
      BY <2>1 DEF IsPrompt
    <2>3. old.wrote > 0 /\ asked > 0
      BY <1>2, <1>3 DEF Prompts
    <2>4. \A n \in DOMAIN q : IsPrompt(q, n) => r.ran < q[n] /\ q[n] <= r.wrote
      BY <1>2, <1>6, <2>1, <2>2 DEF Prompts
    <2>5. \A n, o \in DOMAIN q : IsPrompt(q, n) /\ IsPrompt(q, o) /\ n < o => q[n] < q[o]
      BY <1>2, <2>1, <2>2 DEF Prompts
    <2>6. r.wrote > r.ran /\ r.task \in {"live", "run"} => \E n \in DOMAIN q : q[n] = r.wrote
      BY <1>2, <1>6, <2>1 DEF Prompts
    <2>7. asked > r.ran /\ r.task \in {"live", "run"} =>
            \E n \in DOMAIN q : q[n] = asked /\ \A o \in DOMAIN q : q[o] = Sentinel => n < o
      <3>1. SUFFICES ASSUME asked > old.ran, old.task \in {"live", "run"}
                     PROVE  \E n \in DOMAIN q :
                              q[n] = asked /\ \A o \in DOMAIN q : q[o] = Sentinel => n < o
        BY <1>6
      <3>2. \E n \in DOMAIN old.queue :
              /\ old.queue[n] = asked
              /\ \A o \in DOMAIN old.queue : old.queue[o] = Sentinel => n < o
        <4>1. CASE old.asked = 0
          <5>1. PICK n \in DOMAIN old.queue : old.queue[n] = old.wrote
            BY <1>2, <1>3, <3>1, <4>1 DEF Prompts
          <5>2. \A o \in DOMAIN old.queue : old.queue[o] # Sentinel
            BY <1>2, <4>1 DEF Prompts, IsPrompt
          <5> QED
            BY <1>3, <4>1, <5>1, <5>2
        <4>2. CASE old.asked # 0
          BY <1>2, <1>3, <3>1, <4>2 DEF Prompts
        <4> QED
          BY <4>1, <4>2
      <3> QED
        BY <2>1, <3>2
    <2>8. /\ asked <= r.wrote /\ r.ran <= r.wrote
          /\ p \in Agents /\ r.end = "completed" => r.ran >= asked /\ asked > 0
      BY <1>2, <1>3, <1>6 DEF Prompts
    <2> QED
      BY <1>6, <2>3, <2>4, <2>5, <2>6, <2>7, <2>8 DEF Prompts
  <1>9. Becomes(p, r) /\ Await(k, p, "ask")
    <2>1. [proc[p] EXCEPT !.queue = Append(@, Sentinel),
                          !.asked = IF @ = 0 THEN proc[p].wrote ELSE @] = r
      BY <1>1, <1>2, <1>3, <1>4 DEF Records
    <2> QED
      BY <2>1 DEF StopAgent
  <1>10. /\ call' \in [Actors -> Calls] /\ call'[k].pc = "ask" /\ call'[k].on = p
         /\ \A i \in Actors \ {k} : call'[i] = call[i]
    BY <1>2, <1>9, CallChanges
  <1>11. Aims(call'[k], proc')
    BY <1>10 DEF Aims
  <1> QED
    BY <1>2, <1>6, <1>7, <1>8, <1>9, <1>10, <1>11, Move

\* The stop of an agent whose session is over returns.
LEMMA StoppedKeeps ==
  ASSUME ProcessAssumption, IInv, NEW k \in Actors, NEW p \in Agents,
         Becomes(p, [Killed(p) EXCEPT !.stopped = TRUE]), Return(k, p), clock' = clock,
         proc[p].task \in Over \cup {"telling"}
  PROVE  IInv'
  <1>1. PICK old : old = proc[p]
    OBVIOUS
  <1>2. /\ old \in Records /\ Shaped(p, old) /\ clock \in Nat /\ p \in Procs /\ p \notin Shells
        /\ old.task \in Over \cup {"telling"}
    BY <1>1 DEF IInv, TypeOK, Procs, ProcessAssumption
  <1>3. PICK r : r = [old EXCEPT !.status = "killed", !.ended = clock, !.stopped = TRUE]
    OBVIOUS
  <1>4. /\ r \in Records /\ r.status = "killed" /\ r.stopped /\ r.kept = old.kept
        /\ r.handle = old.handle /\ r.os = old.os /\ r.task = old.task /\ r.end = old.end
        /\ r.queue = old.queue /\ r.ran = old.ran /\ r.wrote = old.wrote /\ r.asked = old.asked
    BY <1>2, <1>3 DEF Records, Terminal
  <1>5. ~old.handle
    BY <1>2 DEF Shaped, AtWork, Over
  <1>6. Shaped(p, r) /\ Onward(proc[p], r)
    BY <1>1, <1>2, <1>4, <1>5 DEF Shaped, Onward, AtWork, Over
  <1>7. Becomes(p, r)
    <2>1. [[old EXCEPT !.status = "killed", !.ended = clock] EXCEPT !.stopped = TRUE] = r
      BY <1>2, <1>3 DEF Records
    <2> QED
      BY <1>1, <2>1 DEF Killed
  <1>8. /\ call' \in [Actors -> Calls] /\ call'[k].pc = "next"
        /\ \A i \in Actors \ {k} : call'[i] = call[i]
    BY <1>2, CallChanges
  <1>9. Aims(call'[k], proc')
    BY <1>8, NothingAwaited
  <1> QED
    BY <1>1, <1>2, <1>4, <1>6, <1>7, <1>8, <1>9, Change

\* The next process of a call.
LEMMA BeginKeeps ==
  ASSUME ProcessAssumption, IInv, NEW k \in Actors, Begin(k)
  PROVE  IInv'
  <1>1. PICK p \in call[k].todo :
          \/ proc[p].kept /\ p \in Shells /\ StopShell(k, p)
          \/ proc[p].kept /\ p \in Agents /\ StopAgent(k, p)
          \/ ~proc[p].kept /\ Return(k, p) /\ UNCHANGED proc
    BY DEF Begin
  <1>2. call \in [Actors -> Calls] /\ p \in Procs /\ clock' = clock
    BY <1>1 DEF IInv, TypeOK, Calls, Begin
  <1>3. Shaped(p, proc[p]) /\ proc[p] \in Records
    BY <1>2 DEF IInv, TypeOK
  <1>4. CASE proc[p].kept /\ p \in Shells /\ StopShell(k, p)
    <2>1. proc[p].task # "none"
      BY <1>3, <1>4 DEF Shaped
    <2>2. CASE proc[p].handle
      <3>1. Await(k, p, "term") /\ UNCHANGED proc
        BY <1>4, <2>2 DEF StopShell
      <3>2. /\ call' \in [Actors -> Calls] /\ call'[k].pc = "term" /\ call'[k].on = p
            /\ \A i \in Actors \ {k} : call'[i] = call[i]
        BY <1>2, <3>1, CallChanges
      <3>3. Aims(call'[k], proc)
        BY <1>4, <2>1, <3>2 DEF Aims
      <3> QED
        BY <1>2, <3>1, <3>2, <3>3, CallMove
    <2>3. CASE ~proc[p].handle
      <3>1. KillRecord(k, p) /\ proc[p].os \notin Living
        BY <1>3, <1>4, <2>3 DEF StopShell, Shaped
      <3> QED
        BY <1>2, <1>4, <2>1, <3>1, KillKeeps
    <2> QED
      BY <2>2, <2>3
  <1>5. CASE proc[p].kept /\ p \in Agents /\ StopAgent(k, p)
    <2>1. CASE proc[p].handle
      BY <1>2, <1>5, <2>1, AskingKeeps
    <2>2. CASE ~proc[p].handle
      <3>1. Becomes(p, [Killed(p) EXCEPT !.stopped = TRUE]) /\ Return(k, p)
        BY <1>5, <2>2 DEF StopAgent
      <3>2. proc[p].task \in Over \cup {"telling"}
        BY <1>3, <1>5, <2>2 DEF Shaped, Records, AtWork
      <3> QED
        BY <1>2, <1>5, <3>1, <3>2, StoppedKeeps
    <2> QED
      BY <2>1, <2>2
  <1>6. CASE ~proc[p].kept /\ Return(k, p) /\ UNCHANGED proc
    <2>1. /\ call' \in [Actors -> Calls] /\ call'[k].pc = "next"
          /\ \A i \in Actors \ {k} : call'[i] = call[i]
      BY <1>2, <1>6, CallChanges
    <2>2. Aims(call'[k], proc)
      BY <2>1, NothingAwaited
    <2> QED
      BY <1>2, <1>6, <2>1, <2>2, CallMove
  <1> QED
    BY <1>1, <1>4, <1>5, <1>6

\* What a stop awaits was started.
LEMMA AimedAt ==
  ASSUME IInv, NEW k \in Actors
  PROVE  /\ AtCall(k, {"term", "kill", "join"}) =>
              call[k].on \in Shells /\ call[k].on \in Procs /\ proc[call[k].on].task # "none"
         /\ AtCall(k, {"join"}) =>
              ~proc[call[k].on].handle /\ proc[call[k].on].status = "killed"
         /\ AtCall(k, {"ask", "reap"}) => call[k].on \in Agents /\ call[k].on \in Procs
  BY DEF IInv, Aims, AtCall, Procs

LEMMA WaitedKeeps ==
  ASSUME ProcessAssumption, IInv, NEW k \in Actors, Waited(k)
  PROVE  IInv'
  <1>1. PICK p : p = call[k].on
    OBVIOUS
  <1>2. /\ AtCall(k, {"term", "kill"}) /\ proc[p].os \notin Living /\ KillRecord(k, p)
        /\ clock' = clock
    BY <1>1 DEF Waited
  <1>3. p \in Shells /\ proc[p].task # "none"
    BY <1>1, <1>2, AimedAt DEF AtCall
  <1>4. p \in Procs
    BY <1>3 DEF Procs
  <1> QED
    BY <1>2, <1>3, <1>4, KillKeeps

LEMMA TermIgnoredKeeps ==
  ASSUME ProcessAssumption, IInv, NEW k \in Actors, TermIgnored(k)
  PROVE  IInv'
  <1>1. PICK p : p = call[k].on
    OBVIOUS
  <1>2. /\ AtCall(k, {"term"}) /\ proc[p].os \in Living /\ Await(k, p, "kill")
        /\ Becomes(p, [proc[p] EXCEPT !.os = "dying"]) /\ clock' = clock
    BY <1>1 DEF TermIgnored
  <1>3. p \in Shells /\ p \in Procs /\ proc[p].task # "none"
    BY <1>1, <1>2, AimedAt DEF AtCall
  <1>4. proc[p] \in Records /\ Shaped(p, proc[p])
    BY <1>3 DEF IInv, TypeOK
  <1>5. /\ call' \in [Actors -> Calls] /\ call'[k].pc = "kill" /\ call'[k].on = p
        /\ \A i \in Actors \ {k} : call'[i] = call[i]
    BY <1>2, <1>3, CallChanges
  <1>6. PICK task, end, os : task = proc[p].task /\ end = proc[p].end /\ os = "dying"
    OBVIOUS
  <1>7. [proc[p] EXCEPT !.os = "dying"] = [proc[p] EXCEPT !.task = task, !.end = end, !.os = os]
    BY <1>4, <1>6 DEF Records
  <1>8. proc'[p] = [proc[p] EXCEPT !.task = task, !.end = end, !.os = os]
    BY <1>2, <1>3, <1>7, Became
  <1>9. proc'[p].task = proc[p].task
    BY <1>4, <1>6, <1>8 DEF Records
  <1>10. Aims(call'[k], proc')
    BY <1>3, <1>5, <1>9 DEF Aims
  <1>11. task = "closing" => end \in Terminal
    BY <1>4, <1>6 DEF Shaped
  <1>12. Becomes(p, [proc[p] EXCEPT !.task = task, !.end = end, !.os = os])
    BY <1>2, <1>7
  <1>13. \A i \in Actors : call'[i] = call[i] \/ Aims(call'[i], proc')
    BY <1>5, <1>10
  <1>14. /\ task = proc[p].task /\ (task \in {"live", "run"} => proc[p].task \in {"live", "run"})
         /\ end = proc[p].end /\ p \in Shells /\ proc[p].os \in Living /\ os = "dying"
    BY <1>2, <1>3, <1>6
  <1> QED
    BY <1>2, <1>3, <1>5, <1>11, <1>12, <1>13, <1>14, Turns

LEMMA JoinKeeps ==
  ASSUME ProcessAssumption, IInv, NEW k \in Actors, Join(k)
  PROVE  IInv'
  <1>1. PICK p : p = call[k].on
    OBVIOUS
  <1>2. /\ AtCall(k, {"join"}) /\ Return(k, p) /\ clock' = clock
        /\ Becomes(p, [proc[p] EXCEPT !.stopped = TRUE,
                                      !.task = IF @ \in Over THEN @ ELSE "cancelled"])
    BY <1>1 DEF Join
  <1>3. /\ p \in Shells /\ p \in Procs /\ p \notin Agents /\ proc[p].task # "none"
        /\ ~proc[p].handle /\ proc[p].status = "killed"
    BY <1>1, <1>2, AimedAt DEF AtCall, ProcessAssumption
  <1>4. PICK old : old = proc[p]
    OBVIOUS
  <1>5. old \in Records /\ Shaped(p, old)
    BY <1>3, <1>4 DEF IInv, TypeOK
  <1>6. PICK task \in Over : task = IF old.task \in Over THEN old.task ELSE "cancelled"
    BY DEF Over
  <1>7. PICK r : r = [old EXCEPT !.stopped = TRUE, !.task = task]
    OBVIOUS
  <1>8. /\ r \in Records /\ r.stopped /\ r.task = task /\ r.kept = old.kept
        /\ r.status = old.status /\ r.handle = old.handle /\ r.os = old.os /\ r.end = old.end
        /\ r.queue = old.queue /\ r.ran = old.ran /\ r.wrote = old.wrote /\ r.asked = old.asked
    BY <1>5, <1>7 DEF Records
  <1>9. Shaped(p, r) /\ Onward(proc[p], r)
    BY <1>3, <1>4, <1>5, <1>8 DEF Shaped, Onward, Over
  <1>10. Becomes(p, r)
    BY <1>2, <1>4, <1>5, <1>6, <1>7 DEF Records
  <1>11. /\ call' \in [Actors -> Calls] /\ call'[k].pc = "next"
         /\ \A i \in Actors \ {k} : call'[i] = call[i]
    BY <1>2, <1>3, CallChanges
  <1>12. Aims(call'[k], proc')
    BY <1>11, NothingAwaited
  <1>13. r.task \notin {"live", "run"} /\ r.handle = proc[p].handle
    BY <1>4, <1>8 DEF Over
  <1> QED
    BY <1>2, <1>3, <1>4, <1>8, <1>9, <1>10, <1>11, <1>12, <1>13, Change

LEMMA AskedKeeps ==
  ASSUME ProcessAssumption, IInv, NEW k \in Actors, Asked(k)
  PROVE  IInv'
  <1>1. PICK p : p = call[k].on
    OBVIOUS
  <1>2. /\ AtCall(k, {"ask", "reap"}) /\ proc[p].task \in Over
        /\ Becomes(p, [Killed(p) EXCEPT !.stopped = TRUE]) /\ Return(k, p) /\ clock' = clock
    BY <1>1 DEF Asked, AtCall, Over
  <1>3. p \in Agents /\ p \in Procs
    BY <1>1, <1>2, AimedAt
  <1> QED
    BY <1>2, <1>3, StoppedKeeps

\* The session of an agent is cancelled, wherever it is.
LEMMA CancelledKeeps ==
  ASSUME ProcessAssumption, IInv, NEW p \in Agents, Becomes(p, Cancelled(proc[p])),
         clock' = clock, call' \in [Actors -> Calls],
         \A k \in Actors : call'[k] = call[k] \/ Aims(call'[k], proc')
  PROVE  IInv'
  <1>1. PICK old : old = proc[p]
    OBVIOUS
  <1>2. /\ p \in Procs /\ old \in Records /\ Shaped(p, old) /\ proc \in [Procs -> Records]
    BY <1>1 DEF IInv, TypeOK, Procs
  <1>3. CASE old.task \in {"live", "run", "closing"}
    <2>1. PICK task, end, os : task = "closing" /\ end = "killed" /\ os = old.os
      OBVIOUS
    <2>2. Cancelled(old) = [old EXCEPT !.task = task, !.end = end]
      BY <1>3, <2>1 DEF Cancelled
    <2>3. [old EXCEPT !.task = task, !.end = end] = [old EXCEPT !.task = task, !.end = end, !.os = os]
      BY <1>2, <2>1 DEF Records
    <2>4. Becomes(p, [proc[p] EXCEPT !.task = task, !.end = end, !.os = os])
      BY <1>1, <2>2, <2>3
    <2>5. /\ p \in Agents /\ task \in {"live", "run", "closing"} /\ proc[p].task \in AtWork
          /\ task \notin {"live", "run"} /\ end \in {"failed", "killed"} /\ end \in Terminal
          /\ os = proc[p].os
      BY <1>1, <1>3, <2>1 DEF AtWork, Terminal
    <2> QED
      BY <1>2, <2>4, <2>5, Turns
  <1>4. CASE old.task = "telling"
    <2>1. PICK task, end, os : task = "cancelled" /\ end = old.end /\ os = old.os
      OBVIOUS
    <2>2. Cancelled(old) = [old EXCEPT !.task = task]
      BY <1>4, <2>1 DEF Cancelled
    <2>3. [old EXCEPT !.task = task] = [old EXCEPT !.task = task, !.end = end, !.os = os]
      BY <1>2, <2>1 DEF Records
    <2>4. Becomes(p, [proc[p] EXCEPT !.task = task, !.end = end, !.os = os])
      BY <1>1, <2>2, <2>3
    <2>5. /\ task \in Over /\ ~proc[p].handle /\ proc[p].task # "none"
          /\ task \notin {"live", "run"} /\ task # "closing" /\ end = proc[p].end
          /\ os = proc[p].os
      BY <1>1, <1>2, <1>4, <2>1 DEF Shaped, AtWork, Over
    <2> QED
      BY <1>2, <2>4, <2>5, Turns
  <1>5. CASE old.task \notin {"live", "run", "closing", "telling"}
    <2>1. Cancelled(old) = old
      BY <1>5 DEF Cancelled
    <2>2. proc' = proc
      BY <1>1, <1>2, <2>1 DEF Becomes
    <2> QED
      BY <2>2, CallMove
  <1> QED
    BY <1>3, <1>4, <1>5

LEMMA AskedInVainKeeps ==
  ASSUME ProcessAssumption, IInv, NEW k \in Actors, AskedInVain(k)
  PROVE  IInv'
  <1>1. PICK p : p = call[k].on
    OBVIOUS
  <1>2. p \in Agents /\ p \in Procs /\ clock' = clock
    BY <1>1, AimedAt DEF AskedInVain, AtCall
  <1>3. CASE Await(k, p, "reap") /\ Becomes(p, Cancelled(proc[p]))
    <2>1. /\ call' \in [Actors -> Calls] /\ call'[k].pc = "reap" /\ call'[k].on = p
          /\ \A i \in Actors \ {k} : call'[i] = call[i]
      BY <1>2, <1>3, CallChanges
    <2>2. Aims(call'[k], proc')
      BY <1>2, <2>1 DEF Aims
    <2>3. \A i \in Actors : call'[i] = call[i] \/ Aims(call'[i], proc')
      BY <2>1, <2>2
    <2> QED
      BY <1>2, <1>3, <2>1, <2>3, CancelledKeeps
  <1>4. CASE Abandon(k) /\ UNCHANGED proc
    <2>1. /\ call' \in [Actors -> Calls] /\ call'[k].pc = "idle"
          /\ \A i \in Actors \ {k} : call'[i] = call[i]
      BY <1>4, AbandonTyped
    <2>2. Aims(call'[k], proc)
      BY <2>1, NothingAwaited
    <2>3. \A i \in Actors : call'[i] = call[i] \/ Aims(call'[i], proc)
      BY <2>1, <2>2
    <2> QED
      BY <1>2, <1>4, <2>1, <2>3, CallMove
  <1> QED
    BY <1>1, <1>3, <1>4 DEF AskedInVain

LEMMA CallCancelledKeeps ==
  ASSUME ProcessAssumption, IInv, NEW k \in Actors, CallCancelled(k)
  PROVE  IInv'
  <1>1. PICK p : p = call[k].on
    OBVIOUS
  <1>2. clock' = clock
    BY DEF CallCancelled
  <1>3. CASE AtCall(k, {"reap"}) /\ Becomes(p, Cancelled(proc[p])) /\ UNCHANGED call
    <2>1. p \in Agents
      BY <1>1, <1>3, AimedAt DEF AtCall
    <2>2. call' = call /\ call' \in [Actors -> Calls]
      BY <1>3 DEF IInv, TypeOK
    <2> QED
      BY <1>2, <1>3, <2>1, <2>2, CancelledKeeps
  <1>4. CASE Abandon(k) /\ UNCHANGED proc
    <2>1. /\ call' \in [Actors -> Calls] /\ call'[k].pc = "idle"
          /\ \A i \in Actors \ {k} : call'[i] = call[i]
      BY <1>4, AbandonTyped
    <2>2. Aims(call'[k], proc)
      BY <2>1, NothingAwaited
    <2>3. \A i \in Actors : call'[i] = call[i] \/ Aims(call'[i], proc)
      BY <2>1, <2>2
    <2> QED
      BY <1>2, <1>4, <2>1, <2>3, CallMove
  <1> QED
    BY <1>1, <1>3, <1>4 DEF CallCancelled

----------------------------------------------------------------------------
(* The specification *)

LEMMA Initially == ASSUME ProcessAssumption, Init PROVE IInv
  <1>1. Absent \in Records /\ Idle \in Calls
    <2>1. PICK q : q = <<>>
      OBVIOUS
    <2>2. q \in Seq(Nat)
      BY <2>1
    <2>3. Absent = [kept |-> FALSE, status |-> "none", ended |-> 0, os |-> "none",
                    handle |-> FALSE, task |-> "none", watched |-> FALSE, queue |-> q,
                    end |-> "none", ran |-> 0, wrote |-> 0, asked |-> 0, stopped |-> FALSE]
      BY <2>1 DEF Absent
    <2> QED
      BY <2>2, <2>3 DEF Idle, Records, Calls
  <1>2. TypeOK
    BY <1>1 DEF Init, TypeOK
  <1>3. ASSUME NEW p \in Procs
        PROVE  Shaped(p, proc[p]) /\ Prompts(p, proc[p])
    <2>1. proc[p] = Absent
      BY DEF Init
    <2>2. /\ ~Absent.kept /\ Absent.status = "none" /\ Absent.os = "none" /\ ~Absent.handle
          /\ Absent.task = "none" /\ Absent.queue = <<>> /\ Absent.end = "none"
          /\ Absent.ran = 0 /\ Absent.wrote = 0 /\ Absent.asked = 0 /\ ~Absent.stopped
      BY DEF Absent
    <2> QED
      BY <2>1, <2>2 DEF Shaped, Prompts, AtWork, Living, Over
  <1>4. ASSUME NEW k \in Actors PROVE Aims(call[k], proc)
    <2>1. call[k] = Idle /\ Idle.pc = "idle"
      BY DEF Init, Idle
    <2> QED
      BY <2>1, NothingAwaited
  <1> QED
    BY <1>2, <1>3, <1>4 DEF IInv

LEMMA TickKeeps == ASSUME IInv, Tick PROVE IInv'
  BY DEF Tick, IInv, TypeOK

LEMMA Stutter == ASSUME IInv, UNCHANGED vars PROVE IInv'
  BY DEF vars, IInv, TypeOK

LEMMA ProcStep ==
  ASSUME ProcessAssumption, IInv, NEW p \in Procs,
         \/ Spawn(p) \/ CreateAgent(p) \/ Write(p) \/ Follow(p)
         \/ Answered(p) \/ SessionFails(p) \/ Exit(p) \/ PipeCloses(p)
  PROVE  IInv'
  BY SpawnKeeps, CreateAgentKeeps, WriteKeeps, WatchKeeps, ToldKeeps, TakeKeeps,
     SessionOverKeeps, TurnsKeep DEF Follow

LEMMA CallStep ==
  ASSUME ProcessAssumption, IInv, NEW k \in Actors,
         Continue(k) \/ CallCancelled(k) \/ \E p \in Procs : Stop(k, p)
  PROVE  IInv'
  BY BeginKeeps, FinishKeeps, WaitedKeeps, TermIgnoredKeeps, JoinKeeps, AskedKeeps,
     AskedInVainKeeps, CallCancelledKeeps, StopKeeps DEF Continue

LEMMA Step == ASSUME ProcessAssumption, IInv, [Next]_vars PROVE IInv'
  BY ProcStep, CallStep, CloseKeeps, TickKeeps, Stutter DEF Next

\* The inductive invariant: running records have their handles and somebody at
\* work, prompts are queued in order, and every stop awaits what was started.
THEOREM Invariant == Spec => []IInv
  <1>1. Init => IInv
    BY ProcessAssumption, Initially
  <1>2. IInv /\ [Next]_vars => IInv'
    BY ProcessAssumption, Step
  <1> QED
    BY <1>1, <1>2, PTL DEF Spec

\* The tables hold what their types say, for any processes, callers and limits.
THEOREM TypeCorrect == Spec => []TypeOK
  <1>1. IInv => TypeOK
    BY DEF IInv
  <1> QED
    BY <1>1, Invariant, PTL

\* No living OS process or session escapes the tables and close, and no record
\* is left running with nobody at work who will end it.
THEOREM AllTracked == Spec => []Tracked
  <1>1. ASSUME IInv, NEW p \in Procs PROVE Shaped(p, proc[p]) /\ proc[p] \in Records
    BY <1>1 DEF IInv, TypeOK
  <1>2. IInv => Tracked
    BY <1>1 DEF Tracked, Shaped, Records, AtWork, Procs
  <1> QED
    BY <1>2, Invariant, PTL

\* What a stop has reported stays so: watchers, sessions and other stops that
\* write the same record later bring nothing back to life.
THEOREM StopsAreFinal == Spec => []StopIsFinal
  <1>1. ASSUME IInv, NEW p \in Procs PROVE Shaped(p, proc[p])
    BY <1>1 DEF IInv
  <1>2. IInv => StopIsFinal
    BY <1>1 DEF StopIsFinal, Shaped
  <1> QED
    BY <1>2, Invariant, PTL

\* A session ends by its sentinel only after the prompts accepted before the
\* stop have run, however prompts, stops and failures interleave.
THEOREM AcceptedPromptsRun == Spec => []AcceptedRan
  <1>1. ASSUME IInv, NEW p \in Agents PROVE Prompts(p, proc[p])
    BY <1>1 DEF IInv, Procs
  <1>2. IInv => AcceptedRan
    BY <1>1 DEF AcceptedRan, Prompts
  <1> QED
    BY <1>2, Invariant, PTL

=============================================================================
