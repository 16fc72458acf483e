------------------------ MODULE WorkflowRun_proofs ------------------------
(***************************************************************************)
(* What holds of a run for any number of thunks, slots, calls and retries. *)
(* Whatever the workflow's code does, a thunk is at work only while the    *)
(* run is in its parallel call, and the record is final only when the      *)
(* run has nothing more to do than to announce it.                         *)
(***************************************************************************)
EXTENDS WorkflowRun, TLAPS

Over == {"announce", "done"}

\* Every call that ran a subagent is counted, and a call in progress is one of them.
Counted == /\ Len(rec.runs) <= rec.calls
           /\ \E cap \in Caps : rec.calls <= cap
           /\ \A i \in DOMAIN rec.runs : rec.runs[i] <= MaxRetries + 1
           /\ \A f \in Flows : flow[f].pc = "agent" => flow[f].call \in DOMAIN rec.runs

Closing ==
  /\ rec.status # "running" => flow[Script].pc \in Over
  /\ rec.status = "running" => rec.announced = <<>>
  /\ rec.pending => /\ flow[Script].pc \in Over
                    /\ rec.announced = <<>> /\ rec.status # "running"

IInv == TypeOK /\ Counted /\ NoOrphans /\ Closing

----------------------------------------------------------------------------
\* The parts of the record, and what a step that touches only some leaves of it.
LEMMA RecordShape ==
  ASSUME TypeOK
  PROVE  /\ rec = [status |-> rec.status, calls |-> rec.calls, runs |-> rec.runs,
                   journal |-> rec.journal, deliver |-> rec.deliver,
                   addressed |-> rec.addressed, pending |-> rec.pending,
                   announced |-> rec.announced]
         /\ rec.status \in Ending \cup {"running"} /\ rec.calls \in Nat
         /\ rec.runs \in Seq(Nat) /\ rec.journal \in BOOLEAN /\ rec.deliver \in BOOLEAN
         /\ rec.addressed \in BOOLEAN /\ rec.pending \in BOOLEAN
         /\ rec.announced \in Seq(Ending)
  BY DEF TypeOK, Records

\* A step that begins no call keeps the counts.
LEMMA CountRests ==
  ASSUME Counted, rec'.calls = rec.calls, rec'.runs = rec.runs,
         \A f \in Flows : flow'[f].pc = "agent" => flow'[f] = flow[f]
  PROVE  Counted'
  BY DEF Counted

\* A step of a flow that leaves its script in or out of its parallel call, and
\* no thunk that was done at work, leaves no orphan and nothing to close.
LEMMA FlowKeeps ==
  ASSUME TypeOK, NoOrphans, Closing, NEW f \in Flows,
         NEW pc, NEW n,
         flow' = [flow EXCEPT ![f] = [pc |-> pc, call |-> n]],
         f = Script => flow[f].pc \in Holds /\ pc \in Holds,
         f \in Thunks => flow[f].pc \in Active,
         rec'.status = rec.status, rec'.announced = rec.announced, rec'.pending = rec.pending
  PROVE  NoOrphans' /\ Closing'
  <1>1. f \in DOMAIN flow /\ flow'[f].pc = pc /\ \A g \in Flows \ {f} : flow'[g] = flow[g]
    BY DEF TypeOK
  <1>2. Script \in Flows /\ Thunks \subseteq Flows
    BY DEF Flows
  <1>3. CASE f = Script
    <2>1. \A t \in Thunks : flow[t].pc \notin Active
      BY <1>3 DEF NoOrphans, ThunksDone, Holds
    <2>2. Script \notin Thunks
      BY WorkflowAssumption DEF WorkflowAssumption
    <2>3. NoOrphans'
      BY <1>1, <1>2, <1>3, <2>1, <2>2 DEF NoOrphans, ThunksDone
    <2>4. flow[Script].pc \notin Over
      BY <1>3 DEF Holds, Over
    <2> QED
      BY <2>3, <2>4 DEF Closing
  <1>4. CASE f # Script
    <2>1. f \in Thunks /\ flow'[Script] = flow[Script]
      BY <1>1, <1>2, <1>4 DEF Flows
    <2>2. flow[Script].pc \in {"gather", "reap"}
      BY <2>1 DEF NoOrphans, ThunksDone
    <2> QED
      BY <2>1, <2>2 DEF NoOrphans, Closing
  <1> QED
    BY <1>3, <1>4

\* The steps keep the shape of the flows and of the record.
LEMMA FlowTyped ==
  ASSUME TypeOK, NEW f \in Flows, NEW pc \in Places, NEW n \in Nat,
         flow' = [flow EXCEPT ![f] = [pc |-> pc, call |-> n]]
  PROVE  flow' \in [Flows -> [pc : Places, call : Nat]]
  BY DEF TypeOK

\* A call, counted before anything waits, stays within the cap it was held to.
LEMMA CallKeeps ==
  ASSUME WorkflowAssumption, IInv, NEW f \in Flows, Call(f)
  PROVE  IInv'
  <1>1. PICK cap \in Caps : rec.calls < cap
    BY DEF Call
  <1>2. PICK runs : runs = Append(rec.runs, 1)
    OBVIOUS
  <1>3. PICK n : n = Len(rec.runs) + 1
    OBVIOUS
  <1>4. /\ rec' = [rec EXCEPT !.calls = @ + 1, !.runs = runs]
        /\ flow' = [flow EXCEPT ![f] = [pc |-> "agent", call |-> n]]
        /\ flow[f].pc = "code" /\ stop' = stop /\ tolerant' = tolerant
    BY <1>2, <1>3 DEF Call, InCode
  <1>5. /\ rec.runs \in Seq(Nat) /\ rec.calls \in Nat /\ cap \in Nat /\ MaxRetries \in Nat
        /\ flow \in [Flows -> [pc : Places, call : Nat]]
    BY RecordShape DEF IInv, TypeOK, Caps, WorkflowAssumption
  <1>6. /\ runs \in Seq(Nat) /\ Len(runs) = n /\ DOMAIN runs = 1..n /\ n \in Nat \ {0}
        /\ DOMAIN rec.runs = 1..(n - 1) /\ runs[n] = 1
        /\ \A i \in DOMAIN rec.runs : runs[i] = rec.runs[i]
    BY <1>2, <1>3, <1>5
  <1>7. /\ rec' = [status |-> rec.status, calls |-> rec.calls + 1, runs |-> runs,
                   journal |-> rec.journal, deliver |-> rec.deliver,
                   addressed |-> rec.addressed, pending |-> rec.pending,
                   announced |-> rec.announced]
    BY <1>4, RecordShape DEF IInv
  <1>8. /\ rec'.calls = rec.calls + 1 /\ rec'.runs = runs /\ rec'.status = rec.status
        /\ rec'.announced = rec.announced /\ rec'.pending = rec.pending
    BY <1>7
  <1>9. rec' \in Records
    BY <1>5, <1>6, <1>7, RecordShape DEF Records, IInv
  <1>10. \A g \in Flows : flow'[g] = IF g = f THEN [pc |-> "agent", call |-> n] ELSE flow[g]
    BY <1>4, <1>5
  <1>11. Counted'
    <2>1. Len(rec'.runs) <= rec'.calls
      BY <1>3, <1>5, <1>6, <1>8 DEF IInv, Counted
    <2>2. rec'.calls <= cap
      BY <1>1, <1>5, <1>8
    <2>3. \A i \in DOMAIN rec'.runs : rec'.runs[i] <= MaxRetries + 1
      <3> SUFFICES ASSUME NEW i \in 1..n PROVE runs[i] <= MaxRetries + 1
        BY <1>6, <1>8
      <3>1. CASE i = n
        BY <1>5, <1>6, <3>1
      <3>2. CASE i # n
        <4>1. i \in DOMAIN rec.runs
          BY <1>6, <3>2
        <4> QED
          BY <1>6, <4>1 DEF IInv, Counted
      <3> QED
        BY <3>1, <3>2
    <2>4. \A g \in Flows : flow'[g].pc = "agent" => flow'[g].call \in DOMAIN rec'.runs
      BY <1>6, <1>8, <1>10 DEF IInv, Counted
    <2> QED
      BY <2>1, <2>2, <2>3, <2>4 DEF Counted
  <1>12. NoOrphans' /\ Closing'
    BY <1>4, <1>8, FlowKeeps DEF IInv, Holds, Active
  <1>13. TypeOK'
    <2>1. flow' \in [Flows -> [pc : Places, call : Nat]]
      BY <1>4, <1>6, FlowTyped DEF IInv, Places, Active, Holds
    <2> QED
      BY <1>4, <1>9, <2>1 DEF IInv, TypeOK
  <1> QED
    BY <1>11, <1>12, <1>13 DEF IInv

\* A stalled call runs one more subagent, while it has retries left.
LEMMA StallsKeeps ==
  ASSUME WorkflowAssumption, IInv, NEW f \in Flows, Stalls(f)
  PROVE  IInv'
  <1>1. PICK c : c = flow[f].call
    OBVIOUS
  <1>2. /\ flow[f].pc = "agent" /\ rec.runs[c] <= MaxRetries
        /\ rec' = [rec EXCEPT !.runs[c] = @ + 1] /\ UNCHANGED <<flow, stop, tolerant>>
    BY <1>1 DEF Stalls, InAgent
  <1>3. /\ c \in DOMAIN rec.runs /\ rec.runs \in Seq(Nat) /\ MaxRetries \in Nat
        /\ DOMAIN rec.runs = 1..Len(rec.runs)
    BY <1>1, <1>2, RecordShape DEF IInv, Counted, WorkflowAssumption
  <1>4. PICK runs : runs = [rec.runs EXCEPT ![c] = @ + 1]
    OBVIOUS
  <1>5. /\ runs \in Seq(Nat) /\ Len(runs) = Len(rec.runs) /\ DOMAIN runs = DOMAIN rec.runs
        /\ \A i \in DOMAIN runs : runs[i] = IF i = c THEN rec.runs[c] + 1 ELSE rec.runs[i]
    BY <1>3, <1>4
  <1>6. rec' = [status |-> rec.status, calls |-> rec.calls, runs |-> runs,
                journal |-> rec.journal, deliver |-> rec.deliver,
                addressed |-> rec.addressed, pending |-> rec.pending,
                announced |-> rec.announced]
    BY <1>2, <1>4, RecordShape DEF IInv
  <1>7. rec' \in Records
    BY <1>5, <1>6, RecordShape DEF Records, IInv
  <1>8. Counted'
    <2>1. \A i \in DOMAIN runs : runs[i] <= MaxRetries + 1
      <3> SUFFICES ASSUME NEW i \in DOMAIN runs PROVE runs[i] <= MaxRetries + 1
        OBVIOUS
      <3>1. i \in DOMAIN rec.runs /\ rec.runs[i] <= MaxRetries + 1
        BY <1>5 DEF IInv, Counted
      <3>2. rec.runs[c] \in Nat /\ rec.runs[c] + 1 <= MaxRetries + 1
        BY <1>2, <1>3
      <3>3. runs[i] = IF i = c THEN rec.runs[c] + 1 ELSE rec.runs[i]
        BY <1>5
      <3> QED
        BY <3>1, <3>2, <3>3
    <2>2. rec'.calls = rec.calls /\ rec'.runs = runs /\ flow' = flow
      BY <1>2, <1>6
    <2> QED
      BY <1>5, <2>1, <2>2 DEF IInv, Counted
  <1>9. NoOrphans' /\ Closing'
    BY <1>2, <1>6 DEF IInv, NoOrphans, ThunksDone, Closing
  <1> QED
    BY <1>2, <1>7, <1>8, <1>9 DEF IInv, TypeOK

\* The other steps of an agent() call.
LEMMA AgentKeeps ==
  ASSUME WorkflowAssumption, IInv, NEW f \in Flows, Cached(f) \/ Returned(f)
  PROVE  IInv'
  <1>1. /\ flow \in [Flows -> [pc : Places, call : Nat]] /\ rec \in Records
        /\ rec.calls \in Nat /\ rec.runs \in Seq(Nat)
    BY RecordShape DEF IInv, TypeOK
  <1>2. CASE Cached(f)
    <2>1. PICK cap \in Caps : rec.calls < cap
      BY <1>2 DEF Cached
    <2>2. rec' = [rec EXCEPT !.calls = @ + 1] /\ UNCHANGED <<flow, stop, tolerant>>
      BY <1>2 DEF Cached
    <2>6. rec' = [status |-> rec.status, calls |-> rec.calls + 1, runs |-> rec.runs,
                  journal |-> rec.journal, deliver |-> rec.deliver,
                  addressed |-> rec.addressed, pending |-> rec.pending,
                  announced |-> rec.announced]
      BY <2>2, RecordShape DEF IInv
    <2>3. /\ rec'.calls = rec.calls + 1 /\ rec'.runs = rec.runs
          /\ rec'.status = rec.status /\ rec'.announced = rec.announced
          /\ rec'.pending = rec.pending /\ rec' \in Records
      BY <1>1, <2>6, RecordShape DEF Records, IInv
    <2>4. cap \in Nat /\ Len(rec.runs) \in Nat
      BY <1>1 DEF Caps, WorkflowAssumption
    <2>5. Counted'
      <3>1. Len(rec'.runs) <= rec'.calls /\ rec'.calls <= cap
        BY <1>1, <2>1, <2>3, <2>4 DEF IInv, Counted
      <3> QED
        BY <2>2, <2>3, <3>1 DEF IInv, Counted
    <2> QED
      BY <1>1, <2>2, <2>3, <2>5 DEF IInv, TypeOK, NoOrphans, ThunksDone, Closing
  <1>3. CASE Returned(f)
    <2>1. PICK kept \in {rec.journal, TRUE} : rec' = [rec EXCEPT !.journal = kept]
      BY <1>3 DEF Returned
    <2>2. /\ flow' = [flow EXCEPT ![f] = [pc |-> "code", call |-> 0]]
          /\ flow[f].pc = "agent" /\ UNCHANGED <<stop, tolerant>>
      BY <1>3 DEF Returned, InAgent
    <2>3. /\ rec'.calls = rec.calls /\ rec'.runs = rec.runs
          /\ rec'.status = rec.status /\ rec'.announced = rec.announced
          /\ rec'.pending = rec.pending /\ rec' \in Records
      BY <1>1, <2>1 DEF Records
    <2>4. NoOrphans' /\ Closing'
      BY <2>2, <2>3, FlowKeeps DEF IInv, Holds, Active
    <2>5. TypeOK'
      <3>1. flow' \in [Flows -> [pc : Places, call : Nat]]
        BY <1>1, <2>2, FlowTyped DEF IInv, Places, Active, Holds
      <3> QED
        BY <2>2, <2>3, <3>1 DEF IInv, TypeOK
    <2>6. Counted'
      BY <1>1, <2>2, <2>3, CountRests DEF IInv
    <2> QED
      BY <2>4, <2>5, <2>6 DEF IInv
  <1> QED
    BY <1>2, <1>3

\* A thunk takes a slot, leaves it, or is cancelled.
LEMMA ThunkKeeps ==
  ASSUME WorkflowAssumption, IInv, NEW t \in Thunks, Enter(t) \/ Leave(t) \/ Cancelled(t)
  PROVE  IInv'
  <1>1. /\ flow \in [Flows -> [pc : Places, call : Nat]]
        /\ t \in Flows /\ t # Script /\ UNCHANGED <<rec, stop, tolerant>>
    BY DEF IInv, TypeOK, Flows, WorkflowAssumption, Enter, Leave, Cancelled
  <1>2. PICK pc \in {"code", "ended", "raised"} : flow[t].pc \in Active /\ flow' = At(t, pc)
    BY DEF Enter, Leave, Cancelled, InCode, Active, Holds
  <1> DEFINE n == flow[t].call
  <1>3. flow' = [flow EXCEPT ![t] = [pc |-> pc, call |-> n]] /\ n \in Nat
    <2>1. PICK q \in [pc : Places, call : Nat] : q = flow[t]
      BY <1>1
    <2>2. [q EXCEPT !.pc = pc] = [pc |-> pc, call |-> n]
      BY <2>1
    <2>3. flow' = [flow EXCEPT ![t] = [q EXCEPT !.pc = pc]]
      BY <1>1, <1>2, <2>1 DEF At
    <2>4. n \in Nat
      BY <2>1
    <2> HIDE DEF n
    <2> QED
      BY <2>2, <2>3, <2>4
  <1> HIDE DEF n
  <1>4. pc \in Places
    BY <1>2 DEF Places, Active, Holds
  <1>5. flow' \in [Flows -> [pc : Places, call : Nat]]
    BY <1>1, <1>3, <1>4, FlowTyped DEF IInv
  <1>6. NoOrphans' /\ Closing'
    BY <1>1, <1>2, <1>3, FlowKeeps DEF IInv
  <1>7. Counted'
    BY <1>1, <1>2, <1>3, CountRests DEF IInv
  <1> QED
    BY <1>1, <1>5, <1>6, <1>7 DEF IInv, TypeOK

\* A parallel call begins: until it ends thunks may be at work.
LEMMA ParallelKeeps ==
  ASSUME WorkflowAssumption, IInv, Parallel
  PROVE  IInv'
  <1>1. PICK ts \in SUBSET Thunks \ {{}} :
       flow' = [f \in Flows |-> [pc |-> IF f = Script THEN "gather"
                                        ELSE IF f \in ts THEN "waiting" ELSE "none",
                                 call |-> 0]]
    BY DEF Parallel
  <1>2. /\ flow[Script].pc = "code" /\ UNCHANGED <<rec, stop>> /\ tolerant' \in BOOLEAN
        /\ Script \in Flows
    BY DEF Parallel, InCode, Flows
  <1>3. flow'[Script].pc = "gather"
    BY <1>1, <1>2
  <1>4. flow' \in [Flows -> [pc : Places, call : Nat]]
    BY <1>1 DEF Places, Active, Holds
  <1>5. Counted'
    BY <1>1, <1>2, CountRests DEF IInv
  <1> QED
    BY <1>2, <1>3, <1>4, <1>5 DEF IInv, TypeOK, NoOrphans, Closing, Over

\* A step that moves the script of the run and nothing else.
LEMMA ScriptKeeps ==
  ASSUME WorkflowAssumption, IInv, NEW pc \in Places, flow' = At(Script, pc),
         UNCHANGED <<rec, tolerant>>, stop' \in {"no", "cancel", "timeout"},
         pc # "agent", pc \notin {"gather", "reap"} => ThunksDone,
         flow[Script].pc \in Over => pc \in Over
  PROVE  IInv'
  <1>1. /\ flow \in [Flows -> [pc : Places, call : Nat]]
        /\ Script \in Flows /\ Script \notin Thunks /\ Thunks \subseteq Flows
    BY DEF IInv, TypeOK, Flows, WorkflowAssumption
  <1>2. /\ flow' \in [Flows -> [pc : Places, call : Nat]]
        /\ flow'[Script].pc = pc /\ \A t \in Thunks : flow'[t] = flow[t]
    BY <1>1 DEF At
  <1>3. NoOrphans' /\ Closing'
    BY <1>2 DEF IInv, NoOrphans, ThunksDone, Closing
  <1>4. Counted'
    BY <1>2, CountRests DEF IInv, Flows
  <1> QED
    BY <1>2, <1>3, <1>4 DEF IInv, TypeOK

\* A parallel call that fails or is interrupted is left only with its thunks.
LEMMA ReapingKeeps ==
  ASSUME WorkflowAssumption, IInv, flow[Script].pc \in {"gather"}, flow' = Reaping,
         UNCHANGED <<rec, tolerant>>, stop' \in {"no", "cancel", "timeout"}
  PROVE  IInv'
  <1>1. /\ flow \in [Flows -> [pc : Places, call : Nat]] /\ Script \in Flows
    BY DEF IInv, TypeOK, Flows
  <1>2. flow'[Script] = [flow[Script] EXCEPT !.pc = "reap"]
    BY <1>1 DEF Reaping
  <1>3. flow'[Script].pc = "reap"
    BY <1>1, <1>2
  <1>4. flow' \in [Flows -> [pc : Places, call : Nat]]
    <2> SUFFICES ASSUME NEW f \in Flows
                 PROVE  flow'[f] \in [pc : Places, call : Nat]
      BY DEF Reaping
    <2>1. CASE f = Script
      BY <1>1, <1>2, <2>1 DEF Places
    <2>2. CASE f # Script
      <3>1. flow'[f] = IF flow[f].pc \in Active THEN [pc |-> "cancelling", call |-> 0]
                                                ELSE flow[f]
        BY <2>2 DEF Reaping
      <3> QED
        BY <1>1, <3>1 DEF Places, Active
    <2> QED
      BY <2>1, <2>2
  <1>5. Counted'
    <2>1. \A f \in Flows : flow'[f].pc = "agent" => flow'[f] = flow[f]
      BY <1>3 DEF Reaping, Active, Holds
    <2> QED
      BY <2>1, CountRests DEF IInv
  <1> QED
    BY <1>3, <1>4, <1>5 DEF IInv, TypeOK, NoOrphans, Closing, Over

\* The end of the run sets its status once, with no thunk left.
LEMMA EndsKeeps ==
  ASSUME WorkflowAssumption, IInv, flow[Script].pc \in Holds, NEW status \in Ending, Ends(status)
  PROVE  IInv' /\ rec.status = "running" /\ rec'.announced = rec.announced
  <1>1. /\ flow \in [Flows -> [pc : Places, call : Nat]] /\ rec \in Records
        /\ Script \in Flows /\ Script \notin Thunks /\ Thunks \subseteq Flows
    BY DEF IInv, TypeOK, Flows, WorkflowAssumption
  <1>2. rec.status = "running" /\ rec.announced = <<>> /\ ThunksDone
    BY DEF IInv, Closing, NoOrphans, Holds, Over
  <1>3. /\ rec' = [status |-> status, calls |-> rec.calls, runs |-> rec.runs,
                   journal |-> rec.journal, deliver |-> rec.deliver,
                   addressed |-> rec.addressed, pending |-> rec.deliver,
                   announced |-> rec.announced]
        /\ UNCHANGED <<stop, tolerant>>
    BY RecordShape DEF Ends, IInv
  <1>4. /\ rec' \in Records /\ rec'.calls = rec.calls /\ rec'.runs = rec.runs
        /\ rec'.status # "running" /\ rec'.announced = <<>>
    BY <1>2, <1>3, RecordShape DEF Records, IInv, Ending
  <1>5. PICK pc \in Over : flow' = At(Script, pc)
    BY DEF Ends, Over
  <1>6. /\ flow' \in [Flows -> [pc : Places, call : Nat]]
        /\ flow'[Script].pc = pc /\ \A t \in Thunks : flow'[t] = flow[t]
    BY <1>1, <1>5 DEF At, Places, Over
  <1>7. NoOrphans' /\ Closing'
    BY <1>2, <1>4, <1>6 DEF NoOrphans, ThunksDone, Closing
  <1>8. Counted'
    BY <1>4, <1>5, <1>6, CountRests DEF IInv, Flows, Over
  <1> QED
    BY <1>2, <1>3, <1>4, <1>6, <1>7, <1>8 DEF IInv, TypeOK

\* The announcement, if it has an address, is the first, of the final status.
LEMMA AnnounceKeeps ==
  ASSUME WorkflowAssumption, IInv, Announce
  PROVE  IInv' /\ rec.announced = <<>> /\ rec.status # "running"
               /\ rec'.status = rec.status /\ rec'.announced \in {<<>>, <<rec.status>>}
  <1>1. /\ flow \in [Flows -> [pc : Places, call : Nat]] /\ rec \in Records
        /\ Script \in Flows /\ Script \notin Thunks /\ Thunks \subseteq Flows
    BY DEF IInv, TypeOK, Flows, WorkflowAssumption
  <1>2. /\ flow[Script].pc \in Over /\ rec.announced = <<>> /\ rec.status # "running"
        /\ rec.pending = TRUE
    BY DEF IInv, Closing, Announce
  <1>3. ThunksDone
    BY <1>2 DEF IInv, NoOrphans, Over
  <1>8. PICK out : out = IF rec.addressed THEN Append(rec.announced, rec.status)
                                          ELSE rec.announced
    OBVIOUS
  <1>9. out \in {<<>>, <<rec.status>>} /\ out \in Seq(Ending)
    <2>1. Append(<<>>, rec.status) = <<rec.status>> /\ rec.status \in Ending
      BY <1>2, RecordShape DEF IInv
    <2>2. <<rec.status>> \in Seq(Ending) /\ <<>> \in Seq(Ending)
      BY <2>1
    <2> QED
      BY <1>2, <1>8, <2>1, <2>2
  <1>4. rec' = [status |-> rec.status, calls |-> rec.calls, runs |-> rec.runs,
                journal |-> rec.journal, deliver |-> rec.deliver,
                addressed |-> rec.addressed, pending |-> FALSE, announced |-> out]
    BY <1>8, RecordShape DEF Announce, IInv
  <1>5. /\ rec' \in Records /\ rec'.calls = rec.calls /\ rec'.runs = rec.runs
        /\ rec'.status = rec.status /\ rec'.announced = out /\ rec'.pending = FALSE
    BY <1>4, <1>9, RecordShape DEF Records, IInv
  <1>6. /\ flow' \in [Flows -> [pc : Places, call : Nat]]
        /\ flow'[Script].pc = "done" /\ \A t \in Thunks : flow'[t] = flow[t]
    BY <1>1 DEF Announce, At, Places
  <1>7. NoOrphans' /\ Closing'
    BY <1>2, <1>3, <1>5, <1>6 DEF NoOrphans, ThunksDone, Closing, Over
  <1>10. Counted'
    BY <1>5, <1>6, CountRests DEF IInv, Flows
  <1> QED
    BY <1>2, <1>5, <1>6, <1>7, <1>9, <1>10 DEF IInv, TypeOK, Announce

\* A cancel or a timeout: the thunks of a parallel call are cancelled with it.
LEMMA InterruptKeeps ==
  ASSUME WorkflowAssumption, IInv, NEW why \in {"cancel", "timeout"}, Interrupt(why)
  PROVE  IInv' /\ rec' = rec
  <1>1. rec' = rec /\ tolerant' = tolerant /\ stop' \in {"no", "cancel", "timeout"}
    BY DEF Interrupt
  <1>2. CASE flow[Script].pc = "gather"
    <2>1. flow' = Reaping
      BY <1>2 DEF Interrupt
    <2> QED
      BY <1>1, <1>2, <2>1, ReapingKeeps
  <1>3. CASE flow[Script].pc # "gather"
    <2>1. flow' = flow
      BY <1>3 DEF Interrupt
    <2> QED
      BY <1>1, <2>1 DEF IInv, TypeOK, Counted, NoOrphans, ThunksDone, Closing
  <1> QED
    BY <1>1, <1>2, <1>3

\* The other steps of the script.
LEMMA MovesKeep ==
  ASSUME WorkflowAssumption, IInv,
         Begin \/ Reaped \/ Gathered \/ CancelUnstarted \/ CancelAnnouncing
  PROVE  IInv' /\ rec' = rec
  <1>1. PICK pc \in {"code", "done"} :
          /\ flow' = At(Script, pc) /\ UNCHANGED <<rec, stop, tolerant>>
          /\ flow[Script].pc \in Over => pc \in Over
    BY DEF Begin, Reaped, Gathered, CancelUnstarted, CancelAnnouncing, Over
  <1>2. ThunksDone
    BY DEF Begin, Reaped, Gathered, CancelUnstarted, CancelAnnouncing, IInv, NoOrphans
  <1>3. pc \in Places /\ pc # "agent" /\ stop' \in {"no", "cancel", "timeout"}
    BY <1>1 DEF IInv, TypeOK, Places, Active, Holds
  <1> QED
    BY <1>1, <1>2, <1>3, ScriptKeeps

----------------------------------------------------------------------------
\* Every step keeps the invariant, and tells what it does to the record.
LEMMA Step ==
  ASSUME WorkflowAssumption, IInv, [Next]_vars
  PROVE  /\ IInv'
         /\ rec.status # "running" => rec'.status = rec.status
         /\ rec'.announced # rec.announced =>
              rec.status # "running" /\ rec.announced = <<>> /\ rec'.announced = <<rec.status>>
  <1>0. rec \in Records
    BY DEF IInv, TypeOK
  <1>1. CASE \E f \in Flows : Call(f) \/ Cached(f) \/ Stalls(f) \/ Returned(f)
    <2>1. rec'.status = rec.status /\ rec'.announced = rec.announced
      BY <1>0, <1>1 DEF Call, Cached, Stalls, Returned, Records
    <2> QED
      BY <1>1, <2>1, CallKeeps, StallsKeeps, AgentKeeps
  <1>2. CASE \E t \in Thunks : Enter(t) \/ Leave(t) \/ Cancelled(t)
    <2>1. rec' = rec
      BY <1>2 DEF Enter, Leave, Cancelled
    <2> QED
      BY <1>2, <2>1, ThunkKeeps
  <1>3. CASE Parallel
    <2>1. rec' = rec
      BY <1>3 DEF Parallel
    <2> QED
      BY <1>3, <2>1, ParallelKeeps
  <1>4. CASE GatherFails
    <2>1. rec' = rec /\ stop' = stop /\ tolerant' = tolerant /\ flow' = Reaping
          /\ flow[Script].pc = "gather"
      BY <1>4 DEF GatherFails
    <2>2. stop' \in {"no", "cancel", "timeout"}
      BY <2>1 DEF IInv, TypeOK
    <2> QED
      BY <2>1, <2>2, ReapingKeeps
  <1>5. CASE Cancel \/ TimeOut
    <2>1. PICK why \in {"cancel", "timeout"} : Interrupt(why)
      BY <1>5 DEF Cancel, TimeOut
    <2> QED
      BY <2>1, InterruptKeeps
  <1>6. CASE Begin \/ Reaped \/ Gathered \/ CancelUnstarted \/ CancelAnnouncing
    BY <1>6, MovesKeep
  <1>7. CASE Finish \/ Unwound
    <2>1. PICK status \in Ending : flow[Script].pc \in Holds /\ Ends(status)
      BY <1>7 DEF Finish, Unwound, InCode, Ending, Holds
    <2> QED
      BY <2>1, EndsKeeps
  <1>8. CASE Announce
    BY <1>8, AnnounceKeeps
  <1>9. CASE UNCHANGED vars
    BY <1>9 DEF vars, IInv, TypeOK, Counted, NoOrphans, ThunksDone, Closing
  <1> QED
    BY <1>1, <1>2, <1>3, <1>4, <1>5, <1>6, <1>7, <1>8, <1>9 DEF Next, RunStep

\* The record that invoke makes, and the task it creates.
LEMMA Initially ==
  ASSUME WorkflowAssumption, Init
  PROVE  IInv
  <1>1. Cap \in Nat /\ Script \notin Thunks /\ MaxRetries \in Nat /\ Script \in Flows
        /\ Thunks \subseteq Flows
    BY DEF WorkflowAssumption, Flows
  <1>2. PICK deliver \in BOOLEAN, addressed \in BOOLEAN :
          rec = [status |-> "running", calls |-> 0, runs |-> <<>>, journal |-> FALSE,
                 deliver |-> deliver, addressed |-> addressed, pending |-> FALSE,
                 announced |-> <<>>]
    BY DEF Init
  <1>3. <<>> \in Seq(Nat) /\ <<>> \in Seq(Ending) /\ Len(<<>>) = 0 /\ DOMAIN <<>> = {}
    OBVIOUS
  <1>4. /\ flow \in [Flows -> [pc : Places, call : Nat]]
        /\ stop = "no" /\ tolerant = FALSE
    BY <1>1 DEF Init, Places
  <1>6. rec \in Records
    BY <1>2, <1>3 DEF Records
  <1>7. \A f \in Flows : flow[f].pc # "agent"
    BY DEF Init
  <1>8. Counted
    BY <1>1, <1>2, <1>3, <1>7 DEF Counted, Caps
  <1>5. ThunksDone
    BY <1>1 DEF Init, ThunksDone, Active, Holds
  <1> QED
    BY <1>2, <1>4, <1>5, <1>6, <1>8 DEF IInv, TypeOK, NoOrphans, Closing

\* The invariant: types, counts, the places of the thunks and of the record.
THEOREM Invariant == Spec => []IInv
  <1>1. Init => IInv
    BY Initially, WorkflowAssumption
  <1>2. IInv /\ [Next]_vars => IInv'
    BY Step, WorkflowAssumption
  <1> QED
    BY <1>1, <1>2, PTL DEF Spec

\* The variables keep their types.
THEOREM TypeCorrect == Spec => []TypeOK
  <1>1. IInv => TypeOK
    BY DEF IInv
  <1> QED
    BY <1>1, Invariant, PTL

\* However many thunks call agent() at once, no more calls run subagents than
\* the larger of the caps (WorkflowExecuteContext.agent counts before it waits),
\* and none runs more than one and its stall retries (_run_with_retry).
THEOREM CallsWithinCap == Spec => []CapHolds
  <1>1. IInv => CapHolds
    <2> SUFFICES ASSUME IInv PROVE CapHolds
      OBVIOUS
    <2>1. PICK cap \in Caps : rec.calls <= cap
      BY DEF IInv, Counted
    <2>2. /\ cap \in Nat /\ rec.calls \in Nat /\ Len(rec.runs) \in Nat
          /\ Len(rec.runs) <= rec.calls
      BY RecordShape, WorkflowAssumption DEF IInv, Counted, Caps, WorkflowAssumption
    <2>3. Len(rec.runs) <= cap
      BY <2>1, <2>2
    <2> QED
      BY <2>3 DEF IInv, Counted, CapHolds
  <1> QED
    BY <1>1, Invariant, PTL

\* _gather_or_cancel leaves no thunk behind, however the call or the run ends.
THEOREM ThunksReaped == Spec => []NoOrphans
  <1>1. IInv => NoOrphans
    BY DEF IInv
  <1> QED
    BY <1>1, Invariant, PTL

\* _run_and_announce sets one final status; what it publishes is that one, with
\* nothing published before it and nothing after it.
THEOREM StatusFinal == Spec => FinalOnce
  <1>1. IInv /\ [Next]_vars =>
          [/\ rec.status # "running" => rec'.status = rec.status
           /\ rec'.announced # rec.announced =>
                rec.status # "running" /\ rec.announced = <<>>
                  /\ rec'.announced = <<rec.status>>]_vars
    BY Step, WorkflowAssumption
  <1> QED
    BY <1>1, Invariant, PTL DEF Spec, FinalOnce
=============================================================================
