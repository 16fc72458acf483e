--------------------------- MODULE Gateway_proofs ---------------------------
(***************************************************************************)
(* What holds of the gateway for any number of chats, sessions, agents,    *)
(* messages and requests: the entry of a session key is never lost while   *)
(* its task is unfinished, but to a /new, so that the next message, a      *)
(* cancel_session and stop find the task; what a chat sees of a run starts *)
(* with its start and is over with its end or the ENDs of its              *)
(* cancellations; and no message is taken for the reply to a permission    *)
(* request that is over.                                                   *)
(***************************************************************************)
EXTENDS Gateway, TLAPS

\* A message that has been published came from a chat.
Sent == \A m \in Msgs : msg[m].at # "unsent" => msg[m].chat \in Chats

\* Once stop has marked them, no handler is left, and every task that is still
\* unfinished is marked or dropped, but for the one that called stop.
Marked ==
  phase.at = "stopping" =>
    \A m \in Msgs \ {phase.self} : /\ msg[m].at # "hooks"
                                   /\ Unfinished(m) => run[m].dropped \/ "stop" \in run[m].by

IInv == TypeOK /\ Sent /\ Reachable /\ Marked

----------------------------------------------------------------------------
\* A step of one session task: it begins none and forgets no cancellation.
LEMMA TaskKeeps ==
  ASSUME GatewayAssumption, IInv, NEW m \in Msgs,
         NEW q \in Runs, run' = [run EXCEPT ![m] = q],
         q.pc \in Live => Unfinished(m), run[m].pc # "none", q.pc # "none",
         q.dropped = run[m].dropped, run[m].by \subseteq q.by,
         UNCHANGED <<msg, entry, perm, ask, phase>>, busy' \subseteq Agents
  PROVE  IInv'
  <1>1. /\ run' \in [Msgs -> Runs] /\ run'[m] = q
        /\ \A o \in Msgs : o # m => run'[o] = run[o]
    BY DEF IInv, TypeOK
  <1>2. \A o \in Msgs : /\ (run'[o].pc \in Live) => run[o].pc \in Live
                        /\ run'[o].dropped = run[o].dropped
                        /\ run[o].by \subseteq run'[o].by
                        /\ run'[o].pc # "none" <=> run[o].pc # "none"
    BY <1>1 DEF Unfinished
  <1>3. TypeOK'
    BY <1>1, <1>2 DEF IInv, TypeOK
  <1>4. Sent'
    BY DEF IInv, Sent
  <1>5. Reachable'
    BY <1>2 DEF IInv, Reachable, Unfinished
  <1>6. Marked'
    BY <1>2 DEF IInv, Marked, Unfinished
  <1> QED
    BY <1>3, <1>4, <1>5, <1>6 DEF IInv

\* What is published of a run stays a sequence of phases.
LEMMA AddTyped ==
  ASSUME NEW s \in Seq(Phases), NEW p \in Phases
  PROVE  Add(s, p) \in Seq(Phases) /\ Append(s, p) \in Seq(Phases)
  BY DEF Add

\* The steps of a session task.
LEMMA TaskStepKeeps ==
  ASSUME GatewayAssumption, IInv, NEW m \in Msgs, TaskStep(m)
  PROVE  IInv'
  <1>1. run \in [Msgs -> Runs] /\ msg \in [Msgs -> Messages] /\ busy \subseteq Agents
    BY DEF IInv, TypeOK
  <1>2. PICK r \in Runs : r = run[m]
    BY <1>1
  <1>3. /\ r.pc \in Live \cup {"none", "done", "broken", "cancelled"}
        /\ r.by \in SUBSET Callers /\ r.calls \in 0..MaxCancels
        /\ r.sub \in BOOLEAN /\ r.dropped \in BOOLEAN
        /\ r.stream \in Seq(Phases)
    BY <1>2 DEF Runs
  <1>4. r.pc # "none" => Agent(m) \in Agents
    <2> SUFFICES ASSUME r.pc # "none" PROVE Agent(m) \in Agents
      OBVIOUS
    <2>1. msg[m].chat \in Chats
      BY <1>2 DEF IInv, TypeOK, Sent
    <2> QED
      BY <2>1 DEF Agent, GatewayAssumption
  <1>5. {"start", "error", "cancel", "final"} \subseteq Phases
    BY DEF Phases
  <1>6. CASE Begin(m)
    <2>0. PICK pc \in {"leaving", "prepare"}, stream \in Seq(Phases) :
            run' = [run EXCEPT ![m].sub = TRUE, ![m].pc = pc, ![m].stream = stream]
      <3>1. <<"start", "error">> \in Seq(Phases) /\ <<"start">> \in Seq(Phases)
        BY <1>5
      <3>2. CASE Agent(m) \in busy
        BY <1>6, <3>1, <3>2 DEF Begin
      <3>3. CASE Agent(m) \notin busy
        BY <1>6, <3>1, <3>3 DEF Begin
      <3> QED
        BY <3>2, <3>3
    <2>1. PICK q : q = [r EXCEPT !.sub = TRUE, !.pc = pc, !.stream = stream]
      OBVIOUS
    <2>2. q \in Runs /\ q.pc = pc /\ q.by = r.by /\ q.dropped = r.dropped
      BY <1>3, <2>1, <2>0 DEF Runs, Live
    <2>3. run' = [run EXCEPT ![m] = q]
      BY <1>1, <1>2, <1>6, <2>1, <2>0 DEF Begin, Runs
    <2>4. /\ run[m].pc = "created"
          /\ UNCHANGED <<msg, entry, perm, ask, phase>> /\ busy' \subseteq Agents
      BY <1>1, <1>4, <1>6 DEF Begin, Steps
    <2> QED
      BY <1>1, <1>2, <2>2, <2>3, <2>4, <2>0, TaskKeeps DEF Unfinished, Live
  <1>7. CASE TurnStarts(m)
    <2>1. PICK q : q = [r EXCEPT !.pc = "turn"]
      OBVIOUS
    <2>2. q \in Runs /\ q.pc = "turn" /\ q.by = r.by /\ q.dropped = r.dropped
      BY <1>3, <2>1 DEF Runs, Live
    <2>3. run' = [run EXCEPT ![m] = q]
      BY <1>1, <1>2, <1>7, <2>1 DEF TurnStarts, Runs
    <2>4. /\ run[m].pc = "prepare"
          /\ UNCHANGED <<msg, entry, perm, ask, phase>> /\ busy' \subseteq Agents
      BY <1>1, <1>2, <1>4, <1>7 DEF TurnStarts, Steps
    <2> QED
      BY <1>1, <1>2, <2>2, <2>3, <2>4, TaskKeeps DEF Unfinished, Live
  <1>8. CASE TurnEnds(m)
    <2>1. PICK q : q = [r EXCEPT !.pc = "leaving"]
      OBVIOUS
    <2>2. q \in Runs /\ q.pc = "leaving" /\ q.by = r.by /\ q.dropped = r.dropped
      BY <1>3, <2>1 DEF Runs, Live
    <2>3. run' = [run EXCEPT ![m] = q]
      BY <1>1, <1>2, <1>8, <2>1 DEF TurnEnds, Runs
    <2>4. /\ run[m].pc = "turn"
          /\ UNCHANGED <<msg, entry, perm, ask, phase>> /\ busy' \subseteq Agents
      BY <1>1, <1>4, <1>8 DEF TurnEnds, Steps
    <2> QED
      BY <1>1, <1>2, <2>2, <2>3, <2>4, TaskKeeps DEF Unfinished, Live
  <1>9. CASE Fails(m)
    <2>1. PICK q : q = [r EXCEPT !.pc = "leaving", !.stream = Add(r.stream, "error")]
      OBVIOUS
    <2>2. q \in Runs /\ q.pc = "leaving" /\ q.by = r.by /\ q.dropped = r.dropped
      BY <1>3, <2>1, <1>5, AddTyped DEF Runs, Live
    <2>3. run' = [run EXCEPT ![m] = q]
      BY <1>1, <1>2, <1>9, <2>1 DEF Fails, Runs
    <2>4. /\ run[m].pc \in {"prepare", "turn"}
          /\ UNCHANGED <<msg, entry, perm, ask, phase>> /\ busy' \subseteq Agents
      BY <1>1, <1>4, <1>9 DEF Fails, Steps
    <2> QED
      BY <1>1, <1>2, <2>2, <2>3, <2>4, TaskKeeps DEF Unfinished, Live
  <1>10. CASE Returns(m)
    <2>1. PICK q : q = [r EXCEPT !.pc = "sending", !.sub = FALSE]
      OBVIOUS
    <2>2. q \in Runs /\ q.pc = "sending" /\ q.by = r.by /\ q.dropped = r.dropped
      BY <1>3, <2>1 DEF Runs, Live
    <2>3. run' = [run EXCEPT ![m] = q]
      BY <1>1, <1>2, <1>10, <2>1 DEF Returns, Runs
    <2>4. /\ run[m].pc = "leaving"
          /\ UNCHANGED <<msg, entry, perm, ask, phase>> /\ busy' \subseteq Agents
      BY <1>1, <1>4, <1>10 DEF Returns, Steps
    <2> QED
      BY <1>1, <1>2, <2>2, <2>3, <2>4, TaskKeeps DEF Unfinished, Live
  <1>11. CASE Done(m)
    <2>1. PICK q : q = [r EXCEPT !.pc = "done", !.stream = Append(r.stream, "final")]
      OBVIOUS
    <2>2. q \in Runs /\ q.pc = "done" /\ q.by = r.by /\ q.dropped = r.dropped
      BY <1>3, <2>1, <1>5, AddTyped DEF Runs, Live
    <2>3. run' = [run EXCEPT ![m] = q]
      BY <1>1, <1>2, <1>11, <2>1 DEF Done, Runs
    <2>4. /\ run[m].pc = "sending"
          /\ UNCHANGED <<msg, entry, perm, ask, phase>> /\ busy' \subseteq Agents
      BY <1>1, <1>4, <1>11 DEF Done, Steps
    <2> QED
      BY <1>1, <1>2, <2>2, <2>3, <2>4, TaskKeeps DEF Unfinished, Live
  <1>12. CASE SendFails(m)
    <2>1. PICK q : q = [r EXCEPT !.pc = "broken"]
      OBVIOUS
    <2>2. q \in Runs /\ q.pc = "broken" /\ q.by = r.by /\ q.dropped = r.dropped
      BY <1>3, <2>1 DEF Runs, Live
    <2>3. run' = [run EXCEPT ![m] = q]
      BY <1>1, <1>2, <1>12, <2>1 DEF SendFails, Runs
    <2>4. /\ run[m].pc = "sending"
          /\ UNCHANGED <<msg, entry, perm, ask, phase>> /\ busy' \subseteq Agents
      BY <1>1, <1>4, <1>12 DEF SendFails, Steps
    <2> QED
      BY <1>1, <1>2, <2>2, <2>3, <2>4, TaskKeeps DEF Unfinished, Live
  <1>13. CASE RunCancelled(m)
    <2>1. PICK q : q = [r EXCEPT !.pc = "cancelled", !.sub = FALSE]
      OBVIOUS
    <2>2. q \in Runs /\ q.pc = "cancelled" /\ q.by = r.by /\ q.dropped = r.dropped
      BY <1>3, <2>1 DEF Runs, Live
    <2>3. run' = [run EXCEPT ![m] = q]
      BY <1>1, <1>2, <1>13, <2>1 DEF RunCancelled, Runs
    <2>4. /\ Unfinished(m)
          /\ UNCHANGED <<msg, entry, perm, ask, phase>> /\ busy' \subseteq Agents
      BY <1>1, <1>4, <1>13 DEF RunCancelled
    <2> QED
      BY <1>1, <1>2, <2>2, <2>3, <2>4, TaskKeeps DEF Unfinished, Live
  <1>14. CASE CancelReturns(m)
    <2>1. PICK q : q = [r EXCEPT !.calls = r.calls - 1, !.stream = Append(r.stream, "cancel")]
      OBVIOUS
    <2>2. r.pc = "cancelled" /\ r.calls - 1 \in 0..MaxCancels
      BY <1>2, <1>3, <1>14 DEF CancelReturns, GatewayAssumption
    <2>3. q \in Runs /\ q.pc = "cancelled" /\ q.by = r.by /\ q.dropped = r.dropped
      BY <1>3, <1>5, <2>1, <2>2, AddTyped DEF Runs
    <2>4. run' = [run EXCEPT ![m] = q]
      BY <1>1, <1>2, <1>14, <2>1 DEF CancelReturns, Runs
    <2>5. UNCHANGED <<msg, entry, perm, ask, phase>> /\ busy' \subseteq Agents
      BY <1>1, <1>14 DEF CancelReturns
    <2> QED
      BY <1>1, <1>2, <2>2, <2>3, <2>4, <2>5, TaskKeeps DEF Unfinished, Live
  <1> QED
    BY <1>6, <1>7, <1>8, <1>9, <1>10, <1>11, <1>12, <1>13, <1>14 DEF TaskStep

----------------------------------------------------------------------------
\* An event of the shared agent reaches the streams of its subscribers only.
LEMMA EmitKeeps ==
  ASSUME GatewayAssumption, IInv, NEW m \in Msgs, Emit(m)
  PROVE  IInv'
  <1>1. /\ run' = [o \in Msgs |-> IF run[o].sub /\ Agent(o) = Agent(m)
                                    THEN [run[o] EXCEPT !.stream = Add(@, "event")]
                                    ELSE run[o]]
        /\ UNCHANGED <<msg, entry, busy, perm, ask, phase>>
    BY DEF Emit
  <1>2. \A o \in Msgs : /\ run'[o] \in Runs
                        /\ run'[o].pc = run[o].pc /\ run'[o].by = run[o].by
                        /\ run'[o].dropped = run[o].dropped
    <2> SUFFICES ASSUME NEW o \in Msgs
                 PROVE  /\ run'[o] \in Runs
                        /\ run'[o].pc = run[o].pc /\ run'[o].by = run[o].by
                        /\ run'[o].dropped = run[o].dropped
      OBVIOUS
    <2>1. PICK r \in Runs : r = run[o]
      BY DEF IInv, TypeOK
    <2>2. Add(r.stream, "event") \in Seq(Phases)
      BY AddTyped DEF Runs, Phases
    <2>3. PICK q : q = [r EXCEPT !.stream = Add(r.stream, "event")]
      OBVIOUS
    <2>4. q \in Runs /\ q.pc = r.pc /\ q.by = r.by /\ q.dropped = r.dropped
      BY <2>2, <2>3 DEF Runs
    <2>5. run'[o] = q \/ run'[o] = r
      BY <1>1, <2>1, <2>3
    <2> QED
      BY <2>1, <2>4, <2>5
  <1>3. run' \in [Msgs -> Runs]
    BY <1>1, <1>2
  <1>4. TypeOK'
    BY <1>1, <1>2, <1>3 DEF IInv, TypeOK
  <1> QED
    BY <1>1, <1>2, <1>4 DEF IInv, Sent, Reachable, Marked, Unfinished

\* A message that has no task changes its place.
LEMMA MessageKeeps ==
  ASSUME GatewayAssumption, IInv, NEW m \in Msgs, NEW q \in Messages,
         msg' = [msg EXCEPT ![m] = q], msg[m].at # "task", q.at # "task",
         q.at # "unsent" => q.chat \in Chats,
         q.at = "hooks" => phase.at = "running",
         UNCHANGED <<entry, run, busy, phase>>,
         perm' \in [Chats -> Requests \cup {None}], ask' \in [Requests -> Asks]
  PROVE  IInv'
  <1>1. /\ msg' \in [Msgs -> Messages] /\ msg'[m] = q
        /\ \A o \in Msgs : o # m => msg'[o] = msg[o]
    BY DEF IInv, TypeOK
  <1>2. run[m].pc = "none"
    BY DEF IInv, TypeOK
  <1>3. \A o \in Msgs : Unfinished(o) => o # m
    BY <1>2 DEF Unfinished, Live
  <1>4. TypeOK'
    BY <1>1 DEF IInv, TypeOK
  <1>5. Sent'
    BY <1>1 DEF IInv, Sent
  <1>6. Reachable'
    BY <1>1, <1>3 DEF IInv, Reachable, Unfinished
  <1>7. Marked'
    BY <1>1 DEF IInv, Marked, Unfinished
  <1> QED
    BY <1>4, <1>5, <1>6, <1>7 DEF IInv

\* A message is put on the bus, taken from it, set aside or steered.
LEMMA MovesKeep ==
  ASSUME GatewayAssumption, IInv, NEW m \in Msgs,
         Consume(m) \/ SetAside(m) \/ Steer(m)
  PROVE  IInv'
  <1>1. /\ msg \in [Msgs -> Messages] /\ perm \in [Chats -> Requests \cup {None}]
        /\ ask \in [Requests -> Asks]
    BY DEF IInv, TypeOK
  <1>2. PICK r \in Messages : r = msg[m]
    BY <1>1
  <1>3. CASE SetAside(m) \/ Steer(m)
    <2>1. PICK q : q = [r EXCEPT !.at = "settled"]
      OBVIOUS
    <2>2. q \in Messages /\ q.at = "settled" /\ q.chat = r.chat
      BY <2>1 DEF Messages, Fates
    <2>3. /\ msg' = [msg EXCEPT ![m] = q] /\ r.at = "hooks"
          /\ UNCHANGED <<entry, run, busy, perm, ask, phase>>
      BY <1>1, <1>2, <1>3, <2>1 DEF SetAside, Steer, Handled
    <2>4. q.chat \in Chats
      BY <1>2, <2>2, <2>3 DEF IInv, Sent
    <2> QED
      BY <1>1, <1>2, <2>2, <2>3, <2>4, MessageKeeps
  <1>4. CASE Consume(m)
    <2>1. PICK at \in {"settled", "hooks"} : msg' = [msg EXCEPT ![m].at = at]
      BY <1>4 DEF Consume
    <2>2. PICK q : q = [r EXCEPT !.at = at]
      OBVIOUS
    <2>3. q \in Messages /\ q.at = at /\ q.chat = r.chat
      BY <2>2 DEF Messages, Fates
    <2>4. /\ msg' = [msg EXCEPT ![m] = q] /\ r.at = "bus" /\ phase.at = "running"
          /\ UNCHANGED <<entry, run, busy, phase>>
      BY <1>1, <1>2, <1>4, <2>1, <2>2 DEF Consume, First
    <2>5. q.chat \in Chats /\ r.chat \in Chats
      BY <1>2, <2>3, <2>4 DEF IInv, Sent
    <2>6. perm' \in [Chats -> Requests \cup {None}] /\ ask' \in [Requests -> Asks]
      <3>1. CASE perm[r.chat] = None
        BY <1>1, <1>2, <1>4, <3>1 DEF Consume
      <3>2. CASE perm[r.chat] # None
        <4>1. /\ perm' = [perm EXCEPT ![r.chat] = None]
              /\ ask' = [ask EXCEPT ![perm[r.chat]].pc = "resolved"]
          BY <1>2, <1>4, <3>2 DEF Consume
        <4>2. perm[r.chat] \in Requests
          BY <1>1, <2>5, <3>2
        <4>3. ask' \in [Requests -> Asks]
          BY <1>1, <4>1, <4>2 DEF Asks
        <4> QED
          BY <1>1, <4>1, <4>3
      <3> QED
        BY <3>1, <3>2
    <2> QED
      BY <1>2, <2>3, <2>4, <2>5, <2>6, MessageKeeps
  <1> QED
    BY <1>3, <1>4

\* A channel publishes a message of its own.
LEMMA PublishKeeps ==
  ASSUME GatewayAssumption, IInv, NEW c \in Chats, Publish(c)
  PROVE  IInv'
  <1>1. PICK m \in Msgs :
          /\ msg[m].at = "unsent" /\ msg' = [msg EXCEPT ![m] = [chat |-> c, at |-> "bus"]]
          /\ UNCHANGED <<entry, run, busy, perm, ask, phase>>
    BY DEF Publish
  <1>2. [chat |-> c, at |-> "bus"] \in Messages
    BY DEF Messages
  <1>3. perm \in [Chats -> Requests \cup {None}] /\ ask \in [Requests -> Asks]
    BY DEF IInv, TypeOK
  <1> QED
    BY <1>1, <1>2, <1>3, MessageKeeps

\* A session task starts only for a key that has none unfinished, so the entry
\* that it takes is of no task that is still needed.
LEMMA StartKeeps ==
  ASSUME GatewayAssumption, IInv, NEW m \in Msgs, Start(m)
  PROVE  IInv'
  <1>1. /\ msg \in [Msgs -> Messages] /\ run \in [Msgs -> Runs]
        /\ entry \in [Keys -> Msgs \cup {None}]
    BY DEF IInv, TypeOK
  <1>2. PICK k : k = KeyOf[msg[m].chat]
    OBVIOUS
  <1>3. /\ msg[m].at = "hooks" /\ msg' = [msg EXCEPT ![m].at = "task"] /\ ~Processing(k)
        /\ entry' = [entry EXCEPT ![k] = m] /\ run' = [run EXCEPT ![m].pc = "created"]
        /\ UNCHANGED <<busy, perm, ask, phase>>
    BY <1>2 DEF Start, Handled
  <1>4. msg[m].chat \in Chats /\ k \in Keys
    BY <1>2, <1>3 DEF IInv, Sent, GatewayAssumption
  <1>5. PICK q : q = [msg[m] EXCEPT !.at = "task"]
    OBVIOUS
  <1>6. q \in Messages /\ q.at = "task" /\ q.chat = msg[m].chat
    BY <1>1, <1>5 DEF Messages, Fates
  <1>7. /\ msg' \in [Msgs -> Messages] /\ msg'[m] = q
        /\ \A o \in Msgs : o # m => msg'[o] = msg[o]
    BY <1>1, <1>3, <1>5, <1>6
  <1>8. PICK r : r = [run[m] EXCEPT !.pc = "created"]
    OBVIOUS
  <1>9. r \in Runs /\ r.pc = "created"
    BY <1>1, <1>8 DEF Runs, Live
  <1>10. /\ run' \in [Msgs -> Runs] /\ run'[m] = r
         /\ \A o \in Msgs : o # m => run'[o] = run[o]
    BY <1>1, <1>3, <1>8, <1>9
  <1>11. /\ entry' \in [Keys -> Msgs \cup {None}] /\ entry'[k] = m
         /\ \A l \in Keys : l # k => entry'[l] = entry[l]
    BY <1>1, <1>3, <1>4
  <1>12. TypeOK'
    BY <1>3, <1>6, <1>7, <1>9, <1>10, <1>11 DEF IInv, TypeOK
  <1>13. Sent'
    BY <1>4, <1>6, <1>7 DEF IInv, Sent
  <1>14. Reachable'
    <2> SUFFICES ASSUME NEW o \in Msgs, Unfinished(o)', o # m
                 PROVE  run'[o].dropped \/ entry'[KeyOf[msg'[o].chat]] = o
      BY <1>2, <1>6, <1>7, <1>11 DEF Reachable
    <2>1. Unfinished(o) /\ msg'[o] = msg[o] /\ run'[o] = run[o]
      BY <1>7, <1>10 DEF Unfinished
    <2>2. CASE run[o].dropped
      BY <2>1, <2>2
    <2>3. CASE ~run[o].dropped
      <3>1. entry[KeyOf[msg[o].chat]] = o
        BY <2>1, <2>3 DEF IInv, Reachable
      <3>2. KeyOf[msg[o].chat] # k
        BY <1>3, <2>1, <3>1 DEF Processing
      <3>3. msg[o].chat \in Chats
        BY <2>1 DEF IInv, Sent, TypeOK, Unfinished, Live
      <3>4. KeyOf[msg[o].chat] \in Keys
        BY <3>3 DEF GatewayAssumption
      <3> QED
        BY <1>11, <2>1, <3>1, <3>2, <3>4
    <2> QED
      BY <2>2, <2>3
  <1>15. Marked'
    <2> SUFFICES ASSUME phase.at = "stopping", NEW o \in Msgs \ {phase.self}
                 PROVE  /\ msg'[o].at # "hooks"
                        /\ Unfinished(o)' => run'[o].dropped \/ "stop" \in run'[o].by
      BY <1>3 DEF Marked
    <2>1. o # m
      BY <1>3 DEF IInv, Marked
    <2>2. msg'[o] = msg[o] /\ run'[o] = run[o]
      BY <1>7, <1>10, <2>1
    <2> QED
      BY <2>2 DEF IInv, Marked, Unfinished
  <1> QED
    BY <1>12, <1>13, <1>14, <1>15 DEF IInv

\* /new drops an entry, and marks its task as dropped.
LEMMA NewSessionKeeps ==
  ASSUME GatewayAssumption, IInv, NEW m \in Msgs, NewSession(m)
  PROVE  IInv'
  <1>1. /\ msg \in [Msgs -> Messages] /\ run \in [Msgs -> Runs]
        /\ entry \in [Keys -> Msgs \cup {None}]
    BY DEF IInv, TypeOK
  <1>2. PICK k : k = KeyOf[msg[m].chat]
    OBVIOUS
  <1>3. /\ msg[m].at = "hooks" /\ msg' = [msg EXCEPT ![m].at = "settled"]
        /\ entry' = [entry EXCEPT ![k] = None]
        /\ run' = [o \in Msgs |-> IF o = entry[k] THEN [run[o] EXCEPT !.dropped = TRUE]
                                                  ELSE run[o]]
        /\ UNCHANGED <<busy, perm, ask, phase>>
    BY <1>2 DEF NewSession, Handled
  <1>4. msg[m].chat \in Chats /\ k \in Keys
    BY <1>2, <1>3 DEF IInv, Sent, GatewayAssumption
  <1>5. PICK q : q = [msg[m] EXCEPT !.at = "settled"]
    OBVIOUS
  <1>6. q \in Messages /\ q.at = "settled" /\ q.chat = msg[m].chat
    BY <1>1, <1>5 DEF Messages, Fates
  <1>7. /\ msg' \in [Msgs -> Messages] /\ msg'[m] = q
        /\ \A o \in Msgs : o # m => msg'[o] = msg[o]
    BY <1>1, <1>3, <1>5, <1>6
  <1>8. \A o \in Msgs : /\ run'[o] \in Runs /\ run'[o].pc = run[o].pc /\ run'[o].by = run[o].by
                        /\ run'[o].dropped <=> run[o].dropped \/ o = entry[k]
    <2> SUFFICES ASSUME NEW o \in Msgs
                 PROVE  /\ run'[o] \in Runs /\ run'[o].pc = run[o].pc /\ run'[o].by = run[o].by
                        /\ run'[o].dropped <=> run[o].dropped \/ o = entry[k]
      OBVIOUS
    <2>1. PICK r \in Runs : r = run[o]
      BY <1>1
    <2>2. PICK d : d = [r EXCEPT !.dropped = TRUE]
      OBVIOUS
    <2>3. d \in Runs /\ d.pc = r.pc /\ d.by = r.by /\ d.dropped = TRUE
      BY <2>2 DEF Runs
    <2>4. run'[o] = IF o = entry[k] THEN d ELSE r
      BY <1>3, <2>1, <2>2
    <2> QED
      BY <2>1, <2>3, <2>4
  <1>9. run' \in [Msgs -> Runs]
    BY <1>3, <1>8
  <1>10. /\ entry' \in [Keys -> Msgs \cup {None}]
         /\ \A l \in Keys : l # k => entry'[l] = entry[l]
    BY <1>1, <1>3, <1>4
  <1>11. TypeOK'
    BY <1>3, <1>6, <1>7, <1>8, <1>9, <1>10 DEF IInv, TypeOK
  <1>12. Sent'
    BY <1>4, <1>6, <1>7 DEF IInv, Sent
  <1>13. \A o \in Msgs : msg'[o].chat = msg[o].chat
    BY <1>6, <1>7
  <1>14. Reachable'
    <2> SUFFICES ASSUME NEW o \in Msgs, Unfinished(o), ~run'[o].dropped
                 PROVE  entry'[KeyOf[msg[o].chat]] = o
      BY <1>8, <1>13 DEF Reachable, Unfinished
    <2>1. entry[KeyOf[msg[o].chat]] = o /\ o # entry[k]
      BY <1>8 DEF IInv, Reachable
    <2>2. msg[o].chat \in Chats
      BY DEF IInv, Sent, TypeOK, Unfinished, Live
    <2>3. KeyOf[msg[o].chat] \in Keys
      BY <2>2 DEF GatewayAssumption
    <2> QED
      BY <1>10, <2>1, <2>3
  <1>15. Marked'
    <2>1. \A o \in Msgs : msg'[o].at = "hooks" => msg[o].at = "hooks"
      BY <1>6, <1>7
    <2> QED
      BY <1>3, <1>8, <2>1 DEF IInv, Marked, Unfinished
  <1> QED
    BY <1>11, <1>12, <1>14, <1>15 DEF IInv

\* cancel_session only marks the task that it finds.
LEMMA CancelSessionKeeps ==
  ASSUME GatewayAssumption, IInv, NEW c \in Chats, CancelSession(c)
  PROVE  IInv'
  <1>1. PICK m \in Msgs :
          /\ Unfinished(m) /\ (msg[m].chat = c => Room(m))
          /\ run' = [run EXCEPT ![m].by = @ \cup {"cancel_session"},
                       ![m].calls = IF msg[m].chat = c THEN @ + 1 ELSE @]
          /\ UNCHANGED <<msg, entry, busy, perm, ask, phase>>
    BY DEF CancelSession
  <1>2. PICK r \in Runs : r = run[m]
    BY DEF IInv, TypeOK
  <1>8. PICK calls : calls = IF msg[m].chat = c THEN r.calls + 1 ELSE r.calls
    OBVIOUS
  <1>3. PICK q : q = [r EXCEPT !.by = r.by \cup {"cancel_session"}, !.calls = calls]
    OBVIOUS
  <1>4. calls \in 0..MaxCancels
    <2>1. r.calls \in 0..MaxCancels
      BY DEF Runs
    <2> QED
      BY <1>1, <1>2, <1>8, <2>1 DEF Room, GatewayAssumption
  <1>5. q \in Runs /\ q.pc = r.pc /\ q.dropped = r.dropped /\ r.by \subseteq q.by
    BY <1>3, <1>4 DEF Runs, Callers
  <1>6. run' = [run EXCEPT ![m] = q] /\ busy' \subseteq Agents
    BY <1>1, <1>2, <1>3, <1>8 DEF IInv, TypeOK
  <1>7. run[m].pc # "none"
    BY <1>1 DEF Unfinished, Live
  <1> QED
    BY <1>1, <1>2, <1>5, <1>6, <1>7, TaskKeeps

\* stop finds a handler or an entry for everything that is not dropped.
LEMMA StopKeeps ==
  ASSUME GatewayAssumption, IInv, Stop
  PROVE  IInv'
  <1>1. /\ msg \in [Msgs -> Messages] /\ run \in [Msgs -> Runs]
        /\ entry \in [Keys -> Msgs \cup {None}]
    BY DEF IInv, TypeOK
  <1>2. PICK self \in Msgs \cup {None} :
          /\ phase' = [at |-> "stopping", self |-> self] /\ UNCHANGED <<entry, busy, perm, ask>>
          /\ msg' = [m \in Msgs |-> IF m \in Msgs \ {self} /\ msg[m].at = "hooks"
                                      THEN [msg[m] EXCEPT !.at = "settled"] ELSE msg[m]]
          /\ run' = [m \in Msgs |-> IF m \in Entries \ {self} /\ Unfinished(m)
                                      THEN [run[m] EXCEPT !.by = @ \cup {"stop"}] ELSE run[m]]
    BY DEF Stop, Stops
  <1>3. \A o \in Msgs : /\ msg'[o] \in Messages /\ msg'[o].chat = msg[o].chat
                        /\ msg'[o].at = IF o # self /\ msg[o].at = "hooks"
                                          THEN "settled" ELSE msg[o].at
    <2> SUFFICES ASSUME NEW o \in Msgs
                 PROVE  /\ msg'[o] \in Messages /\ msg'[o].chat = msg[o].chat
                        /\ msg'[o].at = IF o # self /\ msg[o].at = "hooks"
                                          THEN "settled" ELSE msg[o].at
      OBVIOUS
    <2>1. PICK r \in Messages : r = msg[o]
      BY <1>1
    <2>2. PICK d : d = [r EXCEPT !.at = "settled"]
      OBVIOUS
    <2>3. d \in Messages /\ d.chat = r.chat /\ d.at = "settled"
      BY <2>2 DEF Messages, Fates
    <2>4. msg'[o] = IF o # self /\ r.at = "hooks" THEN d ELSE r
      BY <1>2, <2>1, <2>2
    <2> QED
      BY <2>1, <2>3, <2>4
  <1>4. \A o \in Msgs : /\ run'[o] \in Runs /\ run'[o].pc = run[o].pc
                        /\ run'[o].dropped = run[o].dropped
                        /\ o \in Entries \ {self} /\ Unfinished(o) => "stop" \in run'[o].by
    <2> SUFFICES ASSUME NEW o \in Msgs
                 PROVE  /\ run'[o] \in Runs /\ run'[o].pc = run[o].pc
                        /\ run'[o].dropped = run[o].dropped
                        /\ o \in Entries \ {self} /\ Unfinished(o) => "stop" \in run'[o].by
      OBVIOUS
    <2>1. PICK r \in Runs : r = run[o]
      BY <1>1
    <2>2. PICK d : d = [r EXCEPT !.by = r.by \cup {"stop"}]
      OBVIOUS
    <2>3. d \in Runs /\ d.pc = r.pc /\ d.dropped = r.dropped /\ "stop" \in d.by
      BY <2>2 DEF Runs, Callers
    <2>4. run'[o] = IF o \in Entries \ {self} /\ Unfinished(o) THEN d ELSE r
      BY <1>2, <2>1, <2>2
    <2> QED
      BY <2>1, <2>3, <2>4
  <1>5. msg' \in [Msgs -> Messages] /\ run' \in [Msgs -> Runs]
    BY <1>2, <1>3, <1>4
  <1>6. TypeOK'
    BY <1>2, <1>3, <1>4, <1>5 DEF IInv, TypeOK
  <1>7. Sent'
    BY <1>3 DEF IInv, Sent
  <1>8. Reachable'
    BY <1>2, <1>3, <1>4 DEF IInv, Reachable, Unfinished
  <1>9. Marked'
    <2> SUFFICES ASSUME NEW o \in Msgs, o # self, Unfinished(o), ~run[o].dropped
                 PROVE  "stop" \in run'[o].by
      BY <1>2, <1>3, <1>4 DEF Marked, Unfinished
    <2>1. entry[KeyOf[msg[o].chat]] = o
      BY DEF IInv, Reachable
    <2>2. msg[o].chat \in Chats
      BY DEF IInv, Sent, TypeOK, Unfinished, Live
    <2>3. KeyOf[msg[o].chat] \in Keys /\ o # None
      BY <2>2 DEF GatewayAssumption, Msgs, None
    <2>4. o \in Entries
      BY <2>1, <2>3 DEF Entries
    <2> QED
      BY <1>4, <2>4
  <1> QED
    BY <1>6, <1>7, <1>8, <1>9 DEF IInv

\* Permission requests touch no message and no task.
LEMMA AskKeeps ==
  ASSUME GatewayAssumption, IInv, NEW r \in Requests,
         AskEnds(r) \/ \E c \in Asking : Ask(r, c)
  PROVE  IInv'
  <1>1. ask \in [Requests -> Asks] /\ perm \in [Chats -> Requests \cup {None}]
    BY DEF IInv, TypeOK
  <1>2. PICK a \in Asks : a = ask[r]
    BY <1>1
  <1>3. UNCHANGED <<msg, entry, run, busy, phase>>
    BY DEF AskEnds, Ask
  <1>4. ask' \in [Requests -> Asks] /\ perm' \in [Chats -> Requests \cup {None}]
    <2>1. CASE AskEnds(r)
      <3>1. PICK q : q = [a EXCEPT !.pc = "ended"]
        OBVIOUS
      <3>2. q \in Asks /\ ask' = [ask EXCEPT ![r] = q]
        BY <1>1, <1>2, <2>1, <3>1 DEF Asks, AskEnds
      <3>3. perm' = [perm EXCEPT ![ask[r].chat] = None]
        BY <2>1 DEF AskEnds
      <3> QED
        BY <1>1, <3>2, <3>3
    <2>2. CASE \E c \in Asking : Ask(r, c)
      <3>1. PICK c \in Asking : Ask(r, c)
        BY <2>2
      <3>2. c \in Chats
        BY DEF GatewayAssumption
      <3>3. PICK q : q = [a EXCEPT !.pc = "waiting", !.chat = c]
        OBVIOUS
      <3>4. q \in Asks
        BY <3>2, <3>3 DEF Asks
      <3>5. ask' = [ask EXCEPT ![r] = q] /\ perm' = [perm EXCEPT ![c] = r]
        BY <1>1, <1>2, <3>1, <3>3 DEF Asks, Ask
      <3> QED
        BY <1>1, <3>2, <3>4, <3>5
    <2> QED
      BY <2>1, <2>2
  <1> QED
    BY <1>3, <1>4 DEF IInv, TypeOK, Sent, Reachable, Marked, Unfinished

----------------------------------------------------------------------------
\* A gateway that has started has no message, task or request.
LEMMA Initially ==
  ASSUME GatewayAssumption, Init
  PROVE  IInv
  <1>1. /\ [chat |-> NoChat, at |-> "unsent"] \in Messages
        /\ NoAsk \in Asks
    BY DEF Messages, Asks, NoAsk
  <1>2. NoRun \in Runs
    <2>1. <<>> \in Seq(Phases)
      OBVIOUS
    <2> QED
      BY <2>1 DEF NoRun, Runs
  <1>3. TypeOK
    BY <1>1, <1>2 DEF Init, TypeOK, NoRun
  <1>4. Sent /\ Reachable /\ Marked
    BY DEF Init, Sent, Reachable, Marked, Unfinished, NoRun, Live
  <1> QED
    BY <1>3, <1>4 DEF IInv

\* The invariant is kept by every step.
THEOREM Invariant == Spec => []IInv
  <1>1. Init => IInv
    BY Initially, GatewayAssumption
  <1>2. IInv /\ [Next]_vars => IInv'
    <2> SUFFICES ASSUME IInv, [Next]_vars
                 PROVE  IInv'
      OBVIOUS
    <2>1. CASE \E c \in Chats : Publish(c) \/ CancelSession(c)
      BY <2>1, PublishKeeps, CancelSessionKeeps, GatewayAssumption
    <2>2. CASE \E m \in Msgs : Consume(m) \/ Handle(m) \/ TaskStep(m) \/ Emit(m)
      BY <2>2, MovesKeep, NewSessionKeeps, StartKeeps, TaskStepKeeps, EmitKeeps,
         GatewayAssumption DEF Handle
    <2>3. CASE Stop
      BY <2>3, StopKeeps, GatewayAssumption
    <2>4. CASE \E r \in Requests : AskEnds(r) \/ (\E c \in Asking : Ask(r, c))
      BY <2>4, AskKeeps, GatewayAssumption
    <2>5. CASE UNCHANGED vars
      BY <2>5 DEF vars, IInv, TypeOK, Sent, Reachable, Marked, Unfinished
    <2> QED
      BY <2>1, <2>2, <2>3, <2>4, <2>5 DEF Next
  <1> QED
    BY <1>1, <1>2, PTL DEF Spec

\* The variables keep their types, and a message in a task has that task.
THEOREM TypeCorrect == Spec => []TypeOK
  <1>1. IInv => TypeOK
    BY DEF IInv
  <1> QED
    BY <1>1, Invariant, PTL

\* The task of a session stays where the next message, cancel_session and stop
\* look for it: _handle_incoming checks and replaces an entry without a wait.
THEOREM TasksReachable == Spec => []Reachable
  <1>1. IInv => Reachable
    BY DEF IInv
  <1> QED
    BY <1>1, Invariant, PTL

\* Gateway.stop leaves no handler, and no task but those a /new has dropped and
\* the one that called it.
THEOREM StopReaches == Spec => []StopLeavesNone
  <1>1. IInv => StopLeavesNone
    BY DEF IInv, Marked, StopLeavesNone, Stopped
  <1> QED
    BY <1>1, Invariant, PTL

----------------------------------------------------------------------------
(* What a chat sees of a run.  A stream alone does not say what may follow *)
(* in it: the invariant ties it to the place where the task waits.         *)

\* A run that has begun and not ended: its start, then what was said of it.
Opened(s) ==
  /\ s # <<>> /\ s[1] = "start"
  /\ \A i \in DOMAIN s : i # 1 => s[i] \in {"event", "error"}

\* A run that has ended.
Closes(s) == \E o \in Seq(Phases) : Opened(o) /\ s = Append(o, "final")

\* A run that was cancelled: what was said of it, if anything was, up to place n,
\* and the ENDs of the calls that awaited it.
Cut(s) ==
  \E n \in 0..Len(s) :
    /\ \A i \in 1..n : IF i = 1 THEN s[i] = "start" ELSE s[i] \in {"event", "error"}
    /\ \A i \in (n + 1)..Len(s) : s[i] = "cancel"

StreamOK(r) ==
  /\ r.pc \in {"none", "created"} => r.stream = <<>>
  /\ r.pc \in Invoked \cup {"sending", "broken"} => Opened(r.stream)
  /\ r.pc = "done" => Closes(r.stream)
  /\ r.pc = "cancelled" => Cut(r.stream)
  /\ r.sub => r.pc \in Invoked

Streams == \A m \in Msgs : StreamOK(run[m])

\* What one step of the gateway can do to a run and its stream.
Begins(r, q)   == /\ r.pc = "created" /\ q.pc \in Invoked
                  /\ q.stream \in {<<"start">>, <<"start", "error">>}
Goes(r, q)     == /\ r.pc \in Invoked /\ q.pc \in Invoked
                  /\ q.stream \in {r.stream, Add(r.stream, "error")}
Hears(r, q)    == /\ r.sub /\ q.sub /\ q.pc = r.pc /\ q.stream = Add(r.stream, "event")
Leaves(r, q)   == /\ r.pc = "leaving" /\ q.pc = "sending" /\ ~q.sub /\ q.stream = r.stream
Finishes(r, q) == /\ r.pc = "sending" /\ q.sub = r.sub
                  /\ \/ q.pc = "done" /\ q.stream = Append(r.stream, "final")
                     \/ q.pc = "broken" /\ q.stream = r.stream
Cancels(r, q)  == /\ r.pc \in Live /\ q.pc = "cancelled" /\ ~q.sub /\ q.stream = r.stream
Ends(r, q)     == /\ r.pc = "cancelled" /\ q.pc = r.pc /\ q.sub = r.sub
                  /\ q.stream = Append(r.stream, "cancel")
Created(r, q)  == /\ r.pc = "none" /\ q.pc = "created" /\ q.sub = r.sub /\ q.stream = r.stream
Rests(r, q)    == q.pc = r.pc /\ q.sub = r.sub /\ q.stream = r.stream

RunStep(r, q) ==
  \/ Begins(r, q) \/ Goes(r, q) \/ Hears(r, q) \/ Leaves(r, q)
  \/ Finishes(r, q) \/ Cancels(r, q) \/ Ends(r, q) \/ Created(r, q) \/ Rests(r, q)

\* An event or a failure published of an open run leaves it open.
LEMMA AddOpened ==
  ASSUME NEW s \in Seq(Phases), Opened(s), NEW p \in {"event", "error"}
  PROVE  Opened(Add(s, p))
  <1>1. p \in Phases
    BY DEF Phases
  <1>2. CASE Add(s, p) = s
    BY <1>2
  <1>3. CASE Add(s, p) = Append(s, p)
    <2>1. /\ Append(s, p) \in Seq(Phases) /\ Len(Append(s, p)) = Len(s) + 1 /\ Len(s) \in Nat
          /\ \A i \in 1..Len(s) : Append(s, p)[i] = s[i]
          /\ Append(s, p)[Len(s) + 1] = p
          /\ DOMAIN Append(s, p) = 1..(Len(s) + 1) /\ DOMAIN s = 1..Len(s)
      BY <1>1
    <2>2. Len(s) >= 1
      BY <2>1 DEF Opened
    <2>3. Append(s, p) # <<>>
      BY <2>1
    <2>4. Append(s, p)[1] = "start"
      BY <2>1, <2>2 DEF Opened
    <2>5. \A i \in DOMAIN Append(s, p) : i # 1 => Append(s, p)[i] \in {"event", "error"}
      BY <2>1 DEF Opened
    <2> QED
      BY <1>3, <2>3, <2>4, <2>5 DEF Opened
  <1> QED
    BY <1>2, <1>3 DEF Add

\* Beginning opens the stream.
LEMMA BeginOpens == Opened(<<"start">>) /\ Opened(<<"start", "error">>)
  BY DEF Opened

\* A run that is cancelled is cut where it was, and stays cut by every END.
LEMMA CutStreams ==
  ASSUME NEW s \in Seq(Phases)
  PROVE  /\ Cut(<<>>)
         /\ Opened(s) => Cut(s)
         /\ Cut(s) => Cut(Append(s, "cancel"))
  <1>1. "cancel" \in Phases
    BY DEF Phases
  <1>2. Cut(<<>>)
    BY DEF Cut
  <1>3. ASSUME Opened(s)
        PROVE  Cut(s)
    <2>1. Len(s) \in 0..Len(s) /\ DOMAIN s = 1..Len(s)
      OBVIOUS
    <2>2. \A i \in 1..Len(s) : IF i = 1 THEN s[i] = "start" ELSE s[i] \in {"event", "error"}
      BY <1>3, <2>1 DEF Opened
    <2> QED
      BY <2>1, <2>2 DEF Cut
  <1>4. ASSUME Cut(s)
        PROVE  Cut(Append(s, "cancel"))
    <2>1. PICK n \in 0..Len(s) :
            /\ \A i \in 1..n : IF i = 1 THEN s[i] = "start" ELSE s[i] \in {"event", "error"}
            /\ \A i \in (n + 1)..Len(s) : s[i] = "cancel"
      BY <1>4 DEF Cut
    <2>2. /\ Len(s) \in Nat /\ Len(Append(s, "cancel")) = Len(s) + 1
          /\ \A i \in 1..Len(s) : Append(s, "cancel")[i] = s[i]
          /\ Append(s, "cancel")[Len(s) + 1] = "cancel"
      BY <1>1
    <2>3. n \in 0..Len(Append(s, "cancel"))
      BY <2>2
    <2>4. \A i \in 1..n : IF i = 1 THEN Append(s, "cancel")[i] = "start"
                                   ELSE Append(s, "cancel")[i] \in {"event", "error"}
      BY <2>1, <2>2
    <2>5. \A i \in (n + 1)..Len(Append(s, "cancel")) : Append(s, "cancel")[i] = "cancel"
      BY <2>1, <2>2
    <2> QED
      BY <2>3, <2>4, <2>5 DEF Cut
  <1> QED
    BY <1>2, <1>3, <1>4

\* No step breaks the tie between a run's place and its stream.
LEMMA RunStepKeeps ==
  ASSUME NEW r \in Runs, StreamOK(r), NEW q, RunStep(r, q)
  PROVE  StreamOK(q)
  <1>1. r.stream \in Seq(Phases) /\ r.pc \in Live \cup {"none", "done", "broken", "cancelled"}
    BY DEF Runs
  <1>2. CASE Begins(r, q)
    BY <1>2, BeginOpens DEF Begins, StreamOK, Invoked
  <1>3. CASE Goes(r, q)
    <2>1. Opened(r.stream)
      BY <1>3 DEF Goes, StreamOK
    <2>2. Opened(q.stream)
      BY <1>1, <1>3, <2>1, AddOpened DEF Goes
    <2> QED
      BY <1>3, <2>2 DEF Goes, StreamOK, Invoked
  <1>4. CASE Hears(r, q)
    <2>1. r.pc \in Invoked /\ Opened(r.stream)
      BY <1>4 DEF Hears, StreamOK
    <2>2. Opened(q.stream)
      BY <1>1, <1>4, <2>1, AddOpened DEF Hears
    <2> QED
      BY <1>4, <2>1, <2>2 DEF Hears, StreamOK, Invoked
  <1>5. CASE Leaves(r, q)
    BY <1>5 DEF Leaves, StreamOK, Invoked
  <1>6. CASE Finishes(r, q)
    <2>1. Opened(r.stream) /\ ~q.sub
      BY <1>6 DEF Finishes, StreamOK, Invoked
    <2>2. CASE q.pc = "done" /\ q.stream = Append(r.stream, "final")
      <3>1. Closes(q.stream)
        BY <1>1, <2>1, <2>2 DEF Closes
      <3> QED
        BY <2>1, <2>2, <3>1 DEF StreamOK, Invoked
    <2>3. CASE q.pc = "broken" /\ q.stream = r.stream
      BY <2>1, <2>3 DEF StreamOK, Invoked
    <2> QED
      BY <1>6, <2>2, <2>3 DEF Finishes
  <1>7. CASE Cancels(r, q)
    <2>1. Cut(q.stream)
      <3>1. CASE r.pc = "created"
        BY <1>1, <1>7, <3>1, CutStreams DEF Cancels, StreamOK
      <3>2. CASE r.pc # "created"
        <4>1. Opened(r.stream)
          BY <1>7, <3>2 DEF Cancels, StreamOK, Live, Invoked
        <4> QED
          BY <1>1, <1>7, <4>1, CutStreams DEF Cancels
      <3> QED
        BY <3>1, <3>2
    <2> QED
      BY <1>7, <2>1 DEF Cancels, StreamOK, Invoked
  <1>10. CASE Ends(r, q)
    <2>1. Cut(q.stream)
      BY <1>1, <1>10, CutStreams DEF Ends, StreamOK
    <2> QED
      BY <1>10, <2>1 DEF Ends, StreamOK, Invoked
  <1>8. CASE Created(r, q)
    BY <1>8 DEF Created, StreamOK, Invoked
  <1>9. CASE Rests(r, q)
    BY <1>9 DEF Rests, StreamOK
  <1> QED
    BY <1>2, <1>3, <1>4, <1>5, <1>6, <1>7, <1>8, <1>9, <1>10 DEF RunStep

\* A step of one run's task.
LEMMA OneRunSteps ==
  ASSUME run \in [Msgs -> Runs], NEW m \in Msgs, TaskStep(m) \/ (IInv /\ Start(m))
  PROVE  \A o \in Msgs : RunStep(run[o], run'[o])
  <1>1. PICK r \in Runs : r = run[m]
    OBVIOUS
  <1>2. r = [pc |-> r.pc, by |-> r.by, calls |-> r.calls, sub |-> r.sub,
             dropped |-> r.dropped, stream |-> r.stream]
    BY DEF Runs
  <1>3. ASSUME NEW q, run' = [run EXCEPT ![m] = q], RunStep(r, q)
        PROVE  \A o \in Msgs : RunStep(run[o], run'[o])
    BY <1>1, <1>3 DEF RunStep, Rests
  <1>4. CASE Begin(m)
    <2>1. PICK pc \in {"leaving", "prepare"}, s \in {<<"start">>, <<"start", "error">>} :
            run' = [run EXCEPT ![m].sub = TRUE, ![m].pc = pc, ![m].stream = s]
      BY <1>4 DEF Begin
    <2>2. PICK q : q = [r EXCEPT !.sub = TRUE, !.pc = pc, !.stream = s]
      OBVIOUS
    <2>3. run' = [run EXCEPT ![m] = q] /\ q.pc = pc /\ q.stream = s
      BY <1>1, <1>2, <2>1, <2>2
    <2>4. Begins(r, q)
      BY <1>1, <1>4, <2>3 DEF Begins, Begin, Steps, Invoked
    <2> QED
      BY <1>3, <2>3, <2>4 DEF RunStep
  <1>5. CASE TurnStarts(m) \/ TurnEnds(m)
    <2>1. PICK pc \in {"turn", "leaving"} : run' = [run EXCEPT ![m].pc = pc]
      BY <1>5 DEF TurnStarts, TurnEnds
    <2>2. PICK q : q = [r EXCEPT !.pc = pc]
      OBVIOUS
    <2>3. run' = [run EXCEPT ![m] = q] /\ q.pc = pc /\ q.stream = r.stream
      BY <1>1, <1>2, <2>1, <2>2
    <2>4. Goes(r, q)
      BY <1>1, <1>5, <2>3 DEF Goes, TurnStarts, TurnEnds, Steps, Invoked
    <2> QED
      BY <1>3, <2>3, <2>4 DEF RunStep
  <1>6. CASE Fails(m)
    <2>1. PICK q : q = [r EXCEPT !.pc = "leaving", !.stream = Add(r.stream, "error")]
      OBVIOUS
    <2>2. run' = [run EXCEPT ![m] = q] /\ q.pc = "leaving" /\ q.stream = Add(r.stream, "error")
      BY <1>1, <1>2, <1>6, <2>1 DEF Fails
    <2>3. Goes(r, q)
      BY <1>1, <1>6, <2>2 DEF Goes, Fails, Steps, Invoked
    <2> QED
      BY <1>3, <2>2, <2>3 DEF RunStep
  <1>7. CASE Returns(m)
    <2>1. PICK q : q = [r EXCEPT !.pc = "sending", !.sub = FALSE]
      OBVIOUS
    <2>2. run' = [run EXCEPT ![m] = q] /\ q.pc = "sending" /\ q.sub = FALSE /\ q.stream = r.stream
      BY <1>1, <1>2, <1>7, <2>1 DEF Returns
    <2>3. Leaves(r, q)
      BY <1>1, <1>7, <2>2 DEF Leaves, Returns, Steps
    <2> QED
      BY <1>3, <2>2, <2>3 DEF RunStep
  <1>8. CASE Done(m)
    <2>1. PICK q : q = [r EXCEPT !.pc = "done", !.stream = Append(r.stream, "final")]
      OBVIOUS
    <2>2. /\ run' = [run EXCEPT ![m] = q] /\ q.pc = "done" /\ q.sub = r.sub
          /\ q.stream = Append(r.stream, "final")
      BY <1>1, <1>2, <1>8, <2>1 DEF Done
    <2>3. Finishes(r, q)
      BY <1>1, <1>8, <2>2 DEF Finishes, Done, Steps
    <2> QED
      BY <1>3, <2>2, <2>3 DEF RunStep
  <1>11. CASE SendFails(m)
    <2>1. PICK q : q = [r EXCEPT !.pc = "broken"]
      OBVIOUS
    <2>2. run' = [run EXCEPT ![m] = q] /\ q.pc = "broken" /\ q.sub = r.sub /\ q.stream = r.stream
      BY <1>1, <1>2, <1>11, <2>1 DEF SendFails
    <2>3. Finishes(r, q)
      BY <1>1, <1>11, <2>2 DEF Finishes, SendFails, Steps
    <2> QED
      BY <1>3, <2>2, <2>3 DEF RunStep
  <1>9. CASE RunCancelled(m)
    <2>1. PICK q : q = [r EXCEPT !.pc = "cancelled", !.sub = FALSE]
      OBVIOUS
    <2>2. run' = [run EXCEPT ![m] = q] /\ q.pc = "cancelled" /\ q.sub = FALSE
          /\ q.stream = r.stream
      BY <1>1, <1>2, <1>9, <2>1 DEF RunCancelled
    <2>3. Cancels(r, q)
      BY <1>1, <1>9, <2>2 DEF Cancels, RunCancelled, Unfinished
    <2> QED
      BY <1>3, <2>2, <2>3 DEF RunStep
  <1>12. CASE CancelReturns(m)
    <2>1. PICK q : q = [r EXCEPT !.calls = r.calls - 1, !.stream = Append(r.stream, "cancel")]
      OBVIOUS
    <2>2. run' = [run EXCEPT ![m] = q] /\ q.pc = r.pc /\ q.sub = r.sub
          /\ q.stream = Append(r.stream, "cancel")
      BY <1>1, <1>2, <1>12, <2>1 DEF CancelReturns
    <2>3. Ends(r, q)
      BY <1>1, <1>12, <2>2 DEF Ends, CancelReturns
    <2> QED
      BY <1>3, <2>2, <2>3 DEF RunStep
  <1>10. CASE IInv /\ Start(m)
    <2>1. PICK q : q = [r EXCEPT !.pc = "created"]
      OBVIOUS
    <2>2. run' = [run EXCEPT ![m] = q] /\ q.pc = "created" /\ q.sub = r.sub /\ q.stream = r.stream
      BY <1>1, <1>2, <1>10, <2>1 DEF Start
    <2>3. r.pc = "none"
      BY <1>1, <1>10 DEF Start, Handled, IInv, TypeOK
    <2>4. Created(r, q)
      BY <2>2, <2>3 DEF Created
    <2> QED
      BY <1>3, <2>2, <2>4 DEF RunStep
  <1> QED
    BY <1>4, <1>5, <1>6, <1>7, <1>8, <1>9, <1>10, <1>11, <1>12 DEF TaskStep

\* An event of the shared agent is heard by its subscribers.
LEMMA EmitSteps ==
  ASSUME run \in [Msgs -> Runs], NEW m \in Msgs, Emit(m)
  PROVE  \A o \in Msgs : RunStep(run[o], run'[o])
  <1> SUFFICES ASSUME NEW o \in Msgs
               PROVE  RunStep(run[o], run'[o])
    OBVIOUS
  <1>1. PICK r \in Runs : r = run[o]
    OBVIOUS
  <1>2. PICK q : q = [r EXCEPT !.stream = Add(r.stream, "event")]
    OBVIOUS
  <1>3. q.pc = r.pc /\ q.sub = r.sub /\ q.stream = Add(r.stream, "event")
    BY <1>2 DEF Runs
  <1>4. run'[o] = IF r.sub /\ Agent(o) = Agent(m) THEN q ELSE r
    BY <1>1, <1>2 DEF Emit
  <1>5. CASE r.sub /\ Agent(o) = Agent(m)
    BY <1>1, <1>3, <1>4, <1>5 DEF RunStep, Hears
  <1>6. CASE ~(r.sub /\ Agent(o) = Agent(m))
    BY <1>1, <1>4, <1>6 DEF RunStep, Rests
  <1> QED
    BY <1>5, <1>6

\* Cancelling, stopping and dropping an entry publish nothing of a run.
LEMMA MarksRest ==
  ASSUME run \in [Msgs -> Runs],
         \/ \E c \in Chats : CancelSession(c)
         \/ \E m \in Msgs : NewSession(m)
         \/ Stop
  PROVE  \A o \in Msgs : RunStep(run[o], run'[o])
  <1> SUFFICES ASSUME NEW o \in Msgs
               PROVE  Rests(run[o], run'[o])
    BY DEF RunStep
  <1>1. PICK r \in Runs : r = run[o]
    OBVIOUS
  <1>2. ASSUME NEW by
        PROVE  Rests(r, [r EXCEPT !.by = by])
    BY DEF Runs, Rests
  <1>7. ASSUME NEW by, NEW calls
        PROVE  Rests(r, [r EXCEPT !.by = by, !.calls = calls])
    BY DEF Runs, Rests
  <1>3. Rests(r, [r EXCEPT !.dropped = TRUE]) /\ Rests(r, r)
    BY DEF Runs, Rests
  <1>4. CASE \E c \in Chats : CancelSession(c)
    <2>1. PICK c \in Chats, m \in Msgs :
            run' = [run EXCEPT ![m].by = @ \cup {"cancel_session"},
                      ![m].calls = IF msg[m].chat = c THEN @ + 1 ELSE @]
      BY <1>4 DEF CancelSession
    <2>3. PICK calls : calls = IF msg[m].chat = c THEN r.calls + 1 ELSE r.calls
      OBVIOUS
    <2>2. \/ run'[o] = [r EXCEPT !.by = r.by \cup {"cancel_session"}, !.calls = calls]
          \/ run'[o] = r
      BY <1>1, <2>1, <2>3
    <2>4. Rests(r, [r EXCEPT !.by = r.by \cup {"cancel_session"}, !.calls = calls])
      BY <1>7
    <2> QED
      BY <1>1, <1>3, <2>2, <2>4
  <1>5. CASE \E m \in Msgs : NewSession(m)
    <2>1. run'[o] = [r EXCEPT !.dropped = TRUE] \/ run'[o] = r
      BY <1>1, <1>5 DEF NewSession
    <2> QED
      BY <1>1, <1>3, <2>1
  <1>6. CASE Stop
    <2>1. run'[o] = [r EXCEPT !.by = r.by \cup {"stop"}] \/ run'[o] = r
      BY <1>1, <1>6 DEF Stop, Stops
    <2> QED
      BY <1>1, <1>2, <1>3, <2>1
  <1> QED
    BY <1>4, <1>5, <1>6

\* Whatever the gateway does, each run takes one of those steps.
LEMMA RunsStep ==
  ASSUME IInv, [Next]_vars
  PROVE  \A o \in Msgs : RunStep(run[o], run'[o])
  <1>1. run \in [Msgs -> Runs]
    BY DEF IInv, TypeOK
  <1>2. ASSUME UNCHANGED run
        PROVE  \A o \in Msgs : RunStep(run[o], run'[o])
    BY <1>2 DEF RunStep, Rests
  <1>3. CASE \E c \in Chats : Publish(c)
    BY <1>2, <1>3 DEF Publish
  <1>4. CASE \E m \in Msgs : Consume(m) \/ SetAside(m) \/ Steer(m)
    BY <1>2, <1>4 DEF Consume, SetAside, Steer
  <1>5. CASE \E m \in Msgs : TaskStep(m) \/ Start(m)
    BY <1>1, <1>5, OneRunSteps
  <1>6. CASE \E m \in Msgs : Emit(m)
    BY <1>1, <1>6, EmitSteps
  <1>7. CASE (\E c \in Chats : CancelSession(c)) \/ (\E m \in Msgs : NewSession(m)) \/ Stop
    BY <1>1, <1>7, MarksRest
  <1>8. CASE \E r \in Requests : AskEnds(r) \/ (\E c \in Asking : Ask(r, c))
    BY <1>2, <1>8 DEF AskEnds, Ask
  <1>9. CASE UNCHANGED vars
    BY <1>2, <1>9 DEF vars
  <1> QED
    BY <1>3, <1>4, <1>5, <1>6, <1>7, <1>8, <1>9 DEF Next, Handle

\* What StreamsClose says of one stream.
OneEnd(s) ==
  \A i \in DOMAIN s : /\ s[i] = "start" <=> i = 1 /\ s[1] # "cancel"
                      /\ s[i] = "final" => i = Len(s)
                      /\ s[i] = "cancel" => \A j \in i..Len(s) : s[j] = "cancel"

\* It holds of an open stream, of an ended one, and of one that was cut.
LEMMA StreamEnds ==
  ASSUME NEW r \in Runs, StreamOK(r)
  PROVE  OneEnd(r.stream)
  <1>1. ASSUME NEW s \in Seq(Phases), Opened(s)
        PROVE  OneEnd(s)
    <2>1. s[1] = "start"
      BY <1>1 DEF Opened
    <2>2. \A i \in DOMAIN s : i = 1 \/ s[i] \in {"event", "error"}
      BY <1>1 DEF Opened
    <2> QED
      BY <2>1, <2>2 DEF OneEnd
  <1>2. ASSUME NEW s, Closes(s)
        PROVE  OneEnd(s)
    <2>1. PICK o \in Seq(Phases) : Opened(o) /\ s = Append(o, "final")
      BY <1>2 DEF Closes
    <2>2. /\ Len(s) = Len(o) + 1 /\ Len(o) \in Nat /\ DOMAIN s = 1..(Len(o) + 1)
          /\ DOMAIN o = 1..Len(o) /\ s[Len(o) + 1] = "final"
          /\ \A i \in 1..Len(o) : s[i] = o[i]
      BY <2>1 DEF Phases
    <2>3. Len(o) >= 1
      BY <2>1, <2>2 DEF Opened
    <2>4. s[1] = "start"
      BY <2>1, <2>2, <2>3 DEF Opened
    <2>5. \A i \in DOMAIN s : i = 1 \/ i = Len(s) \/ s[i] \in {"event", "error"}
      BY <2>1, <2>2 DEF Opened
    <2>6. s[Len(s)] = "final"
      BY <2>2
    <2> QED
      BY <2>2, <2>3, <2>4, <2>5, <2>6 DEF OneEnd
  <1>3. ASSUME NEW s \in Seq(Phases), Cut(s)
        PROVE  OneEnd(s)
    <2>1. PICK n \in 0..Len(s) :
            /\ \A i \in 1..n : IF i = 1 THEN s[i] = "start" ELSE s[i] \in {"event", "error"}
            /\ \A i \in (n + 1)..Len(s) : s[i] = "cancel"
      BY <1>3 DEF Cut
    <2> SUFFICES ASSUME NEW i \in DOMAIN s
                 PROVE  /\ s[i] = "start" <=> i = 1 /\ s[1] # "cancel"
                        /\ s[i] = "final" => i = Len(s)
                        /\ s[i] = "cancel" => \A j \in i..Len(s) : s[j] = "cancel"
      BY DEF OneEnd
    <2>2. i \in 1..Len(s) /\ Len(s) \in Nat
      OBVIOUS
    <2>3. CASE i \in 1..n
      BY <2>1, <2>2, <2>3
    <2>4. CASE i \in (n + 1)..Len(s)
      BY <2>1, <2>2, <2>4
    <2> QED
      BY <2>2, <2>3, <2>4
  <1>4. r.stream = <<>> \/ Opened(r.stream) \/ Closes(r.stream) \/ Cut(r.stream)
    BY DEF StreamOK, Runs, Live, Invoked
  <1>5. r.stream \in Seq(Phases) /\ OneEnd(<<>>)
    BY DEF Runs, OneEnd
  <1> QED
    BY <1>1, <1>2, <1>3, <1>4, <1>5

\* The place where a session task waits tells what has been published of it.
THEOREM StreamInvariant == Spec => []Streams
  <1>1. Init => Streams
    BY DEF Init, Streams, StreamOK, NoRun, Invoked
  <1>2. IInv /\ Streams /\ [Next]_vars => Streams'
    <2> SUFFICES ASSUME IInv, Streams, [Next]_vars, NEW m \in Msgs
                 PROVE  StreamOK(run'[m])
      BY DEF Streams
    <2>1. run[m] \in Runs /\ StreamOK(run[m])
      BY DEF IInv, TypeOK, Streams
    <2>2. RunStep(run[m], run'[m])
      BY RunsStep
    <2> QED
      BY <2>1, <2>2, RunStepKeeps
  <1> QED
    BY <1>1, <1>2, Invariant, PTL DEF Spec

\* A chat sees the start of a run first and once, nothing of it after its end,
\* and after its cancellation only the ENDs of the calls of cancel_session that
\* awaited it, whatever the other runs of a shared agent emit (_run_session
\* unsubscribes before it sends the end; each cancel_session awaits the task
\* before it publishes END).
THEOREM StreamsAreClosed == Spec => []StreamsClose
  <1>1. IInv /\ Streams => StreamsClose
    <2> SUFFICES ASSUME IInv, Streams, NEW m \in Msgs
                 PROVE  OneEnd(run[m].stream)
      BY DEF StreamsClose, OneEnd
    <2>1. run[m] \in Runs /\ StreamOK(run[m])
      BY DEF IInv, TypeOK, Streams
    <2> QED
      BY <2>1, StreamEnds
  <1> QED
    BY <1>1, Invariant, StreamInvariant, PTL

----------------------------------------------------------------------------
(* Permission requests *)

\* A registered future is that of its chat's request that still waits: an
\* answer, an end or a later request takes the registration with it.
LEMMA RepliesKeep ==
  ASSUME IInv, RepliesAwaited, [Next]_vars
  PROVE  RepliesAwaited'
  <1>1. ask \in [Requests -> Asks] /\ perm \in [Chats -> Requests \cup {None}]
    BY DEF IInv, TypeOK
  <1>2. CASE UNCHANGED <<perm, ask>>
    BY <1>2 DEF RepliesAwaited
  <1>3. ASSUME NEW r \in Requests, NEW c \in Chats, ask[r].chat = c, NEW q,
               ask' = [ask EXCEPT ![r] = q], perm' = [perm EXCEPT ![c] = None]
        PROVE  RepliesAwaited'
    <2> SUFFICES ASSUME NEW d \in Chats, perm'[d] # None
                 PROVE  ask'[perm'[d]] = [pc |-> "waiting", chat |-> d]
      BY DEF RepliesAwaited
    <2>1. d # c /\ perm'[d] = perm[d]
      BY <1>1, <1>3
    <2>2. perm[d] \in Requests /\ ask[perm[d]] = [pc |-> "waiting", chat |-> d]
      BY <1>1, <2>1 DEF RepliesAwaited
    <2>3. perm[d] # r
      BY <1>3, <2>1, <2>2
    <2> QED
      BY <1>1, <1>3, <2>1, <2>2, <2>3
  <1>4. ASSUME NEW m \in Msgs, Consume(m), msg[m].chat \in Chats, perm[msg[m].chat] # None
        PROVE  RepliesAwaited'
    <2>1. PICK c \in Chats, r \in Requests : c = msg[m].chat /\ r = perm[c]
      BY <1>1, <1>4
    <2>5. ask[perm[c]] = [pc |-> "waiting", chat |-> c]
      BY <1>4, <2>1 DEF RepliesAwaited
    <2>2. ask[r].chat = c
      BY <2>1, <2>5
    <2>3. PICK q : q = [ask[r] EXCEPT !.pc = "resolved"]
      OBVIOUS
    <2>4. perm' = [perm EXCEPT ![c] = None] /\ ask' = [ask EXCEPT ![r] = q]
      BY <1>1, <1>4, <2>1, <2>3 DEF Consume
    <2> QED
      BY <1>3, <2>2, <2>4
  <1>5. CASE \E m \in Msgs : Consume(m)
    <2>1. PICK m \in Msgs : Consume(m)
      BY <1>5
    <2>2. msg[m].chat \in Chats
      BY <2>1 DEF Consume, First, IInv, Sent
    <2>3. CASE perm[msg[m].chat] = None
      BY <1>2, <2>1, <2>3 DEF Consume
    <2> QED
      BY <1>4, <2>1, <2>2, <2>3
  <1>6. CASE \E r \in Requests : AskEnds(r)
    <2>1. PICK r \in Requests : AskEnds(r)
      BY <1>6
    <2>2. PICK q : q = [ask[r] EXCEPT !.pc = "ended"]
      OBVIOUS
    <2>3. ask' = [ask EXCEPT ![r] = q] /\ perm' = [perm EXCEPT ![ask[r].chat] = None]
      BY <1>1, <2>1, <2>2 DEF AskEnds
    <2>4. CASE ask[r].chat \in Chats
      BY <1>3, <2>3, <2>4
    <2>5. CASE ask[r].chat \notin Chats
      <3> SUFFICES ASSUME NEW d \in Chats, perm'[d] # None
                   PROVE  ask'[perm'[d]] = [pc |-> "waiting", chat |-> d]
        BY DEF RepliesAwaited
      <3>1. perm'[d] = perm[d]
        BY <1>1, <2>3, <2>5
      <3>2. perm[d] \in Requests /\ ask[perm[d]] = [pc |-> "waiting", chat |-> d]
        BY <1>1, <3>1 DEF RepliesAwaited
      <3>3. perm[d] # r
        BY <2>5, <3>2
      <3> QED
        BY <1>1, <2>3, <3>1, <3>2, <3>3
    <2> QED
      BY <2>4, <2>5
  <1>7. CASE \E r \in Requests, c \in Asking : Ask(r, c)
    <2>1. PICK r \in Requests, c \in Asking : Ask(r, c)
      BY <1>7
    <2>2. PICK q : q = [ask[r] EXCEPT !.pc = "waiting", !.chat = c]
      OBVIOUS
    <2>3. q = [pc |-> "waiting", chat |-> c]
      BY <1>1, <2>2 DEF Asks
    <2>4. /\ ask[r].pc = "none" /\ ask' = [ask EXCEPT ![r] = q]
          /\ perm' = [perm EXCEPT ![c] = r]
      BY <1>1, <2>1, <2>2 DEF Ask
    <2> SUFFICES ASSUME NEW d \in Chats, perm'[d] # None
                 PROVE  ask'[perm'[d]] = [pc |-> "waiting", chat |-> d]
      BY DEF RepliesAwaited
    <2>5. CASE d = c
      BY <1>1, <2>3, <2>4, <2>5
    <2>6. CASE d # c
      <3>1. perm'[d] = perm[d]
        BY <1>1, <2>4, <2>6
      <3>2. perm[d] \in Requests /\ ask[perm[d]] = [pc |-> "waiting", chat |-> d]
        BY <1>1, <3>1 DEF RepliesAwaited
      <3>3. perm[d] # r
        BY <2>4, <3>2
      <3> QED
        BY <1>1, <2>4, <3>1, <3>2, <3>3
    <2> QED
      BY <2>5, <2>6
  <1>8. CASE \E c \in Chats : Publish(c) \/ CancelSession(c)
    BY <1>2, <1>8 DEF Publish, CancelSession
  <1>9. CASE \E m \in Msgs : Handle(m) \/ Emit(m)
    BY <1>2, <1>9 DEF Handle, SetAside, NewSession, Steer, Start, Emit
  <1>10. CASE \E m \in Msgs : TaskStep(m)
    BY <1>2, <1>10 DEF TaskStep, Begin, TurnStarts, TurnEnds, Fails, Returns, Done, SendFails,
       RunCancelled, CancelReturns
  <1>11. CASE Stop
    BY <1>2, <1>11 DEF Stop, Stops
  <1>12. CASE UNCHANGED vars
    BY <1>2, <1>12 DEF vars
  <1> QED
    BY <1>5, <1>6, <1>7, <1>8, <1>9, <1>10, <1>11, <1>12 DEF Next

\* No message of a chat is taken for the reply to a request that has ended or
\* that another chat has made (_handle_incoming pops the chat's future).
THEOREM RepliesFindRequests == Spec => []RepliesAwaited
  <1>1. Init => RepliesAwaited
    BY DEF Init, RepliesAwaited
  <1>2. IInv /\ RepliesAwaited /\ [Next]_vars => RepliesAwaited'
    BY RepliesKeep
  <1> QED
    BY <1>1, <1>2, Invariant, PTL DEF Spec
=============================================================================
