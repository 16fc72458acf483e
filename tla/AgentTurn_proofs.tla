-------------------------- MODULE AgentTurn_proofs --------------------------
(***************************************************************************)
(* Proofs about AgentTurn, for any callers, any bounds and any faults: the *)
(* types, that no way a turn ends leaves the agent busy, that input is     *)
(* taken in the order it came, and, when no two turns hold the phase at    *)
(* once, that a turn that succeeds has an answer and that its requests are *)
(* whole and complete.                                                     *)
(***************************************************************************)
EXTENDS AgentTurn, SessionTree_proofs, FiniteSetTheorems, SequenceTheorems, TLAPS

\* The phase is not idle only while somebody is at work who will release it.
PhaseHeld == phase # "idle" => \E c \in Callers : run[c].pc \in Busy

IInv == TypeOK /\ PhaseHeld

EngineOK(e) ==
  /\ e.error \in Errors /\ e.owner \in Callers \cup {NoCaller}
  /\ e.inputs \in 0..MaxInputs
  /\ e = [error |-> e.error, owner |-> e.owner, inputs |-> e.inputs,
          steering |-> e.steering, followup |-> e.followup]

----------------------------------------------------------------------------
(* The session *)

\* Appending entries, none of them or any number, gives a session.
LEMMA AppendedSession ==
  ASSUME NEW sess, IsSession(sess), NEW kind, NEW ref \in Nat, NEW n \in Nat,
         kind \in Kinds \/ n = 0
  PROVE  IsSession(Appended(sess, kind, ref, n))
<1> DEFINE new == sess.next..(sess.next + n - 1)
           log == [i \in DOMAIN sess.log \cup new |->
                     IF i \in new
                       THEN NewEntry(kind, IF i = sess.next THEN sess.leaf ELSE i - 1, ref)
                       ELSE sess.log[i]]
           leaf == IF n = 0 THEN sess.leaf ELSE sess.next + n - 1
<1>1. /\ sess.next \in Nat \ {0} /\ IsLog(sess.log)
      /\ DOMAIN sess.log \subseteq 1..(sess.next - 1)
      /\ sess.leaf \in {0} \cup DOMAIN sess.log
  BY DEF IsSession, None
<1>2. Appended(sess, kind, ref, n) = [log |-> log, leaf |-> leaf, next |-> sess.next + n]
  BY DEF Appended
<1>3. \A i \in DOMAIN sess.log \cup new : log[i] \in Entry
  <2> SUFFICES ASSUME NEW i \in DOMAIN sess.log \cup new PROVE log[i] \in Entry
    OBVIOUS
  <2>1. CASE i \in new
    <3>1. (IF i = sess.next THEN sess.leaf ELSE i - 1) \in Nat
      BY <1>1, <2>1
    <3>2. kind \in Kinds
      BY <1>1, <2>1
    <3> QED BY <2>1, <3>1, <3>2 DEF NewEntry, Entry
  <2>2. CASE i \notin new
    BY <1>1, <2>2 DEF IsLog
  <2> QED BY <2>1, <2>2
<1>4. DOMAIN log = DOMAIN sess.log \cup new
  OBVIOUS
<1>5. DOMAIN log \subseteq 1..(sess.next + n - 1)
  BY <1>1, <1>4
<1>6. IsLog(log)
  <2>1. DOMAIN log \subseteq Nat \ {None}
    BY <1>1, <1>5 DEF None
  <2>2. log \in [DOMAIN sess.log \cup new -> Entry]
    BY <1>3
  <2> QED BY <1>4, <2>1, <2>2 DEF IsLog
<1>7. leaf \in {0} \cup DOMAIN log
  BY <1>1, <1>4
<1> HIDE DEF log, leaf
<1> QED BY <1>1, <1>2, <1>5, <1>6, <1>7 DEF IsSession, None

\* The handlers registered are finitely many.
LEMMA FiniteRuns ==
  LET S == {c \in Callers : run[c].pc \in InRun}
  IN  IsFiniteSet(S) /\ Cardinality(S) \in Nat
BY AgentAssumption, FS_Subset, FS_CardinalityType

\* What a run emits is appended by each of them.
LEMMA EmittedSession ==
  ASSUME NEW sess, IsSession(sess), NEW kind \in Kinds
  PROVE  IsSession(Emitted(sess, kind))
BY FiniteRuns, AppendedSession DEF Emitted, None

\* So does taking the message of a failed turn out of it.
LEMMA RolledBack ==
  ASSUME NEW rec, IsSession(rec), NEW uid \in Nat
  PROVE  IsSession([rec EXCEPT !.log = Without(@, uid), !.leaf = LeafWithout(rec.log, @, uid)])
<1>1. PICK log, leaf, next : rec = [log |-> log, leaf |-> leaf, next |-> next]
  BY DEF IsSession
<1>2. PICK rest : rest = Without(log, uid)
  OBVIOUS
<1>3. PICK lf : lf = LeafWithout(log, leaf, uid)
  OBVIOUS
<1>4. PICK new : new = [rec EXCEPT !.log = Without(@, uid), !.leaf = LeafWithout(rec.log, @, uid)]
  OBVIOUS
<1>5. new = [log |-> rest, leaf |-> lf, next |-> next]
  BY <1>1, <1>2, <1>3, <1>4
<1>6. /\ next \in Nat \ {None} /\ IsLog(log) /\ DOMAIN log \subseteq 1..(next - 1)
      /\ leaf \in {None} \cup DOMAIN log
  BY <1>1 DEF IsSession
<1>7. IsLog(rest) /\ DOMAIN rest = DOMAIN log \ {uid}
  BY <1>2, <1>6 DEF Without, IsLog
<1>8. lf \in {None} \cup DOMAIN rest
  <2>1. CASE leaf = uid
    <3>1. lf = Newest(IdsOf(rest, MessageKinds))
      BY <1>2, <1>3, <2>1 DEF LeafWithout
    <3>2. IdsOf(rest, MessageKinds) \subseteq DOMAIN rest
      BY DEF IdsOf
    <3>3. Newest(IdsOf(rest, MessageKinds)) \in IdsOf(rest, MessageKinds) \cup {None}
      BY DEF Newest
    <3> QED BY <3>1, <3>2, <3>3
  <2>2. CASE leaf # uid
    BY <1>3, <1>6, <1>7, <2>2 DEF LeafWithout
  <2> QED BY <2>1, <2>2
<1>9. DOMAIN rest \subseteq 1..(next - 1)
  BY <1>6, <1>7
<1>10. IsSession(new)
  BY <1>5, <1>6, <1>7, <1>8, <1>9 DEF IsSession
<1> QED BY <1>4, <1>10

----------------------------------------------------------------------------
(* The callers *)

\* One caller moves on, and the phase is released or still held by somebody.
Moves(c, r) ==
  /\ IsCall(r)
  /\ run' = [run EXCEPT ![c] = r]
  /\ phase' # "idle" => r.pc \in Busy \/ (phase' = phase /\ run[c].pc \notin Busy)

\* A caller that moves to a state its types allow, releasing the phase or still
\* holding it, keeps the invariant.
LEMMA MovesSafe ==
  ASSUME IInv, NEW c \in Callers, NEW r, Moves(c, r),
         IsSession(s'), s'.next <= MaxId + 1, EngineOK(engine'),
         phase' \in {"idle", "turn", "compaction"}
  PROVE  IInv'
<1>1. /\ run = [d \in Callers |-> run[d]] /\ \A d \in Callers : IsCall(run[d])
      /\ run' = [run EXCEPT ![c] = r] /\ IsCall(r)
  BY DEF IInv, TypeOK, Moves
<1>2. /\ run' = [d \in Callers |-> run'[d]]
      /\ \A d \in Callers : run'[d] = IF d = c THEN r ELSE run[d]
  BY <1>1
<1>3. \A d \in Callers : IsCall(run'[d])
  BY <1>1, <1>2
<1>4. TypeOK'
  BY <1>2, <1>3 DEF TypeOK, EngineOK, IsCall
<1>5. PhaseHeld'
  BY <1>2 DEF Moves, PhaseHeld, IInv
<1> QED BY <1>4, <1>5 DEF IInv

\* What the invariant says of one caller, and of the rest of the state.
Given(c) ==
  /\ IsCall(run[c])
  /\ run = [d \in Callers |-> run[d]]
  /\ IsSession(s) /\ EngineOK(engine) /\ phase \in {"idle", "turn", "compaction"}

\* The invariant gives each caller what its steps rely on.
LEMMA InvGives == ASSUME IInv, NEW c \in Callers PROVE Given(c)
BY DEF IInv, TypeOK, Given, EngineOK

\* An action of caller c that keeps the invariant.
Safe(c) ==
  /\ \E r : Moves(c, r)
  /\ IsSession(s') /\ EngineOK(engine') /\ phase' \in {"idle", "turn", "compaction"}

\* The caller changes where it is and its messages, and nothing else.
GoTo(c, pc, msgs) == run' = [run EXCEPT ![c].pc = pc, ![c].msgs = msgs]
GoOn(c, pc)       == run' = [run EXCEPT ![c].pc = pc]

\* A caller that only changes its place and its messages moves within its types.
LEMMA GoesTo ==
  ASSUME NEW c \in Callers, Given(c), NEW pc \in Stops, NEW msgs,
         pc \in Busy \cup {"post"} => run[c].uid # None,
         pc \in {"compactRetry", "compacting"} => run[c].kept # None,
         GoTo(c, pc, msgs),
         phase' # "idle" => pc \in Busy \/ (phase' = phase /\ run[c].pc \notin Busy)
  PROVE  \E r : Moves(c, r)
<1> DEFINE r == [pc |-> pc, uid |-> run[c].uid, msgs |-> msgs, attempt |-> run[c].attempt,
                 held |-> run[c].held, signal |-> run[c].signal, kept |-> run[c].kept]
<1>1. IsCall(r)
  BY DEF IsCall, Given
<1>2. run' = [run EXCEPT ![c] = r]
  <2>0. PICK q : q = [run[c] EXCEPT !.pc = pc, !.msgs = msgs]
    OBVIOUS
  <2>1. q = r
    <3>1. run[c] = [pc |-> run[c].pc, uid |-> run[c].uid, msgs |-> run[c].msgs,
                    attempt |-> run[c].attempt, held |-> run[c].held,
                    signal |-> run[c].signal, kept |-> run[c].kept]
      BY DEF Given, IsCall
    <3>2. PICK p : p = run[c]
      OBVIOUS
    <3> QED BY <2>0, <3>1, <3>2
  <2>2. DOMAIN run = Callers
    BY DEF Given
  <2>3. run' = [run EXCEPT ![c] = [run[c] EXCEPT !.pc = pc, !.msgs = msgs]]
    BY <2>2 DEF GoTo
  <2> QED BY <2>0, <2>1, <2>3
<1>3. r.pc = pc
  OBVIOUS
<1> HIDE DEF r
<1> QED BY <1>1, <1>2, <1>3 DEF Moves

\* The same of a caller whose messages stay as they are.
LEMMA GoesOn ==
  ASSUME NEW c \in Callers, Given(c), NEW pc \in Stops,
         pc \in Busy \cup {"post"} => run[c].uid # None,
         pc \in {"compactRetry", "compacting"} => run[c].kept # None,
         GoOn(c, pc),
         phase' # "idle" => pc \in Busy \/ (phase' = phase /\ run[c].pc \notin Busy)
  PROVE  \E r : Moves(c, r)
<1>1. GoTo(c, pc, run[c].msgs)
  BY DEF Given, IsCall, GoOn, GoTo
<1> QED BY <1>1, GoesTo

\* A caller that leaves invoke.
LEMMA GoesIdle ==
  ASSUME NEW c \in Callers, run' = [run EXCEPT ![c] = Idle],
         phase' # "idle" => phase' = phase /\ run[c].pc \notin Busy
  PROVE  \E r : Moves(c, r)
<1>1. IsCall(Idle)
  BY AgentAssumption DEF IsCall, Idle, Stops, Busy, InRun, Records, None
<1> QED BY <1>1 DEF Moves

----------------------------------------------------------------------------
(* The actions of a caller *)

\* Before the first request.
LEMMA StartSafe ==
  ASSUME NEW c \in Callers, Given(c), Invoke(c) \/ Build(c)
  PROVE  Safe(c)
<1>1. UNCHANGED <<s, phase, engine>> /\ run[c].pc \notin Busy
  BY DEF Invoke, Build, At, Busy, InRun
<1>2. \E r : Moves(c, r)
  <2>1. CASE Invoke(c)
    BY <1>1, <2>1, GoesOn DEF Invoke, GoOn, Stops, Busy, InRun
  <2>2. CASE Build(c)
    <3>1. PICK msgs : msgs = Messages(s)
      OBVIOUS
    <3>2. GoTo(c, "built", msgs)
      BY <2>2, <3>1 DEF Build, GoTo
    <3> QED BY <1>1, <3>2, GoesTo DEF Stops, Busy, InRun
  <2> QED BY <2>1, <2>2
<1> QED BY <1>1, <1>2 DEF Safe, Given, IsSession, EngineOK

\* A run starts: of a new turn, or of the next attempt.
LEMMA StartedRun ==
  ASSUME NEW q, IsCall(q), q.uid # None
  PROVE  IsCall(Started(q)) /\ Started(q).pc = "top"
<1>1. PICK r : r = Started(q)
  OBVIOUS
<1>2. r = [pc |-> "top", uid |-> q.uid, msgs |-> q.msgs, attempt |-> q.attempt,
           held |-> "none", signal |-> FALSE, kept |-> q.kept]
  BY <1>1 DEF IsCall, Started
<1> QED BY <1>1, <1>2 DEF IsCall, Stops, Busy, InRun, Records

\* Begin: the user message is appended and the phase taken (Agent.invoke).
LEMMA BeginSafe ==
  ASSUME NEW c \in Callers, Given(c), Begin(c)
  PROVE  Safe(c)
<1>1. IsSession(s')
  BY AppendedSession DEF Begin, Given, Kinds, MessageKinds, None
<1>2. EngineOK(engine')
  BY DEF Begin, Given, EngineOK
<1>3. PICK msgs : msgs = Append(Usable(run[c].msgs), Item("user", s.next))
  OBVIOUS
<1>4. PICK q : q = Started(run[c])
  OBVIOUS
<1>5. q = [pc |-> "top", uid |-> run[c].uid, msgs |-> run[c].msgs, attempt |-> run[c].attempt,
           held |-> "none", signal |-> FALSE, kept |-> run[c].kept]
  BY <1>4 DEF Given, IsCall, Started
<1>6. PICK r : r = [q EXCEPT !.uid = s.next, !.attempt = 0, !.msgs = msgs]
  OBVIOUS
<1>7. r = [pc |-> "top", uid |-> s.next, msgs |-> msgs, attempt |-> 0,
           held |-> "none", signal |-> FALSE, kept |-> run[c].kept]
  BY <1>5, <1>6
<1>8. IsCall(r) /\ r.pc \in Busy
  BY <1>7, AgentAssumption
     DEF IsCall, Given, IsSession, Stops, Busy, InRun, Records, None
<1>9. run' = [run EXCEPT ![c] = r]
  BY <1>3, <1>4, <1>6 DEF Begin
<1> QED BY <1>1, <1>2, <1>8, <1>9 DEF Safe, Moves, Begin

\* A step inside the run, or to its end.
LEMMA CloseSafe ==
  ASSUME NEW c \in Callers, Given(c), NEW sess, IsSession(sess), Close(c, sess),
         run[c].pc \in InRun
  PROVE  Safe(c)
<1>1. IsSession(s')
  BY EmittedSession DEF Close, Kinds, MessageKinds, AssistantKinds
<1>2. PICK msgs : msgs = Append(run[c].msgs, Item("assistant", sess.next))
  OBVIOUS
<1>3. GoTo(c, "ended", msgs)
  BY <1>2 DEF Close, GoTo
<1>4. \E r : Moves(c, r)
  BY <1>3, GoesTo DEF Given, IsCall, Stops, Busy, InRun
<1> QED BY <1>1, <1>4 DEF Safe, Close, Given, EngineOK

\* Top: queued messages are taken, and the next request goes out or the run ends;
\* an answer cut off asks again, and an aborted one ends the run.
LEMMA TopSafe ==
  ASSUME NEW c \in Callers, Given(c), Top(c) \/ AnswerTruncated(c) \/ AnswerAbort(c)
  PROVE  Safe(c)
<1>1. run[c].pc \in InRun
  BY DEF Top, AnswerTruncated, AnswerAbort, At, InRun
<1>2. CASE Close(c, s)
  BY <1>1, <1>2, CloseSafe DEF Given
<1>3. CASE ~Close(c, s)
  <2>1. PICK pc \in InRun : GoOn(c, pc)
    BY <1>3 DEF GoOn, Top, AnswerTruncated, AnswerAbort, InRun
  <2>2. UNCHANGED <<s, phase, engine>>
    BY <1>3 DEF Top, AnswerTruncated, AnswerAbort
  <2>3. \E r : Moves(c, r)
    BY <1>1, <2>1, GoesOn DEF Given, IsCall, Stops, Busy, InRun
  <2> QED BY <2>2, <2>3 DEF Safe, Given, IsSession, EngineOK
<1> QED BY <1>2, <1>3

\* AnswerCalls: an answer with tool calls is appended, and the tools run next.
LEMMA AnswerCallsSafe ==
  ASSUME NEW c \in Callers, Given(c), AnswerCalls(c)
  PROVE  Safe(c)
<1>1. IsSession(s')
  BY EmittedSession DEF AnswerCalls, Given, Kinds, MessageKinds, AssistantKinds
<1>2. PICK msgs : msgs = Append(run[c].msgs, Item("calls", s.next))
  OBVIOUS
<1>3. GoTo(c, "tools", msgs)
  BY <1>2 DEF AnswerCalls, GoTo
<1>4. \E r : Moves(c, r)
  BY <1>3, GoesTo DEF AnswerCalls, At, Given, IsCall, Stops, Busy, InRun
<1> QED BY <1>1, <1>4 DEF Safe, AnswerCalls, Given, EngineOK

\* AnswerStop: a closing answer is appended; the run ends, or goes on with what
\* was queued meanwhile.
LEMMA AnswerStopSafe ==
  ASSUME NEW c \in Callers, Given(c), AnswerStop(c)
  PROVE  Safe(c)
<1>1. CASE Close(c, s)
  BY <1>1, CloseSafe DEF AnswerStop, At, Given, InRun
<1>2. CASE ~Close(c, s)
  <2>1. IsSession(s')
    BY <1>2, EmittedSession DEF AnswerStop, Given, Kinds, MessageKinds, AssistantKinds
  <2>2. EngineOK(engine')
    BY <1>2 DEF AnswerStop, Given, EngineOK
  <2>3. PICK msgs : msgs = run[c].msgs \o <<Item("assistant", s.next), Head(engine.followup)>>
    OBVIOUS
  <2>4. GoTo(c, "top", msgs)
    BY <1>2, <2>3 DEF AnswerStop, GoTo
  <2>5. \E r : Moves(c, r)
    BY <2>4, GoesTo DEF AnswerStop, At, Given, IsCall, Stops, Busy, InRun
  <2> QED BY <1>2, <2>1, <2>2, <2>5 DEF Safe, AnswerStop, Given
<1> QED BY <1>1, <1>2

\* RunTools and RunLastTools: the results are appended, and the loop goes on or ends.
LEMMA ToolsSafe ==
  ASSUME NEW c \in Callers, Given(c), RunTools(c) \/ RunLastTools(c)
  PROVE  Safe(c)
<1>1. CASE RunTools(c)
  <2>1. IsSession(s')
    BY <1>1, EmittedSession DEF RunTools, Given, Kinds, MessageKinds
  <2>2. EngineOK(engine')
    BY <1>1 DEF RunTools, Given, EngineOK
  <2>3. PICK msgs : msgs = run[c].msgs \o <<Item("tool", s.next)>> \o
                      (IF engine.steering = <<>> THEN <<>> ELSE <<Head(engine.steering)>>)
    OBVIOUS
  <2>4. GoTo(c, "top", msgs)
    BY <1>1, <2>3 DEF RunTools, GoTo
  <2>5. \E r : Moves(c, r)
    BY <1>1, <2>4, GoesTo DEF RunTools, At, Given, IsCall, Stops, Busy, InRun
  <2> QED BY <1>1, <2>1, <2>2, <2>5 DEF Safe, RunTools, Given
<1>2. CASE RunLastTools(c)
  <2>1. IsSession(Emitted(s, "tool"))
    BY EmittedSession DEF Given, Kinds, MessageKinds
  <2>2. IsSession(s')
    BY <1>2, <2>1, EmittedSession DEF RunLastTools, Kinds, MessageKinds, AssistantKinds
  <2>3. PICK msgs : msgs = run[c].msgs \o <<Item("tool", s.next),
                                           Item("assistant", Emitted(s, "tool").next)>>
    OBVIOUS
  <2>4. GoTo(c, "ended", msgs)
    BY <1>2, <2>3 DEF RunLastTools, GoTo
  <2>5. \E r : Moves(c, r)
    BY <1>2, <2>4, GoesTo DEF RunLastTools, At, Given, IsCall, Stops, Busy, InRun
  <2> QED BY <1>2, <2>2, <2>5 DEF Safe, RunLastTools, Given, EngineOK
<1> QED BY <1>1, <1>2

\* A run that ends on an error: the other runs hold the error back as well.
LEMMA FailsSafe ==
  ASSUME IInv, NEW c \in Callers, NEW err \in Errors, NEW held \in Records,
         run[c].pc \in InRun, Fails(c, err, held)
  PROVE  IInv'
<1> DEFINE Hold(d) == IF held # "none" /\ run[d].pc \in InRun
                        THEN [run[d] EXCEPT !.held = held] ELSE run[d]
<1>1. run' = [d \in Callers |-> IF d = c THEN [Hold(d) EXCEPT !.pc = "ended"] ELSE Hold(d)]
  BY DEF Fails
<1>2. \A d \in Callers : IsCall(Hold(d)) /\ Hold(d).pc = run[d].pc
  <2> SUFFICES ASSUME NEW d \in Callers PROVE IsCall(Hold(d)) /\ Hold(d).pc = run[d].pc
    OBVIOUS
  <2>1. IsCall(run[d])
    BY DEF IInv, TypeOK
  <2>2. PICK q : q = [run[d] EXCEPT !.held = held]
    OBVIOUS
  <2>3. q = [pc |-> run[d].pc, uid |-> run[d].uid, msgs |-> run[d].msgs,
             attempt |-> run[d].attempt, held |-> held,
             signal |-> run[d].signal, kept |-> run[d].kept]
    BY <2>1, <2>2 DEF IsCall
  <2>4. IsCall(q) /\ q.pc = run[d].pc
    BY <2>1, <2>3 DEF IsCall
  <2> QED BY <2>1, <2>2, <2>4
<1>3. PICK r : r = [Hold(c) EXCEPT !.pc = "ended"]
  OBVIOUS
<1>4. PICK q : q = Hold(c)
  OBVIOUS
<1>5. IsCall(q) /\ q.pc \in InRun
  BY <1>2, <1>4
<1>6. r = [pc |-> "ended", uid |-> q.uid, msgs |-> q.msgs, attempt |-> q.attempt,
           held |-> q.held, signal |-> q.signal, kept |-> q.kept]
  BY <1>3, <1>4, <1>5 DEF IsCall
<1>7. IsCall(r) /\ r.pc = "ended"
  BY <1>5, <1>6 DEF IsCall, Stops, Busy, InRun
<1>8. /\ run' = [d \in Callers |-> run'[d]]
      /\ \A d \in Callers : run'[d] = IF d = c THEN r ELSE Hold(d)
  BY <1>1, <1>3
<1> HIDE DEF Hold
<1>9. \A d \in Callers : IsCall(run'[d])
  BY <1>2, <1>7, <1>8
<1>10. TypeOK'
  BY <1>8, <1>9 DEF Fails, IInv, TypeOK, EngineOK, IsCall, IsSession
<1>11. PhaseHeld'
  BY <1>7, <1>8 DEF PhaseHeld, Busy, InRun
<1> QED BY <1>10, <1>11 DEF IInv

\* An answer that is an error, an abort or a failing hook holds its error back.
LEMMA ErrorSafe ==
  ASSUME IInv, NEW c \in Callers, AnswerError(c) \/ HookFails(c)
  PROVE  IInv'
<1>1. run[c].pc \in InRun
  BY DEF AnswerError, HookFails, At, InRun
<1>2. PICK err \in Errors, held \in Records : Fails(c, err, held)
  BY DEF AnswerError, HookFails, Errors, Records
<1> QED BY <1>1, <1>2, FailsSafe

----------------------------------------------------------------------------
(* After a run *)

\* What the steps after a run have in common: the engine apart, they are safe.
Ends(c) == /\ \E r : Moves(c, r)
           /\ IsSession(s') /\ phase' \in {"idle", "turn", "compaction"}

\* Succeed: the run ended without an error, and the phase is released.
LEMMA SucceedSafe ==
  ASSUME NEW c \in Callers, Given(c), Succeed(c)
  PROVE  Safe(c)
<1>1. run[c].pc \in Busy /\ run[c].uid # None /\ "post" \in Stops
  BY DEF Succeed, At, Given, IsCall, Stops, Busy, InRun
<1>2. GoOn(c, "post") /\ UNCHANGED <<s, engine>> /\ phase' = "idle"
  BY DEF Succeed, GoOn
<1>3. \E r : Moves(c, r)
  BY <1>1, <1>2, GoesOn DEF InRun
<1> QED BY <1>2, <1>3 DEF Safe, Given, IsSession, EngineOK

\* FailTurn: the turn is rolled back, and the phase released.
LEMMA FailTurnEnds ==
  ASSUME NEW c \in Callers, Given(c), NEW sess, IsSession(sess), NEW held \in Records,
         FailTurn(c, sess, held)
  PROVE  Ends(c)
<1>1. PICK rec : rec = Appended(sess, held, None, IF held = "none" THEN 0 ELSE 1)
  OBVIOUS
<1>2. IsSession(rec)
  <2>1. held \in Kinds \/ held = "none"
    BY DEF Records, Kinds, MessageKinds, AssistantKinds
  <2>2. None \in Nat
    BY DEF None
  <2>3. CASE held = "none"
    BY <1>1, <2>2, <2>3, AppendedSession
  <2>4. CASE held # "none"
    BY <1>1, <2>1, <2>2, <2>4, AppendedSession
  <2> QED BY <2>3, <2>4
<1>3. IsSession(s')
  <2>1. run[c].uid \in Nat
    BY DEF Given, IsCall
  <2>2. s' = [rec EXCEPT !.log = Without(@, run[c].uid), !.leaf = LeafWithout(rec.log, @, run[c].uid)]
    BY <1>1 DEF FailTurn
  <2> QED BY <1>2, <2>1, <2>2, RolledBack
<1>4. run' = [run EXCEPT ![c] = Idle] /\ phase' = "idle"
  BY DEF FailTurn
<1>5. \E r : Moves(c, r)
  BY <1>4, GoesIdle
<1> QED BY <1>3, <1>4, <1>5 DEF Ends

\* RetryFrom: the caller waits for its next attempt.
LEMMA RetryFromEnds ==
  ASSUME NEW c \in Callers, Given(c), NEW sess, IsSession(sess),
         NEW ph \in {"idle", "turn", "compaction"},
         run[c].attempt < MaxRetries, run[c].uid # None, RetryFrom(c, sess, ph)
  PROVE  Ends(c)
<1>1. PICK msgs : run' = [run EXCEPT ![c].pc = "backoff", ![c].attempt = @ + 1, ![c].msgs = msgs]
  BY DEF RetryFrom
<1>2. PICK n : n = run[c].attempt + 1
  OBVIOUS
<1>3. n \in 0..MaxRetries
  BY <1>2, AgentAssumption DEF Given, IsCall
<1>4. PICK r : r = [run[c] EXCEPT !.pc = "backoff", !.attempt = n, !.msgs = msgs]
  OBVIOUS
<1>5. r = [pc |-> "backoff", uid |-> run[c].uid, msgs |-> msgs, attempt |-> n,
           held |-> run[c].held, signal |-> run[c].signal, kept |-> run[c].kept]
  <2>1. PICK q : q = run[c]
    OBVIOUS
  <2>2. q = [pc |-> q.pc, uid |-> q.uid, msgs |-> q.msgs, attempt |-> q.attempt,
             held |-> q.held, signal |-> q.signal, kept |-> q.kept]
    BY <2>1 DEF Given, IsCall
  <2> QED BY <1>4, <2>1, <2>2
<1>6. IsCall(r) /\ r.pc \in Busy
  BY <1>3, <1>5 DEF Given, IsCall, Stops, Busy, InRun
<1>7. run' = [run EXCEPT ![c] = r]
  BY <1>1, <1>2, <1>4 DEF Given
<1> QED BY <1>6, <1>7 DEF Ends, Moves, RetryFrom

\* Either of the two is safe, whatever the error was.
LEMMA GiveUpOrRetryEnds ==
  ASSUME NEW c \in Callers, Given(c), NEW sess, IsSession(sess),
         NEW ph \in {"idle", "turn", "compaction"}, NEW retryable \in BOOLEAN,
         run[c].pc \in Busy, GiveUpOrRetry(c, sess, ph, retryable)
  PROVE  Ends(c)
<1>1. run[c].uid # None /\ run[c].held \in Records
  BY DEF Given, IsCall
<1>2. CASE retryable /\ run[c].attempt < MaxRetries
  BY <1>1, <1>2, RetryFromEnds DEF GiveUpOrRetry
<1>3. CASE ~(retryable /\ run[c].attempt < MaxRetries)
  BY <1>1, <1>3, FailTurnEnds DEF GiveUpOrRetry
<1> QED BY <1>2, <1>3

\* Compacting: the caller takes the phase for the compaction it awaits.
LEMMA CompactingEnds ==
  ASSUME NEW c \in Callers, Given(c), NEW pc \in {"compactRetry", "compacting"},
         run[c].uid # None, Compacting(c, pc)
  PROVE  Ends(c)
<1>1. PICK kept \in CutPoints(s) : run' = [run EXCEPT ![c].pc = pc, ![c].kept = kept]
  BY DEF Compacting
<1>2. kept \in Nat \ {None}
  BY <1>1 DEF CutPoints, IdsOf, Given, IsSession, IsLog
<1>3. PICK r : r = [run[c] EXCEPT !.pc = pc, !.kept = kept]
  OBVIOUS
<1>4. r = [pc |-> pc, uid |-> run[c].uid, msgs |-> run[c].msgs, attempt |-> run[c].attempt,
           held |-> run[c].held, signal |-> run[c].signal, kept |-> kept]
  <2>1. PICK q : q = run[c]
    OBVIOUS
  <2>2. q = [pc |-> q.pc, uid |-> q.uid, msgs |-> q.msgs, attempt |-> q.attempt,
             held |-> q.held, signal |-> q.signal, kept |-> q.kept]
    BY <2>1 DEF Given, IsCall
  <2> QED BY <1>3, <2>1, <2>2
<1>5. IsCall(r) /\ r.pc \in Busy
  BY <1>2, <1>4 DEF Given, IsCall, Stops, Busy, InRun
<1>6. run' = [run EXCEPT ![c] = r]
  BY <1>1, <1>3 DEF Given
<1> QED BY <1>5, <1>6 DEF Ends, Moves, Compacting, Given

\* AfterError: the error is classified, and the turn compacts, retries or fails.
LEMMA AfterErrorSafe ==
  ASSUME NEW c \in Callers, Given(c), AfterError(c)
  PROVE  Safe(c)
<1>1. EngineOK(engine')
  BY DEF AfterError, Reset, Given, EngineOK, Errors
<1>2. run[c].pc \in Busy /\ run[c].uid # None /\ IsSession(s)
  BY DEF AfterError, At, Given, IsCall, Busy, InRun
<1>3. Ends(c)
  <2>1. CASE Compacting(c, "compactRetry")
    BY <1>2, <2>1, CompactingEnds
  <2>2. CASE GiveUpOrRetry(c, s, "idle", TRUE)
    BY <1>2, <2>2, GiveUpOrRetryEnds
  <2>3. CASE GiveUpOrRetry(c, s, phase, engine.error = "transient")
    <3>1. phase \in {"idle", "turn", "compaction"} /\ (engine.error = "transient") \in BOOLEAN
      BY DEF Given
    <3> QED BY <1>2, <2>3, <3>1, GiveUpOrRetryEnds
  <2> QED BY <2>1, <2>2, <2>3 DEF AfterError
<1> QED BY <1>1, <1>3 DEF Safe, Ends

\* Retry: the next attempt starts after the backoff.
LEMMA RetrySafe ==
  ASSUME NEW c \in Callers, Given(c), Retry(c)
  PROVE  Safe(c)
<1>1. run[c].uid # None /\ IsCall(run[c])
  BY DEF Retry, At, Given, IsCall, Busy
<1>2. PICK r : r = Started(run[c])
  OBVIOUS
<1>3. IsCall(r) /\ r.pc = "top"
  BY <1>1, <1>2, StartedRun
<1>4. run' = [run EXCEPT ![c] = r]
  BY <1>2 DEF Retry
<1>5. Moves(c, r)
  BY <1>3, <1>4 DEF Moves, Busy, InRun
<1>6. EngineOK(engine')
  BY DEF Retry, Given, EngineOK
<1> QED BY <1>5, <1>6 DEF Safe, Retry, Given, IsSession

\* A compaction appends its summary, or nothing.
LEMMA CompactedSession ==
  ASSUME NEW c \in Callers, Given(c), NEW sess \in CompactedFor(c)
  PROVE  IsSession(sess)
BY AppendedSession DEF CompactedFor, Given, IsCall, Kinds

\* The compactions, and leaving invoke, release the phase or leave it to a retry.
LEMMA CompactionSafe ==
  ASSUME NEW c \in Callers, Given(c),
         CompactThenRetry(c) \/ EndInvoke(c) \/ StartCompaction(c) \/ EndCompaction(c)
  PROVE  Safe(c)
<1>1. EngineOK(engine')
  BY DEF CompactThenRetry, EndInvoke, StartCompaction, EndCompaction, Given, EngineOK
<1>2. CASE CompactThenRetry(c)
  <2>1. run[c].pc \in Busy /\ IsSession(s) /\ "none" \in Records
    BY <1>2 DEF CompactThenRetry, At, Given, Busy, Records
  <2>2. Ends(c)
    <3>1. CASE \E sess \in CompactedFor(c) : GiveUpOrRetry(c, sess, "idle", TRUE)
      BY <2>1, <3>1, CompactedSession, GiveUpOrRetryEnds
    <3>2. CASE FailTurn(c, s, "none")
      BY <2>1, <3>2, FailTurnEnds
    <3> QED BY <1>2, <3>1, <3>2 DEF CompactThenRetry
  <2> QED BY <1>1, <2>2 DEF Safe, Ends
<1>3. CASE EndInvoke(c)
  <2>1. run[c].pc \notin Busy
    BY <1>3 DEF EndInvoke, At, Busy, InRun
  <2>2. \E r : Moves(c, r)
    BY <1>3, <2>1, GoesIdle DEF EndInvoke
  <2> QED BY <1>1, <1>3, <2>2 DEF Safe, EndInvoke, Given, IsSession
<1>4. CASE StartCompaction(c)
  <2>1. run[c].uid # None
    BY <1>4 DEF StartCompaction, At, Given, IsCall
  <2>2. Ends(c)
    BY <1>4, <2>1, CompactingEnds DEF StartCompaction
  <2> QED BY <1>1, <2>2 DEF Safe, Ends
<1>5. CASE EndCompaction(c)
  <2>1. IsSession(s')
    BY <1>5, CompactedSession DEF EndCompaction
  <2>2. \E r : Moves(c, r)
    BY <1>5, GoesIdle DEF EndCompaction
  <2> QED BY <1>1, <1>5, <2>1, <2>2 DEF Safe, EndCompaction
<1> QED BY <1>2, <1>3, <1>4, <1>5

----------------------------------------------------------------------------
(* What other coroutines do *)

\* Cancel: the finally blocks release the phase on the way out.
LEMMA CancelSafe ==
  ASSUME NEW c \in Callers, Given(c), Cancel(c)
  PROVE  Safe(c)
<1>1. run' = [run EXCEPT ![c] = Idle] /\ UNCHANGED <<s, engine>>
  BY DEF Cancel
<1>2. phase' \in {"idle", phase} /\ (phase' # "idle" => phase' = phase /\ run[c].pc \notin Busy)
  BY DEF Cancel
<1>3. \E r : Moves(c, r)
  BY <1>1, <1>2, GoesIdle
<1> QED BY <1>1, <1>2, <1>3 DEF Safe, Given, IsSession, EngineOK

\* Abort: the signal of the run that owns the engine is set, and nothing else.
LEMMA AbortSafe ==
  ASSUME IInv, Abort
  PROVE  \E c \in Callers : Safe(c)
<1>1. PICK c \in Callers : c = engine.owner
  BY DEF Abort
<1>2. Given(c) /\ run[c].pc \in Busy
  BY <1>1, InvGives DEF Abort
<1>3. PICK r : r = [run[c] EXCEPT !.signal = TRUE]
  OBVIOUS
<1>4. r = [pc |-> run[c].pc, uid |-> run[c].uid, msgs |-> run[c].msgs,
           attempt |-> run[c].attempt, held |-> run[c].held, signal |-> TRUE,
           kept |-> run[c].kept]
  BY <1>2, <1>3 DEF Given, IsCall
<1>5. IsCall(r) /\ r.pc \in Busy
  BY <1>2, <1>4 DEF Given, IsCall
<1>6. run' = [run EXCEPT ![c] = r] /\ UNCHANGED <<s, phase, engine>>
  BY <1>1, <1>2, <1>3 DEF Abort, Given
<1>7. Moves(c, r)
  BY <1>5, <1>6 DEF Moves
<1>8. Safe(c)
  BY <1>2, <1>6, <1>7 DEF Safe, Given, IsSession, EngineOK
<1> QED BY <1>8

\* Steer, FollowUp and Fork leave every caller where it is.
LEMMA InputSafe ==
  ASSUME IInv, Steer \/ FollowUp \/ Fork, s'.next <= MaxId + 1
  PROVE  IInv'
<1>1. IsSession(s) /\ EngineOK(engine)
  BY DEF IInv, TypeOK, EngineOK
<1>2. UNCHANGED <<phase, run>>
  BY DEF Steer, FollowUp, Fork
<1>3. EngineOK(engine')
  <2>1. CASE Fork
    BY <1>1, <2>1 DEF EngineOK, Fork
  <2>2. CASE Steer \/ FollowUp
    <3>1. engine.inputs < MaxInputs
      BY <2>2 DEF Steer, FollowUp
    <3>2. PICK n, st, fu : engine' = [error |-> engine.error, owner |-> engine.owner,
                                      inputs |-> n, steering |-> st, followup |-> fu]
                           /\ n = engine.inputs + 1
      BY <1>1, <2>2 DEF EngineOK, Steer, FollowUp
    <3> QED BY <1>1, <3>1, <3>2, AgentAssumption DEF EngineOK
  <2> QED BY <2>1, <2>2
<1>4. IsSession(s')
  <2>1. CASE Fork
    <3>1. PICK target \in IdsOf(s.log, MessageKinds) :
             s' = [Appended(s, "leaf", target, 1) EXCEPT !.leaf = target]
      BY <2>1 DEF Fork
    <3>2. target \in DOMAIN s.log /\ target \in Nat
      BY <1>1 DEF IdsOf, IsSession, IsLog
    <3>3. PICK sess : sess = Appended(s, "leaf", target, 1)
      OBVIOUS
    <3>4. IsSession(sess)
      BY <1>1, <3>2, <3>3, AppendedSession DEF Kinds, NavKinds
    <3>5. DOMAIN s.log \subseteq DOMAIN sess.log
      BY <3>3 DEF Appended
    <3>6. s' = [log |-> sess.log, leaf |-> target, next |-> sess.next]
      BY <3>1, <3>3, <3>4 DEF IsSession
    <3> QED BY <3>2, <3>4, <3>5, <3>6 DEF IsSession
  <2>2. CASE Steer \/ FollowUp
    BY <1>1, <2>2 DEF Steer, FollowUp, IsSession
  <2> QED BY <2>1, <2>2
<1>5. TypeOK'
  BY <1>2, <1>3, <1>4 DEF IInv, TypeOK, EngineOK, IsCall
<1>6. PhaseHeld'
  BY <1>2 DEF IInv, PhaseHeld
<1> QED BY <1>5, <1>6 DEF IInv

----------------------------------------------------------------------------
(* The theorems *)

\* Nobody is busy at the start, and the phase is idle.
LEMMA InitSafe == Init => IInv
<1> SUFFICES ASSUME Init PROVE IInv
  OBVIOUS
<1>1. IsSession(s) /\ s.next <= MaxId + 1
  BY AgentAssumption DEF Init, IsSession, IsLog, NoEntries, None
<1>2. IsCall(Idle)
  BY AgentAssumption DEF IsCall, Idle, Stops, Busy, InRun, Records, None
<1>3. EngineOK(engine)
  BY AgentAssumption DEF Init, EngineOK, Errors
<1>4. /\ run = [c \in Callers |-> run[c]]
      /\ \A c \in Callers : IsCall(run[c])
  BY <1>2 DEF Init
<1>5. TypeOK
  BY <1>1, <1>3, <1>4 DEF TypeOK, EngineOK, Init
<1> QED BY <1>5 DEF IInv, PhaseHeld, Init

\* Every step of every caller, and of those around it, keeps the invariant.
LEMMA NextSafe == IInv /\ [Next]_vars => IInv'
<1> SUFFICES ASSUME IInv, [Next]_vars PROVE IInv'
  OBVIOUS
<1>1. CASE UNCHANGED vars
  BY <1>1 DEF vars, IInv, TypeOK, PhaseHeld, IsSession, IsCall
<1>2. CASE Next
  <2>1. s'.next <= MaxId + 1
    BY <1>2 DEF Next
  <2>2. ASSUME NEW c \in Callers, Safe(c) PROVE IInv'
    <3>1. PICK r : Moves(c, r)
      BY <2>2 DEF Safe
    <3> QED BY <2>1, <2>2, <3>1, MovesSafe DEF Safe
  <2>3. ASSUME NEW c \in Callers, Invoke(c) PROVE IInv'
    BY <2>2, <2>3, InvGives, StartSafe
  <2>4. ASSUME NEW c \in Callers, Step(c) PROVE IInv'
    <3>1. Given(c)
      BY InvGives
    <3>2. Safe(c)
      BY <2>4, <3>1, StartSafe, BeginSafe, TopSafe, ToolsSafe, SucceedSafe, AfterErrorSafe,
         RetrySafe, CompactionSafe DEF Step
    <3> QED BY <2>2, <3>2
  <2>5. ASSUME NEW c \in Callers, Answer(c) \/ AnswerTruncated(c) PROVE IInv'
    <3>1. Given(c)
      BY InvGives
    <3>2. CASE AnswerError(c)
      BY <3>2, ErrorSafe
    <3>3. CASE ~AnswerError(c)
      <4>1. Safe(c)
        BY <2>5, <3>1, <3>3, TopSafe, AnswerCallsSafe, AnswerStopSafe DEF Answer
      <4> QED BY <2>2, <4>1
    <3> QED BY <3>2, <3>3
  <2>6. ASSUME NEW c \in Callers, HookFails(c) PROVE IInv'
    BY <2>6, ErrorSafe
  <2>7. ASSUME NEW c \in Callers, Cancel(c) PROVE IInv'
    BY <2>2, <2>7, InvGives, CancelSafe
  <2>8. CASE Abort
    BY <2>2, <2>8, AbortSafe
  <2>9. CASE Steer \/ FollowUp \/ Fork
    BY <2>1, <2>9, InputSafe
  <2> QED BY <1>2, <2>3, <2>4, <2>5, <2>6, <2>7, <2>8, <2>9 DEF Next
<1> QED BY <1>1, <1>2

\* The inductive invariant of the agent's turns, whatever the number of callers
\* and the faults: the types, and that a phase that is taken has somebody who
\* will release it.
THEOREM Invariance == Spec => []IInv
<1>1. Init => IInv
  BY InitSafe
<1>2. IInv /\ [Next]_vars => IInv'
  BY NextSafe
<1> QED BY <1>1, <1>2, PTL DEF Spec

\* The leaf is always an entry of the log, no turn makes more attempts than
\* retry_max_retries allows, and every caller holds what its place requires.
THEOREM TypeCorrect == Spec => []TypeOK
<1>1. IInv => TypeOK
  BY DEF IInv
<1> QED BY <1>1, Invariance, PTL

\* No way in which turns end, are cancelled or overlap leaves the agent busy
\* with no invoke in progress (the finally blocks of invoke and _run_compaction).
THEOREM NeverWedged == Spec => []PhaseReleased
<1>1. IInv => PhaseReleased
  <2> SUFFICES ASSUME IInv, \A c \in Callers : At(c, "idle") PROVE phase = "idle"
    BY DEF PhaseReleased
  <2>1. \A c \in Callers : run[c].pc \notin Busy
    BY DEF At, Busy, InRun
  <2> QED BY <2>1 DEF IInv, PhaseHeld
<1> QED BY <1>1, Invariance, PTL

----------------------------------------------------------------------------
(* Turns that do not overlap *)

\* One caller at most holds the phase.  This is what the guard of invoke is
\* for; but it looks at the phase several awaits before Begin takes it.
Apart == \A c, d \in Callers : run[c].pc \in Busy /\ run[d].pc \in Busy => c = d

\* What the coroutine of a call may do.
Acts(c) == Invoke(c) \/ Step(c) \/ Answer(c) \/ AnswerTruncated(c) \/ HookFails(c) \/ Cancel(c)

\* It leaves the other calls where they are, with what they have.
LEMMA OthersStay ==
  ASSUME NEW c \in Callers, Acts(c), NEW d \in Callers \ {c}, IsCall(run[d]),
         DOMAIN run = Callers
  PROVE  /\ run'[d].pc = run[d].pc /\ run'[d].uid = run[d].uid
         /\ run'[d].msgs = run[d].msgs /\ run'[d].kept = run[d].kept
<1>1. CASE \E err, held : Fails(c, err, held)
  <2>1. PICK err, held : Fails(c, err, held)
    BY <1>1
  <2>2. run'[d] = run[d] \/ run'[d] = [run[d] EXCEPT !.held = held]
    BY <2>1 DEF Fails
  <2> QED BY <2>2 DEF IsCall
<1>2. CASE run'[d] = run[d]
  BY <1>2
<1>3. CASE AnswerError(c) \/ HookFails(c)
  BY <1>1, <1>3 DEF AnswerError, HookFails
<1>4. CASE Invoke(c) \/ Build(c) \/ Begin(c) \/ Retry(c) \/ Succeed(c) \/ EndInvoke(c)
             \/ EndCompaction(c) \/ Cancel(c)
  BY <1>2, <1>4 DEF Invoke, Build, Begin, Retry, Succeed, EndInvoke, EndCompaction, Cancel
<1>5. CASE Top(c) \/ AnswerCalls(c) \/ AnswerStop(c) \/ AnswerAbort(c) \/ AnswerTruncated(c)
             \/ RunTools(c) \/ RunLastTools(c)
  BY <1>2, <1>5 DEF Top, Close, AnswerCalls, AnswerStop, AnswerAbort, AnswerTruncated, RunTools,
                    RunLastTools
<1>6. CASE \E sess, ph, retryable : GiveUpOrRetry(c, sess, ph, retryable)
  BY <1>2, <1>6 DEF GiveUpOrRetry, RetryFrom, FailTurn
<1>7. CASE \E pc : Compacting(c, pc)
  BY <1>2, <1>7 DEF Compacting
<1>8. CASE FailTurn(c, s, "none")
  BY <1>2, <1>8 DEF FailTurn
<1>9. CASE AfterError(c)
  BY <1>6, <1>7, <1>9 DEF AfterError
<1>10. CASE CompactThenRetry(c)
  BY <1>6, <1>8, <1>10 DEF CompactThenRetry
<1>11. CASE StartCompaction(c)
  BY <1>7, <1>11 DEF StartCompaction
<1> QED BY <1>3, <1>4, <1>5, <1>9, <1>10, <1>11 DEF Acts, Step, Answer

\* A call that does not hold the phase, before and after, does nothing to the
\* session, the engine or another call.
LEMMA IdleStays ==
  ASSUME NEW c \in Callers, Acts(c), DOMAIN run = Callers, IsCall(run[c]),
         run[c].pc \notin Busy, run'[c].pc \notin Busy
  PROVE  s' = s /\ engine' = engine /\ \A d \in Callers \ {c} : run'[d] = run[d]
<1>1. CASE Invoke(c) \/ Build(c) \/ EndInvoke(c) \/ Cancel(c)
  BY <1>1 DEF Invoke, Build, EndInvoke, Cancel
<1>2. ~Begin(c)
  <2> SUFFICES ASSUME Begin(c) PROVE FALSE
    OBVIOUS
  <2>1. PICK q : q = Started(run[c])
    OBVIOUS
  <2>2. PICK msgs : msgs = Append(Usable(run[c].msgs), Item("user", s.next))
    OBVIOUS
  <2>3. q.pc = "top" /\ DOMAIN q = DOMAIN run[c]
    BY <2>1 DEF Started, IsCall
  <2>4. run'[c] = [q EXCEPT !.uid = s.next, !.attempt = 0, !.msgs = msgs]
    BY <2>1, <2>2 DEF Begin
  <2>5. run'[c].pc = "top"
    BY <2>3, <2>4 DEF IsCall
  <2> QED BY <2>5 DEF Busy, InRun
<1>3. ~StartCompaction(c)
  BY DEF StartCompaction, Compacting, Busy, IsCall
<1>4. ~Retry(c) /\ ~Succeed(c) /\ ~EndCompaction(c) /\ ~Top(c) /\ ~AfterError(c) /\ ~CompactThenRetry(c)
  BY DEF Retry, Succeed, EndCompaction, Top, AfterError, CompactThenRetry, At, Busy, InRun
<1>5. /\ ~AnswerCalls(c) /\ ~AnswerStop(c) /\ ~AnswerAbort(c) /\ ~AnswerTruncated(c)
      /\ ~AnswerError(c) /\ ~RunTools(c) /\ ~RunLastTools(c) /\ ~HookFails(c)
  BY DEF AnswerCalls, AnswerStop, AnswerAbort, AnswerTruncated, AnswerError, RunTools,
         RunLastTools, HookFails, At, Busy, InRun
<1> QED BY <1>1, <1>2, <1>3, <1>4, <1>5 DEF Acts, Step, Answer

\* Of two calls, when no two hold the phase before or after.
LEMMA ApartGives ==
  ASSUME Apart, Apart', NEW c \in Callers, Acts(c), NEW d \in Callers \ {c},
         IsCall(run[c]), IsCall(run[d]), DOMAIN run = Callers, run[d].pc \in Busy
  PROVE  s' = s /\ engine' = engine /\ run'[d] = run[d]
<1>1. run'[d].pc = run[d].pc
  BY OthersStay
<1>2. run[c].pc \notin Busy /\ run'[c].pc \notin Busy
  BY <1>1 DEF Apart
<1> QED BY <1>2, IdleStays

Answered(c) == \E i \in IdsOf(s.log, {"assistant"}) : i > run[c].uid

\* A run that ended without an error has left its answer, and the message of
\* the turn is older than whatever comes next.
Fine(c) ==
  /\ run[c].uid < s.next
  /\ run[c].pc = "post" \/ (run[c].pc = "ended" /\ engine.error = "none") => Answered(c)

\* The message of a turn is no answer.
Asked(c) == run[c].uid \notin IdsOf(s.log, {"assistant"})

TurnFine == \A c \in Callers : Fine(c) /\ Asked(c)

\* Appending keeps the entries there are and adds the new one.
LEMMA AppendedGrows ==
  ASSUME NEW sess, IsSession(sess), NEW kind, NEW ref, NEW n \in Nat
  PROVE  LET new == Appended(sess, kind, ref, n) IN
         /\ new.next = sess.next + n
         /\ \A i \in DOMAIN sess.log : i \in DOMAIN new.log /\ new.log[i] = sess.log[i]
         /\ n > 0 => sess.next \in DOMAIN new.log /\ new.log[sess.next].kind = kind
<1>1. sess.next \in Nat /\ DOMAIN sess.log \subseteq 1..(sess.next - 1)
  BY DEF IsSession
<1>2. PICK new : new = Appended(sess, kind, ref, n)
  OBVIOUS
<1>3. new.next = sess.next + n
  BY <1>2 DEF Appended
<1>4. \A i \in DOMAIN sess.log : i \in DOMAIN new.log /\ new.log[i] = sess.log[i]
  BY <1>1, <1>2 DEF Appended
<1>5. n > 0 => sess.next \in DOMAIN new.log /\ new.log[sess.next].kind = kind
  BY <1>1, <1>2 DEF Appended, NewEntry
<1> QED BY <1>2, <1>3, <1>4, <1>5

\* A run that emits a message appends at least one entry of its kind.
LEMMA EmittedGrows ==
  ASSUME NEW sess, IsSession(sess), NEW kind, NEW c \in Callers, run[c].pc \in InRun
  PROVE  LET new == Emitted(sess, kind) IN
         /\ new.next > sess.next
         /\ sess.next \in DOMAIN new.log /\ new.log[sess.next].kind = kind
<1>1. PICK S : S = {d \in Callers : run[d].pc \in InRun}
  OBVIOUS
<1>2. IsFiniteSet(S) /\ Cardinality(S) \in Nat
  BY <1>1, FiniteRuns
<1>3. Cardinality(S) > 0
  <2>1. S # {}
    BY <1>1
  <2>2. Cardinality(S) # 0
    BY <1>2, <2>1, FS_EmptySet
  <2> QED BY <1>2, <2>2
<1>4. Emitted(sess, kind) = Appended(sess, kind, None, Cardinality(S))
  BY <1>1 DEF Emitted
<1>5. sess.next \in Nat
  BY DEF IsSession
<1> QED BY <1>2, <1>3, <1>4, <1>5, AppendedGrows

\* Steps that end in no place where an answer is due.
LEMMA OpenFine ==
  ASSUME NEW c \in Callers, run'[c].pc \notin {"ended", "post"}, run'[c].uid < s'.next
  PROVE  Fine(c)'
BY DEF Fine

\* Before the run no answer is due yet, and the user message is already an entry.
LEMMA BeforeRunFine ==
  ASSUME NEW c \in Callers, Given(c), Fine(c), Invoke(c) \/ Build(c) \/ Begin(c) \/ Retry(c)
  PROVE  Fine(c)'
<1>1. /\ run[c].uid \in Nat /\ s.next \in Nat /\ DOMAIN run = Callers /\ run[c].uid < s.next
      /\ IsCall(run[c]) /\ IsSession(s)
  BY DEF Given, IsCall, IsSession, Fine
<1>2. CASE Invoke(c) \/ Build(c)
  <2>1. run'[c].pc \in {"prepare", "built"} /\ run'[c].uid = run[c].uid /\ s' = s
    BY <1>1, <1>2 DEF Invoke, Build, IsCall
  <2> QED BY <1>1, <2>1, OpenFine
<1>3. PICK q : q = Started(run[c])
  OBVIOUS
<1>4. q = [pc |-> "top", uid |-> run[c].uid, msgs |-> run[c].msgs, attempt |-> run[c].attempt,
           held |-> "none", signal |-> FALSE, kept |-> run[c].kept]
  BY <1>1, <1>3 DEF IsCall, Started
<1>5. CASE Begin(c)
  <2>1. PICK msgs : msgs = Append(Usable(run[c].msgs), Item("user", s.next))
    OBVIOUS
  <2>2. PICK r : r = [q EXCEPT !.uid = s.next, !.attempt = 0, !.msgs = msgs]
    OBVIOUS
  <2>3. r.pc = "top" /\ r.uid = s.next
    BY <1>4, <2>2
  <2>4. run'[c] = r
    BY <1>1, <1>3, <1>5, <2>1, <2>2 DEF Begin
  <2>5. s'.next = s.next + 1
    BY <1>5 DEF Begin, Appended
  <2> QED BY <1>1, <2>3, <2>4, <2>5, OpenFine
<1>6. CASE Retry(c)
  <2>1. run'[c] = q /\ s' = s
    BY <1>1, <1>3, <1>6 DEF Retry
  <2> QED BY <1>1, <1>4, <2>1, OpenFine
<1> QED BY <1>2, <1>5, <1>6

\* A run that closes after emitting an answer has that answer in the log.
LEMMA CloseFine ==
  ASSUME NEW c \in Callers, Given(c), NEW sess, IsSession(sess), sess.next > run[c].uid,
         Close(c, sess), run[c].pc \in InRun
  PROVE  Fine(c)'
<1>1. DOMAIN run = Callers /\ IsCall(run[c]) /\ run[c].uid \in Nat /\ sess.next \in Nat
  BY DEF Given, IsCall, IsSession
<1>2. run'[c].uid = run[c].uid
  BY <1>1 DEF Close, IsCall
<1>3. /\ s'.next > sess.next /\ s'.next \in Nat
      /\ sess.next \in DOMAIN s'.log /\ s'.log[sess.next].kind = "assistant"
  BY EmittedGrows, EmittedSession
     DEF Close, IsSession, Kinds, MessageKinds, AssistantKinds
<1>4. sess.next \in IdsOf(s'.log, {"assistant"})
  BY <1>3 DEF IdsOf
<1>5. Answered(c)'
  BY <1>1, <1>2, <1>4 DEF Answered
<1> QED BY <1>1, <1>2, <1>3, <1>5 DEF Fine

\* Inside the run no answer is due; at its end there is one, or an error.
LEMMA RunFine ==
  ASSUME NEW c \in Callers, Given(c), Fine(c),
         Top(c) \/ AnswerCalls(c) \/ AnswerStop(c) \/ AnswerAbort(c)
           \/ AnswerTruncated(c) \/ RunTools(c) \/ RunLastTools(c)
  PROVE  Fine(c)'
<1>1. /\ run[c].uid \in Nat /\ s.next \in Nat /\ DOMAIN run = Callers /\ run[c].uid < s.next
      /\ IsCall(run[c]) /\ IsSession(s) /\ run[c].pc \in InRun
  BY DEF Given, IsCall, IsSession, Fine, At, InRun, Top, AnswerCalls, AnswerStop, AnswerAbort,
         AnswerTruncated, RunTools, RunLastTools
<1>2. CASE Close(c, s)
  BY <1>1, <1>2, CloseFine
<1>3. CASE RunLastTools(c)
  <2>1. PICK sess : sess = Emitted(s, "tool")
    OBVIOUS
  <2>2. IsSession(sess) /\ sess.next > s.next /\ sess.next \in Nat
    BY <1>1, <2>1, EmittedSession, EmittedGrows DEF IsSession, Kinds, MessageKinds
  <2>3. s' = Emitted(sess, "assistant")
    BY <1>3, <2>1 DEF RunLastTools
  <2>4. /\ s'.next > sess.next /\ s'.next \in Nat
        /\ sess.next \in DOMAIN s'.log /\ s'.log[sess.next].kind = "assistant"
    BY <1>1, <2>2, <2>3, EmittedGrows, EmittedSession
       DEF IsSession, Kinds, MessageKinds, AssistantKinds
  <2>5. run'[c].uid = run[c].uid
    BY <1>1, <1>3 DEF RunLastTools, IsCall
  <2>6. sess.next \in IdsOf(s'.log, {"assistant"}) /\ sess.next > run'[c].uid
    BY <1>1, <2>2, <2>4, <2>5 DEF IdsOf
  <2>7. Answered(c)'
    BY <2>6 DEF Answered
  <2> QED BY <1>1, <2>2, <2>4, <2>5, <2>7 DEF Fine
<1>4. CASE ~Close(c, s) /\ ~RunLastTools(c)
  <2>1. run'[c].pc \in {"top", "stream", "tools"} /\ run'[c].uid = run[c].uid
    BY <1>1, <1>4 DEF IsCall, Top, AnswerCalls, AnswerStop, AnswerAbort, AnswerTruncated, RunTools
  <2>2. s' = s \/ \E kind \in Kinds : s' = Emitted(s, kind)
    BY <1>4 DEF Top, AnswerCalls, AnswerStop, AnswerAbort, AnswerTruncated, RunTools,
                Kinds, MessageKinds, AssistantKinds
  <2>3. s'.next \in Nat /\ s'.next >= s.next
    BY <1>1, <2>2, EmittedGrows, EmittedSession DEF IsSession
  <2> QED BY <1>1, <2>1, <2>3, OpenFine
<1> QED BY <1>2, <1>3, <1>4

\* A run that ends on an error owes no answer.
LEMMA ErrorFine ==
  ASSUME NEW c \in Callers, Given(c), Fine(c), AnswerError(c) \/ HookFails(c)
  PROVE  Fine(c)'
<1>1. PICK err \in Errors \ {"none"}, held \in Records : Fails(c, err, held)
  BY DEF AnswerError, HookFails, Errors, Records
<1>2. engine'.error # "none" /\ s' = s
  BY <1>1 DEF Fails, Given, EngineOK
<1>3. PICK r : r = IF held # "none" /\ run[c].pc \in InRun
                     THEN [run[c] EXCEPT !.held = held] ELSE run[c]
  OBVIOUS
<1>4. run'[c] = [r EXCEPT !.pc = "ended"]
  BY <1>1, <1>3 DEF Fails
<1>5. run'[c].pc = "ended" /\ run'[c].uid = run[c].uid
  BY <1>3, <1>4 DEF Given, IsCall
<1> QED BY <1>2, <1>5 DEF Fine

\* Giving up or trying again leaves invoke or waits for the next attempt.
LEMMA GiveUpFine ==
  ASSUME NEW c \in Callers, Given(c), Fine(c), NEW sess, IsSession(sess), sess.next >= s.next,
         \/ \E ph, retryable : GiveUpOrRetry(c, sess, ph, retryable)
         \/ \E held : FailTurn(c, sess, held)
  PROVE  Fine(c)'
<1>1. /\ run[c].uid \in Nat /\ s.next \in Nat /\ DOMAIN run = Callers /\ run[c].uid < s.next
      /\ IsCall(run[c]) /\ sess.next \in Nat \ {0}
  BY DEF Given, IsCall, IsSession, Fine, None
<1>2. CASE \E ph : RetryFrom(c, sess, ph)
  <2>1. run'[c].pc = "backoff" /\ run'[c].uid = run[c].uid /\ s' = sess
    BY <1>1, <1>2 DEF RetryFrom, IsCall
  <2> QED BY <1>1, <2>1, OpenFine
<1>3. CASE \E held : FailTurn(c, sess, held)
  <2>1. PICK held : FailTurn(c, sess, held)
    BY <1>3
  <2>2. run'[c].pc = "idle" /\ run'[c].uid = 0
    BY <1>1, <2>1 DEF FailTurn, Idle, None
  <2>3. PICK n \in {0, 1} : n = IF held = "none" THEN 0 ELSE 1
    OBVIOUS
  <2>4. PICK rec : rec = Appended(sess, held, None, n)
    OBVIOUS
  <2>5. rec.next = sess.next + n /\ DOMAIN rec = {"log", "leaf", "next"}
    BY <2>4 DEF Appended
  <2>6. s' = [rec EXCEPT !.log = Without(@, run[c].uid),
                         !.leaf = LeafWithout(rec.log, @, run[c].uid)]
    BY <2>1, <2>3, <2>4 DEF FailTurn
  <2>7. s'.next = rec.next
    BY <2>5, <2>6
  <2> QED BY <1>1, <2>2, <2>3, <2>5, <2>7, OpenFine
<1> QED BY <1>2, <1>3 DEF GiveUpOrRetry

\* After the run: success passes its answer on, and an error ends in no success.
LEMMA AfterRunFine ==
  ASSUME NEW c \in Callers, Given(c), Fine(c),
         Succeed(c) \/ AfterError(c) \/ CompactThenRetry(c) \/ EndInvoke(c)
           \/ StartCompaction(c) \/ EndCompaction(c) \/ Cancel(c)
  PROVE  Fine(c)'
<1>1. /\ run[c].uid \in Nat /\ s.next \in Nat \ {0} /\ DOMAIN run = Callers
      /\ run[c].uid < s.next /\ IsCall(run[c]) /\ IsSession(s)
  BY DEF Given, IsCall, IsSession, Fine, None
<1>2. CASE Succeed(c)
  <2>1. run'[c].uid = run[c].uid /\ s' = s
    BY <1>1, <1>2 DEF Succeed, IsCall
  <2>2. Answered(c)
    BY <1>2 DEF Succeed, At, Fine
  <2> QED BY <1>1, <2>1, <2>2 DEF Fine, Answered
<1>3. \A sess \in CompactedFor(c) : IsSession(sess) /\ sess.next \in Nat /\ sess.next >= s.next
  <2> SUFFICES ASSUME NEW sess \in CompactedFor(c)
               PROVE  IsSession(sess) /\ sess.next \in Nat /\ sess.next >= s.next
    OBVIOUS
  <2>1. sess.next = s.next \/ sess.next = s.next + 1
    BY DEF CompactedFor, Appended
  <2> QED BY <1>1, <2>1, CompactedSession
<1>4. CASE Compacting(c, "compactRetry") \/ Compacting(c, "compacting")
  <2>1. run'[c].pc \in {"compactRetry", "compacting"} /\ run'[c].uid = run[c].uid /\ s' = s
    BY <1>1, <1>4 DEF Compacting, IsCall
  <2> QED BY <1>1, <2>1, OpenFine
<1>5. CASE AfterError(c) /\ ~Compacting(c, "compactRetry")
  <2>1. \/ GiveUpOrRetry(c, s, "idle", TRUE)
        \/ GiveUpOrRetry(c, s, phase, engine.error = "transient")
    BY <1>5 DEF AfterError
  <2>2. \E ph, retryable : GiveUpOrRetry(c, s, ph, retryable)
    BY <2>1
  <2>3. s.next >= s.next /\ IsSession(s)
    BY <1>1
  <2> QED BY <2>2, <2>3, GiveUpFine
<1>6. CASE CompactThenRetry(c)
  <2>1. CASE FailTurn(c, s, "none")
    <3>1. s.next >= s.next /\ IsSession(s)
      BY <1>1
    <3>2. \E held : FailTurn(c, s, held)
      BY <2>1
    <3> QED BY <3>1, <3>2, GiveUpFine
  <2>2. CASE \E sess \in CompactedFor(c) : GiveUpOrRetry(c, sess, "idle", TRUE)
    <3>1. PICK sess \in CompactedFor(c) : GiveUpOrRetry(c, sess, "idle", TRUE)
      BY <2>2
    <3>2. \E ph, retryable : GiveUpOrRetry(c, sess, ph, retryable)
      BY <3>1
    <3> QED BY <1>3, <3>1, <3>2, GiveUpFine
  <2> QED BY <1>6, <2>1, <2>2 DEF CompactThenRetry
<1>7. CASE EndInvoke(c) \/ EndCompaction(c) \/ Cancel(c)
  <2>1. run'[c].pc = "idle" /\ run'[c].uid = 0
    BY <1>1, <1>7 DEF EndInvoke, EndCompaction, Cancel, Idle, None
  <2>2. s'.next \in Nat /\ s'.next >= s.next
    BY <1>1, <1>3, <1>7 DEF EndInvoke, EndCompaction, Cancel
  <2> QED BY <1>1, <2>1, <2>2, OpenFine
<1> QED BY <1>2, <1>4, <1>5, <1>6, <1>7 DEF StartCompaction

\* A session that has grown: what is new is newer than all there was.
Grew(sess, new) ==
  /\ new.next >= sess.next
  /\ \A i \in DOMAIN sess.log : i \in DOMAIN new.log /\ new.log[i] = sess.log[i]
  /\ \A i \in DOMAIN new.log : i < sess.next => i \in DOMAIN sess.log

LEMMA AppendedGrew ==
  ASSUME NEW sess, IsSession(sess), NEW kind, NEW ref, NEW n \in Nat
  PROVE  Grew(sess, Appended(sess, kind, ref, n))
<1>1. PICK new : new = Appended(sess, kind, ref, n)
  OBVIOUS
<1>2. sess.next \in Nat
  BY DEF IsSession
<1>3. new.next >= sess.next /\ \A i \in DOMAIN sess.log : i \in DOMAIN new.log /\ new.log[i] = sess.log[i]
  BY <1>1, <1>2, AppendedGrows
<1>4. DOMAIN new.log = DOMAIN sess.log \cup (sess.next..(sess.next + n - 1))
  BY <1>1 DEF Appended
<1>5. \A i \in DOMAIN new.log : i < sess.next => i \in DOMAIN sess.log
  BY <1>2, <1>4
<1> QED BY <1>1, <1>3, <1>5 DEF Grew

LEMMA EmittedGrew ==
  ASSUME NEW sess, IsSession(sess), NEW kind
  PROVE  Grew(sess, Emitted(sess, kind))
BY FiniteRuns, AppendedGrew DEF Emitted

\* An action of a call only adds to the log, but for the message of its turn.
LEMMA LogStays ==
  ASSUME NEW c \in Callers, Given(c), Acts(c)
  PROVE  /\ s'.next >= s.next
         /\ \A i \in DOMAIN s.log : i # run[c].uid => i \in DOMAIN s'.log
         /\ \A i \in DOMAIN s'.log : i < s.next => i \in DOMAIN s.log /\ s'.log[i] = s.log[i]
<1>1. IsSession(s) /\ s.next \in Nat
  BY DEF Given, IsSession
<1>2. CASE Grew(s, s')
  BY <1>2 DEF Grew
<1>3. Grew(s, s)
  BY <1>1 DEF Grew
<1>4. CASE s' = s
  BY <1>2, <1>3, <1>4
<1>5. \A kind : Grew(s, Emitted(s, kind))
  BY <1>1, EmittedGrew
<1>6. \A sess \in CompactedFor(c) : IsSession(sess) /\ Grew(s, sess)
  <2>1. run[c].kept \in Nat
    BY DEF Given, IsCall
  <2> QED BY <1>1, <1>3, <2>1, CompactedSession, AppendedGrew DEF CompactedFor
<1>7. ASSUME NEW sess, IsSession(sess), Grew(s, sess), NEW held, FailTurn(c, sess, held)
      PROVE  /\ s'.next >= s.next
             /\ \A i \in DOMAIN s.log : i # run[c].uid => i \in DOMAIN s'.log
             /\ \A i \in DOMAIN s'.log : i < s.next => i \in DOMAIN s.log /\ s'.log[i] = s.log[i]
  <2>1. PICK n \in {0, 1} : n = IF held = "none" THEN 0 ELSE 1
    OBVIOUS
  <2>2. PICK rec : rec = Appended(sess, held, None, n)
    OBVIOUS
  <2>3. Grew(sess, rec) /\ rec.next = sess.next + n /\ DOMAIN rec = {"log", "leaf", "next"}
    <3>1. Grew(sess, rec)
      BY <1>7, <2>2, AppendedGrew
    <3> QED BY <2>2, <3>1 DEF Appended
  <2>4. s' = [rec EXCEPT !.log = Without(@, run[c].uid),
                         !.leaf = LeafWithout(rec.log, @, run[c].uid)]
    BY <1>7, <2>1, <2>2 DEF FailTurn
  <2>5. s'.log = Without(rec.log, run[c].uid) /\ s'.next = rec.next
    BY <2>3, <2>4
  <2>6. DOMAIN s'.log = DOMAIN rec.log \ {run[c].uid}
        /\ \A i \in DOMAIN s'.log : s'.log[i] = rec.log[i]
    BY <2>5 DEF Without
  <2>7. sess.next \in Nat /\ sess.next >= s.next
    BY <1>7 DEF IsSession, Grew
  <2>8. \A i \in DOMAIN s'.log : i < s.next => i \in DOMAIN s.log /\ s'.log[i] = s.log[i]
    <3> SUFFICES ASSUME NEW i \in DOMAIN s'.log, i < s.next
                 PROVE  i \in DOMAIN s.log /\ s'.log[i] = s.log[i]
      OBVIOUS
    <3>1. i \in Nat
      <4>1. IsSession(s) /\ IsSession(sess) /\ i \in DOMAIN rec.log
        BY <1>1, <1>7, <2>6
      <4>2. DOMAIN rec.log = DOMAIN sess.log \cup (sess.next..(sess.next + n - 1))
        BY <2>2 DEF Appended
      <4> QED BY <2>7, <4>1, <4>2 DEF IsSession
    <3>2. i < sess.next
      BY <1>1, <2>7, <3>1
    <3>3. i \in DOMAIN sess.log /\ i \in DOMAIN s.log
      BY <1>7, <2>3, <2>6, <3>2 DEF Grew
    <3> QED BY <1>7, <2>3, <2>6, <3>3 DEF Grew
  <2>9. \A i \in DOMAIN s.log : i # run[c].uid => i \in DOMAIN s'.log
    BY <1>7, <2>3, <2>6 DEF Grew
  <2>10. s'.next >= s.next
    BY <1>1, <2>3, <2>5, <2>7
  <2> QED BY <2>8, <2>9, <2>10
<1>8. ASSUME NEW sess, IsSession(sess), Grew(s, sess), NEW ph, NEW retryable,
             GiveUpOrRetry(c, sess, ph, retryable)
      PROVE  /\ s'.next >= s.next
             /\ \A i \in DOMAIN s.log : i # run[c].uid => i \in DOMAIN s'.log
             /\ \A i \in DOMAIN s'.log : i < s.next => i \in DOMAIN s.log /\ s'.log[i] = s.log[i]
  <2>1. CASE FailTurn(c, sess, run[c].held)
    BY <1>7, <1>8, <2>1
  <2>2. CASE RetryFrom(c, sess, ph)
    BY <1>2, <1>8, <2>2 DEF RetryFrom
  <2> QED BY <1>8, <2>1, <2>2 DEF GiveUpOrRetry
<1>9. CASE Invoke(c) \/ Build(c) \/ Retry(c) \/ Succeed(c) \/ EndInvoke(c) \/ Cancel(c)
             \/ StartCompaction(c) \/ AnswerTruncated(c) \/ AnswerError(c) \/ HookFails(c)
  BY <1>4, <1>9 DEF Invoke, Build, Retry, Succeed, EndInvoke, Cancel, StartCompaction, Compacting,
                    AnswerTruncated, AnswerError, HookFails, Fails
<1>10. CASE Begin(c)
  BY <1>1, <1>2, <1>10, AppendedGrew DEF Begin
<1>11. CASE Top(c) \/ AnswerCalls(c) \/ AnswerStop(c) \/ AnswerAbort(c) \/ RunTools(c)
  BY <1>2, <1>4, <1>5, <1>11 DEF Top, Close, AnswerCalls, AnswerStop, AnswerAbort, RunTools
<1>12. CASE RunLastTools(c)
  <2>1. PICK sess : sess = Emitted(s, "tool")
    OBVIOUS
  <2>2. IsSession(sess) /\ Grew(s, sess)
    BY <1>1, <1>5, <2>1, EmittedSession DEF Kinds, MessageKinds
  <2>3. Grew(sess, s')
    BY <1>12, <2>1, <2>2, EmittedGrew DEF RunLastTools
  <2>4. Grew(s, s')
    <3>1. \A i \in DOMAIN s'.log : i < s.next => i \in DOMAIN s.log
      <4> SUFFICES ASSUME NEW i \in DOMAIN s'.log, i < s.next PROVE i \in DOMAIN s.log
        OBVIOUS
      <4>1. IsSession(s')
        BY <1>12, <2>1, <2>2, EmittedSession DEF RunLastTools, Kinds, MessageKinds, AssistantKinds
      <4>2. i \in Nat /\ sess.next \in Nat /\ s'.next \in Nat
        BY <2>2, <4>1 DEF IsSession
      <4>3. i < sess.next
        BY <1>1, <2>2, <4>2 DEF Grew
      <4> QED BY <2>2, <2>3, <4>3 DEF Grew
    <3>2. s'.next >= s.next
      <4>1. IsSession(s')
        BY <1>12, <2>1, <2>2, EmittedSession DEF RunLastTools, Kinds, MessageKinds, AssistantKinds
      <4> QED BY <1>1, <2>2, <2>3, <4>1 DEF Grew, IsSession
    <3> QED BY <2>2, <2>3, <3>1, <3>2 DEF Grew
  <2> QED BY <1>2, <2>4
<1>13. CASE EndCompaction(c)
  BY <1>2, <1>6, <1>13 DEF EndCompaction
<1>14. CASE AfterError(c)
  BY <1>1, <1>3, <1>4, <1>8, <1>14 DEF AfterError, Compacting
<1>15. CASE CompactThenRetry(c)
  BY <1>1, <1>3, <1>6, <1>7, <1>8, <1>15 DEF CompactThenRetry
<1> QED BY <1>9, <1>10, <1>11, <1>12, <1>13, <1>14, <1>15 DEF Acts, Step, Answer

\* A new turn starts at the id its message gets ...
LEMMA BegunUid ==
  ASSUME NEW c \in Callers, Begin(c), IsCall(run[c]), DOMAIN run = Callers
  PROVE  run'[c].uid = s.next
<1>1. PICK q : q = Started(run[c])
  OBVIOUS
<1>2. PICK msgs : msgs = Append(Usable(run[c].msgs), Item("user", s.next))
  OBVIOUS
<1>3. run'[c] = [q EXCEPT !.uid = s.next, !.attempt = 0, !.msgs = msgs]
  BY <1>1, <1>2 DEF Begin
<1>4. DOMAIN q = DOMAIN run[c]
  BY <1>1 DEF Started
<1> QED BY <1>3, <1>4 DEF IsCall

\* ... and keeps it until it ends.
LEMMA UidStays ==
  ASSUME NEW c \in Callers, Acts(c), ~Begin(c), IsCall(run[c]), DOMAIN run = Callers
  PROVE  run'[c].uid \in {run[c].uid, 0}
<1>1. Idle.uid = 0
  BY DEF Idle, None
<1>2. CASE run'[c] = Idle
  BY <1>1, <1>2
<1>3. CASE Invoke(c) \/ Build(c) \/ Succeed(c) \/ AnswerTruncated(c)
  BY <1>3 DEF Invoke, Build, Succeed, AnswerTruncated, IsCall
<1>4. CASE EndInvoke(c) \/ EndCompaction(c) \/ Cancel(c)
  BY <1>2, <1>4 DEF EndInvoke, EndCompaction, Cancel
<1>5. CASE \E err, held : Fails(c, err, held)
  <2>1. PICK err, held : Fails(c, err, held)
    BY <1>5
  <2>2. PICK r \in {run[c], [run[c] EXCEPT !.held = held]} : run'[c] = [r EXCEPT !.pc = "ended"]
    BY <2>1 DEF Fails
  <2> QED BY <2>2 DEF IsCall
<1>6. CASE AnswerError(c) \/ HookFails(c)
  BY <1>5, <1>6 DEF AnswerError, HookFails
<1>7. CASE Top(c) \/ AnswerCalls(c) \/ AnswerStop(c) \/ AnswerAbort(c) \/ RunTools(c)
             \/ RunLastTools(c)
  BY <1>7 DEF Top, Close, AnswerCalls, AnswerStop, AnswerAbort, RunTools, RunLastTools, IsCall
<1>8. CASE Retry(c)
  <2>1. PICK q : q = Started(run[c])
    OBVIOUS
  <2>2. run'[c] = q
    BY <1>8, <2>1 DEF Retry
  <2> QED BY <2>1, <2>2 DEF Started, IsCall
<1>9. CASE \E sess, held : FailTurn(c, sess, held)
  BY <1>2, <1>9 DEF FailTurn
<1>10. CASE \E sess, ph : RetryFrom(c, sess, ph)
  BY <1>10 DEF RetryFrom, IsCall
<1>11. CASE \E sess, ph, retryable : GiveUpOrRetry(c, sess, ph, retryable)
  BY <1>9, <1>10, <1>11 DEF GiveUpOrRetry
<1>12. CASE \E pc : Compacting(c, pc)
  BY <1>12 DEF Compacting, IsCall
<1>13. CASE AfterError(c)
  BY <1>11, <1>12, <1>13 DEF AfterError
<1>14. CASE CompactThenRetry(c)
  BY <1>9, <1>11, <1>14 DEF CompactThenRetry
<1>15. CASE StartCompaction(c)
  BY <1>12, <1>15 DEF StartCompaction
<1> QED BY <1>3, <1>4, <1>6, <1>7, <1>8, <1>13, <1>14, <1>15 DEF Acts, Step, Answer

\* What others do adds at most a change of leaf to the log.
LEMMA OthersGrew ==
  ASSUME NEW c \in Callers, Given(c), Abort \/ Steer \/ FollowUp \/ Fork
  PROVE  Grew(s, s') /\ s'.next \in Nat
<1>1. IsSession(s) /\ s.next \in Nat
  BY DEF Given, IsSession
<1>2. CASE Abort \/ Steer \/ FollowUp
  BY <1>1, <1>2 DEF Abort, Steer, FollowUp, Grew
<1>3. CASE Fork
  <2>1. PICK target \in IdsOf(s.log, MessageKinds) :
           s' = [Appended(s, "leaf", target, 1) EXCEPT !.leaf = target]
    BY <1>3 DEF Fork
  <2>2. PICK sess : sess = Appended(s, "leaf", target, 1)
    OBVIOUS
  <2>3. DOMAIN sess = {"log", "leaf", "next"} /\ sess.next = s.next + 1
    BY <2>2 DEF Appended
  <2>4. s'.log = sess.log /\ s'.next = sess.next
    BY <2>1, <2>2, <2>3
  <2>5. Grew(s, sess)
    BY <1>1, <2>2, AppendedGrew
  <2> QED BY <1>1, <2>3, <2>4, <2>5 DEF Grew
<1> QED BY <1>2, <1>3

LEMMA OthersAsked ==
  ASSUME NEW c \in Callers, Given(c), Fine(c), Asked(c),
         Abort \/ Steer \/ FollowUp \/ Fork
  PROVE  Asked(c)'
<1>1. Grew(s, s') /\ run[c].uid < s.next
  BY OthersGrew DEF Fine
<1>2. run'[c].uid = run[c].uid
  BY DEF Abort, Steer, FollowUp, Fork, Given, IsCall
<1> QED BY <1>1, <1>2 DEF Grew, Asked, IdsOf

\* What others do leaves the caller where it is, and its answer in the log.
LEMMA OthersFine ==
  ASSUME IInv, NEW c \in Callers, Given(c), Fine(c), Abort \/ Steer \/ FollowUp \/ Fork
  PROVE  Fine(c)'
<1>1. /\ run[c].uid \in Nat /\ s.next \in Nat /\ DOMAIN run = Callers /\ run[c].uid < s.next
      /\ IsCall(run[c]) /\ IsSession(s) /\ EngineOK(engine)
  BY DEF Given, IsCall, IsSession, Fine
<1>2. run'[c].pc = run[c].pc /\ run'[c].uid = run[c].uid
  BY <1>1 DEF Abort, Steer, FollowUp, Fork, IsCall
<1>3. engine'.error = engine.error
  BY <1>1 DEF Abort, Steer, FollowUp, Fork, EngineOK
<1>4. /\ s'.next >= s.next /\ s'.next \in Nat
      /\ \A i \in DOMAIN s.log : i \in DOMAIN s'.log /\ s'.log[i] = s.log[i]
  BY OthersGrew DEF Grew
<1>5. IdsOf(s.log, {"assistant"}) \subseteq IdsOf(s'.log, {"assistant"})
  BY <1>4 DEF IdsOf
<1>6. Answered(c) => Answered(c)'
  BY <1>2, <1>5 DEF Answered
<1> QED BY <1>1, <1>2, <1>3, <1>4, <1>6 DEF Fine

\* The message of a turn stays no answer: what is appended is newer.
LEMMA AskedStays ==
  ASSUME IInv, IInv', \A d \in Callers : Fine(d) /\ Asked(d), NEW c \in Callers, Acts(c),
         NEW d \in Callers
  PROVE  Asked(d)'
<1>1. Given(c) /\ Given(d) /\ Given(d)' /\ run[d].uid < s.next /\ Asked(d)
  BY InvGives DEF Fine, Given, IInv, TypeOK, EngineOK
<1>2. \A i \in DOMAIN s'.log : i < s.next => i \in DOMAIN s.log /\ s'.log[i] = s.log[i]
  BY <1>1, LogStays
<1>3. CASE run'[d].uid = run[d].uid
  BY <1>1, <1>2, <1>3 DEF Asked, IdsOf
<1>4. CASE run'[d].uid = 0
  <2>1. 0 \notin DOMAIN s'.log
    BY <1>1 DEF Given, IsSession
  <2> QED BY <1>4, <2>1 DEF Asked, IdsOf
<1>5. CASE d = c /\ Begin(c)
  <2>1. s'.log[s.next].kind = "user"
    <3>1. s' = Appended(s, "user", None, 1)
      BY <1>5 DEF Begin
    <3>2. 1 \in Nat /\ 1 > 0
      OBVIOUS
    <3> QED BY <1>1, <3>1, <3>2, AppendedGrows DEF Given
  <2>2. run'[c].uid = s.next
    BY <1>1, <1>5, BegunUid DEF Given
  <2> QED BY <1>5, <2>1, <2>2 DEF Asked, IdsOf
<1>6. CASE d # c
  <2>1. run'[d].uid = run[d].uid
    BY <1>1, <1>6, OthersStay DEF Given
  <2> QED BY <1>3, <2>1
<1>7. CASE d = c /\ ~Begin(c)
  <2>1. run'[c].uid \in {run[c].uid, 0}
    BY <1>1, <1>7, UidStays DEF Given
  <2> QED BY <1>3, <1>4, <1>7, <2>1
<1> QED BY <1>5, <1>6, <1>7

\* A step of one call leaves every other fine, unless both hold the phase.
LEMMA OthersStayFine ==
  ASSUME IInv, IInv', Apart, Apart', \A d \in Callers : Fine(d) /\ Asked(d),
         NEW c \in Callers, Acts(c), NEW d \in Callers \ {c}
  PROVE  Fine(d)'
<1>1. /\ Given(c) /\ Given(d) /\ IsCall(run[c]) /\ IsCall(run[d]) /\ DOMAIN run = Callers
      /\ Fine(d) /\ Asked(c)
  BY InvGives DEF Given
<1>2. /\ s.next \in Nat /\ s'.next \in Nat /\ run[d].uid \in Nat /\ run[d].uid < s.next
      /\ DOMAIN s.log \subseteq 1..(s.next - 1)
  BY <1>1 DEF Given, IsSession, IsCall, Fine, IInv, TypeOK
<1>3. run'[d].pc = run[d].pc /\ run'[d].uid = run[d].uid
  BY <1>1, OthersStay
<1>4. CASE run[d].pc \in Busy
  <2>1. s' = s /\ engine' = engine /\ run'[d] = run[d]
    BY <1>1, <1>4, ApartGives
  <2> QED BY <1>1, <2>1 DEF Fine, Answered
<1>5. CASE run[d].pc \notin Busy
  <2>1. /\ s'.next >= s.next
        /\ \A i \in DOMAIN s.log : i # run[c].uid => i \in DOMAIN s'.log
        /\ \A i \in DOMAIN s'.log : i < s.next => i \in DOMAIN s.log /\ s'.log[i] = s.log[i]
    BY <1>1, LogStays
  <2>2. IdsOf(s.log, {"assistant"}) \subseteq IdsOf(s'.log, {"assistant"})
    <3> SUFFICES ASSUME NEW i \in DOMAIN s.log, s.log[i].kind = "assistant"
                 PROVE  i \in DOMAIN s'.log /\ s'.log[i].kind = "assistant"
      BY DEF IdsOf
    <3>1. i # run[c].uid
      BY <1>1 DEF Asked, IdsOf
    <3>2. i < s.next
      BY <1>2
    <3> QED BY <2>1, <3>1, <3>2
  <2>3. run[d].pc = "post" => Answered(d)'
    BY <1>1, <1>3, <2>2 DEF Fine, Answered
  <2>4. run'[d].pc # "ended" /\ run'[d].uid < s'.next
    BY <1>2, <1>3, <1>5, <2>1 DEF Busy, InRun
  <2> QED BY <1>3, <2>3, <2>4 DEF Fine
<1> QED BY <1>4, <1>5

\* When no two calls hold the phase every step keeps TurnFine.
LEMMA TurnFineSafe ==
  IInv /\ IInv' /\ Apart /\ Apart' /\ TurnFine /\ [Next]_vars => TurnFine'
<1> SUFFICES ASSUME IInv, IInv', Apart, Apart', TurnFine, [Next]_vars,
                    NEW d \in Callers
             PROVE  Fine(d)' /\ Asked(d)'
  BY DEF TurnFine
<1>1. \A c \in Callers : Given(c) /\ Fine(c) /\ Asked(c)
  BY InvGives DEF TurnFine
<1>2. CASE UNCHANGED vars
  BY <1>1, <1>2 DEF vars, Fine, Answered, Asked
<1>3. CASE Abort \/ Steer \/ FollowUp \/ Fork
  <2>1. Fine(d)'
    BY <1>1, <1>3, OthersFine
  <2>2. Asked(d)'
    BY <1>1, <1>3, OthersAsked
  <2> QED BY <2>1, <2>2
<1>4. ASSUME NEW c \in Callers, Acts(c) PROVE Fine(d)' /\ Asked(d)'
  <2>1. Asked(d)'
    BY <1>1, <1>4, AskedStays
  <2>2. CASE d # c
    BY <1>1, <1>4, <2>1, <2>2, OthersStayFine
  <2>3. CASE d = c
    <3>1. Fine(c)'
      BY <1>1, <1>4, BeforeRunFine, RunFine, ErrorFine, AfterRunFine DEF Acts, Step, Answer
    <3> QED BY <2>1, <2>3, <3>1
  <2> QED BY <2>2, <2>3
<1> QED BY <1>2, <1>3, <1>4 DEF Next, Acts

\* A turn that succeeds has left an answer in the session, with any retries,
\* compactions, aborts, cancellations, forks, failing hooks and other calls that
\* come and go, as long as no two turns hold the phase at once.
THEOREM TurnsAreAnswered == Spec /\ []Apart => []TurnAnswered
<1>1. Init => TurnFine
  BY DEF Init, TurnFine, Fine, Asked, Idle, None, IdsOf, NoEntries
<1>2. IInv /\ IInv' /\ Apart /\ Apart' /\ TurnFine /\ [Next]_vars => TurnFine'
  BY TurnFineSafe
<1>3. TurnFine => TurnAnswered
  BY DEF TurnFine, Fine, Answered, TurnAnswered, At
<1> QED BY <1>1, <1>2, <1>3, Invariance, PTL DEF Spec

----------------------------------------------------------------------------
(* The n-th number of a set *)

\* How many numbers of the set are smaller.
Rank(S, i) == Cardinality({j \in S : j < i})

\* A member has fewer predecessors than there are members.
LEMMA RankType ==
  ASSUME NEW S, IsFiniteSet(S), S \subseteq Nat, NEW i \in S
  PROVE  Rank(S, i) \in 0..(Cardinality(S) - 1)
<1>1. PICK T : T = {j \in S : j < i}
  OBVIOUS
<1>2. T \in SUBSET S /\ T # S
  BY <1>1
<1>3. IsFiniteSet(T) /\ Cardinality(T) <= Cardinality(S) /\ Cardinality(T) # Cardinality(S)
  BY <1>2, FS_Subset
<1>4. Cardinality(T) \in Nat /\ Cardinality(S) \in Nat
  BY <1>3, FS_CardinalityType
<1> QED BY <1>1, <1>3, <1>4 DEF Rank

\* A greater member has more of them.
LEMMA RankGrows ==
  ASSUME NEW S, IsFiniteSet(S), S \subseteq Nat, NEW i \in S, NEW k \in S, i < k
  PROVE  Rank(S, i) < Rank(S, k)
<1>1. PICK T : T = {j \in S : j < k}
  OBVIOUS
<1>2. T \in SUBSET S /\ i \in T /\ T \subseteq Nat
  BY <1>1
<1>3. IsFiniteSet(T)
  BY <1>2, FS_Subset
<1>4. Rank(T, i) \in 0..(Cardinality(T) - 1) /\ Cardinality(T) \in Nat
  BY <1>2, <1>3, RankType, FS_CardinalityType
<1>5. {j \in T : j < i} = {j \in S : j < i}
  <2>1. \A j \in S : j < i => j < k
    OBVIOUS
  <2> QED BY <1>1, <2>1
<1>6. Rank(T, i) = Rank(S, i) /\ Rank(S, k) = Cardinality(T)
  BY <1>1, <1>5 DEF Rank
<1> QED BY <1>4, <1>6

\* So every number of predecessors there can be is some member's.
LEMMA RankOnto ==
  ASSUME NEW S, IsFiniteSet(S), S \subseteq Nat, NEW n \in 1..Cardinality(S)
  PROVE  \E i \in S : Rank(S, i) = n - 1
<1> DEFINE T == 0..(Cardinality(S) - 1)
           f == [i \in S |-> Rank(S, i)]
<1>1. Cardinality(S) \in Nat
  BY FS_CardinalityType
<1>2. f \in [S -> T]
  BY RankType
<1>3. \A i, k \in S : f[i] = f[k] => i = k
  <2> SUFFICES ASSUME NEW i \in S, NEW k \in S, i # k PROVE Rank(S, i) # Rank(S, k)
    OBVIOUS
  <2>1. Rank(S, i) \in Nat /\ Rank(S, k) \in Nat
    <3>1. Rank(S, i) \in 0..(Cardinality(S) - 1) /\ Rank(S, k) \in 0..(Cardinality(S) - 1)
      BY RankType
    <3> QED BY <3>1
  <2>2. CASE i < k
    <3>1. Rank(S, i) < Rank(S, k)
      BY <2>2, RankGrows
    <3> QED BY <2>1, <3>1
  <2>3. CASE k < i
    <3>1. Rank(S, k) < Rank(S, i)
      BY <2>3, RankGrows
    <3> QED BY <2>1, <3>1
  <2> QED BY <2>2, <2>3
<1>4. IsFiniteSet(T) /\ Cardinality(T) = Cardinality(S)
  <2>1. PICK m : m = Cardinality(S) - 1
    OBVIOUS
  <2>2. m \in Int /\ 0 \in Int /\ Cardinality(S) > 0
    BY <1>1, <2>1
  <2>3. IsFiniteSet(0..m) /\ Cardinality(0..m) = IF 0 > m THEN 0 ELSE m - 0 + 1
    BY <2>2, FS_Interval
  <2> QED BY <1>1, <2>1, <2>2, <2>3
<1> HIDE DEF T, f
<1>5. f \in Injection(S, T)
  BY <1>2, <1>3 DEF Injection, IsInjective
<1>6. f \in Surjection(S, T)
  BY <1>4, <1>5, FS_Injection
<1>7. n - 1 \in T
  BY <1>1 DEF T
<1>8. \E i \in S : f[i] = n - 1
  BY <1>6, <1>7 DEF Surjection
<1> QED BY <1>8 DEF f

\* Counting a finite set from its smallest member goes through all of it, in
\* ascending order.
LEMMA NthOf ==
  ASSUME NEW S, IsFiniteSet(S), S \subseteq Nat
  PROVE  /\ \A n \in 1..Cardinality(S) : Nth(S, n) \in S
         /\ \A m, n \in 1..Cardinality(S) : m < n => Nth(S, m) < Nth(S, n)
         /\ \A i \in S : \E n \in 1..Cardinality(S) : Nth(S, n) = i
<1>0. Cardinality(S) \in Nat
  BY FS_CardinalityType
<1>1. \A i \in S : Rank(S, i) \in Nat /\ Rank(S, i) + 1 \in 1..Cardinality(S)
  <2> SUFFICES ASSUME NEW i \in S
               PROVE  Rank(S, i) \in Nat /\ Rank(S, i) + 1 \in 1..Cardinality(S)
    OBVIOUS
  <2>1. Rank(S, i) \in 0..(Cardinality(S) - 1)
    BY RankType
  <2> QED BY <1>0, <2>1
<1>2. ASSUME NEW n \in 1..Cardinality(S)
      PROVE  Nth(S, n) \in S /\ Rank(S, Nth(S, n)) = n - 1
  BY RankOnto DEF Nth, Rank
<1>3. ASSUME NEW i \in S, NEW k \in S, Rank(S, i) <= Rank(S, k)
      PROVE  i <= k
  <2>1. SUFFICES ASSUME k < i PROVE FALSE
    OBVIOUS
  <2>2. Rank(S, k) < Rank(S, i)
    BY <2>1, RankGrows
  <2> QED BY <1>1, <1>3, <2>2
<1>4. ASSUME NEW m \in 1..Cardinality(S), NEW n \in 1..Cardinality(S), m < n
      PROVE  Nth(S, m) < Nth(S, n)
  <2>1. PICK i \in S : i = Nth(S, m) /\ Rank(S, i) = m - 1
    BY <1>2
  <2>2. PICK k \in S : k = Nth(S, n) /\ Rank(S, k) = n - 1
    BY <1>2
  <2>3. i <= k
    BY <1>1, <1>3, <1>4, <2>1, <2>2
  <2>4. i # k
    BY <1>1, <1>4, <2>1, <2>2
  <2> QED BY <2>1, <2>2, <2>3, <2>4
<1>5. ASSUME NEW i \in S
      PROVE  \E n \in 1..Cardinality(S) : Nth(S, n) = i
  <2>1. PICK n \in 1..Cardinality(S) : n = Rank(S, i) + 1
    BY <1>1
  <2>2. PICK k \in S : k = Nth(S, n) /\ Rank(S, k) = n - 1
    BY <1>2
  <2>3. Rank(S, k) <= Rank(S, i) /\ Rank(S, i) <= Rank(S, k)
    BY <1>1, <2>1, <2>2
  <2>4. i = k
    BY <1>3, <2>3
  <2> QED BY <2>2, <2>4
<1> QED BY <1>2, <1>4, <1>5

----------------------------------------------------------------------------
(* The messages of a request *)

Recorded == [kind : Kinds, id : Nat]
Message  == [kind : Kinds \cup {"steer", "followup"}, id : Nat]

\* The items listed are the entries, each of them and in order.
LEMMA ListedItems ==
  ASSUME NEW log, IsLog(log), NEW ids, IsFiniteSet(ids), ids \subseteq DOMAIN log
  PROVE  Listed(log, ids) \in Seq(Recorded)
<1>1. Cardinality(ids) \in Nat /\ ids \subseteq Nat
  BY FS_CardinalityType DEF IsLog
<1>2. \A n \in 1..Cardinality(ids) : Nth(ids, n) \in ids
  BY <1>1, NthOf
<1>3. \A i \in ids : i \in Nat /\ log[i].kind \in Kinds
  BY DEF IsLog, Entry
<1>4. \A n \in 1..Cardinality(ids) : Item(log[Nth(ids, n)].kind, Nth(ids, n)) \in Recorded
  BY <1>2, <1>3 DEF Item, Recorded
<1>5. Listed(log, ids) \in [1..Cardinality(ids) -> Recorded]
  BY <1>4 DEF Listed
<1> QED BY <1>1, <1>5

\* The entries of a context are entries of the log, finitely many.
LEMMA ContextEntries ==
  ASSUME NEW sess, IsSession(sess), Older(sess.log)
  PROVE  /\ Context(sess.log, sess.leaf) \subseteq DOMAIN sess.log
         /\ IsFiniteSet(Context(sess.log, sess.leaf))
<1>1. /\ sess.next \in Nat /\ IsLog(sess.log) /\ DOMAIN sess.log \subseteq 1..(sess.next - 1)
      /\ sess.leaf \in Nat
  BY DEF IsSession, IsLog, None
<1>2. PICK path : path = Branch(sess.log, sess.leaf)
  OBVIOUS
<1>3. path \subseteq DOMAIN sess.log
  BY <1>1, <1>2, BranchBelow
<1>4. PICK cs : cs = {i \in path : sess.log[i].kind = "compaction"}
  OBVIOUS
<1>5. cs \subseteq path /\ cs \subseteq Nat
  BY <1>1, <1>3, <1>4
<1>6. Newest(cs) \in path \cup {None}
  BY <1>5, NewestType
<1>7. Context(sess.log, sess.leaf) \subseteq path
  BY <1>2, <1>4, <1>6 DEF Context
<1>8. IsFiniteSet(1..(sess.next - 1))
  BY <1>1, FS_Interval
<1>9. Context(sess.log, sess.leaf) \subseteq 1..(sess.next - 1)
  BY <1>1, <1>3, <1>7
<1> QED BY <1>3, <1>7, <1>8, <1>9, FS_Subset

\* A request rebuilt from the session has entries of the session only.
LEMMA MessagesRecorded ==
  ASSUME NEW sess, IsSession(sess), Older(sess.log)
  PROVE  Messages(sess) \in Seq(Recorded)
<1>1. IsLog(sess.log)
  BY DEF IsSession
<1>2. PICK ids : ids = Context(sess.log, sess.leaf)
  OBVIOUS
<1>3. ids \subseteq DOMAIN sess.log /\ IsFiniteSet(ids)
  BY <1>2, ContextEntries
<1>4. ASSUME NEW S, S \subseteq ids
      PROVE  Listed(sess.log, S) \in Seq(Recorded)
  <2>1. S \subseteq DOMAIN sess.log /\ IsFiniteSet(S)
    BY <1>3, <1>4, FS_Subset
  <2> QED BY <1>1, <2>1, ListedItems
<1>5. PICK S : S = {i \in ids : sess.log[i].kind = "compaction"}
  OBVIOUS
<1>6. PICK T : T = {i \in ids : sess.log[i].kind # "compaction"}
  OBVIOUS
<1>7. Listed(sess.log, S) \in Seq(Recorded) /\ Listed(sess.log, T) \in Seq(Recorded)
  BY <1>4, <1>5, <1>6
<1>8. Messages(sess) = Listed(sess.log, S) \o Listed(sess.log, T)
  BY <1>2, <1>5, <1>6 DEF Messages
<1> QED BY <1>7, <1>8, ConcatProperties

\* What is left of a list when some of it is dropped, in the order it had.
Thinned(msgs, rest) ==
  \E at \in [1..Len(rest) -> 1..Len(msgs)] :
    /\ \A m, n \in 1..Len(rest) : m < n => at[m] < at[n]
    /\ \A n \in 1..Len(rest) : rest[n] = msgs[at[n]]

\* The two filters before a request only drop messages, failed ones among them.
LEMMA UsableThins ==
  ASSUME NEW T, NEW msgs \in Seq(T)
  PROVE  /\ Usable(msgs) \in Seq(T) /\ Thinned(msgs, Usable(msgs))
         /\ \A n \in 1..Len(Usable(msgs)) : Usable(msgs)[n].kind # "error"
<1>1. Len(msgs) \in Nat /\ DOMAIN msgs = 1..Len(msgs) /\ \A n \in 1..Len(msgs) : msgs[n] \in T
  OBVIOUS
<1>2. PICK ok : ok = {n \in DOMAIN msgs : msgs[n].kind \notin {"calls", "error", "partial"}}
  OBVIOUS
<1>3. PICK last : last = Newest(ok)
  OBVIOUS
<1>4. last \in 0..Len(msgs)
  <2>1. ok \subseteq 1..Len(msgs) /\ ok \subseteq Nat
    BY <1>1, <1>2
  <2>2. last \in ok \cup {None}
    BY <1>3, <2>1, NewestType
  <2> QED BY <1>1, <2>1, <2>2 DEF None
<1>5. PICK kept : kept = {n \in 1..last : msgs[n].kind # "error"}
  OBVIOUS
<1>6. kept \subseteq 1..Len(msgs) /\ kept \subseteq Nat
  BY <1>1, <1>4, <1>5
<1>7. IsFiniteSet(kept) /\ Cardinality(kept) \in Nat
  <2>1. IsFiniteSet(1..Len(msgs))
    BY <1>1, FS_Interval
  <2>2. IsFiniteSet(kept)
    BY <1>6, <2>1, FS_Subset
  <2> QED BY <2>2, FS_CardinalityType
<1>8. PICK k \in Nat : k = Cardinality(kept)
  BY <1>7
<1>9. PICK at : at = [n \in 1..k |-> Nth(kept, n)]
  OBVIOUS
<1>10. /\ at \in [1..k -> kept]
       /\ \A m, n \in 1..k : m < n => at[m] < at[n]
  BY <1>6, <1>7, <1>8, <1>9, NthOf
<1>11. PICK rest : rest = Usable(msgs)
  OBVIOUS
<1>12. rest = [n \in 1..k |-> msgs[at[n]]]
  BY <1>2, <1>3, <1>5, <1>8, <1>9, <1>11 DEF Usable
<1>13. /\ \A n \in 1..k : at[n] \in 1..Len(msgs) /\ msgs[at[n]].kind # "error" /\ msgs[at[n]] \in T
       /\ at \in [1..k -> 1..Len(msgs)]
  BY <1>1, <1>5, <1>6, <1>10
<1>14. rest \in [1..k -> T]
  BY <1>12, <1>13
<1>15. rest \in Seq(T) /\ Len(rest) = k
  BY <1>14
<1>16. \A n \in 1..k : rest[n] = msgs[at[n]]
  BY <1>12
<1>17. Thinned(msgs, rest)
  BY <1>10, <1>13, <1>15, <1>16 DEF Thinned
<1> QED BY <1>11, <1>13, <1>15, <1>16, <1>17

----------------------------------------------------------------------------
(* A queue behind a request *)

\* The queued messages of a kind come after those of the request, each group in
\* the order in which they were queued, and no more than n were ever queued.
Follows(msgs, queue, kind, n) ==
  /\ msgs \in Seq(Message) /\ queue \in Seq(Message)
  /\ InOrder(msgs, kind) /\ InOrder(queue, kind)
  /\ \A j \in DOMAIN queue : queue[j].kind = kind /\ queue[j].id <= n
  /\ \A i \in DOMAIN msgs : msgs[i].kind = kind =>
       msgs[i].id <= n /\ \A j \in DOMAIN queue : msgs[i].id < queue[j].id

\* Together they are in order.
LEMMA FollowsInOrder ==
  ASSUME NEW msgs, NEW queue, NEW kind, NEW n, Follows(msgs, queue, kind, n)
  PROVE  InOrder(msgs \o queue, kind)
<1>1. /\ msgs \in Seq(Message) /\ queue \in Seq(Message)
      /\ Len(msgs) \in Nat /\ Len(queue) \in Nat
      /\ DOMAIN msgs = 1..Len(msgs) /\ DOMAIN queue = 1..Len(queue)
  BY DEF Follows
<1>2. PICK all : all = msgs \o queue
  OBVIOUS
<1>3. /\ DOMAIN all = 1..(Len(msgs) + Len(queue))
      /\ \A i \in DOMAIN all : all[i] = IF i <= Len(msgs) THEN msgs[i] ELSE queue[i - Len(msgs)]
  BY <1>1, <1>2
<1>4. ASSUME NEW p \in DOMAIN all, NEW q \in DOMAIN all, p < q,
             all[p].kind = kind, all[q].kind = kind
      PROVE  all[p].id < all[q].id
  <2>1. CASE q <= Len(msgs)
    <3>1. p \in DOMAIN msgs /\ q \in DOMAIN msgs /\ all[p] = msgs[p] /\ all[q] = msgs[q]
      BY <1>1, <1>3, <1>4, <2>1
    <3> QED BY <1>4, <3>1 DEF Follows, InOrder
  <2>2. CASE Len(msgs) < p
    <3>1. PICK i, j : i = p - Len(msgs) /\ j = q - Len(msgs)
      OBVIOUS
    <3>2. i \in DOMAIN queue /\ j \in DOMAIN queue /\ all[p] = queue[i] /\ all[q] = queue[j] /\ i < j
      BY <1>1, <1>3, <1>4, <2>2, <3>1
    <3> QED BY <1>4, <3>2 DEF Follows, InOrder
  <2>3. CASE p <= Len(msgs) /\ Len(msgs) < q
    <3>1. PICK j : j = q - Len(msgs)
      OBVIOUS
    <3>2. p \in DOMAIN msgs /\ j \in DOMAIN queue /\ all[p] = msgs[p] /\ all[q] = queue[j]
      BY <1>1, <1>3, <1>4, <2>3, <3>1
    <3> QED BY <1>4, <3>2 DEF Follows
  <2>4. p \in Int /\ q \in Int
    BY <1>1, <1>3
  <2> QED BY <1>1, <1>4, <2>1, <2>2, <2>3, <2>4
<1> QED BY <1>2, <1>4 DEF InOrder

\* What happens to a queue: nothing, a reset, its head is taken, or a message
\* is queued.
QueueStep(queue, next, kind, n, m) ==
  \/ next = queue /\ m >= n
  \/ next = <<>> /\ m >= n
  \/ queue # <<>> /\ next = Tail(queue) /\ m >= n
  \/ m = n + 1 /\ next = Append(queue, Item(kind, n + 1))

\* None of these disturbs the order.
LEMMA QueueStepFollows ==
  ASSUME NEW msgs, NEW queue, NEW kind \in {"steer", "followup"}, NEW n \in Nat, NEW m \in Nat,
         Follows(msgs, queue, kind, n), NEW next, QueueStep(queue, next, kind, n, m)
  PROVE  Follows(msgs, next, kind, m)
<1>6. msgs \in Seq(Message) /\ queue \in Seq(Message) /\ m >= n
  BY DEF Follows, QueueStep
<1>7. \A x \in Message : x.id \in Nat
  BY DEF Message
<1>1. /\ msgs \in Seq(Message) /\ queue \in Seq(Message) /\ m >= n
      /\ \A i \in DOMAIN msgs : msgs[i] \in Message /\ msgs[i].id \in Nat
      /\ \A j \in DOMAIN queue : queue[j] \in Message /\ queue[j].id \in Nat
  BY <1>6, <1>7
<1>2. CASE next = queue
  BY <1>1, <1>2 DEF Follows
<1>3. CASE next = <<>>
  BY <1>1, <1>3 DEF Follows, InOrder
<1>4. CASE queue # <<>> /\ next = Tail(queue)
  <2>1. next \in Seq(Message) /\ DOMAIN next = 1..Len(next) /\ Len(next) \in Nat
    BY <1>1, <1>4
  <2>2. \A j \in DOMAIN next : j + 1 \in DOMAIN queue /\ next[j] = queue[j + 1]
    BY <1>1, <1>4
  <2>3. InOrder(next, kind)
    <3> SUFFICES ASSUME NEW p \in DOMAIN next, NEW q \in DOMAIN next, p < q,
                        next[p].kind = kind, next[q].kind = kind
                 PROVE  next[p].id < next[q].id
      BY DEF InOrder
    <3>1. PICK i, j : i = p + 1 /\ j = q + 1
      OBVIOUS
    <3>2. i \in DOMAIN queue /\ j \in DOMAIN queue /\ next[p] = queue[i] /\ next[q] = queue[j] /\ i < j
      BY <2>1, <2>2, <3>1
    <3> QED BY <3>2 DEF Follows, InOrder
  <2>4. \A j \in DOMAIN next : next[j].kind = kind /\ next[j].id <= m
    BY <1>1, <2>2 DEF Follows
  <2>5. \A i \in DOMAIN msgs : msgs[i].kind = kind =>
          msgs[i].id <= m /\ \A j \in DOMAIN next : msgs[i].id < next[j].id
    BY <1>1, <2>2 DEF Follows
  <2> QED BY <1>1, <2>1, <2>3, <2>4, <2>5 DEF Follows
<1>5. CASE m = n + 1 /\ next = Append(queue, Item(kind, n + 1))
  <2>1. PICK new : new = [kind |-> kind, id |-> n + 1]
    OBVIOUS
  <2>0. new \in Message /\ new = Item(kind, n + 1) /\ new.kind = kind /\ new.id = n + 1
    BY <2>1 DEF Item, Message
  <2>2. next \in Seq(Message) /\ DOMAIN next = 1..(Len(queue) + 1) /\ Len(queue) \in Nat
        /\ DOMAIN queue = 1..Len(queue)
    BY <1>1, <1>5, <2>0
  <2>3. \A j \in DOMAIN next : next[j] = IF j \in DOMAIN queue THEN queue[j] ELSE new
    BY <1>1, <1>5, <2>0, <2>2
  <2>4. InOrder(next, kind)
    <3> SUFFICES ASSUME NEW p \in DOMAIN next, NEW q \in DOMAIN next, p < q,
                        next[p].kind = kind, next[q].kind = kind
                 PROVE  next[p].id < next[q].id
      BY DEF InOrder
    <3>1. p \in DOMAIN queue /\ next[p] = queue[p]
      BY <2>2, <2>3
    <3>2. CASE q \in DOMAIN queue
      BY <2>3, <3>1, <3>2 DEF Follows, InOrder
    <3>3. CASE q \notin DOMAIN queue
      <4>1. next[q].id = n + 1 /\ queue[p].id <= n /\ queue[p].id \in Nat
        BY <1>1, <2>0, <2>3, <3>1, <3>3 DEF Follows
      <4> QED BY <3>1, <4>1
    <3> QED BY <3>2, <3>3
  <2>5. \A j \in DOMAIN next : next[j].kind = kind /\ next[j].id <= m
    BY <1>1, <1>5, <2>0, <2>3 DEF Follows
  <2>6. \A i \in DOMAIN msgs : msgs[i].kind = kind =>
          msgs[i].id <= m /\ \A j \in DOMAIN next : msgs[i].id < next[j].id
    BY <1>1, <1>5, <2>0, <2>3 DEF Follows
  <2> QED BY <1>1, <2>2, <2>4, <2>5, <2>6 DEF Follows
<1> QED BY <1>2, <1>3, <1>4, <1>5 DEF QueueStep

\* A message of another kind at the end of the request does not, either.
LEMMA OtherFollows ==
  ASSUME NEW msgs, NEW queue, NEW kind, NEW n, Follows(msgs, queue, kind, n),
         NEW x \in Message, x.kind # kind
  PROVE  Follows(Append(msgs, x), queue, kind, n)
<1>1. msgs \in Seq(Message) /\ Len(msgs) \in Nat /\ DOMAIN msgs = 1..Len(msgs)
  BY DEF Follows
<1>2. PICK more : more = Append(msgs, x)
  OBVIOUS
<1>3. more \in Seq(Message) /\ DOMAIN more = 1..(Len(msgs) + 1)
  BY <1>1, <1>2
<1>4. \A i \in DOMAIN more : more[i].kind = kind => i \in DOMAIN msgs /\ more[i] = msgs[i]
  BY <1>1, <1>2, <1>3
<1>5. InOrder(more, kind)
  BY <1>4 DEF Follows, InOrder
<1>6. Follows(more, queue, kind, n)
  BY <1>3, <1>4, <1>5 DEF Follows
<1> QED BY <1>2, <1>6

\* Nor does the head of the queue itself.
LEMMA HeadFollows ==
  ASSUME NEW msgs, NEW queue, NEW kind \in {"steer", "followup"}, NEW n \in Nat,
         Follows(msgs, queue, kind, n), queue # <<>>
  PROVE  Follows(Append(msgs, Head(queue)), Tail(queue), kind, n)
<1>1. /\ msgs \in Seq(Message) /\ Len(msgs) \in Nat /\ DOMAIN msgs = 1..Len(msgs)
      /\ queue \in Seq(Message) /\ Len(queue) \in Nat /\ DOMAIN queue = 1..Len(queue)
  BY DEF Follows
<1>2. PICK x : x = Head(queue)
  OBVIOUS
<1>3. PICK rest : rest = Tail(queue)
  OBVIOUS
<1>4. PICK more : more = Append(msgs, x)
  OBVIOUS
<1>5. 1 \in DOMAIN queue /\ x = queue[1] /\ x \in Message
  BY <1>1, <1>2
<1>6. /\ more \in Seq(Message) /\ DOMAIN more = 1..(Len(msgs) + 1)
      /\ \A i \in DOMAIN more : more[i] = IF i \in DOMAIN msgs THEN msgs[i] ELSE x
  BY <1>1, <1>4, <1>5
<1>7. QueueStep(queue, rest, kind, n, n)
  BY <1>3 DEF QueueStep
<1>8. Follows(msgs, rest, kind, n)
  BY <1>7, QueueStepFollows
<1>9. \A j \in DOMAIN rest : j + 1 \in DOMAIN queue /\ rest[j] = queue[j + 1] /\ 1 < j + 1
  BY <1>1, <1>3
<1>10. \A j \in DOMAIN rest : x.id < rest[j].id
  BY <1>5, <1>9 DEF Follows, InOrder
<1>11. InOrder(more, kind)
  <2> SUFFICES ASSUME NEW p \in DOMAIN more, NEW q \in DOMAIN more, p < q,
                      more[p].kind = kind, more[q].kind = kind
               PROVE  more[p].id < more[q].id
    BY DEF InOrder
  <2>1. p \in DOMAIN msgs /\ more[p] = msgs[p]
    BY <1>1, <1>6
  <2>2. CASE q \in DOMAIN msgs
    BY <1>6, <2>1, <2>2 DEF Follows, InOrder
  <2>3. CASE q \notin DOMAIN msgs
    <3>1. more[q] = x
      BY <1>6, <2>3
    <3> QED BY <1>5, <2>1, <3>1 DEF Follows
  <2> QED BY <2>2, <2>3
<1>12. \A i \in DOMAIN more : more[i].kind = kind =>
         more[i].id <= n /\ \A j \in DOMAIN rest : more[i].id < rest[j].id
  <2> SUFFICES ASSUME NEW i \in DOMAIN more, more[i].kind = kind
               PROVE  more[i].id <= n /\ \A j \in DOMAIN rest : more[i].id < rest[j].id
    OBVIOUS
  <2>1. CASE i \in DOMAIN msgs
    BY <1>6, <1>8, <2>1 DEF Follows
  <2>2. CASE i \notin DOMAIN msgs
    BY <1>5, <1>6, <1>10, <2>2 DEF Follows
  <2> QED BY <2>1, <2>2
<1>13. Follows(more, rest, kind, n)
  BY <1>6, <1>8, <1>11, <1>12 DEF Follows
<1> QED BY <1>2, <1>3, <1>4, <1>13

\* Dropping messages does not disturb the order.
LEMMA ThinnedFollows ==
  ASSUME NEW msgs, NEW queue, NEW kind, NEW n, Follows(msgs, queue, kind, n),
         NEW rest \in Seq(Message), Thinned(msgs, rest)
  PROVE  Follows(rest, queue, kind, n)
<1>1. PICK at \in [1..Len(rest) -> 1..Len(msgs)] :
         /\ \A i, j \in 1..Len(rest) : i < j => at[i] < at[j]
         /\ \A i \in 1..Len(rest) : rest[i] = msgs[at[i]]
  BY DEF Thinned
<1>2. DOMAIN rest = 1..Len(rest) /\ DOMAIN msgs = 1..Len(msgs)
  BY DEF Follows
<1>3. InOrder(rest, kind)
  BY <1>1, <1>2 DEF Follows, InOrder
<1>4. \A i \in DOMAIN rest : rest[i].kind = kind =>
        rest[i].id <= n /\ \A j \in DOMAIN queue : rest[i].id < queue[j].id
  BY <1>1, <1>2 DEF Follows
<1> QED BY <1>3, <1>4 DEF Follows

\* A request without messages of the kind precedes any queue.
LEMMA RecordedFollows ==
  ASSUME NEW msgs, NEW queue, NEW kind \in {"steer", "followup"}, NEW n,
         Follows(msgs, queue, kind, n), NEW next \in Seq(Recorded)
  PROVE  Follows(next, queue, kind, n)
<1>1. next \in Seq(Message)
  <2>1. Recorded \subseteq Message
    BY DEF Recorded, Message
  <2> QED BY <2>1, SeqMonotonic
<1>2. \A x \in Recorded : x.kind # kind
  BY DEF Recorded, Kinds, MessageKinds, NavKinds, AssistantKinds
<1>3. \A i \in DOMAIN next : next[i].kind # kind
  BY <1>2
<1> QED BY <1>1, <1>3 DEF Follows, InOrder

----------------------------------------------------------------------------
(* The tree of the session *)

\* Parents and references are older, and what a compaction in progress keeps
\* is an entry made before it.
Grown == Older(s.log) /\ \A c \in Callers : run[c].kept < s.next

\* Appending keeps the tree.
LEMMA AppendedOlder ==
  ASSUME NEW sess, IsSession(sess), Older(sess.log), NEW kind, NEW ref \in Nat, ref < sess.next,
         NEW n \in Nat
  PROVE  Older(Appended(sess, kind, ref, n).log) /\ Appended(sess, kind, ref, n).next = sess.next + n
<1>1. PICK new : new = Appended(sess, kind, ref, n)
  OBVIOUS
<1>2. /\ sess.next \in Nat \ {0} /\ DOMAIN sess.log \subseteq 1..(sess.next - 1)
      /\ sess.leaf \in {0} \cup DOMAIN sess.log
  BY DEF IsSession, None
<1>3. ASSUME NEW i \in DOMAIN new.log
      PROVE  new.log[i].parent < i /\ new.log[i].ref < i
  <2>1. CASE i \in sess.next..(sess.next + n - 1)
    <3>1. PICK parent : parent = IF i = sess.next THEN sess.leaf ELSE i - 1
      OBVIOUS
    <3>2. parent < i /\ ref < i
      BY <1>2, <2>1, <3>1
    <3>3. new.log[i] = NewEntry(kind, parent, ref)
      BY <1>1, <1>3, <2>1, <3>1 DEF Appended
    <3> QED BY <3>2, <3>3 DEF NewEntry
  <2>2. CASE i \notin sess.next..(sess.next + n - 1)
    <3>1. i \in DOMAIN sess.log /\ new.log[i] = sess.log[i]
      BY <1>1, <1>3, <2>2 DEF Appended
    <3> QED BY <3>1 DEF Older
  <2> QED BY <2>1, <2>2
<1>4. new.next = sess.next + n
  BY <1>1 DEF Appended
<1> QED BY <1>1, <1>3, <1>4 DEF Older

\* A session of the tree that is no smaller.
Growth(sess) == IsSession(sess) /\ Older(sess.log) /\ sess.next >= s.next

\* So does what a run emits.
LEMMA EmittedGrowth ==
  ASSUME IsSession(s), NEW sess, Growth(sess), NEW kind \in Kinds
  PROVE  Growth(Emitted(sess, kind))
<1>1. PICK n : n = Cardinality({c \in Callers : run[c].pc \in InRun})
  OBVIOUS
<1>2. n \in Nat
  BY <1>1, FiniteRuns
<1>3. IsSession(sess) /\ Older(sess.log) /\ sess.next \in Nat /\ sess.next > 0 /\ sess.next >= s.next
      /\ s.next \in Nat
  BY DEF Growth, IsSession, None
<1>4. PICK new : new = Appended(sess, kind, None, n)
  OBVIOUS
<1>5. IsSession(new) /\ Older(new.log) /\ new.next = sess.next + n
  BY <1>2, <1>3, <1>4, AppendedSession, AppendedOlder DEF None
<1>6. new = Emitted(sess, kind)
  BY <1>1, <1>4 DEF Emitted
<1>7. new.next >= s.next
  BY <1>2, <1>3, <1>5
<1> QED BY <1>5, <1>6, <1>7 DEF Growth

\* And the summary of a compaction.
LEMMA CompactedGrowth ==
  ASSUME IsSession(s), Grown, NEW c \in Callers, Given(c), NEW sess \in CompactedFor(c)
  PROVE  Growth(sess)
<1>1. Growth(s) /\ s.next \in Nat
  BY DEF Growth, Grown, IsSession
<1>2. run[c].kept \in Nat /\ run[c].kept < s.next
  BY DEF Given, IsCall, Grown
<1>3. PICK new : new = Appended(s, "compaction", run[c].kept, 1)
  OBVIOUS
<1>4. IsSession(new) /\ Older(new.log) /\ new.next = s.next + 1
  BY <1>2, <1>3, AppendedSession, AppendedOlder DEF Grown, Kinds
<1>5. Growth(new)
  BY <1>1, <1>4 DEF Growth
<1> QED BY <1>1, <1>3, <1>5 DEF CompactedFor

\* A turn that fails takes one entry out of the tree.
LEMMA FailedGrowth ==
  ASSUME IsSession(s), NEW c \in Callers, Given(c), NEW sess, Growth(sess), NEW held \in Records,
         FailTurn(c, sess, held)
  PROVE  Older(s'.log) /\ s'.next >= s.next
<1>1. IsSession(sess) /\ Older(sess.log) /\ sess.next \in Nat /\ sess.next > 0 /\ sess.next >= s.next
      /\ s.next \in Nat
  BY DEF Growth, IsSession, None
<1>2. PICK n \in {0, 1} : n = IF held = "none" THEN 0 ELSE 1
  OBVIOUS
<1>3. PICK rec : rec = Appended(sess, held, None, n)
  OBVIOUS
<1>4. Older(rec.log) /\ rec.next = sess.next + n
  BY <1>1, <1>2, <1>3, AppendedOlder DEF None
<1>5. DOMAIN rec = {"log", "leaf", "next"}
  BY <1>3 DEF Appended
<1>6. s' = [rec EXCEPT !.log = Without(@, run[c].uid), !.leaf = LeafWithout(rec.log, @, run[c].uid)]
  BY <1>2, <1>3 DEF FailTurn
<1>7. s'.log = Without(rec.log, run[c].uid) /\ s'.next = rec.next
  BY <1>5, <1>6
<1>8. Older(s'.log)
  BY <1>4, <1>7 DEF Older, Without
<1> QED BY <1>1, <1>2, <1>4, <1>7, <1>8

----------------------------------------------------------------------------
(* What a step does to the requests *)

\* Every step does one of these to each queue ...
Queues == /\ QueueStep(engine.steering, engine'.steering, "steer", engine.inputs, engine'.inputs)
          /\ QueueStep(engine.followup, engine'.followup, "followup", engine.inputs, engine'.inputs)

\* ... and one of these to the messages of each caller: they stay, are rebuilt
\* from the session, go on with recorded messages, or take in what was queued.
Adds(msgs, next, q) ==
  \E x \in Recorded : next = Append(Append(msgs, x), q)

Rewrites(c) ==
  LET msgs == run[c].msgs
      next == run'[c].msgs
  IN  \/ next = msgs
      \/ next \in Seq(Recorded)
      \/ \E x \in Recorded : next = Append(msgs, x) \/ next = Append(Usable(msgs), x)
      \/ \E x \in Recorded : Adds(msgs, next, x)
      \/ /\ engine.steering # <<>> /\ engine'.steering = Tail(engine.steering)
         /\ Adds(msgs, next, Head(engine.steering))
         /\ UNCHANGED <<engine.followup, engine.inputs>>
      \/ /\ engine.followup # <<>> /\ engine'.followup = Tail(engine.followup)
         /\ Adds(msgs, next, Head(engine.followup))
         /\ UNCHANGED <<engine.steering, engine.inputs>>

Line(c) == /\ Follows(run[c].msgs, engine.steering, "steer", engine.inputs)
           /\ Follows(run[c].msgs, engine.followup, "followup", engine.inputs)

\* Recorded messages are of neither kind.
LEMMA RecordedOther ==
  ASSUME NEW x \in Recorded
  PROVE  x \in Message /\ x.kind # "steer" /\ x.kind # "followup"
BY DEF Recorded, Message, Kinds, MessageKinds, NavKinds, AssistantKinds

\* What the request takes in from one queue does not disturb its place before
\* either.
LEMMA TakeFollows ==
  ASSUME NEW msgs, NEW queue, NEW other, NEW kind, NEW kind2,
         <<kind, kind2>> \in {<<"steer", "followup">>, <<"followup", "steer">>},
         NEW n \in Nat, Follows(msgs, queue, kind, n), Follows(msgs, other, kind2, n),
         queue # <<>>, NEW next, Adds(msgs, next, Head(queue))
  PROVE  Follows(next, Tail(queue), kind, n) /\ Follows(next, other, kind2, n)
<1>1. PICK x \in Recorded : next = Append(Append(msgs, x), Head(queue))
  BY DEF Adds
<1>2. kind \in {"steer", "followup"} /\ kind # kind2 /\ x \in Message /\ x.kind # kind /\ x.kind # kind2
  BY RecordedOther
<1>3. PICK more : more = Append(msgs, x)
  OBVIOUS
<1>4. Follows(more, queue, kind, n) /\ Follows(more, other, kind2, n)
  BY <1>2, <1>3, OtherFollows
<1>5. Head(queue) \in Message /\ Head(queue).kind = kind
  <2>1. queue \in Seq(Message)
    BY DEF Follows
  <2>2. 1 \in DOMAIN queue /\ Head(queue) = queue[1] /\ queue[1] \in Message
    BY <2>1
  <2> QED BY <2>2 DEF Follows
<1>6. Follows(Append(more, Head(queue)), Tail(queue), kind, n)
  BY <1>2, <1>4, HeadFollows
<1>7. Follows(Append(more, Head(queue)), other, kind2, n)
  BY <1>2, <1>4, <1>5, OtherFollows
<1> QED BY <1>1, <1>3, <1>6, <1>7

\* A step of these kinds keeps a caller's request before the queues.
LEMMA LineKept ==
  ASSUME NEW c \in Callers, Line(c), engine.inputs \in Nat, engine'.inputs \in Nat,
         Queues, Rewrites(c)
  PROVE  Line(c)'
<1> DEFINE Fits(next) ==
      /\ Follows(next, engine'.steering, "steer", engine'.inputs)
      /\ Follows(next, engine'.followup, "followup", engine'.inputs)
<1>1. PICK msgs : msgs = run[c].msgs
  OBVIOUS
<1>2. PICK next : next = run'[c].msgs
  OBVIOUS
<1>12. SUFFICES Fits(next)
  BY <1>2 DEF Line
<1>3. Fits(msgs)
  BY <1>1, QueueStepFollows DEF Line, Queues
<1>4. \A list, x : Fits(list) /\ x \in Recorded => Fits(Append(list, x))
  BY RecordedOther, OtherFollows
<1>5. CASE next = msgs
  BY <1>3, <1>5
<1>6. CASE next \in Seq(Recorded)
  BY <1>3, <1>6, RecordedFollows
<1>7. CASE \E x \in Recorded : next = Append(msgs, x)
  BY <1>3, <1>4, <1>7
<1>8. CASE \E x \in Recorded : next = Append(Usable(msgs), x)
  <2>1. msgs \in Seq(Message)
    BY <1>3 DEF Follows
  <2>2. PICK rest : rest = Usable(msgs)
    OBVIOUS
  <2>3. rest \in Seq(Message) /\ Thinned(msgs, rest)
    BY <2>1, <2>2, UsableThins
  <2>4. Fits(rest)
    BY <1>3, <2>3, ThinnedFollows
  <2> QED BY <1>4, <1>8, <2>2, <2>4
<1>9. CASE \E x \in Recorded : Adds(msgs, next, x)
  BY <1>3, <1>4, <1>9 DEF Adds
<1>13. /\ Follows(msgs, engine.steering, "steer", engine.inputs)
       /\ Follows(msgs, engine.followup, "followup", engine.inputs)
  BY <1>1 DEF Line
<1>10. CASE /\ engine.steering # <<>> /\ engine'.steering = Tail(engine.steering)
            /\ Adds(msgs, next, Head(engine.steering))
            /\ UNCHANGED <<engine.followup, engine.inputs>>
  <2>1. /\ Follows(next, Tail(engine.steering), "steer", engine.inputs)
        /\ Follows(next, engine.followup, "followup", engine.inputs)
    <3>1. <<"steer", "followup">> \in {<<"steer", "followup">>, <<"followup", "steer">>}
      OBVIOUS
    <3>2. PICK queue, other : queue = engine.steering /\ other = engine.followup
      OBVIOUS
    <3>3. /\ Follows(msgs, queue, "steer", engine.inputs) /\ Follows(msgs, other, "followup", engine.inputs)
          /\ queue # <<>> /\ Adds(msgs, next, Head(queue))
      BY <1>13, <1>10, <3>2
    <3>4. Follows(next, Tail(queue), "steer", engine.inputs) /\ Follows(next, other, "followup", engine.inputs)
      BY <3>1, <3>3, TakeFollows
    <3> QED BY <3>2, <3>4
  <2>2. /\ engine'.steering = Tail(engine.steering)
        /\ engine'.followup = engine.followup /\ engine'.inputs = engine.inputs
    BY <1>10
  <2> QED BY <2>1, <2>2
<1>11. CASE /\ engine.followup # <<>> /\ engine'.followup = Tail(engine.followup)
            /\ Adds(msgs, next, Head(engine.followup))
            /\ UNCHANGED <<engine.steering, engine.inputs>>
  <2>1. /\ Follows(next, Tail(engine.followup), "followup", engine.inputs)
        /\ Follows(next, engine.steering, "steer", engine.inputs)
    <3>1. <<"followup", "steer">> \in {<<"steer", "followup">>, <<"followup", "steer">>}
      OBVIOUS
    <3>2. PICK queue, other : queue = engine.followup /\ other = engine.steering
      OBVIOUS
    <3>3. /\ Follows(msgs, queue, "followup", engine.inputs) /\ Follows(msgs, other, "steer", engine.inputs)
          /\ queue # <<>> /\ Adds(msgs, next, Head(queue))
      BY <1>13, <1>11, <3>2
    <3>4. Follows(next, Tail(queue), "followup", engine.inputs) /\ Follows(next, other, "steer", engine.inputs)
      BY <3>1, <3>3, TakeFollows
    <3> QED BY <3>2, <3>4
  <2>2. /\ engine'.followup = Tail(engine.followup)
        /\ engine'.steering = engine.steering /\ engine'.inputs = engine.inputs
    BY <1>11
  <2> QED BY <2>1, <2>2
<1> HIDE DEF Fits
<1> QED BY <1>1, <1>2, <1>5, <1>6, <1>7, <1>8, <1>9, <1>10, <1>11 DEF Rewrites

----------------------------------------------------------------------------
(* What each action does to the requests *)

\* An action of caller c: the tree grows, the queues make a step, the request
\* of c is rewritten, and those of the others stay.
Does(c) ==
  /\ Older(s'.log) /\ s'.next >= s.next
  /\ Queues /\ Rewrites(c) /\ run'[c].kept < s'.next
  /\ \A d \in Callers \ {c} : run'[d].msgs = run[d].msgs /\ run'[d].kept = run[d].kept

\* What the steps of one caller rely on.
Ready(c) ==
  /\ Given(c) /\ Growth(s) /\ run[c].kept < s.next
  /\ s.next \in Nat /\ engine.inputs \in Nat /\ run[c].kept \in Nat /\ DOMAIN run = Callers
  /\ Item("user", s.next) \in Recorded

\* An entry about to be appended makes a recorded message.
LEMMA ItemRecorded ==
  ASSUME NEW sess, IsSession(sess), NEW kind \in Kinds
  PROVE  Item(kind, sess.next) \in Recorded
BY DEF IsSession, Item, Recorded

\* The invariants give each caller what its steps rely on.
LEMMA InvReady == ASSUME IInv, Grown, NEW c \in Callers PROVE Ready(c)
<1>1. Given(c)
  BY InvGives
<1>2. IsSession(s) /\ s.next \in Nat /\ engine.inputs \in Nat /\ run[c].kept \in Nat
      /\ DOMAIN run = Callers
  BY <1>1 DEF Given, IsSession, EngineOK, IsCall
<1>3. Item("user", s.next) \in Recorded
  BY <1>2, ItemRecorded DEF Kinds, MessageKinds
<1> QED BY <1>1, <1>2, <1>3 DEF Ready, Grown, Growth

\* A step that leaves the queues alone.
LEMMA QueuesStay ==
  ASSUME engine.inputs \in Nat, engine'.steering = engine.steering,
         engine'.followup = engine.followup, engine'.inputs = engine.inputs
  PROVE  Queues
BY DEF Queues, QueueStep

\* Only the locals of c change, and not what its compaction keeps.
Only1(c, msgs) ==
  /\ run'[c].msgs = msgs /\ run'[c].kept = run[c].kept
  /\ \A d \in Callers \ {c} : run'[d] = run[d]

\* Before the first request.
LEMMA StartDoes ==
  ASSUME NEW c \in Callers, Ready(c), Invoke(c) \/ Build(c) \/ Begin(c)
  PROVE  Does(c)
<1>1. IsCall(run[c]) /\ DOMAIN run = Callers /\ EngineOK(engine) /\ IsSession(s) /\ Older(s.log)
  BY DEF Ready, Given, Growth
<1>2. Queues
  BY <1>1, QueuesStay DEF Ready, Invoke, Build, Begin, EngineOK
<1>3. CASE Invoke(c)
  <2>1. Only1(c, run[c].msgs)
    BY <1>1, <1>3 DEF Invoke, Only1, IsCall
  <2> QED BY <1>1, <1>2, <1>3, <2>1 DEF Does, Only1, Rewrites, Invoke, Ready
<1>4. CASE Build(c)
  <2>1. PICK msgs : msgs = Messages(s)
    OBVIOUS
  <2>2. Only1(c, msgs)
    BY <1>1, <1>4, <2>1 DEF Build, Only1, IsCall
  <2>3. msgs \in Seq(Recorded)
    BY <1>1, <2>1, MessagesRecorded
  <2> QED BY <1>1, <1>2, <1>4, <2>2, <2>3 DEF Does, Only1, Rewrites, Build, Ready
<1>5. CASE Begin(c)
  <2>1. PICK msgs : msgs = Append(Usable(run[c].msgs), Item("user", s.next))
    OBVIOUS
  <2>2. PICK q : q = Started(run[c])
    OBVIOUS
  <2>3. q = [pc |-> "top", uid |-> run[c].uid, msgs |-> run[c].msgs, attempt |-> run[c].attempt,
             held |-> "none", signal |-> FALSE, kept |-> run[c].kept]
    BY <1>1, <2>2 DEF IsCall, Started
  <2>4. PICK r : r = [q EXCEPT !.uid = s.next, !.attempt = 0, !.msgs = msgs]
    OBVIOUS
  <2>5. r.msgs = msgs /\ r.kept = run[c].kept
    BY <2>3, <2>4
  <2>6. run' = [run EXCEPT ![c] = r]
    BY <1>5, <2>1, <2>2, <2>4 DEF Begin
  <2>7. Only1(c, msgs)
    BY <1>1, <2>5, <2>6 DEF Only1
  <2>8. Rewrites(c)
    BY <2>1, <2>7 DEF Rewrites, Only1, Ready
  <2>9. Older(s'.log) /\ s'.next = s.next + 1
    BY <1>1, <1>5, AppendedOlder DEF Begin, Ready, None, IsSession
  <2> QED BY <1>2, <2>7, <2>8, <2>9 DEF Does, Only1, Ready
<1> QED BY <1>3, <1>4, <1>5

\* A step that emits, and adds to the request what it recorded.
LEMMA EmitsDoes ==
  ASSUME NEW c \in Callers, Ready(c), Queues, Rewrites(c), Growth(s'),
         run'[c].kept = run[c].kept, \A d \in Callers \ {c} : run'[d] = run[d]
  PROVE  Does(c)
<1>1. Older(s'.log) /\ s'.next >= s.next /\ s'.next \in Nat
  BY DEF Growth, IsSession
<1> QED BY <1>1 DEF Does, Ready

\* Inside the run, what is emitted is recorded, and queued messages are taken.
LEMMA CloseDoes ==
  ASSUME NEW c \in Callers, Ready(c), NEW sess, Growth(sess), Close(c, sess)
  PROVE  Does(c)
<1>1. IsCall(run[c]) /\ DOMAIN run = Callers /\ EngineOK(engine) /\ IsSession(s) /\ IsSession(sess)
  BY DEF Ready, Given, Growth
<1>2. PICK x : x = Item("assistant", sess.next)
  OBVIOUS
<1>3. x \in Recorded
  BY <1>1, <1>2, ItemRecorded DEF Kinds, MessageKinds, AssistantKinds
<1>4. Only1(c, Append(run[c].msgs, x))
  BY <1>1, <1>2 DEF Close, Only1, IsCall
<1>5. Rewrites(c)
  BY <1>3, <1>4 DEF Rewrites, Only1
<1>6. Queues
  BY QueuesStay DEF Close, Ready
<1>7. Growth(s')
  BY <1>1, EmittedGrowth DEF Close, Kinds, MessageKinds, AssistantKinds
<1> QED BY <1>4, <1>5, <1>6, <1>7, EmitsDoes DEF Only1

\* A step within the run without a word: Top, a truncated answer.
LEMMA TopDoes ==
  ASSUME NEW c \in Callers, Ready(c), Top(c) \/ AnswerTruncated(c) \/ AnswerAbort(c) \/ Succeed(c)
  PROVE  Does(c)
<1>1. IsCall(run[c]) /\ DOMAIN run = Callers /\ Growth(s)
  BY DEF Ready, Given
<1>2. CASE Close(c, s)
  BY <1>1, <1>2, CloseDoes
<1>3. CASE ~Close(c, s)
  <2>1. Only1(c, run[c].msgs) /\ s' = s /\ engine' = engine
    BY <1>1, <1>3 DEF Top, AnswerTruncated, AnswerAbort, Succeed, Only1, IsCall
  <2>2. Queues
    BY <2>1, QueuesStay DEF Ready
  <2> QED BY <1>1, <2>1, <2>2, EmitsDoes DEF Only1, Rewrites
<1> QED BY <1>2, <1>3

\* Calls are recorded before the tools run.
LEMMA CallsDoes ==
  ASSUME NEW c \in Callers, Ready(c), AnswerCalls(c)
  PROVE  Does(c)
<1>1. IsCall(run[c]) /\ DOMAIN run = Callers /\ IsSession(s)
  BY DEF Ready, Given
<1>2. PICK x : x = Item("calls", s.next)
  OBVIOUS
<1>3. x \in Recorded
  BY <1>1, <1>2, ItemRecorded DEF Kinds, MessageKinds, AssistantKinds
<1>4. Only1(c, Append(run[c].msgs, x))
  BY <1>1, <1>2 DEF AnswerCalls, Only1, IsCall
<1>5. Rewrites(c)
  BY <1>3, <1>4 DEF Rewrites, Only1
<1>6. Queues
  BY QueuesStay DEF AnswerCalls, Ready
<1>7. Growth(s')
  BY <1>1, EmittedGrowth DEF AnswerCalls, Ready, Kinds, MessageKinds, AssistantKinds
<1> QED BY <1>4, <1>5, <1>6, <1>7, EmitsDoes DEF Only1

\* Two messages appended at once are appended one after the other.
LEMMA AppendTwo ==
  ASSUME NEW msgs \in Seq(Message), NEW x \in Message, NEW y \in Message
  PROVE  /\ msgs \o <<x, y>> = Append(Append(msgs, x), y)
         /\ (msgs \o <<x>>) \o <<y>> = Append(Append(msgs, x), y)
         /\ (msgs \o <<x>>) \o <<>> = Append(msgs, x)
OBVIOUS

\* AnswerStop takes in the next follow-up message, if there is one.
LEMMA StopDoes ==
  ASSUME NEW c \in Callers, Ready(c), Line(c), AnswerStop(c)
  PROVE  Does(c)
<1>1. IsCall(run[c]) /\ DOMAIN run = Callers /\ IsSession(s) /\ EngineOK(engine) /\ Growth(s)
  BY DEF Ready, Given
<1>2. CASE Close(c, s)
  BY <1>1, <1>2, CloseDoes
<1>3. CASE ~Close(c, s)
  <2>1. engine.followup # <<>> /\ s' = Emitted(s, "assistant")
    BY <1>3 DEF AnswerStop
  <2>2. PICK x : x = Item("assistant", s.next)
    OBVIOUS
  <2>3. x \in Recorded /\ x \in Message
    BY <1>1, <2>2, ItemRecorded, RecordedOther DEF Kinds, MessageKinds, AssistantKinds
  <2>4. PICK q : q = Head(engine.followup)
    OBVIOUS
  <2>5. q \in Message /\ run[c].msgs \in Seq(Message)
    BY <2>1, <2>4 DEF Line, Follows
  <2>6. Only1(c, run[c].msgs \o <<x, q>>)
    BY <1>1, <1>3, <2>2, <2>4 DEF AnswerStop, Only1, IsCall
  <2>7. Adds(run[c].msgs, run'[c].msgs, q)
    BY <2>3, <2>5, <2>6, AppendTwo DEF Only1, Adds
  <2>8. /\ engine'.followup = Tail(engine.followup)
        /\ engine'.steering = engine.steering /\ engine'.inputs = engine.inputs
    BY <1>1, <1>3 DEF AnswerStop, EngineOK
  <2>9. Rewrites(c)
    BY <2>1, <2>4, <2>7, <2>8 DEF Rewrites
  <2>10. Queues
    BY <2>1, <2>8 DEF Queues, QueueStep, Ready
  <2>11. Growth(s')
    BY <1>1, <2>1, EmittedGrowth DEF Kinds, MessageKinds, AssistantKinds
  <2> QED BY <2>6, <2>9, <2>10, <2>11, EmitsDoes DEF Only1
<1> QED BY <1>2, <1>3

\* RunTools takes in the next steering message, if there is one.
LEMMA ToolsDoes ==
  ASSUME NEW c \in Callers, Ready(c), Line(c), RunTools(c)
  PROVE  Does(c)
<1>1. IsCall(run[c]) /\ DOMAIN run = Callers /\ IsSession(s) /\ EngineOK(engine) /\ Growth(s)
  BY DEF Ready, Given
<1>2. PICK x : x = Item("tool", s.next)
  OBVIOUS
<1>3. x \in Recorded /\ x \in Message
  BY <1>1, <1>2, ItemRecorded, RecordedOther DEF Kinds, MessageKinds
<1>4. PICK new : new = IF engine.steering = <<>> THEN <<>> ELSE <<Head(engine.steering)>>
  OBVIOUS
<1>5. Only1(c, run[c].msgs \o <<x>> \o new)
  BY <1>1, <1>2, <1>4 DEF RunTools, Only1, IsCall
<1>6. Growth(s')
  BY <1>1, EmittedGrowth DEF RunTools, Kinds, MessageKinds
<1>7. run[c].msgs \in Seq(Message)
  BY DEF Line, Follows
<1>8. engine'.followup = engine.followup /\ engine'.inputs = engine.inputs
      /\ engine'.steering = IF engine.steering = <<>> THEN engine.steering ELSE Tail(engine.steering)
  BY <1>1 DEF RunTools, EngineOK
<1>9. CASE engine.steering = <<>>
  <2>1. run'[c].msgs = Append(run[c].msgs, x)
    BY <1>3, <1>4, <1>5, <1>7, <1>9, AppendTwo DEF Only1
  <2>2. Rewrites(c)
    BY <1>3, <2>1 DEF Rewrites
  <2>3. Queues
    BY <1>8, <1>9, QueuesStay DEF Ready
  <2> QED BY <1>5, <1>6, <2>2, <2>3, EmitsDoes DEF Only1
<1>10. CASE engine.steering # <<>>
  <2>1. PICK q : q = Head(engine.steering)
    OBVIOUS
  <2>2. q \in Message
    BY <1>10, <2>1 DEF Line, Follows
  <2>3. Adds(run[c].msgs, run'[c].msgs, q)
    BY <1>3, <1>4, <1>5, <1>7, <1>10, <2>1, <2>2, AppendTwo DEF Only1, Adds
  <2>4. Rewrites(c)
    BY <1>8, <1>10, <2>1, <2>3 DEF Rewrites
  <2>5. Queues
    BY <1>8, <1>10 DEF Queues, QueueStep, Ready
  <2> QED BY <1>5, <1>6, <2>4, <2>5, EmitsDoes DEF Only1
<1> QED BY <1>9, <1>10

\* The last results and the answer that closes the run.
LEMMA LastToolsDoes ==
  ASSUME NEW c \in Callers, Ready(c), Line(c), RunLastTools(c)
  PROVE  Does(c)
<1>1. IsCall(run[c]) /\ DOMAIN run = Callers /\ IsSession(s) /\ Growth(s)
  BY DEF Ready, Given
<1>2. PICK sess : sess = Emitted(s, "tool")
  OBVIOUS
<1>3. Growth(sess) /\ IsSession(sess)
  BY <1>1, <1>2, EmittedGrowth DEF Growth, Kinds, MessageKinds
<1>4. PICK x : x = Item("tool", s.next)
  OBVIOUS
<1>5. PICK y : y = Item("assistant", sess.next)
  OBVIOUS
<1>6. x \in Recorded /\ y \in Recorded /\ x \in Message /\ y \in Message
  BY <1>1, <1>3, <1>4, <1>5, ItemRecorded, RecordedOther DEF Kinds, MessageKinds, AssistantKinds
<1>7. Only1(c, run[c].msgs \o <<x, y>>)
  BY <1>1, <1>2, <1>4, <1>5 DEF RunLastTools, Only1, IsCall
<1>8. run[c].msgs \in Seq(Message)
  BY DEF Line, Follows
<1>9. Adds(run[c].msgs, run'[c].msgs, y)
  BY <1>6, <1>7, <1>8, AppendTwo DEF Only1, Adds
<1>10. Rewrites(c)
  BY <1>6, <1>9 DEF Rewrites
<1>11. Queues
  BY QueuesStay DEF RunLastTools, Ready
<1>12. Growth(s')
  BY <1>1, <1>2, <1>3, EmittedGrowth DEF RunLastTools, Kinds, MessageKinds, AssistantKinds
<1> QED BY <1>7, <1>10, <1>11, <1>12, EmitsDoes DEF Only1

\* A run that ends on an error says nothing more.
LEMMA FailsDoes ==
  ASSUME NEW c \in Callers, Ready(c), \A d \in Callers : IsCall(run[d]),
         AnswerError(c) \/ HookFails(c)
  PROVE  Does(c)
<1>1. PICK err, held : Fails(c, err, held)
  BY DEF AnswerError, HookFails
<1>2. engine'.steering = engine.steering /\ engine'.followup = engine.followup
      /\ engine'.inputs = engine.inputs /\ s' = s
  BY <1>1 DEF Fails, Ready, Given, EngineOK
<1>3. \A d \in Callers : run'[d].msgs = run[d].msgs /\ run'[d].kept = run[d].kept
  <2> SUFFICES ASSUME NEW d \in Callers
               PROVE  run'[d].msgs = run[d].msgs /\ run'[d].kept = run[d].kept
    OBVIOUS
  <2>1. PICK r : r = IF held # "none" /\ run[d].pc \in InRun
                       THEN [run[d] EXCEPT !.held = held] ELSE run[d]
    OBVIOUS
  <2>2. DOMAIN r = DOMAIN run[d] /\ r.msgs = run[d].msgs /\ r.kept = run[d].kept
    BY <2>1 DEF IsCall
  <2>3. run'[d] = IF d = c THEN [r EXCEPT !.pc = "ended"] ELSE r
    BY <1>1, <2>1 DEF Fails
  <2> QED BY <2>2, <2>3 DEF IsCall
<1>4. Queues
  BY <1>2, QueuesStay DEF Ready
<1> QED BY <1>2, <1>3, <1>4 DEF Does, Rewrites, Ready, Growth

\* A request that is rebuilt from a session is of recorded messages.
LEMMA RebuiltRecorded ==
  ASSUME NEW sess, IsSession(sess), Older(sess.log)
  PROVE  Usable(Messages(sess)) \in Seq(Recorded)
BY MessagesRecorded, UsableThins

\* Trying again rebuilds the request, giving up forgets it.
LEMMA RetryDoes ==
  ASSUME NEW c \in Callers, Ready(c), Queues, NEW sess, Growth(sess),
         \/ \E ph : RetryFrom(c, sess, ph)
         \/ \E held \in Records : FailTurn(c, sess, held)
  PROVE  Does(c)
<1>1. IsCall(run[c]) /\ DOMAIN run = Callers /\ IsSession(s) /\ sess.next \in Nat /\ s.next \in Nat
  BY DEF Ready, Given, Growth, IsSession
<1>2. CASE \E ph : RetryFrom(c, sess, ph)
  <2>1. PICK msgs : msgs = Usable(Messages(sess))
    OBVIOUS
  <2>2. msgs \in Seq(Recorded)
    BY <2>1, RebuiltRecorded DEF Growth
  <2>3. Only1(c, msgs) /\ s' = sess
    BY <1>1, <1>2, <2>1 DEF RetryFrom, Only1, IsCall
  <2>4. Rewrites(c)
    BY <2>2, <2>3 DEF Rewrites, Only1
  <2> QED BY <2>3, <2>4, EmitsDoes DEF Only1
<1>3. CASE \E held \in Records : FailTurn(c, sess, held)
  <2>1. PICK held \in Records : FailTurn(c, sess, held)
    BY <1>3
  <2>2. Older(s'.log) /\ s'.next >= s.next
    BY <1>1, <2>1, FailedGrowth DEF Ready
  <2>3. s'.next \in Nat
    <3>1. PICK n \in {0, 1} : n = IF held = "none" THEN 0 ELSE 1
      OBVIOUS
    <3>2. PICK rec : rec = Appended(sess, held, None, n)
      OBVIOUS
    <3>3. rec.next = sess.next + n /\ DOMAIN rec = {"log", "leaf", "next"}
      BY <3>2 DEF Appended
    <3>4. s' = [rec EXCEPT !.log = Without(@, run[c].uid), !.leaf = LeafWithout(rec.log, @, run[c].uid)]
      BY <2>1, <3>1, <3>2 DEF FailTurn
    <3>5. s'.next = rec.next
      BY <3>3, <3>4
    <3> QED BY <1>1, <3>3, <3>5
  <2>4. run' = [run EXCEPT ![c] = Idle]
    BY <2>1 DEF FailTurn
  <2>5. run'[c].msgs = <<>> /\ run'[c].kept = 0 /\ \A d \in Callers \ {c} : run'[d] = run[d]
    BY <1>1, <2>4 DEF Idle, None
  <2>6. 0 < s'.next
    BY <1>1, <2>2, <2>3 DEF IsSession, None
  <2>7. Rewrites(c)
    BY <2>5 DEF Rewrites
  <2> QED BY <2>2, <2>5, <2>6, <2>7 DEF Does
<1> QED BY <1>2, <1>3

\* Either of the two.
LEMMA GiveUpDoes ==
  ASSUME NEW c \in Callers, Ready(c), Queues, NEW sess, Growth(sess),
         NEW ph, NEW retryable, GiveUpOrRetry(c, sess, ph, retryable)
  PROVE  Does(c)
<1>1. run[c].held \in Records
  BY DEF Ready, Given, IsCall
<1> QED BY <1>1, RetryDoes DEF GiveUpOrRetry

\* A compaction keeps an entry of the log, and touches no request.
LEMMA CompactingDoes ==
  ASSUME NEW c \in Callers, Ready(c), Queues, NEW pc, Compacting(c, pc)
  PROVE  Does(c)
<1>1. IsCall(run[c]) /\ DOMAIN run = Callers /\ IsSession(s) /\ s' = s
  BY DEF Ready, Given, Compacting
<1>2. PICK kept \in CutPoints(s) : run' = [run EXCEPT ![c].pc = pc, ![c].kept = kept]
  BY DEF Compacting
<1>3. kept \in DOMAIN s.log /\ kept < s.next
  BY <1>1, <1>2 DEF CutPoints, IdsOf, IsSession
<1>4. /\ run'[c].msgs = run[c].msgs /\ run'[c].kept = kept
      /\ \A d \in Callers \ {c} : run'[d] = run[d]
  BY <1>1, <1>2 DEF IsCall
<1> QED BY <1>1, <1>3, <1>4 DEF Does, Rewrites, Ready, Growth

\* After the run.
LEMMA AfterRunDoes ==
  ASSUME NEW c \in Callers, Ready(c), Grown,
         AfterError(c) \/ Retry(c) \/ CompactThenRetry(c) \/ StartCompaction(c)
  PROVE  Does(c)
<1>1. /\ IsCall(run[c]) /\ DOMAIN run = Callers /\ IsSession(s) /\ EngineOK(engine) /\ Growth(s)
      /\ Given(c) /\ engine.inputs \in Nat
  BY DEF Ready, Given
<1>2. CASE AfterError(c)
  <2>1. engine'.steering = <<>> /\ engine'.followup = <<>> /\ engine'.inputs = engine.inputs
    BY <1>1, <1>2 DEF AfterError, Reset, EngineOK
  <2>2. Queues
    BY <1>1, <2>1 DEF Queues, QueueStep
  <2> QED BY <1>1, <1>2, <2>2, CompactingDoes, GiveUpDoes DEF AfterError
<1>3. CASE Retry(c)
  <2>1. Queues
    BY <1>1, <1>3, QueuesStay DEF Retry, EngineOK
  <2>2. PICK q : q = Started(run[c])
    OBVIOUS
  <2>3. q.msgs = run[c].msgs /\ q.kept = run[c].kept
    BY <1>1, <2>2 DEF Started, IsCall
  <2>4. Only1(c, run[c].msgs) /\ s' = s
    BY <1>1, <1>3, <2>2, <2>3 DEF Retry, Only1
  <2> QED BY <1>1, <2>1, <2>4, EmitsDoes DEF Only1, Rewrites
<1>4. CASE CompactThenRetry(c)
  <2>1. Queues
    BY <1>1, <1>4, QueuesStay DEF CompactThenRetry
  <2>2. CASE FailTurn(c, s, "none")
    <3>1. "none" \in Records
      BY DEF Records
    <3> QED BY <1>1, <2>1, <2>2, <3>1, RetryDoes
  <2>3. CASE \E sess \in CompactedFor(c) : GiveUpOrRetry(c, sess, "idle", TRUE)
    <3>1. PICK sess \in CompactedFor(c) : GiveUpOrRetry(c, sess, "idle", TRUE)
      BY <2>3
    <3>2. Growth(sess)
      BY <1>1, CompactedGrowth
    <3> QED BY <2>1, <3>1, <3>2, GiveUpDoes
  <2> QED BY <1>4, <2>2, <2>3 DEF CompactThenRetry
<1>5. CASE StartCompaction(c)
  <2>1. Queues
    BY <1>1, <1>5, QueuesStay DEF StartCompaction
  <2> QED BY <1>5, <2>1, CompactingDoes DEF StartCompaction
<1> QED BY <1>2, <1>3, <1>4, <1>5

\* Leaving invoke forgets the request.
LEMMA LeavesDoes ==
  ASSUME NEW c \in Callers, Ready(c), Grown, EndInvoke(c) \/ EndCompaction(c) \/ Cancel(c)
  PROVE  Does(c)
<1>1. DOMAIN run = Callers /\ IsSession(s) /\ Growth(s) /\ Given(c) /\ s.next \in Nat
  BY DEF Ready, Given
<1>2. Queues
  BY QueuesStay DEF EndInvoke, EndCompaction, Cancel, Ready
<1>3. Growth(s')
  BY <1>1, CompactedGrowth DEF EndInvoke, EndCompaction, Cancel
<1>4. run' = [run EXCEPT ![c] = Idle]
  BY DEF EndInvoke, EndCompaction, Cancel
<1>5. run'[c].msgs = <<>> /\ run'[c].kept = 0 /\ \A d \in Callers \ {c} : run'[d] = run[d]
  BY <1>1, <1>4 DEF Idle, None
<1>6. Rewrites(c)
  BY <1>5 DEF Rewrites
<1>7. Older(s'.log) /\ s'.next >= s.next /\ 0 < s'.next
  BY <1>3 DEF Growth, IsSession, None
<1> QED BY <1>2, <1>5, <1>6, <1>7 DEF Does

\* What others do keeps the tree, and lets it grow.
LEMMA OthersGrow ==
  ASSUME IsSession(s), Older(s.log), Abort \/ Steer \/ FollowUp \/ Fork
  PROVE  Older(s'.log) /\ s'.next >= s.next /\ s'.next \in Nat
<1>1. s.next \in Nat
  BY DEF IsSession
<1>2. CASE Fork
  <2>1. PICK target \in IdsOf(s.log, MessageKinds) :
           s' = [Appended(s, "leaf", target, 1) EXCEPT !.leaf = target]
    BY <1>2 DEF Fork
  <2>2. PICK sess : sess = Appended(s, "leaf", target, 1)
    OBVIOUS
  <2>3. DOMAIN sess = {"log", "leaf", "next"}
    BY <2>2 DEF Appended
  <2>4. s'.log = sess.log /\ s'.next = sess.next
    BY <2>1, <2>2, <2>3
  <2>5. target \in Nat /\ target < s.next
    BY DEF IdsOf, IsSession
  <2>6. Older(sess.log) /\ sess.next = s.next + 1
    BY <2>2, <2>5, AppendedOlder
  <2> QED BY <1>1, <2>4, <2>6
<1>3. CASE Abort \/ Steer \/ FollowUp
  BY <1>1, <1>3 DEF Abort, Steer, FollowUp
<1> QED BY <1>2, <1>3

\* And leaves every request as it is.
LEMMA OthersDo ==
  ASSUME IInv, NEW c \in Callers, Ready(c), Abort \/ Steer \/ FollowUp \/ Fork
  PROVE  Does(c)
<1>1. /\ IsSession(s) /\ EngineOK(engine) /\ DOMAIN run = Callers /\ engine.inputs \in Nat
      /\ \A d \in Callers : IsCall(run[d])
  BY DEF Ready, Given, IInv, TypeOK
<1>2. \A d \in Callers : run'[d].msgs = run[d].msgs /\ run'[d].kept = run[d].kept
  BY <1>1 DEF Abort, Steer, FollowUp, Fork, IsCall
<1>3. Queues
  <2>1. CASE Abort \/ Fork
    BY <1>1, <2>1, QueuesStay DEF Abort, Fork
  <2>2. CASE Steer \/ FollowUp
    <3>1. CASE Steer
      <4>1. /\ engine'.inputs = engine.inputs + 1 /\ engine'.followup = engine.followup
            /\ engine'.steering = Append(engine.steering, Item("steer", engine.inputs + 1))
        BY <1>1, <3>1 DEF Steer, EngineOK
      <4> QED BY <1>1, <4>1 DEF Queues, QueueStep
    <3>2. CASE FollowUp
      <4>1. /\ engine'.inputs = engine.inputs + 1 /\ engine'.steering = engine.steering
            /\ engine'.followup = Append(engine.followup, Item("followup", engine.inputs + 1))
        BY <1>1, <3>2 DEF FollowUp, EngineOK
      <4> QED BY <1>1, <4>1 DEF Queues, QueueStep
    <3> QED BY <2>2, <3>1, <3>2
  <2> QED BY <2>1, <2>2
<1>4. Older(s'.log) /\ s'.next >= s.next /\ s'.next \in Nat
  BY <1>1, OthersGrow DEF Ready, Growth
<1>5. run'[c].kept < s'.next
  BY <1>2, <1>4 DEF Ready
<1> QED BY <1>2, <1>3, <1>4, <1>5 DEF Does, Rewrites

----------------------------------------------------------------------------
(* Steering in order *)

Lines == Grown /\ \A c \in Callers : Line(c)

\* What an action of a caller does keeps the queues behind every request.
LEMMA DoesLines ==
  ASSUME Lines, NEW c \in Callers, \A d \in Callers : Ready(d), Does(c),
         engine'.inputs \in Nat, s'.next \in Nat
  PROVE  Lines'
<1>1. Grown'
  <2>1. \A d \in Callers : run[d].kept \in Nat /\ run[d].kept < s.next /\ s.next \in Nat
    BY DEF Ready
  <2>2. \A d \in Callers : run'[d].kept < s'.next
    BY <2>1 DEF Does
  <2> QED BY <2>2 DEF Does, Grown
<1>2. ASSUME NEW d \in Callers PROVE Line(d)'
  <2>1. Queues /\ Rewrites(d)
    BY DEF Does, Rewrites
  <2>2. Line(d) /\ engine.inputs \in Nat
    BY DEF Lines, Ready
  <2> QED BY <2>1, <2>2, LineKept
<1> QED BY <1>1, <1>2 DEF Lines

\* Every step keeps them.
LEMMA NextLines == IInv /\ Lines /\ [Next]_vars => Lines'
<1> SUFFICES ASSUME IInv, Lines, [Next]_vars PROVE Lines'
  OBVIOUS
<1>1. IInv'
  BY NextSafe
<1>2. engine'.inputs \in Nat /\ s'.next \in Nat
  BY <1>1 DEF IInv, TypeOK, IsSession
<1>3. \A d \in Callers : Ready(d) /\ Line(d) /\ IsCall(run[d])
  BY InvReady DEF Lines, Ready, Given
<1>4. CASE UNCHANGED vars
  BY <1>4 DEF vars, Lines, Grown, Line
<1>5. CASE Next
  <2>1. ASSUME NEW c \in Callers, Does(c) PROVE Lines'
    BY <1>2, <1>3, <2>1, DoesLines
  <2>2. ASSUME NEW c \in Callers, Invoke(c) \/ Step(c) \/ Answer(c) \/ AnswerTruncated(c)
                                   \/ HookFails(c) \/ Cancel(c)
        PROVE  Lines'
    <3>1. Ready(c) /\ Line(c) /\ Grown
      BY <1>3 DEF Lines
    <3>2. Does(c)
      BY <1>3, <2>2, <3>1, StartDoes, TopDoes, CallsDoes, StopDoes, ToolsDoes, LastToolsDoes,
         FailsDoes, AfterRunDoes, LeavesDoes DEF Step, Answer
    <3> QED BY <2>1, <3>2
  <2>3. CASE Abort \/ Steer \/ FollowUp \/ Fork
    <3>1. CASE Callers = {}
      <4>1. Older(s'.log)
        BY <2>3, OthersGrow DEF IInv, TypeOK, Lines, Grown
      <4> QED BY <3>1, <4>1 DEF Lines, Grown
    <3>2. CASE Callers # {}
      <4>1. PICK c \in Callers : TRUE
        BY <3>2
      <4>2. Does(c)
        BY <1>3, <2>3, OthersDo
      <4> QED BY <2>1, <4>2
    <3> QED BY <3>1, <3>2
  <2> QED BY <1>5, <2>2, <2>3 DEF Next
<1> QED BY <1>4, <1>5

\* With the types, this is inductive: the log of the session is a tree whose
\* links point back in time, and in every request and queue the steering and
\* follow-up messages are in the order in which they came, none twice, those
\* that were taken before those that wait.
THEOREM LinesInvariance == Spec => [](IInv /\ Lines)
<1>1. Init => Lines
  <2> SUFFICES ASSUME Init PROVE Lines
    OBVIOUS
  <2>1. Older(s.log) /\ \A c \in Callers : run[c].kept < s.next
    BY DEF Init, Older, NoEntries, Idle, None
  <2>2. \A kind, n : Follows(<<>>, <<>>, kind, n)
    BY DEF Follows, InOrder
  <2>3. /\ engine.steering = <<>> /\ engine.followup = <<>>
        /\ \A c \in Callers : run[c].msgs = <<>>
    BY DEF Init, Idle
  <2>4. \A c \in Callers : Line(c)
    BY <2>2, <2>3 DEF Line
  <2> QED BY <2>1, <2>4 DEF Lines, Grown
<1>2. IInv /\ Lines /\ [Next]_vars => Lines'
  BY NextLines
<1> QED BY <1>1, <1>2, Invariance, PTL DEF Spec

\* Steering and follow-up messages reach the model at most once and in order,
\* through resets, retries, aborts and turns that overlap on one engine.
THEOREM SteeringInOrder == Spec => []SteersInOrder
<1>1. Lines => SteersInOrder
  BY FollowsInOrder DEF Lines, Line, SteersInOrder
<1> QED BY <1>1, LinesInvariance, PTL

----------------------------------------------------------------------------
(* Whole rounds in a request *)

\* Results follow their calls in the log, and no compaction keeps results of
\* calls it drops.
RoundsLogged(log) ==
  \A i \in DOMAIN log :
    /\ log[i].kind = "tool" =>
         i - 1 \in DOMAIN log /\ log[i - 1].kind = "calls" /\ log[i].parent = i - 1
    /\ log[i].kind = "compaction" /\ log[i].ref \in DOMAIN log => log[log[i].ref].kind # "tool"

\* All that the session has recorded since the question is one line of entries
\* that ends in the leaf, and its calls have results, the open ones apart.
Linear(sess, uid, open) ==
  /\ uid \in 1..(sess.next - 1) /\ sess.leaf = sess.next - 1 /\ sess.log[uid].kind = "user"
  /\ \A i \in uid..(sess.next - 1) :
       /\ i \in DOMAIN sess.log
       /\ i > uid => sess.log[i].parent = i - 1
       /\ sess.log[i].kind = "calls" =>
            IF i < sess.next - 1 THEN sess.log[i + 1].kind = "tool" ELSE open
  /\ open => sess.log[sess.next - 1].kind = "calls"

\* The rounds of a request: results follow calls, and results follow the calls
\* of this turn, the open ones apart.
ResultsFollow(msgs) ==
  \A n \in DOMAIN msgs : msgs[n].kind = "tool" => n > 1 /\ msgs[n - 1].kind = "calls"

CallsAnswered(msgs, uid, open) ==
  \A n \in DOMAIN msgs : msgs[n].kind = "calls" /\ msgs[n].id > uid =>
    IF n < Len(msgs) THEN msgs[n + 1].kind = "tool" ELSE open

\* What the session has recorded since the question is in the request, or a
\* compaction that the request has covers it.
Carries(msgs, log, uid) ==
  \A i \in IdsOf(log, {"user", "calls", "tool", "assistant"}) : i >= uid =>
    \E n \in DOMAIN msgs :
      msgs[n] = Item(log[i].kind, i) \/ (msgs[n].kind = "compaction" /\ msgs[n].id > i)

\* A request of a turn: the rounds are whole, and all of the turn is there.
Reads(msgs, log, uid, open) ==
  /\ ResultsFollow(msgs) /\ CallsAnswered(msgs, uid, open) /\ Carries(msgs, log, uid)
  /\ open => msgs # <<>> /\ msgs[Len(msgs)].kind = "calls"

\* A caller from its question to the end of its turn, and just before it.
Asking == InRun \cup {"backoff", "compactRetry"}

Request(c) ==
  LET r == run[c]
  IN  /\ r.kept \in DOMAIN s.log => s.log[r.kept].kind # "tool"
      /\ r.pc = "built" =>
           ResultsFollow(r.msgs) /\ \A n \in DOMAIN r.msgs : r.msgs[n].id < s.next
      /\ r.pc \in Asking \ {"tools"} => Linear(s, r.uid, FALSE)
      /\ r.pc \in {"top", "stream", "backoff"} => Reads(r.msgs, s.log, r.uid, FALSE)
      /\ r.pc = "tools" => Linear(s, r.uid, TRUE) /\ Reads(r.msgs, s.log, r.uid, TRUE)

Requests == RoundsLogged(s.log) /\ \A c \in Callers : Request(c)

\* The places of the messages kept: in order, and among them every message that
\* is no failed one and that a usable one follows, or that is itself usable.
Keeps(msgs, rest, at) ==
  /\ at \in [1..Len(rest) -> 1..Len(msgs)]
  /\ \A m, n \in 1..Len(rest) : m < n => at[m] < at[n]
  /\ \A n \in 1..Len(rest) : rest[n] = msgs[at[n]]
  /\ \A p, q \in 1..Len(msgs) :
       p <= q /\ msgs[p].kind # "error" /\ msgs[q].kind \notin {"calls", "error", "partial"} =>
       \E n \in 1..Len(rest) : at[n] = p

\* The filters keep these.
LEMMA UsableKeeps ==
  ASSUME NEW T, NEW msgs \in Seq(T)
  PROVE  Usable(msgs) \in Seq(T) /\ \E at : Keeps(msgs, Usable(msgs), at)
<1>0. PICK rest : rest = Usable(msgs)
  OBVIOUS
<1>1. Len(msgs) \in Nat /\ DOMAIN msgs = 1..Len(msgs) /\ \A n \in 1..Len(msgs) : msgs[n] \in T
  OBVIOUS
<1>2. PICK ok : ok = {n \in DOMAIN msgs : msgs[n].kind \notin {"calls", "error", "partial"}}
  OBVIOUS
<1>3. PICK last : last = Newest(ok)
  OBVIOUS
<1>4. last \in 0..Len(msgs) /\ \A q \in ok : q <= last
  <2>1. ok \subseteq 1..Len(msgs) /\ ok \subseteq Nat
    BY <1>1, <1>2
  <2>2. last \in ok \cup {None}
    BY <1>3, <2>1, NewestType
  <2>3. \A q \in ok : q <= last
    BY <1>1, <1>3, <2>1, NewestBounds
  <2> QED BY <1>1, <2>1, <2>2, <2>3 DEF None
<1>5. PICK kept : kept = {n \in 1..last : msgs[n].kind # "error"}
  OBVIOUS
<1>6. kept \subseteq 1..Len(msgs) /\ kept \subseteq Nat
  BY <1>1, <1>4, <1>5
<1>7. IsFiniteSet(kept) /\ Cardinality(kept) \in Nat
  <2>1. IsFiniteSet(1..Len(msgs))
    BY <1>1, FS_Interval
  <2>2. IsFiniteSet(kept)
    BY <1>6, <2>1, FS_Subset
  <2> QED BY <2>2, FS_CardinalityType
<1>8. PICK k \in Nat : k = Cardinality(kept)
  BY <1>7
<1>9. PICK at : at = [n \in 1..k |-> Nth(kept, n)]
  OBVIOUS
<1>10. /\ at \in [1..k -> kept]
       /\ \A m, n \in 1..k : m < n => at[m] < at[n]
       /\ \A p \in kept : \E n \in 1..k : at[n] = p
  BY <1>6, <1>7, <1>8, <1>9, NthOf
<1>11. rest = [n \in 1..k |-> msgs[at[n]]]
  BY <1>0, <1>2, <1>3, <1>5, <1>8, <1>9 DEF Usable
<1>12. at \in [1..k -> 1..Len(msgs)] /\ \A n \in 1..k : msgs[at[n]] \in T
  BY <1>1, <1>6, <1>10
<1>13. rest \in [1..k -> T]
  BY <1>11, <1>12
<1>14. Len(rest) = k
  BY <1>13
<1>15. \A n \in 1..k : rest[n] = msgs[at[n]]
  BY <1>11
<1>16. \A p, q \in 1..Len(msgs) :
         p <= q /\ msgs[p].kind # "error"
           /\ msgs[q].kind \notin {"calls", "error", "partial"} =>
         \E n \in 1..k : at[n] = p
  <2> SUFFICES ASSUME NEW p \in 1..Len(msgs), NEW q \in 1..Len(msgs), p <= q,
                      msgs[p].kind # "error", msgs[q].kind \notin {"calls", "error", "partial"}
               PROVE  p \in kept
    BY <1>10
  <2>1. q \in ok
    BY <1>1, <1>2
  <2>2. q <= last
    BY <1>4, <2>1
  <2>3. p \in 1..last
    BY <1>1, <1>4, <2>2
  <2> QED BY <1>5, <2>3
<1>17. rest \in Seq(T)
  BY <1>13
<1>18. Keeps(msgs, rest, at)
  <2>1. \A m, n \in 1..Len(rest) : m < n => at[m] < at[n]
    BY <1>10, <1>14
  <2> QED BY <1>12, <1>14, <1>15, <1>16, <2>1 DEF Keeps
<1> QED BY <1>0, <1>17, <1>18

\* Of two messages next to each other that are both kept, nothing comes between.
LEMMA KeptAdjacent ==
  ASSUME NEW msgs, NEW rest, NEW at, Keeps(msgs, rest, at), Len(rest) \in Nat, Len(msgs) \in Nat,
         NEW m \in 1..Len(rest), NEW n \in 1..Len(rest), at[n] = at[m] + 1
  PROVE  n = m + 1
<1>0. at \in [1..Len(rest) -> 1..Len(msgs)]
  BY DEF Keeps
<1>1. /\ \A i \in 1..Len(rest) : at[i] \in Int
      /\ \A i, j \in 1..Len(rest) : i < j => at[i] < at[j]
  <2>1. \A i \in 1..Len(rest) : at[i] \in 1..Len(msgs)
    BY <1>0
  <2>2. 1..Len(msgs) \subseteq Int
    OBVIOUS
  <2>3. \A i, j \in 1..Len(rest) : i < j => at[i] < at[j]
    BY Zenon DEF Keeps
  <2> QED BY <2>1, <2>2, <2>3
<1>2. ~ (n < m) /\ n # m
  BY <1>1
<1>3. SUFFICES ASSUME m + 1 < n PROVE FALSE
  BY <1>2
<1>4. m + 1 \in 1..Len(rest) /\ m < m + 1
  BY <1>3
<1>5. at[m] < at[m + 1] /\ at[m + 1] < at[n] /\ at[m + 1] \in Int
  BY <1>1, <1>3, <1>4
<1> QED BY <1>1, <1>5

\* The filters leave results behind their calls, ...
LEMMA UsableResults ==
  ASSUME NEW msgs \in Seq(Message), ResultsFollow(msgs)
  PROVE  ResultsFollow(Usable(msgs))
<1>1. PICK rest : rest = Usable(msgs)
  OBVIOUS
<1>2. PICK at : Keeps(msgs, rest, at)
  BY <1>1, UsableKeeps
<1>3. rest \in Seq(Message)
  BY <1>1, UsableKeeps
<1>4. Len(rest) \in Nat /\ Len(msgs) \in Nat /\ DOMAIN rest = 1..Len(rest)
      /\ DOMAIN msgs = 1..Len(msgs)
  BY <1>3
<1>5. ASSUME NEW n \in 1..Len(rest), rest[n].kind = "tool"
      PROVE  n > 1 /\ rest[n - 1].kind = "calls"
  <2>1. PICK p \in 1..Len(msgs) : p = at[n] /\ msgs[p].kind = "tool"
    BY <1>2, <1>5 DEF Keeps
  <2>2. p > 1 /\ msgs[p - 1].kind = "calls"
    BY <1>4, <2>1 DEF ResultsFollow
  <2>3. p - 1 \in 1..Len(msgs) /\ p - 1 <= p
    BY <1>4, <2>2
  <2>4. PICK m \in 1..Len(rest) : at[m] = p - 1
    BY <1>2, <2>1, <2>2, <2>3 DEF Keeps
  <2>5. n = m + 1
    <3>1. at[n] = at[m] + 1
      BY <1>4, <2>1, <2>4
    <3> QED BY <1>2, <1>4, <3>1, KeptAdjacent
  <2>6. m = n - 1 /\ n > 1
    BY <1>4, <2>5
  <2> QED BY <1>2, <2>2, <2>4, <2>6 DEF Keeps
<1> QED BY <1>1, <1>4, <1>5 DEF ResultsFollow

\* ... and the calls of the turn before their results, ...
LEMMA UsableCalls ==
  ASSUME NEW msgs \in Seq(Message), NEW uid, CallsAnswered(msgs, uid, FALSE)
  PROVE  CallsAnswered(Usable(msgs), uid, FALSE)
<1>1. PICK rest : rest = Usable(msgs)
  OBVIOUS
<1>2. PICK at : Keeps(msgs, rest, at)
  BY <1>1, UsableKeeps
<1>3. rest \in Seq(Message)
  BY <1>1, UsableKeeps
<1>4. Len(rest) \in Nat /\ Len(msgs) \in Nat /\ DOMAIN rest = 1..Len(rest)
      /\ DOMAIN msgs = 1..Len(msgs)
  BY <1>3
<1>5. ASSUME NEW n \in 1..Len(rest), rest[n].kind = "calls", rest[n].id > uid
      PROVE  n < Len(rest) /\ rest[n + 1].kind = "tool"
  <2>1. PICK p \in 1..Len(msgs) : p = at[n] /\ msgs[p] = rest[n]
    BY <1>2 DEF Keeps
  <2>2. p < Len(msgs) /\ msgs[p + 1].kind = "tool"
    BY <1>4, <1>5, <2>1 DEF CallsAnswered
  <2>3. p + 1 \in 1..Len(msgs) /\ p + 1 <= p + 1
    BY <1>4, <2>2
  <2>4. PICK m \in 1..Len(rest) : at[m] = p + 1
    BY <1>2, <2>2, <2>3 DEF Keeps
  <2>5. m = n + 1
    <3>1. at[m] = at[n] + 1
      BY <1>4, <2>1, <2>4
    <3> QED BY <1>2, <1>4, <3>1, KeptAdjacent
  <2>6. n < Len(rest)
    BY <1>4, <2>5
  <2> QED BY <1>2, <2>2, <2>4, <2>5, <2>6 DEF Keeps
<1> QED BY <1>1, <1>4, <1>5 DEF CallsAnswered

\* ... and what the turn has recorded.
LEMMA UsableCarries ==
  ASSUME NEW msgs \in Seq(Message), NEW log, NEW uid \in Nat, DOMAIN log \subseteq Nat,
         CallsAnswered(msgs, uid, FALSE), Carries(msgs, log, uid),
         uid \in DOMAIN log, log[uid].kind = "user"
  PROVE  Carries(Usable(msgs), log, uid)
<1>1. PICK rest : rest = Usable(msgs)
  OBVIOUS
<1>2. PICK at : Keeps(msgs, rest, at)
  BY <1>1, UsableKeeps
<1>3. rest \in Seq(Message)
  BY <1>1, UsableKeeps
<1>4. Len(rest) \in Nat /\ Len(msgs) \in Nat /\ DOMAIN rest = 1..Len(rest)
      /\ DOMAIN msgs = 1..Len(msgs)
  BY <1>3
<1>5. \A p \in 1..Len(msgs) :
        msgs[p].kind \notin {"calls", "error", "partial"} =>
          \E n \in 1..Len(rest) : rest[n] = msgs[p]
  <2> SUFFICES ASSUME NEW p \in 1..Len(msgs), msgs[p].kind \notin {"calls", "error", "partial"}
               PROVE  \E n \in 1..Len(rest) : rest[n] = msgs[p]
    OBVIOUS
  <2>1. p <= p
    BY <1>4
  <2>2. PICK n \in 1..Len(rest) : at[n] = p
    BY <1>2, <2>1 DEF Keeps
  <2> QED BY <1>2, <2>2 DEF Keeps
<1>6. \A p \in 1..Len(msgs) :
        msgs[p].kind = "calls" /\ msgs[p].id > uid =>
          \E n \in 1..Len(rest) : rest[n] = msgs[p]
  <2> SUFFICES ASSUME NEW p \in 1..Len(msgs), msgs[p].kind = "calls", msgs[p].id > uid
               PROVE  \E n \in 1..Len(rest) : rest[n] = msgs[p]
    OBVIOUS
  <2>1. p < Len(msgs) /\ msgs[p + 1].kind = "tool"
    BY <1>4 DEF CallsAnswered
  <2>2. p + 1 \in 1..Len(msgs) /\ p <= p + 1
    BY <1>4, <2>1
  <2>3. PICK n \in 1..Len(rest) : at[n] = p
    BY <1>2, <2>1, <2>2 DEF Keeps
  <2> QED BY <1>2, <2>3 DEF Keeps
<1>7. ASSUME NEW i \in IdsOf(log, {"user", "calls", "tool", "assistant"}), i >= uid
      PROVE  \E n \in 1..Len(rest) :
               rest[n] = Item(log[i].kind, i) \/ (rest[n].kind = "compaction" /\ rest[n].id > i)
  <2>1. PICK p \in 1..Len(msgs) :
           msgs[p] = Item(log[i].kind, i) \/ (msgs[p].kind = "compaction" /\ msgs[p].id > i)
    BY <1>4, <1>7 DEF Carries
  <2>2. i \in Nat /\ log[i].kind \in {"user", "calls", "tool", "assistant"}
        /\ (log[i].kind = "calls" => i > uid)
    BY <1>7 DEF IdsOf
  <2>3. CASE msgs[p] = Item(log[i].kind, i)
    <3>1. msgs[p].kind = log[i].kind /\ msgs[p].id = i
      BY <2>3 DEF Item
    <3>2. \E n \in 1..Len(rest) : rest[n] = msgs[p]
      BY <1>5, <1>6, <2>2, <3>1
    <3> QED BY <2>3, <3>2
  <2>4. CASE msgs[p].kind = "compaction" /\ msgs[p].id > i
    <3>1. \E n \in 1..Len(rest) : rest[n] = msgs[p]
      BY <1>5, <2>4
    <3> QED BY <2>4, <3>1
  <2> QED BY <2>1, <2>3, <2>4
<1> QED BY <1>1, <1>4, <1>7 DEF Carries

\* The messages are the entries of a set, each of them ...
Holds(msgs, log, ids) ==
  /\ \A n \in 1..Len(msgs) : msgs[n].id \in ids /\ msgs[n] = Item(log[msgs[n].id].kind, msgs[n].id)
  /\ \A i \in ids : \E n \in 1..Len(msgs) : msgs[n] = Item(log[i].kind, i)

\* ... and in order, behind a compaction.
Lists(msgs, log, ids) ==
  /\ Holds(msgs, log, ids)
  /\ \A m, n \in 1..Len(msgs) :
       m < n /\ msgs[m].kind # "compaction" =>
         msgs[n].kind # "compaction" /\ msgs[m].id < msgs[n].id

\* A listing has its entries, in order.
LEMMA ListedOrder ==
  ASSUME NEW log, IsLog(log), NEW ids, IsFiniteSet(ids), ids \subseteq DOMAIN log
  PROVE  /\ Len(Listed(log, ids)) \in Nat /\ Holds(Listed(log, ids), log, ids)
         /\ \A m, n \in 1..Len(Listed(log, ids)) :
              m < n => Listed(log, ids)[m].id < Listed(log, ids)[n].id
<1>1. ids \subseteq Nat
  BY DEF IsLog
<1>2. PICK k \in Nat : k = Cardinality(ids)
  BY FS_CardinalityType
<1>3. PICK at : at = [n \in 1..k |-> Nth(ids, n)]
  OBVIOUS
<1>4. /\ at \in [1..k -> ids]
      /\ \A m, n \in 1..k : m < n => at[m] < at[n]
      /\ \A i \in ids : \E n \in 1..k : at[n] = i
  BY <1>1, <1>2, <1>3, NthOf
<1>5. PICK msgs : msgs = Listed(log, ids)
  OBVIOUS
<1>6. msgs = [n \in 1..k |-> Item(log[at[n]].kind, at[n])]
  BY <1>2, <1>3, <1>5 DEF Listed
<1>7. msgs \in Seq(Recorded)
  BY <1>5, ListedItems
<1>8. Len(msgs) = k
  BY <1>6, <1>7
<1>9. \A n \in 1..k : msgs[n] = Item(log[at[n]].kind, at[n]) /\ msgs[n].id = at[n]
                      /\ msgs[n].kind = log[at[n]].kind /\ at[n] \in ids
  BY <1>4, <1>6 DEF Item
<1>10. \A m, n \in 1..k : m < n => msgs[m].id < msgs[n].id
  BY <1>4, <1>9
<1>11. \A i \in ids : \E n \in 1..k : msgs[n] = Item(log[i].kind, i)
  BY <1>4, <1>9
<1> QED BY <1>2, <1>5, <1>8, <1>9, <1>10, <1>11 DEF Holds

\* So has the request that is built from a session, the compaction first.
LEMMA MessagesList ==
  ASSUME NEW sess, IsSession(sess), Older(sess.log)
  PROVE  Lists(Messages(sess), sess.log, Context(sess.log, sess.leaf))
<1>1. PICK log : log = sess.log /\ IsLog(log)
  BY DEF IsSession
<1>2. PICK ids : ids = Context(sess.log, sess.leaf)
  OBVIOUS
<1>3. ids \subseteq DOMAIN log /\ IsFiniteSet(ids)
  BY <1>1, <1>2, ContextEntries
<1>4. PICK S : S = {i \in ids : log[i].kind = "compaction"}
  OBVIOUS
<1>5. PICK T : T = {i \in ids : log[i].kind # "compaction"}
  OBVIOUS
<1>6. PICK a : a = Listed(log, S)
  OBVIOUS
<1>7. PICK b : b = Listed(log, T)
  OBVIOUS
<1>8. IsFiniteSet(S) /\ IsFiniteSet(T) /\ S \subseteq DOMAIN log /\ T \subseteq DOMAIN log
  BY <1>3, <1>4, <1>5, FS_Subset
<1>9. /\ a \in Seq(Recorded) /\ Len(a) \in Nat /\ Holds(a, log, S)
      /\ b \in Seq(Recorded) /\ Len(b) \in Nat /\ Holds(b, log, T)
      /\ \A m, n \in 1..Len(b) : m < n => b[m].id < b[n].id
  BY <1>1, <1>6, <1>7, <1>8, ListedOrder, ListedItems
<1>10. PICK msgs : msgs = Messages(sess)
  OBVIOUS
<1>11. msgs = a \o b
  BY <1>1, <1>2, <1>4, <1>5, <1>6, <1>7, <1>10 DEF Messages
<1>12. Len(msgs) = Len(a) + Len(b)
  BY <1>9, <1>11
<1>13. \A n \in 1..Len(a) : n \in 1..Len(msgs) /\ msgs[n] = a[n]
  BY <1>9, <1>11, <1>12
<1>14. \A n \in 1..Len(b) : n + Len(a) \in 1..Len(msgs) /\ msgs[n + Len(a)] = b[n]
  BY <1>9, <1>11, <1>12
<1>15. \A n \in 1..Len(msgs) : n \in 1..Len(a) \/ n - Len(a) \in 1..Len(b)
  BY <1>9, <1>12
<1>16. \A n \in 1..Len(msgs) : n - Len(a) \in 1..Len(b) => msgs[n] = b[n - Len(a)]
  BY <1>9, <1>12, <1>14
<1>17. \A n \in 1..Len(a) : a[n].id \in S /\ a[n] = Item(log[a[n].id].kind, a[n].id)
  BY <1>9 DEF Holds
<1>18. \A n \in 1..Len(b) : b[n].id \in T /\ b[n] = Item(log[b[n].id].kind, b[n].id)
  BY <1>9 DEF Holds
<1>19. \A n \in 1..Len(a) : a[n].kind = "compaction"
  <2> SUFFICES ASSUME NEW n \in 1..Len(a) PROVE a[n].kind = "compaction"
    OBVIOUS
  <2>1. PICK i \in S : a[n] = Item(log[i].kind, i)
    BY <1>17
  <2> QED BY <1>4, <2>1 DEF Item
<1>20. ASSUME NEW n \in 1..Len(msgs)
       PROVE  msgs[n].id \in ids /\ msgs[n] = Item(log[msgs[n].id].kind, msgs[n].id)
  BY <1>4, <1>5, <1>13, <1>15, <1>16, <1>17, <1>18
<1>21. ASSUME NEW i \in ids
       PROVE  \E n \in 1..Len(msgs) : msgs[n] = Item(log[i].kind, i)
  <2>1. CASE i \in S
    <3>1. PICK n \in 1..Len(a) : a[n] = Item(log[i].kind, i)
      BY <1>9, <2>1 DEF Holds
    <3> QED BY <1>13, <3>1
  <2>2. CASE i \in T
    <3>1. PICK n \in 1..Len(b) : b[n] = Item(log[i].kind, i)
      BY <1>9, <2>2 DEF Holds
    <3> QED BY <1>14, <3>1
  <2> QED BY <1>4, <1>5, <2>1, <2>2
<1>22. ASSUME NEW m \in 1..Len(msgs), NEW n \in 1..Len(msgs), m < n, msgs[m].kind # "compaction"
       PROVE  msgs[n].kind # "compaction" /\ msgs[m].id < msgs[n].id
  <2>1. m \notin 1..Len(a)
    BY <1>13, <1>19, <1>22
  <2>2. PICK i \in 1..Len(b) : i = m - Len(a)
    BY <1>15, <2>1
  <2>3. n \notin 1..Len(a)
    BY <1>9, <1>12, <1>22, <2>1
  <2>4. PICK j \in 1..Len(b) : j = n - Len(a)
    BY <1>15, <2>3
  <2>5. i < j
    BY <1>9, <1>12, <1>22, <2>2, <2>4
  <2>6. msgs[m] = b[i] /\ msgs[n] = b[j]
    BY <1>16, <2>2, <2>4
  <2>7. b[j].kind # "compaction"
    <3>1. PICK k \in T : b[j] = Item(log[k].kind, k)
      BY <1>18
    <3> QED BY <1>5, <3>1 DEF Item
  <2> QED BY <1>9, <2>5, <2>6, <2>7
<1> QED BY <1>1, <1>2, <1>10, <1>20, <1>21, <1>22 DEF Lists, Holds

\* Entries with nothing between them are next to each other in a list.
LEMMA ListsNext ==
  ASSUME NEW msgs \in Seq(Recorded), NEW log, NEW ids, Lists(msgs, log, ids),
         NEW n \in 1..Len(msgs), msgs[n].kind # "compaction",
         msgs[n].id + 1 \in ids, log[msgs[n].id + 1].kind # "compaction"
  PROVE  n < Len(msgs) /\ msgs[n + 1] = Item(log[msgs[n].id + 1].kind, msgs[n].id + 1)
<1>1. Len(msgs) \in Nat /\ \A k \in 1..Len(msgs) : msgs[k].id \in Nat
  <2>1. \A k \in 1..Len(msgs) : msgs[k] \in Recorded
    OBVIOUS
  <2> QED BY <2>1 DEF Recorded
<1>2. PICK i \in Nat : i = msgs[n].id
  BY <1>1
<1>3. PICK m \in 1..Len(msgs) : msgs[m] = Item(log[i + 1].kind, i + 1)
  BY <1>2 DEF Lists, Holds
<1>4. msgs[m].id = i + 1 /\ msgs[m].kind # "compaction"
  BY <1>2, <1>3 DEF Item
<1>5. \A p, q \in 1..Len(msgs) :
        p < q /\ msgs[p].kind # "compaction" =>
          msgs[q].kind # "compaction" /\ msgs[p].id < msgs[q].id
  BY DEF Lists
<1>6. n < m
  <2>1. ~ (m < n)
    BY <1>2, <1>4, <1>5
  <2>2. m # n
    BY <1>2, <1>4
  <2> QED BY <1>1, <2>1, <2>2
<1>7. ~ (n + 1 < m)
  <2>1. SUFFICES ASSUME n + 1 < m PROVE FALSE
    OBVIOUS
  <2>2. PICK p \in 1..Len(msgs) : n < p /\ p < m
    BY <1>1, <2>1
  <2>3. msgs[p].kind # "compaction" /\ i < msgs[p].id
    BY <1>2, <1>5, <2>2
  <2>4. msgs[p].id < i + 1
    BY <1>4, <1>5, <2>2, <2>3
  <2> QED BY <1>1, <1>2, <2>3, <2>4
<1>8. m = n + 1
  BY <1>1, <1>6, <1>7
<1> QED BY <1>1, <1>2, <1>3, <1>6, <1>8

\* What a context shows, by its last compaction.
LEMMA ContextHas ==
  ASSUME NEW sess, IsSession(sess), Older(sess.log), NEW path, path = Branch(sess.log, sess.leaf)
  PROVE  /\ path \subseteq DOMAIN sess.log
         /\ \/ Context(sess.log, sess.leaf) = {i \in path : sess.log[i].kind \in Carried}
            \/ \E c \in path :
                 /\ sess.log[c].kind = "compaction"
                 /\ c \in Context(sess.log, sess.leaf)
                 /\ \A i \in DOMAIN sess.log : i # c =>
                      (i \in Context(sess.log, sess.leaf)
                         <=> /\ i \in path /\ sess.log[i].kind \in Carried
                             /\ i > c \/ (sess.log[c].ref \in path /\ sess.log[c].ref <= i /\ i < c))
<1>1. PICK log : log = sess.log /\ IsLog(log) /\ Older(log)
  BY DEF IsSession
<1>2. sess.leaf \in Nat
  BY <1>1 DEF IsSession, IsLog, None
<1>3. path \subseteq DOMAIN log
  BY <1>1, <1>2, BranchBelow
<1>4. PICK cs : cs = {i \in path : log[i].kind = "compaction"}
  OBVIOUS
<1>5. PICK c : c = Newest(cs)
  OBVIOUS
<1>6. c \in cs \cup {None}
  <2>1. cs \subseteq Nat
    BY <1>1, <1>3, <1>4 DEF IsLog
  <2> QED BY <1>5, <2>1, NewestType
<1>7. PICK text : text = {i \in path : log[i].kind \in Carried}
  OBVIOUS
<1>8. PICK ctx : ctx = Context(log, sess.leaf)
  OBVIOUS
<1>9. ctx = IF c = None THEN text
            ELSE {c} \cup {i \in text : i > c}
                     \cup {i \in text : log[c].ref \in path /\ log[c].ref <= i /\ i < c}
  BY <1>1, <1>4, <1>5, <1>7, <1>8 DEF Context
<1>10. CASE c = None
  BY <1>1, <1>3, <1>7, <1>8, <1>9, <1>10
<1>11. CASE c # None
  <2>1. c \in path /\ log[c].kind = "compaction" /\ c \in ctx
    BY <1>4, <1>6, <1>9, <1>11
  <2>2. \A i \in DOMAIN log : i # c =>
          (i \in ctx <=> /\ i \in path /\ log[i].kind \in Carried
                         /\ i > c \/ (log[c].ref \in path /\ log[c].ref <= i /\ i < c))
    BY <1>7, <1>9, <1>11
  <2> QED BY <1>1, <1>3, <1>8, <2>1, <2>2
<1> QED BY <1>10, <1>11

\* A context that shows a result shows its calls.
LEMMA ContextRounds ==
  ASSUME NEW sess, IsSession(sess), Older(sess.log), RoundsLogged(sess.log),
         NEW i \in Context(sess.log, sess.leaf), sess.log[i].kind = "tool"
  PROVE  i - 1 \in Context(sess.log, sess.leaf) /\ sess.log[i - 1].kind = "calls"
<1>1. PICK log : log = sess.log /\ IsLog(log) /\ Older(log)
  BY DEF IsSession
<1>2. sess.leaf \in Nat /\ DOMAIN log \subseteq Nat
  BY <1>1 DEF IsSession, IsLog, None
<1>3. PICK ctx : ctx = Context(log, sess.leaf)
  OBVIOUS
<1>4. PICK path : path = Branch(log, sess.leaf)
  OBVIOUS
<1>5. i \in DOMAIN log /\ log[i].kind = "tool" /\ i \in ctx
  BY <1>1, <1>3, ContextEntries
<1>6. /\ i - 1 \in DOMAIN log /\ log[i - 1].kind = "calls" /\ log[i].parent = i - 1
  BY <1>1, <1>5 DEF RoundsLogged
<1>7. i \in Nat /\ i - 1 \in Nat /\ log[i - 1].kind \in Carried
  BY <1>2, <1>5, <1>6 DEF Carried, MessageKinds, AssistantKinds
<1>8. i \in path => i - 1 \in path
  BY <1>1, <1>2, <1>4, <1>6, BranchGoesOn
<1>9. CASE ctx = {j \in path : log[j].kind \in Carried}
  BY <1>1, <1>3, <1>5, <1>6, <1>7, <1>8, <1>9
<1>10. CASE \E c \in path :
              /\ log[c].kind = "compaction" /\ c \in DOMAIN log
              /\ \A j \in DOMAIN log : j # c =>
                   (j \in ctx <=> /\ j \in path /\ log[j].kind \in Carried
                                  /\ j > c \/ (log[c].ref \in path /\ log[c].ref <= j /\ j < c))
  <2>1. PICK c \in path :
              /\ log[c].kind = "compaction" /\ c \in DOMAIN log
              /\ \A j \in DOMAIN log : j # c =>
                   (j \in ctx <=> /\ j \in path /\ log[j].kind \in Carried
                                  /\ j > c \/ (log[c].ref \in path /\ log[c].ref <= j /\ j < c))
    BY <1>10
  <2>2. i # c /\ i - 1 # c
    BY <1>5, <1>6, <2>1
  <2>3. i \in path /\ (i > c \/ (log[c].ref \in path /\ log[c].ref <= i /\ i < c))
    BY <1>5, <2>1, <2>2
  <2>4. c \in Nat /\ log[c].ref \in Nat
    BY <1>1, <1>2, <2>1 DEF IsLog, Entry
  <2>5. log[c].ref \in path => log[c].ref # i
    <3>1. log[c].ref \in DOMAIN log => log[log[c].ref].kind # "tool"
      BY <1>1, <2>1 DEF RoundsLogged
    <3> QED BY <1>5, <3>1
  <2>6. i - 1 > c \/ (log[c].ref \in path /\ log[c].ref <= i - 1 /\ i - 1 < c)
    BY <1>7, <2>2, <2>3, <2>4, <2>5
  <2>7. i - 1 \in ctx
    BY <1>6, <1>7, <1>8, <2>1, <2>2, <2>3, <2>6
  <2> QED BY <1>1, <1>3, <1>6, <2>7
<1> QED BY <1>1, <1>4, <1>3, <1>9, <1>10, ContextHas

\* A context of a turn shows all of the turn that no compaction covers, and
\* calls of the turn with their results.
LEMMA ContextTurn ==
  ASSUME NEW sess, IsSession(sess), Older(sess.log), NEW uid, Linear(sess, uid, FALSE)
  PROVE  LET ctx == Context(sess.log, sess.leaf)
         IN  /\ \A i \in IdsOf(sess.log, {"user", "calls", "tool", "assistant"}) : i >= uid =>
                  i \in ctx \/ \E c \in ctx : sess.log[c].kind = "compaction" /\ c > i
             /\ \A i \in ctx : i > uid /\ sess.log[i].kind = "calls" =>
                  i + 1 \in ctx /\ sess.log[i + 1].kind = "tool"
<1>1. PICK log : log = sess.log /\ IsLog(log) /\ Older(log)
  BY DEF IsSession
<1>2. PICK last \in Nat : last = sess.next - 1 /\ sess.leaf = last /\ DOMAIN log \subseteq 1..last
  <2>1. sess.next \in Nat /\ sess.next > 0 /\ DOMAIN log \subseteq 1..(sess.next - 1)
    BY <1>1 DEF IsSession, None
  <2>2. sess.leaf = sess.next - 1
    BY DEF Linear
  <2> QED BY <2>1, <2>2
<1>3. /\ uid \in 1..last
      /\ \A i \in uid..last :
           /\ i \in DOMAIN log
           /\ i > uid => log[i].parent = i - 1
           /\ log[i].kind = "calls" => i < last /\ log[i + 1].kind = "tool"
  BY <1>1, <1>2 DEF Linear
<1>4. PICK ctx : ctx = Context(log, last)
  OBVIOUS
<1>5. PICK path : path = Branch(log, last)
  OBVIOUS
<1>6. uid..last \subseteq path
  BY <1>1, <1>2, <1>3, <1>5, LineBranch
<1>7. PICK turn : turn = {i \in uid..last : log[i].kind \in Carried}
  OBVIOUS
<1>8. /\ \A i \in turn : i \in ctx \/ \E c \in ctx : log[c].kind = "compaction" /\ c > i
      /\ \A i, j \in turn : i \in ctx /\ j = i + 1 => j \in ctx
  <2>1. CASE ctx = {j \in path : log[j].kind \in Carried}
    BY <1>6, <1>7, <2>1
  <2>2. CASE \E c \in path :
              /\ log[c].kind = "compaction" /\ c \in ctx /\ c \in DOMAIN log
              /\ \A j \in DOMAIN log : j # c =>
                   (j \in ctx <=> /\ j \in path /\ log[j].kind \in Carried
                                  /\ j > c \/ (log[c].ref \in path /\ log[c].ref <= j /\ j < c))
    <3>1. PICK c \in path :
              /\ log[c].kind = "compaction" /\ c \in ctx /\ c \in DOMAIN log
              /\ \A j \in DOMAIN log : j # c =>
                   (j \in ctx <=> /\ j \in path /\ log[j].kind \in Carried
                                  /\ j > c \/ (log[c].ref \in path /\ log[c].ref <= j /\ j < c))
      BY <2>2
    <3>2. c \in Nat /\ log[c].ref \in Nat
      BY <1>1, <3>1 DEF IsLog, Entry
    <3>3. \A i \in turn : i \in Nat /\ i # c /\ i \in path /\ i \in DOMAIN log /\ log[i].kind \in Carried
      BY <1>3, <1>6, <1>7, <3>1 DEF Carried, MessageKinds, AssistantKinds
    <3>4. \A i \in turn : i > c => i \in ctx
      BY <3>1, <3>3
    <3>5. \A i \in turn : i > c \/ c > i
      BY <3>2, <3>3
    <3>6. ASSUME NEW i \in turn, NEW j \in turn, i \in ctx, j = i + 1
          PROVE  j \in ctx
      <4>1. i > c \/ (log[c].ref \in path /\ log[c].ref <= i /\ i < c)
        BY <3>1, <3>3, <3>6
      <4>2. i \in Nat /\ j \in Nat /\ j # c
        BY <3>3
      <4>3. j > c \/ (log[c].ref \in path /\ log[c].ref <= j /\ j < c)
        BY <3>2, <3>6, <4>1, <4>2
      <4> QED BY <3>1, <3>3, <4>3
    <3> QED BY <3>1, <3>4, <3>5, <3>6
  <2> QED BY <1>1, <1>2, <1>4, <1>5, <2>1, <2>2, ContextHas
<1>9. ASSUME NEW i \in IdsOf(log, {"user", "calls", "tool", "assistant"}), i >= uid
      PROVE  i \in ctx \/ \E c \in ctx : log[c].kind = "compaction" /\ c > i
  <2>1. i \in uid..last /\ log[i].kind \in Carried
    BY <1>2, <1>3, <1>9 DEF IdsOf, Carried, MessageKinds, AssistantKinds
  <2> QED BY <1>7, <1>8, <2>1
<1>10. ASSUME NEW i \in ctx, i > uid, log[i].kind = "calls"
       PROVE  i + 1 \in ctx /\ log[i + 1].kind = "tool"
  <2>1. ctx \subseteq DOMAIN log
    BY <1>1, <1>2, <1>4, ContextEntries
  <2>2. i \in uid..last
    BY <1>2, <1>3, <1>10, <2>1
  <2>3. i < last /\ log[i + 1].kind = "tool"
    BY <1>3, <1>10, <2>2
  <2>4. i + 1 \in uid..last
    BY <1>2, <1>3, <2>2, <2>3
  <2>5. i \in turn /\ i + 1 \in turn
    BY <1>7, <1>10, <2>2, <2>3, <2>4 DEF Carried, MessageKinds, AssistantKinds
  <2> QED BY <1>8, <1>10, <2>3, <2>5
<1> QED BY <1>1, <1>2, <1>4, <1>9, <1>10

\* A request that is built from a session has whole rounds ...
LEMMA MessagesResults ==
  ASSUME NEW sess, IsSession(sess), Older(sess.log), RoundsLogged(sess.log)
  PROVE  /\ ResultsFollow(Messages(sess))
         /\ \A n \in DOMAIN Messages(sess) : Messages(sess)[n].id < sess.next
<1>1. PICK log : log = sess.log
  OBVIOUS
<1>2. PICK ctx : ctx = Context(log, sess.leaf)
  OBVIOUS
<1>3. PICK msgs : msgs = Messages(sess)
  OBVIOUS
<1>4. /\ msgs \in Seq(Recorded) /\ Lists(msgs, log, ctx)
      /\ Len(msgs) \in Nat /\ DOMAIN msgs = 1..Len(msgs)
  BY <1>1, <1>2, <1>3, MessagesRecorded, MessagesList
<1>5. ctx \subseteq DOMAIN log /\ DOMAIN log \subseteq 1..(sess.next - 1) /\ sess.next \in Nat
  BY <1>1, <1>2, ContextEntries DEF IsSession
<1>6. ASSUME NEW n \in 1..Len(msgs)
      PROVE  msgs[n].id < sess.next
  <2>1. msgs[n].id \in ctx
    BY <1>4 DEF Lists, Holds
  <2> QED BY <1>5, <2>1
<1>7. ASSUME NEW n \in 1..Len(msgs), msgs[n].kind = "tool"
      PROVE  n > 1 /\ msgs[n - 1].kind = "calls"
  <2>1. PICK i \in ctx : i = msgs[n].id /\ msgs[n] = Item(log[i].kind, i)
    BY <1>4 DEF Lists, Holds
  <2>2. log[i].kind = "tool" /\ i \in Nat
    BY <1>5, <1>7, <2>1 DEF Item
  <2>3. i - 1 \in ctx /\ log[i - 1].kind = "calls"
    BY <1>1, <1>2, <2>1, <2>2, ContextRounds
  <2>4. PICK m \in 1..Len(msgs) : msgs[m] = Item(log[i - 1].kind, i - 1)
    BY <1>4, <2>3 DEF Lists, Holds
  <2>5. msgs[m].kind = "calls" /\ msgs[m].id = i - 1
    BY <2>3, <2>4 DEF Item
  <2>6. msgs[m].kind # "compaction" /\ msgs[m].id + 1 = i /\ log[i].kind # "compaction"
    BY <2>2, <2>5
  <2>7. m < Len(msgs) /\ msgs[m + 1] = Item(log[i].kind, i)
    BY <1>4, <2>1, <2>6, ListsNext
  <2>8. n = m + 1
    <3>1. PICK k \in 1..Len(msgs) : k = m + 1 /\ msgs[k].id = i /\ msgs[k].kind = "tool"
      BY <1>4, <2>2, <2>7 DEF Item
    <3>2. \A p, q \in 1..Len(msgs) :
            p < q /\ msgs[p].kind # "compaction" => msgs[p].id < msgs[q].id
      BY <1>4 DEF Lists
    <3>3. msgs[n].id = i /\ msgs[k].id = i
          /\ msgs[n].kind # "compaction" /\ msgs[k].kind # "compaction"
      BY <1>7, <2>1, <3>1
    <3>4. ~ (k < n) /\ ~ (n < k)
      BY <2>2, <3>2, <3>3
    <3> QED BY <1>4, <3>1, <3>4
  <2> QED BY <1>4, <2>5, <2>8
<1> QED BY <1>3, <1>4, <1>6, <1>7 DEF ResultsFollow

\* ... and, within a turn, the calls of the turn with their results, and all of
\* the turn that no compaction covers.
LEMMA MessagesTurn ==
  ASSUME NEW sess, IsSession(sess), Older(sess.log), NEW uid, Linear(sess, uid, FALSE)
  PROVE  /\ CallsAnswered(Messages(sess), uid, FALSE)
         /\ Carries(Messages(sess), sess.log, uid)
<1>1. PICK log : log = sess.log
  OBVIOUS
<1>2. PICK ctx : ctx = Context(log, sess.leaf)
  OBVIOUS
<1>3. PICK msgs : msgs = Messages(sess)
  OBVIOUS
<1>4. /\ msgs \in Seq(Recorded) /\ Lists(msgs, log, ctx)
      /\ Len(msgs) \in Nat /\ DOMAIN msgs = 1..Len(msgs)
  BY <1>1, <1>2, <1>3, MessagesRecorded, MessagesList
<1>5. /\ \A i \in IdsOf(log, {"user", "calls", "tool", "assistant"}) : i >= uid =>
           i \in ctx \/ \E c \in ctx : log[c].kind = "compaction" /\ c > i
      /\ \A i \in ctx : i > uid /\ log[i].kind = "calls" => i + 1 \in ctx /\ log[i + 1].kind = "tool"
  <2>1. ctx = Context(sess.log, sess.leaf)
    BY <1>1, <1>2
  <2>2. /\ \A i \in IdsOf(sess.log, {"user", "calls", "tool", "assistant"}) : i >= uid =>
             i \in Context(sess.log, sess.leaf)
               \/ \E c \in Context(sess.log, sess.leaf) :
                    sess.log[c].kind = "compaction" /\ c > i
        /\ \A i \in Context(sess.log, sess.leaf) : i > uid /\ sess.log[i].kind = "calls" =>
             i + 1 \in Context(sess.log, sess.leaf) /\ sess.log[i + 1].kind = "tool"
    BY ContextTurn
  <2> QED BY <1>1, <2>1, <2>2
<1>6. ASSUME NEW n \in 1..Len(msgs), msgs[n].kind = "calls", msgs[n].id > uid
      PROVE  n < Len(msgs) /\ msgs[n + 1].kind = "tool"
  <2>1. PICK i \in ctx : i = msgs[n].id /\ msgs[n] = Item(log[i].kind, i)
    BY <1>4 DEF Lists, Holds
  <2>2. log[i].kind = "calls"
    BY <1>6, <2>1 DEF Item
  <2>3. i + 1 \in ctx /\ log[i + 1].kind = "tool"
    BY <1>5, <1>6, <2>1, <2>2
  <2>4. n < Len(msgs) /\ msgs[n + 1] = Item(log[i + 1].kind, i + 1)
    <3>1. msgs[n].kind # "compaction" /\ msgs[n].id + 1 \in ctx
          /\ log[msgs[n].id + 1].kind # "compaction"
      BY <1>6, <2>1, <2>3
    <3>2. n < Len(msgs) /\ msgs[n + 1] = Item(log[msgs[n].id + 1].kind, msgs[n].id + 1)
      BY <1>4, <3>1, ListsNext
    <3> QED BY <2>1, <3>2
  <2> QED BY <2>3, <2>4 DEF Item
<1>7. ASSUME NEW i \in IdsOf(log, {"user", "calls", "tool", "assistant"}), i >= uid
      PROVE  \E n \in 1..Len(msgs) :
               msgs[n] = Item(log[i].kind, i) \/ (msgs[n].kind = "compaction" /\ msgs[n].id > i)
  <2>1. CASE i \in ctx
    <3>1. \E n \in 1..Len(msgs) : msgs[n] = Item(log[i].kind, i)
      BY <1>4, <2>1 DEF Lists, Holds
    <3> QED BY <3>1
  <2>2. CASE \E c \in ctx : log[c].kind = "compaction" /\ c > i
    <3>1. PICK c \in ctx : log[c].kind = "compaction" /\ c > i
      BY <2>2
    <3>2. PICK n \in 1..Len(msgs) : msgs[n] = Item(log[c].kind, c)
      BY <1>4 DEF Lists, Holds
    <3>3. msgs[n].kind = "compaction" /\ msgs[n].id > i
      BY <3>1, <3>2 DEF Item
    <3> QED BY <3>3
  <2> QED BY <1>5, <1>7, <2>1, <2>2
<1> QED BY <1>1, <1>3, <1>4, <1>6, <1>7 DEF CallsAnswered, Carries

\* A request that is rebuilt in the middle of a turn is whole and complete.
LEMMA RebuiltReads ==
  ASSUME NEW sess, IsSession(sess), Older(sess.log), RoundsLogged(sess.log),
         NEW uid, Linear(sess, uid, FALSE)
  PROVE  Reads(Usable(Messages(sess)), sess.log, uid, FALSE)
<1>1. PICK msgs : msgs = Messages(sess)
  OBVIOUS
<1>2. msgs \in Seq(Message)
  <2>1. Recorded \subseteq Message
    BY DEF Recorded, Message
  <2> QED BY <1>1, <2>1, MessagesRecorded, SeqMonotonic
<1>3. ResultsFollow(msgs) /\ CallsAnswered(msgs, uid, FALSE) /\ Carries(msgs, sess.log, uid)
  BY <1>1, MessagesResults, MessagesTurn
<1>4. /\ uid \in Nat /\ DOMAIN sess.log \subseteq Nat
      /\ uid \in DOMAIN sess.log /\ sess.log[uid].kind = "user"
  <2>1. sess.next \in Nat /\ IsLog(sess.log)
    BY DEF IsSession
  <2>2. uid \in 1..(sess.next - 1) /\ sess.log[uid].kind = "user" /\ uid \in uid..(sess.next - 1)
    BY <2>1 DEF Linear
  <2> QED BY <2>1, <2>2 DEF Linear, IsLog
<1> QED BY <1>1, <1>2, <1>3, <1>4, UsableResults, UsableCalls, UsableCarries DEF Reads

----------------------------------------------------------------------------
(* One more entry *)

\* An entry that continues the session, and the one that comes next.
Continues(sess, new, kind, ref) ==
  /\ new.next = sess.next + 1 /\ new.leaf = sess.next
  /\ DOMAIN new.log = DOMAIN sess.log \cup {sess.next}
  /\ new.log[sess.next] = [kind |-> kind, parent |-> sess.leaf, ref |-> ref]
  /\ \A i \in DOMAIN sess.log : i # sess.next /\ new.log[i] = sess.log[i]

\* Appending one entry does that.
LEMMA AppendedContinues ==
  ASSUME NEW sess, IsSession(sess), NEW kind, NEW ref
  PROVE  Continues(sess, Appended(sess, kind, ref, 1), kind, ref)
<1>1. PICK k \in Nat : k = sess.next /\ DOMAIN sess.log \subseteq 1..(k - 1)
  BY DEF IsSession
<1>2. PICK new : new = Appended(sess, kind, ref, 1)
  OBVIOUS
<1>3. k..(k + 1 - 1) = {k} /\ k + 1 - 1 = k
  BY <1>1
<1>4. /\ new.next = k + 1 /\ new.leaf = k
      /\ new.log = [i \in DOMAIN sess.log \cup {k} |->
                      IF i \in {k} THEN NewEntry(kind, IF i = k THEN sess.leaf ELSE i - 1, ref)
                                   ELSE sess.log[i]]
  BY <1>1, <1>2, <1>3 DEF Appended
<1>5. \A i \in DOMAIN sess.log : i # k
  BY <1>1
<1> QED BY <1>1, <1>2, <1>4, <1>5 DEF Continues, NewEntry

\* A caller that alone holds the phase has the one handler that records what
\* its run emits.
LEMMA EmittedOne ==
  ASSUME Apart, NEW c \in Callers, run[c].pc \in InRun, NEW sess, IsSession(sess), NEW kind
  PROVE  Continues(sess, Emitted(sess, kind), kind, None)
<1>1. {d \in Callers : run[d].pc \in InRun} = {c}
  BY DEF Apart, Busy
<1>2. Cardinality({c}) = 1
  BY FS_Singleton
<1>3. Emitted(sess, kind) = Appended(sess, kind, None, 1)
  BY <1>1, <1>2 DEF Emitted
<1> QED BY <1>3, AppendedContinues

\* Results that continue their calls leave the rounds logged, and so does
\* whatever is neither a result nor a compaction that keeps one.
LEMMA ContinuesRounds ==
  ASSUME NEW sess, IsSession(sess), Older(sess.log), RoundsLogged(sess.log),
         NEW new, NEW kind, NEW ref, Continues(sess, new, kind, ref), ref # sess.next,
         kind = "tool" =>
           sess.leaf = sess.next - 1 /\ sess.leaf \in DOMAIN sess.log
             /\ sess.log[sess.leaf].kind = "calls",
         kind = "compaction" /\ ref \in DOMAIN sess.log => sess.log[ref].kind # "tool"
  PROVE  RoundsLogged(new.log)
<1>1. PICK k \in Nat : k = sess.next /\ DOMAIN sess.log \subseteq 1..(k - 1)
  BY DEF IsSession
<1>2. /\ DOMAIN new.log = DOMAIN sess.log \cup {k}
      /\ new.log[k] = [kind |-> kind, parent |-> sess.leaf, ref |-> ref]
      /\ \A i \in DOMAIN sess.log : i # k /\ new.log[i] = sess.log[i]
  BY <1>1 DEF Continues
<1>3. \A i \in DOMAIN sess.log : i \in Nat /\ i < k /\ sess.log[i].ref < i /\ sess.log[i].ref \in Nat
  BY <1>1 DEF Older, IsSession, IsLog, Entry
<1>4. ASSUME NEW i \in DOMAIN new.log, new.log[i].kind = "tool"
      PROVE  i - 1 \in DOMAIN new.log /\ new.log[i - 1].kind = "calls" /\ new.log[i].parent = i - 1
  <2>1. CASE i = k
    BY <1>1, <1>2, <1>4, <2>1
  <2>2. CASE i # k
    BY <1>2, <1>4, <2>2 DEF RoundsLogged
  <2> QED BY <2>1, <2>2
<1>5. ASSUME NEW i \in DOMAIN new.log, new.log[i].kind = "compaction",
             new.log[i].ref \in DOMAIN new.log
      PROVE  new.log[new.log[i].ref].kind # "tool"
  <2>1. CASE i = k
    BY <1>1, <1>2, <1>5, <2>1
  <2>2. CASE i # k
    <3>1. i \in DOMAIN sess.log /\ new.log[i] = sess.log[i]
      BY <1>2, <2>2
    <3>2. new.log[i].ref # k
      BY <1>1, <1>3, <3>1
    <3> QED BY <1>2, <1>5, <3>1, <3>2 DEF RoundsLogged
  <2> QED BY <2>1, <2>2
<1> QED BY <1>4, <1>5 DEF RoundsLogged

\* What continues a turn keeps it in one line: results are what comes next
\* when calls are open, and calls are open when they came last.
LEMMA ContinuesLinear ==
  ASSUME NEW sess, IsSession(sess), NEW uid, NEW open, Linear(sess, uid, open),
         NEW new, NEW kind, NEW ref, Continues(sess, new, kind, ref), open => kind = "tool",
         NEW more \in BOOLEAN, more <=> kind = "calls"
  PROVE  Linear(new, uid, more)
<1>1. PICK k \in Nat : k = sess.next /\ k > 0 /\ DOMAIN sess.log \subseteq 1..(k - 1)
  BY DEF IsSession, None
<1>2. /\ DOMAIN new.log = DOMAIN sess.log \cup {k}
      /\ new.log[k] = [kind |-> kind, parent |-> sess.leaf, ref |-> ref]
      /\ \A i \in DOMAIN sess.log : i # k /\ new.log[i] = sess.log[i]
      /\ new.next = k + 1 /\ new.leaf = k
  BY <1>1 DEF Continues
<1>3. /\ uid \in 1..(k - 1) /\ sess.leaf = k - 1 /\ sess.log[uid].kind = "user"
      /\ \A i \in uid..(k - 1) :
           /\ i \in DOMAIN sess.log
           /\ i > uid => sess.log[i].parent = i - 1
           /\ sess.log[i].kind = "calls" => IF i < k - 1 THEN sess.log[i + 1].kind = "tool" ELSE open
  BY <1>1 DEF Linear
<1>4. new.next - 1 = k /\ uid \in 1..k /\ uid \in uid..(k - 1)
  BY <1>1, <1>2, <1>3
<1>5. new.log[uid].kind = "user"
  BY <1>2, <1>3, <1>4
<1>6. ASSUME NEW i \in uid..k
      PROVE  /\ i \in DOMAIN new.log
             /\ i > uid => new.log[i].parent = i - 1
             /\ new.log[i].kind = "calls" =>
                  IF i < k THEN new.log[i + 1].kind = "tool" ELSE more
  <2>1. CASE i = k
    BY <1>1, <1>2, <1>3, <2>1
  <2>2. CASE i # k
    <3>1. i \in uid..(k - 1) /\ i < k
      BY <1>1, <1>3, <2>2
    <3>2. i \in DOMAIN sess.log /\ new.log[i] = sess.log[i]
      BY <1>2, <1>3, <3>1
    <3>3. i > uid => new.log[i].parent = i - 1
      BY <1>3, <3>1, <3>2
    <3>4. ASSUME new.log[i].kind = "calls" PROVE new.log[i + 1].kind = "tool"
      <4>1. CASE i < k - 1
        <5>1. i + 1 \in uid..(k - 1)
          BY <1>1, <1>3, <3>1, <4>1
        <5>2. new.log[i + 1] = sess.log[i + 1]
          BY <1>2, <1>3, <5>1
        <5> QED BY <1>3, <3>1, <3>2, <3>4, <4>1, <5>2
      <4>2. CASE ~ (i < k - 1)
        <5>1. i + 1 = k /\ open
          BY <1>1, <1>3, <3>1, <3>2, <3>4, <4>2
        <5> QED BY <1>2, <5>1
      <4> QED BY <4>1, <4>2
    <3> QED BY <1>2, <3>1, <3>2, <3>3, <3>4
  <2> QED BY <2>1, <2>2
<1>7. more => new.log[k].kind = "calls"
  BY <1>2
<1> QED BY <1>2, <1>4, <1>5, <1>6, <1>7 DEF Linear

\* A request that grows with what is recorded carries that as well.
LEMMA ContinuesCarries ==
  ASSUME NEW sess, IsSession(sess), NEW new, NEW kind, NEW ref, Continues(sess, new, kind, ref),
         NEW msgs, NEW uid, Carries(msgs, sess.log, uid), NEW next,
         \A n \in DOMAIN msgs : \E m \in DOMAIN next : next[m] = msgs[n],
         kind \in {"user", "calls", "tool", "assistant"} =>
           \E m \in DOMAIN next : next[m] = Item(kind, sess.next)
  PROVE  Carries(next, new.log, uid)
<1> SUFFICES ASSUME NEW i \in IdsOf(new.log, {"user", "calls", "tool", "assistant"}), i >= uid
             PROVE  \E n \in DOMAIN next :
                      next[n] = Item(new.log[i].kind, i)
                        \/ (next[n].kind = "compaction" /\ next[n].id > i)
  BY DEF Carries
<1>1. CASE i = sess.next
  <2>1. new.log[i].kind = kind
    BY <1>1 DEF Continues
  <2> QED BY <1>1, <2>1 DEF IdsOf
<1>2. CASE i # sess.next
  <2>1. i \in IdsOf(sess.log, {"user", "calls", "tool", "assistant"}) /\ new.log[i] = sess.log[i]
    BY <1>2 DEF IdsOf, Continues
  <2>2. PICK n \in DOMAIN msgs :
          msgs[n] = Item(sess.log[i].kind, i) \/ (msgs[n].kind = "compaction" /\ msgs[n].id > i)
    BY <2>1 DEF Carries
  <2> QED BY <2>1, <2>2
<1> QED BY <1>1, <1>2

\* A request that grows by a message keeps its rounds whole: results come when
\* calls are open, and calls are open when they came last.
LEMMA AppendRounds ==
  ASSUME NEW msgs \in Seq(Message), NEW uid, NEW open \in BOOLEAN,
         ResultsFollow(msgs), CallsAnswered(msgs, uid, open),
         open => msgs # <<>> /\ msgs[Len(msgs)].kind = "calls",
         NEW x \in Message, x.kind = "tool" <=> open,
         NEW more \in BOOLEAN, more <=> x.kind = "calls"
  PROVE  /\ ResultsFollow(Append(msgs, x)) /\ CallsAnswered(Append(msgs, x), uid, more)
         /\ Append(msgs, x) \in Seq(Message)
         /\ Append(msgs, x) # <<>> /\ Append(msgs, x)[Len(Append(msgs, x))] = x
         /\ \A n \in DOMAIN msgs : \E m \in DOMAIN Append(msgs, x) : Append(msgs, x)[m] = msgs[n]
         /\ \E m \in DOMAIN Append(msgs, x) : Append(msgs, x)[m] = x
<1>1. PICK k \in Nat : k = Len(msgs) /\ DOMAIN msgs = 1..k
  OBVIOUS
<1>2. PICK next : next = Append(msgs, x)
  OBVIOUS
<1>3. /\ next \in Seq(Message) /\ Len(next) = k + 1 /\ DOMAIN next = 1..(k + 1)
      /\ next[k + 1] = x /\ \A n \in 1..k : next[n] = msgs[n]
  BY <1>1, <1>2
<1>4. ASSUME NEW n \in 1..(k + 1), next[n].kind = "tool"
      PROVE  n > 1 /\ next[n - 1].kind = "calls"
  <2>1. CASE n = k + 1
    <3>1. open
      BY <1>3, <1>4, <2>1
    <3>2. k > 0 /\ msgs[k].kind = "calls"
      BY <1>1, <3>1
    <3> QED BY <1>1, <1>3, <2>1, <3>2
  <2>2. CASE n # k + 1
    <3>1. n \in 1..k /\ msgs[n].kind = "tool"
      BY <1>1, <1>3, <1>4, <2>2
    <3>2. n > 1 /\ msgs[n - 1].kind = "calls"
      BY <1>1, <3>1 DEF ResultsFollow
    <3>3. n - 1 \in 1..k
      BY <1>1, <3>1, <3>2
    <3> QED BY <1>3, <3>2, <3>3
  <2> QED BY <2>1, <2>2
<1>5. ASSUME NEW n \in 1..(k + 1), next[n].kind = "calls", next[n].id > uid
      PROVE  IF n < k + 1 THEN next[n + 1].kind = "tool" ELSE more
  <2>1. CASE n = k + 1
    BY <1>1, <1>3, <1>5, <2>1
  <2>2. CASE n # k + 1
    <3>1. n \in 1..k /\ msgs[n].kind = "calls" /\ msgs[n].id > uid /\ n < k + 1
      BY <1>1, <1>3, <1>5, <2>2
    <3>2. IF n < k THEN msgs[n + 1].kind = "tool" ELSE open
      BY <1>1, <3>1 DEF CallsAnswered
    <3>3. CASE n < k
      <4>1. n + 1 \in 1..k
        BY <1>1, <3>1, <3>3
      <4> QED BY <1>3, <3>1, <3>2, <3>3, <4>1
    <3>4. CASE ~ (n < k)
      BY <1>1, <1>3, <3>1, <3>2, <3>4
    <3> QED BY <3>3, <3>4
  <2> QED BY <2>1, <2>2
<1>6. ResultsFollow(next)
  BY <1>3, <1>4 DEF ResultsFollow
<1>7. CallsAnswered(next, uid, more)
  BY <1>3, <1>5 DEF CallsAnswered
<1>8. k + 1 \in 1..(k + 1) /\ \A n \in 1..k : n \in 1..(k + 1)
  BY <1>1
<1>9. next # <<>>
  BY <1>1, <1>3
<1> QED BY <1>1, <1>2, <1>3, <1>6, <1>7, <1>8, <1>9

\* A request grows with what its run records, ...
LEMMA ReadsRecorded ==
  ASSUME NEW sess, IsSession(sess), NEW uid, NEW open \in BOOLEAN,
         NEW msgs \in Seq(Message), Reads(msgs, sess.log, uid, open),
         NEW new, NEW kind \in Kinds, NEW ref, Continues(sess, new, kind, ref),
         kind = "tool" <=> open, NEW more \in BOOLEAN, more <=> kind = "calls"
  PROVE  LET next == Append(msgs, Item(kind, sess.next))
         IN  next \in Seq(Message) /\ Reads(next, new.log, uid, more)
<1>1. PICK x : x = Item(kind, sess.next)
  OBVIOUS
<1>2. x \in Message /\ x.kind = kind
  BY <1>1, ItemRecorded, RecordedOther DEF Item
<1>3. PICK next : next = Append(msgs, x)
  OBVIOUS
<1>4. /\ ResultsFollow(next) /\ CallsAnswered(next, uid, more) /\ next \in Seq(Message)
      /\ next # <<>> /\ next[Len(next)] = x
      /\ \A n \in DOMAIN msgs : \E m \in DOMAIN next : next[m] = msgs[n]
      /\ \E m \in DOMAIN next : next[m] = x
  <2>1. /\ ResultsFollow(msgs) /\ CallsAnswered(msgs, uid, open)
        /\ open => msgs # <<>> /\ msgs[Len(msgs)].kind = "calls"
    BY DEF Reads
  <2>2. (x.kind = "tool" <=> open) /\ (more <=> x.kind = "calls")
    BY <1>2
  <2> QED BY <1>2, <1>3, <2>1, <2>2, AppendRounds
<1>5. Carries(next, new.log, uid)
  <2>1. Carries(msgs, sess.log, uid)
    BY DEF Reads
  <2>2. /\ \A n \in DOMAIN msgs : \E m \in DOMAIN next : next[m] = msgs[n]
        /\ \E m \in DOMAIN next : next[m] = Item(kind, sess.next)
    BY <1>1, <1>4
  <2> QED BY <2>1, <2>2, ContinuesCarries
<1> QED BY <1>1, <1>2, <1>3, <1>4, <1>5 DEF Reads

\* ... and with what was queued.
LEMMA ReadsQueued ==
  ASSUME NEW log, NEW uid, NEW msgs \in Seq(Message), Reads(msgs, log, uid, FALSE),
         NEW q \in Message, q.kind \in {"steer", "followup"}
  PROVE  Reads(Append(msgs, q), log, uid, FALSE)
<1>1. PICK next : next = Append(msgs, q)
  OBVIOUS
<1>2. /\ ResultsFollow(next) /\ CallsAnswered(next, uid, FALSE)
      /\ \A n \in DOMAIN msgs : \E m \in DOMAIN next : next[m] = msgs[n]
  <2>1. (q.kind = "tool" <=> FALSE) /\ (FALSE <=> q.kind = "calls")
    OBVIOUS
  <2>2. FALSE \in BOOLEAN
    OBVIOUS
  <2> QED BY <1>1, <2>1, <2>2, AppendRounds DEF Reads
<1>3. Carries(next, log, uid)
  <2> SUFFICES ASSUME NEW i \in IdsOf(log, {"user", "calls", "tool", "assistant"}), i >= uid
               PROVE  \E n \in DOMAIN next :
                        next[n] = Item(log[i].kind, i)
                          \/ (next[n].kind = "compaction" /\ next[n].id > i)
    BY DEF Carries
  <2>1. PICK n \in DOMAIN msgs :
          msgs[n] = Item(log[i].kind, i) \/ (msgs[n].kind = "compaction" /\ msgs[n].id > i)
    BY DEF Carries, Reads
  <2> QED BY <1>2, <2>1
<1> QED BY <1>1, <1>2, <1>3 DEF Reads

\* What a compaction in progress keeps stays as it was.
LEMMA ContinuesKept ==
  ASSUME NEW sess, NEW new, NEW kind, NEW ref, Continues(sess, new, kind, ref),
         NEW k \in Nat, sess.next \in Nat, k < sess.next,
         k \in DOMAIN sess.log => sess.log[k].kind # "tool"
  PROVE  k \in DOMAIN new.log => new.log[k].kind # "tool"
BY DEF Continues

----------------------------------------------------------------------------
(* What each action does to the rounds of a request *)

\* What the steps of a caller that alone holds the phase rely on, and keep.
Sound(c) == /\ Ready(c) /\ Line(c) /\ Apart
            /\ RoundsLogged(s.log) /\ Request(c)

Kept(c) == RoundsLogged(s'.log) /\ Request(c)'

\* Where the caller is, and its question, request and compaction.
Now(c, pc, uid, msgs, kept) ==
  run'[c].pc = pc /\ run'[c].uid = uid /\ run'[c].msgs = msgs /\ run'[c].kept = kept

\* What a sound caller has.
LEMMA SoundGives ==
  ASSUME NEW c \in Callers, Sound(c)
  PROVE  /\ IsCall(run[c]) /\ DOMAIN run = Callers /\ IsSession(s) /\ Older(s.log)
         /\ s.next \in Nat /\ EngineOK(engine)
         /\ run[c].msgs \in Seq(Message) /\ run[c].kept \in Nat /\ run[c].kept < s.next
         /\ run[c].kept \in DOMAIN s.log => s.log[run[c].kept].kind # "tool"
         /\ \A n \in DOMAIN engine.steering : engine.steering[n].kind = "steer"
         /\ \A n \in DOMAIN engine.followup : engine.followup[n].kind = "followup"
         /\ engine.steering \in Seq(Message) /\ engine.followup \in Seq(Message)
BY DEF Sound, Ready, Given, Growth, Line, Follows, Request

\* Before the run.
LEMMA StartKept ==
  ASSUME NEW c \in Callers, Sound(c), Invoke(c) \/ Build(c)
  PROVE  Kept(c)
<1>1. /\ IsCall(run[c]) /\ DOMAIN run = Callers /\ IsSession(s) /\ Older(s.log)
      /\ run[c].kept \in DOMAIN s.log => s.log[run[c].kept].kind # "tool"
      /\ RoundsLogged(s.log) /\ s' = s
  BY SoundGives DEF Sound, Invoke, Build
<1>2. PICK pc \in {"prepare", "built"} :
        /\ run'[c].pc = pc /\ run'[c].kept = run[c].kept
        /\ pc = "built" => run'[c].msgs = Messages(s)
  BY <1>1 DEF Invoke, Build, IsCall
<1>3. pc = "built" => /\ ResultsFollow(run'[c].msgs)
                      /\ \A n \in DOMAIN run'[c].msgs : run'[c].msgs[n].id < s.next
  BY <1>1, <1>2, MessagesResults
<1>4. run'[c].pc \notin Asking \cup {"tools", "top", "stream", "backoff"}
  BY <1>2 DEF Asking, InRun
<1>5. Request(c)'
  BY <1>1, <1>2, <1>3, <1>4 DEF Request
<1> QED BY <1>1, <1>5 DEF Kept

\* The question is the first entry of the turn.
LEMMA BeginKept ==
  ASSUME NEW c \in Callers, Sound(c), Begin(c)
  PROVE  Kept(c)
<1>1. /\ IsCall(run[c]) /\ DOMAIN run = Callers /\ IsSession(s) /\ Older(s.log)
      /\ s.next \in Nat /\ run[c].kept \in Nat /\ run[c].kept < s.next
      /\ run[c].kept \in DOMAIN s.log => s.log[run[c].kept].kind # "tool"
      /\ run[c].msgs \in Seq(Message) /\ RoundsLogged(s.log)
  BY SoundGives DEF Sound
<1>2. /\ ResultsFollow(run[c].msgs)
      /\ \A n \in DOMAIN run[c].msgs : run[c].msgs[n].id < s.next
  BY DEF Begin, At, Sound, Request
<1>3. PICK uid \in Nat : uid = s.next /\ uid > 0
  BY <1>1 DEF IsSession, None
<1>4. Continues(s, s', "user", None)
  BY <1>1, AppendedContinues DEF Begin
<1>5. PICK rest : rest = Usable(run[c].msgs)
  OBVIOUS
<1>6. rest \in Seq(Message) /\ ResultsFollow(rest)
  BY <1>1, <1>2, <1>5, UsableKeeps, UsableResults
<1>7. \A n \in DOMAIN rest : rest[n].id < uid
  <2>1. PICK at : Keeps(run[c].msgs, rest, at)
    BY <1>1, <1>5, UsableKeeps
  <2>2. /\ at \in [1..Len(rest) -> 1..Len(run[c].msgs)]
        /\ \A n \in 1..Len(rest) : rest[n] = run[c].msgs[at[n]]
    BY <2>1 DEF Keeps
  <2>3. DOMAIN rest = 1..Len(rest) /\ DOMAIN run[c].msgs = 1..Len(run[c].msgs)
    BY <1>1, <1>6
  <2> QED BY <1>2, <1>3, <2>2, <2>3
<1>8. PICK x : x = Item("user", uid)
  OBVIOUS
<1>9. x \in Message /\ x.kind = "user" /\ x.id = uid
  BY <1>1, <1>3, <1>8, ItemRecorded, RecordedOther DEF Item, Kinds, MessageKinds
<1>10. PICK msgs : msgs = Append(rest, x)
  OBVIOUS
<1>11. CallsAnswered(rest, uid, FALSE)
  <2>1. \A n \in DOMAIN rest : rest[n].id \in Nat /\ ~ (rest[n].id > uid)
    <3>1. \A n \in DOMAIN rest : rest[n] \in Message
      BY <1>6
    <3> QED BY <1>3, <1>7, <3>1 DEF Message
  <2> QED BY <2>1 DEF CallsAnswered
<1>12. /\ ResultsFollow(msgs) /\ CallsAnswered(msgs, uid, FALSE)
       /\ \E m \in DOMAIN msgs : msgs[m] = x
  <2>1. (x.kind = "tool" <=> FALSE) /\ (FALSE <=> x.kind = "calls") /\ FALSE \in BOOLEAN
    BY <1>9
  <2> QED BY <1>6, <1>9, <1>10, <1>11, <2>1, AppendRounds
<1>13. Carries(msgs, s'.log, uid)
  <2> SUFFICES ASSUME NEW i \in IdsOf(s'.log, {"user", "calls", "tool", "assistant"}), i >= uid
               PROVE  \E n \in DOMAIN msgs : msgs[n] = Item(s'.log[i].kind, i)
    BY DEF Carries
  <2>1. i = uid /\ s'.log[i].kind = "user"
    BY <1>1, <1>3, <1>4 DEF IdsOf, Continues, IsSession
  <2> QED BY <1>8, <1>12, <2>1
<1>14. Reads(msgs, s'.log, uid, FALSE)
  BY <1>12, <1>13 DEF Reads
<1>15. Linear(s', uid, FALSE)
  <2>1. s'.next = uid + 1 /\ s'.leaf = uid /\ uid \in DOMAIN s'.log /\ s'.log[uid].kind = "user"
    BY <1>3, <1>4 DEF Continues
  <2>2. s'.next - 1 = uid /\ uid \in 1..uid /\ \A i \in uid..uid : i = uid
    BY <1>3, <2>1
  <2> QED BY <2>1, <2>2 DEF Linear
<1>16. RoundsLogged(s'.log)
  <2>1. None # s.next
    BY <1>1 DEF IsSession
  <2> QED BY <1>1, <1>4, <2>1, ContinuesRounds
<1>17. Now(c, "top", uid, msgs, run[c].kept)
  <2>1. PICK q : q = Started(run[c])
    OBVIOUS
  <2>2. q = [pc |-> "top", uid |-> run[c].uid, msgs |-> run[c].msgs, attempt |-> run[c].attempt,
             held |-> "none", signal |-> FALSE, kept |-> run[c].kept]
    BY <1>1, <2>1 DEF IsCall, Started
  <2>3. PICK r : r = [q EXCEPT !.uid = uid, !.attempt = 0, !.msgs = msgs]
    OBVIOUS
  <2>4. run' = [run EXCEPT ![c] = r]
    BY <1>3, <1>5, <1>8, <1>10, <2>1, <2>3 DEF Begin
  <2> QED BY <1>1, <2>2, <2>3, <2>4 DEF Now
<1>18. run[c].kept \in DOMAIN s'.log => s'.log[run[c].kept].kind # "tool"
  BY <1>1, <1>4, ContinuesKept
<1> QED BY <1>14, <1>15, <1>16, <1>17, <1>18 DEF Kept, Request, Now, Asking, InRun

\* A session no round of which is open stays so after any entry but an answer with calls.
LEMMA ClosedLinear ==
  ASSUME NEW sess, IsSession(sess), NEW uid, Linear(sess, uid, FALSE),
         NEW new, NEW kind, NEW ref, Continues(sess, new, kind, ref), kind # "calls"
  PROVE  Linear(new, uid, FALSE)
<1>1. PICK no \in BOOLEAN : no = FALSE
  OBVIOUS
<1>2. Linear(sess, uid, no) /\ (no => kind = "tool") /\ (no <=> kind = "calls")
  BY <1>1
<1>3. Linear(new, uid, no)
  BY <1>2, ContinuesLinear
<1> QED BY <1>1, <1>3

\* What a run emits continues the session, and the line of the turn.
LEMMA EmitKept ==
  ASSUME NEW c \in Callers, Sound(c), run[c].pc \in InRun, NEW open \in BOOLEAN,
         Linear(s, run[c].uid, open), NEW kind \in {"user", "calls", "tool", "assistant"},
         kind = "tool" <=> open, NEW more \in BOOLEAN, more <=> kind = "calls"
  PROVE  LET sess == Emitted(s, kind)
         IN  /\ Continues(s, sess, kind, None) /\ IsSession(sess) /\ Older(sess.log)
             /\ RoundsLogged(sess.log) /\ Linear(sess, run[c].uid, more)
             /\ run[c].kept \in DOMAIN sess.log => sess.log[run[c].kept].kind # "tool"
<1>1. /\ IsSession(s) /\ Older(s.log) /\ s.next \in Nat /\ Apart /\ RoundsLogged(s.log)
      /\ run[c].kept \in Nat /\ run[c].kept < s.next
      /\ run[c].kept \in DOMAIN s.log => s.log[run[c].kept].kind # "tool"
  BY SoundGives DEF Sound
<1>2. PICK sess : sess = Emitted(s, kind)
  OBVIOUS
<1>3. Continues(s, sess, kind, None)
  BY <1>1, <1>2, EmittedOne
<1>4. IsSession(sess) /\ Older(sess.log)
  <2>1. kind \in Kinds
    BY DEF Kinds, MessageKinds, AssistantKinds
  <2>2. Growth(s)
    BY DEF Sound, Ready
  <2> QED BY <1>1, <1>2, <2>1, <2>2, EmittedGrowth DEF Growth
<1>5. None # s.next
  BY <1>1 DEF IsSession
<1>6. open => s.leaf = s.next - 1 /\ s.leaf \in DOMAIN s.log /\ s.log[s.leaf].kind = "calls"
  <2>1. SUFFICES ASSUME open PROVE s.leaf = s.next - 1 /\ s.leaf \in DOMAIN s.log
                                   /\ s.log[s.leaf].kind = "calls"
    OBVIOUS
  <2>2. s.leaf = s.next - 1 /\ s.log[s.next - 1].kind = "calls" /\ run[c].uid \in 1..(s.next - 1)
    BY <2>1 DEF Linear
  <2>3. s.next - 1 \in run[c].uid..(s.next - 1)
    BY <1>1, <2>2
  <2>4. s.next - 1 \in DOMAIN s.log
    BY <2>3 DEF Linear
  <2> QED BY <2>2, <2>4
<1>7. RoundsLogged(sess.log)
  BY <1>1, <1>3, <1>5, <1>6, ContinuesRounds
<1>8. Linear(sess, run[c].uid, more)
  BY <1>1, <1>3, ContinuesLinear
<1>9. run[c].kept \in DOMAIN sess.log => sess.log[run[c].kept].kind # "tool"
  BY <1>1, <1>3, ContinuesKept
<1> QED BY <1>2, <1>3, <1>4, <1>7, <1>8, <1>9

\* A run that closes has its answer in the line of the turn.
LEMMA CloseKept ==
  ASSUME NEW c \in Callers, Sound(c), run[c].pc \in {"top", "stream"}, Close(c, s)
  PROVE  Kept(c)
<1>1. IsCall(run[c]) /\ DOMAIN run = Callers /\ run[c].pc \in InRun
  BY SoundGives DEF InRun
<1>2. Linear(s, run[c].uid, FALSE)
  BY DEF Sound, Request, Asking, InRun
<1>3. /\ RoundsLogged(s'.log) /\ Linear(s', run[c].uid, FALSE)
      /\ run[c].kept \in DOMAIN s'.log => s'.log[run[c].kept].kind # "tool"
  BY <1>1, <1>2, EmitKept DEF Close
<1>4. run'[c].pc = "ended" /\ run'[c].uid = run[c].uid /\ run'[c].kept = run[c].kept
  BY <1>1 DEF Close, IsCall
<1> QED BY <1>3, <1>4 DEF Kept, Request

\* Steps that leave the session and the request as they are.
LEMMA StayKept ==
  ASSUME NEW c \in Callers, Sound(c), s' = s,
         run'[c].uid = run[c].uid, run'[c].msgs = run[c].msgs, run'[c].kept = run[c].kept,
         \/ run'[c].pc = run[c].pc
         \/ run'[c].pc = "stream" /\ run[c].pc = "top"
         \/ run'[c].pc = "top" /\ run[c].pc \in {"stream", "backoff"}
         \/ run'[c].pc = "ended" /\ run[c].pc = "stream"
         \/ run'[c].pc = "post"
  PROVE  Kept(c)
<1>1. RoundsLogged(s'.log) /\ Request(c)
  BY DEF Sound
<1>2. Request(c)'
  BY <1>1 DEF Request, Asking, InRun
<1> QED BY <1>1, <1>2 DEF Kept

\* Top, and the answers that add nothing to the request.
LEMMA TopKept ==
  ASSUME NEW c \in Callers, Sound(c),
         Top(c) \/ AnswerAbort(c) \/ AnswerTruncated(c) \/ AnswerError(c) \/ Succeed(c) \/ Retry(c)
  PROVE  Kept(c)
<1>1. IsCall(run[c]) /\ DOMAIN run = Callers
  BY SoundGives
<1>2. CASE Close(c, s) /\ (Top(c) \/ AnswerAbort(c))
  BY <1>2, CloseKept DEF Top, AnswerAbort, At
<1>3. CASE ~Close(c, s) /\ (Top(c) \/ AnswerAbort(c))
  <2>1. run' = [run EXCEPT ![c].pc = "stream"] /\ run[c].pc = "top" /\ s' = s
    BY <1>3 DEF Top, AnswerAbort, At
  <2> QED BY <1>1, <2>1, StayKept DEF IsCall
<1>4. CASE AnswerTruncated(c)
  BY <1>1, <1>4, StayKept DEF AnswerTruncated, At, IsCall
<1>5. CASE AnswerError(c)
  <2>1. PICK err, held : Fails(c, err, held)
    BY <1>5 DEF AnswerError
  <2>2. PICK r : r = IF held # "none" /\ run[c].pc \in InRun
                       THEN [run[c] EXCEPT !.held = held] ELSE run[c]
    OBVIOUS
  <2>3. run'[c] = [r EXCEPT !.pc = "ended"] /\ s' = s
    BY <2>1, <2>2 DEF Fails
  <2>4. DOMAIN r = DOMAIN run[c] /\ r.msgs = run[c].msgs /\ r.kept = run[c].kept
        /\ r.uid = run[c].uid
    BY <1>1, <2>2 DEF IsCall
  <2>5. /\ run'[c].pc = "ended" /\ run'[c].uid = run[c].uid
        /\ run'[c].msgs = run[c].msgs /\ run'[c].kept = run[c].kept
    BY <1>1, <2>3, <2>4 DEF IsCall
  <2> QED BY <1>5, <2>3, <2>5, StayKept DEF AnswerError, At
<1>6. CASE Succeed(c)
  BY <1>1, <1>6, StayKept DEF Succeed, IsCall
<1>7. CASE Retry(c)
  <2>1. PICK q : q = Started(run[c])
    OBVIOUS
  <2>2. q.pc = "top" /\ q.uid = run[c].uid /\ q.msgs = run[c].msgs /\ q.kept = run[c].kept
    BY <1>1, <2>1 DEF IsCall, Started
  <2>3. run'[c] = q /\ s' = s /\ run[c].pc = "backoff"
    BY <1>1, <1>7, <2>1 DEF Retry, At
  <2> QED BY <2>2, <2>3, StayKept
<1> QED BY <1>2, <1>3, <1>4, <1>5, <1>6, <1>7

\* Calls stand at the end of the request while their tools run.
LEMMA CallsKept ==
  ASSUME NEW c \in Callers, Sound(c), AnswerCalls(c)
  PROVE  Kept(c)
<1>1. IsCall(run[c]) /\ DOMAIN run = Callers /\ IsSession(s) /\ run[c].msgs \in Seq(Message)
  BY SoundGives
<1>2. /\ run[c].pc = "stream" /\ run[c].pc \in InRun
      /\ Linear(s, run[c].uid, FALSE) /\ Reads(run[c].msgs, s.log, run[c].uid, FALSE)
  BY DEF AnswerCalls, At, Sound, Request, Asking, InRun
<1>3. /\ Continues(s, s', "calls", None) /\ RoundsLogged(s'.log) /\ Linear(s', run[c].uid, TRUE)
      /\ run[c].kept \in DOMAIN s'.log => s'.log[run[c].kept].kind # "tool"
  BY <1>2, EmitKept DEF AnswerCalls
<1>4. PICK msgs : msgs = Append(run[c].msgs, Item("calls", s.next))
  OBVIOUS
<1>5. Reads(msgs, s'.log, run[c].uid, TRUE)
  BY <1>1, <1>2, <1>3, <1>4, ReadsRecorded DEF Kinds, MessageKinds, AssistantKinds
<1>6. Now(c, "tools", run[c].uid, msgs, run[c].kept)
  BY <1>1, <1>4 DEF AnswerCalls, Now, IsCall
<1> QED BY <1>3, <1>5, <1>6 DEF Kept, Request, Now, Asking, InRun

\* An answer before a follow-up message is in the request as well.
LEMMA StopKept ==
  ASSUME NEW c \in Callers, Sound(c), AnswerStop(c)
  PROVE  Kept(c)
<1>1. /\ IsCall(run[c]) /\ DOMAIN run = Callers /\ IsSession(s) /\ run[c].msgs \in Seq(Message)
      /\ engine.followup \in Seq(Message)
      /\ \A n \in DOMAIN engine.followup : engine.followup[n].kind = "followup"
  BY SoundGives
<1>2. /\ run[c].pc = "stream" /\ run[c].pc \in InRun
      /\ Linear(s, run[c].uid, FALSE) /\ Reads(run[c].msgs, s.log, run[c].uid, FALSE)
  BY DEF AnswerStop, At, Sound, Request, Asking, InRun
<1>3. CASE engine.followup = <<>>
  BY <1>2, <1>3, CloseKept DEF AnswerStop
<1>4. CASE engine.followup # <<>>
  <2>1. s' = Emitted(s, "assistant")
    BY <1>4 DEF AnswerStop
  <2>2. /\ Continues(s, s', "assistant", None) /\ RoundsLogged(s'.log)
        /\ Linear(s', run[c].uid, FALSE)
        /\ run[c].kept \in DOMAIN s'.log => s'.log[run[c].kept].kind # "tool"
    BY <1>2, <2>1, EmitKept
  <2>3. PICK x : x = Item("assistant", s.next)
    OBVIOUS
  <2>4. PICK more : more = Append(run[c].msgs, x)
    OBVIOUS
  <2>5. Reads(more, s'.log, run[c].uid, FALSE) /\ more \in Seq(Message)
    BY <1>1, <1>2, <2>2, <2>3, <2>4, ReadsRecorded DEF Kinds, MessageKinds, AssistantKinds
  <2>6. PICK q : q = Head(engine.followup)
    OBVIOUS
  <2>7. q \in Message /\ q.kind = "followup"
    BY <1>1, <1>4, <2>6
  <2>8. Reads(Append(more, q), s'.log, run[c].uid, FALSE)
    BY <2>5, <2>7, ReadsQueued
  <2>9. x \in Message
    BY <1>1, <2>3, ItemRecorded, RecordedOther DEF Kinds, MessageKinds, AssistantKinds
  <2>10. Append(more, q) = run[c].msgs \o <<x, q>>
    BY <1>1, <2>4, <2>7, <2>9, AppendTwo
  <2>11. Now(c, "top", run[c].uid, run[c].msgs \o <<x, q>>, run[c].kept)
    BY <1>1, <1>4, <2>3, <2>6 DEF AnswerStop, Now, IsCall
  <2> QED BY <2>2, <2>8, <2>10, <2>11 DEF Kept, Request, Now, Asking, InRun
<1> QED BY <1>3, <1>4

\* Results close the round, and the next steering message comes behind them.
LEMMA ToolsKept ==
  ASSUME NEW c \in Callers, Sound(c), RunTools(c)
  PROVE  Kept(c)
<1>1. /\ IsCall(run[c]) /\ DOMAIN run = Callers /\ IsSession(s) /\ run[c].msgs \in Seq(Message)
      /\ engine.steering \in Seq(Message)
      /\ \A n \in DOMAIN engine.steering : engine.steering[n].kind = "steer"
  BY SoundGives
<1>2. /\ run[c].pc = "tools" /\ run[c].pc \in InRun
      /\ Linear(s, run[c].uid, TRUE) /\ Reads(run[c].msgs, s.log, run[c].uid, TRUE)
  BY DEF RunTools, At, Sound, Request, InRun
<1>3. /\ Continues(s, s', "tool", None) /\ RoundsLogged(s'.log) /\ Linear(s', run[c].uid, FALSE)
      /\ run[c].kept \in DOMAIN s'.log => s'.log[run[c].kept].kind # "tool"
  BY <1>2, EmitKept DEF RunTools
<1>4. PICK x : x = Item("tool", s.next)
  OBVIOUS
<1>5. PICK more : more = Append(run[c].msgs, x)
  OBVIOUS
<1>6. Reads(more, s'.log, run[c].uid, FALSE) /\ more \in Seq(Message)
  BY <1>1, <1>2, <1>3, <1>4, <1>5, ReadsRecorded DEF Kinds, MessageKinds
<1>7. x \in Message
  BY <1>1, <1>4, ItemRecorded, RecordedOther DEF Kinds, MessageKinds
<1>8. PICK msgs : msgs = (run[c].msgs \o <<x>>) \o
                           (IF engine.steering = <<>> THEN <<>> ELSE <<Head(engine.steering)>>)
  OBVIOUS
<1>9. Now(c, "top", run[c].uid, msgs, run[c].kept)
  BY <1>1, <1>4, <1>8 DEF RunTools, Now, IsCall
<1>10. Reads(msgs, s'.log, run[c].uid, FALSE)
  <2>1. CASE engine.steering = <<>>
    <3>1. msgs = more
      BY <1>1, <1>5, <1>7, <1>8, <2>1, AppendTwo
    <3> QED BY <1>6, <3>1
  <2>2. CASE engine.steering # <<>>
    <3>1. PICK q : q = Head(engine.steering)
      OBVIOUS
    <3>2. q \in Message /\ q.kind = "steer"
      BY <1>1, <2>2, <3>1
    <3>3. msgs = Append(more, q)
      BY <1>1, <1>5, <1>7, <1>8, <2>2, <3>1, <3>2, AppendTwo
    <3> QED BY <1>6, <3>2, <3>3, ReadsQueued
  <2> QED BY <2>1, <2>2
<1> QED BY <1>3, <1>9, <1>10 DEF Kept, Request, Now, Asking, InRun

\* The last results, and the answer behind them.
LEMMA LastToolsKept ==
  ASSUME NEW c \in Callers, Sound(c), RunLastTools(c)
  PROVE  Kept(c)
<1>1. /\ IsCall(run[c]) /\ DOMAIN run = Callers /\ IsSession(s) /\ Apart /\ s.next \in Nat
      /\ run[c].kept \in Nat /\ run[c].kept < s.next
  BY SoundGives DEF Sound
<1>2. run[c].pc = "tools" /\ run[c].pc \in InRun /\ Linear(s, run[c].uid, TRUE)
  BY DEF RunLastTools, At, Sound, Request, InRun
<1>3. PICK sess : sess = Emitted(s, "tool")
  OBVIOUS
<1>4. /\ Continues(s, sess, "tool", None) /\ IsSession(sess) /\ Older(sess.log)
      /\ RoundsLogged(sess.log) /\ Linear(sess, run[c].uid, FALSE)
      /\ run[c].kept \in DOMAIN sess.log => sess.log[run[c].kept].kind # "tool"
  BY <1>2, <1>3, EmitKept
<1>5. Continues(sess, s', "assistant", None)
  BY <1>1, <1>2, <1>3, <1>4, EmittedOne DEF RunLastTools
<1>6. sess.next \in Nat /\ None # sess.next /\ run[c].kept < sess.next
  BY <1>1, <1>4 DEF IsSession, Continues
<1>7. RoundsLogged(s'.log)
  BY <1>4, <1>5, <1>6, ContinuesRounds
<1>8. Linear(s', run[c].uid, FALSE)
  BY <1>4, <1>5, ClosedLinear
<1>9. run[c].kept \in DOMAIN s'.log => s'.log[run[c].kept].kind # "tool"
  BY <1>1, <1>4, <1>5, <1>6, ContinuesKept
<1>10. run'[c].pc = "ended" /\ run'[c].uid = run[c].uid /\ run'[c].kept = run[c].kept
  BY <1>1 DEF RunLastTools, IsCall
<1> QED BY <1>7, <1>8, <1>9, <1>10 DEF Kept, Request

\* A session in the middle of a turn, the session of now or with a summary.
Sits(c, sess) ==
  /\ IsSession(sess) /\ Older(sess.log) /\ RoundsLogged(sess.log) /\ sess.next >= s.next
  /\ Linear(sess, run[c].uid, FALSE)
  /\ run[c].kept \in DOMAIN sess.log => sess.log[run[c].kept].kind # "tool"

\* Trying again rebuilds the request.
LEMMA RetryKept ==
  ASSUME NEW c \in Callers, Sound(c), NEW sess, Sits(c, sess), NEW ph, RetryFrom(c, sess, ph)
  PROVE  Kept(c)
<1>1. IsCall(run[c]) /\ DOMAIN run = Callers
  BY SoundGives
<1>2. PICK msgs : msgs = Usable(Messages(sess))
  OBVIOUS
<1>3. Reads(msgs, sess.log, run[c].uid, FALSE)
  BY <1>2, RebuiltReads DEF Sits
<1>4. Now(c, "backoff", run[c].uid, msgs, run[c].kept) /\ s' = sess
  BY <1>1, <1>2 DEF RetryFrom, Now, IsCall
<1> QED BY <1>3, <1>4 DEF Kept, Request, Now, Sits, Asking, InRun

\* A turn that fails takes its question out of the log, and nothing of a round.
LEMMA FailKept ==
  ASSUME NEW c \in Callers, Sound(c), NEW sess, Sits(c, sess), NEW held \in Records,
         FailTurn(c, sess, held)
  PROVE  Kept(c)
<1>1. IsCall(run[c]) /\ DOMAIN run = Callers
  BY SoundGives
<1>2. PICK uid : uid = run[c].uid
  OBVIOUS
<1>3. /\ IsSession(sess) /\ Older(sess.log) /\ sess.next \in Nat /\ sess.next > 0
      /\ RoundsLogged(sess.log) /\ Linear(sess, uid, FALSE)
  <2>1. IsSession(sess) /\ Older(sess.log) /\ RoundsLogged(sess.log) /\ Linear(sess, uid, FALSE)
    BY <1>2 DEF Sits
  <2>2. sess.next \in Nat /\ sess.next > 0
    BY <2>1 DEF IsSession, None
  <2> QED BY <2>1, <2>2
<1>4. PICK n \in {0, 1} : n = IF held = "none" THEN 0 ELSE 1
  OBVIOUS
<1>5. PICK rec : rec = Appended(sess, held, None, n)
  OBVIOUS
<1>6. RoundsLogged(rec.log) /\ uid \in DOMAIN rec.log /\ rec.log[uid].kind = "user"
  <2>1. uid \in uid..(sess.next - 1)
    BY <1>3 DEF Linear
  <2>2. uid \in DOMAIN sess.log /\ sess.log[uid].kind = "user"
    BY <2>1, <1>3 DEF Linear
  <2>3. CASE n = 0
    <3>1. sess.next..(sess.next + 0 - 1) = {}
      BY <1>3
    <3>2. rec.log = sess.log
      <4>1. rec.log = [i \in DOMAIN sess.log |-> sess.log[i]]
        BY <1>5, <2>3, <3>1 DEF Appended
      <4> QED BY <1>3, <4>1 DEF IsSession, IsLog
    <3> QED BY <1>3, <2>2, <3>2
  <2>4. CASE n = 1
    <3>1. Continues(sess, rec, held, None)
      BY <1>3, <1>5, <2>4, AppendedContinues
    <3>2. held # "tool" /\ held # "compaction" /\ None # sess.next
      BY <1>3 DEF Records, None
    <3>3. RoundsLogged(rec.log)
      BY <1>3, <3>1, <3>2, ContinuesRounds
    <3> QED BY <2>2, <3>1, <3>3 DEF Continues
  <2> QED BY <2>3, <2>4
<1>7. DOMAIN rec = {"log", "leaf", "next"}
  BY <1>5 DEF Appended
<1>8. s' = [rec EXCEPT !.log = Without(@, uid), !.leaf = LeafWithout(rec.log, @, uid)]
  BY <1>2, <1>4, <1>5 DEF FailTurn
<1>9. s'.log = Without(rec.log, uid)
  BY <1>7, <1>8
<1>10. RoundsLogged(s'.log)
  BY <1>6, <1>9 DEF RoundsLogged, Without
<1>11. run'[c].pc = "idle" /\ run'[c].kept = 0
  BY <1>1 DEF FailTurn, Idle, None
<1>12. 0 \notin DOMAIN s'.log
  <2>1. \A i \in DOMAIN rec.log : i # 0
    <3>1. \A i \in DOMAIN sess.log : i # 0
      BY <1>3 DEF IsSession
    <3>2. DOMAIN rec.log = DOMAIN sess.log \cup (sess.next..(sess.next + n - 1))
      BY <1>5 DEF Appended
    <3> QED BY <1>3, <3>1, <3>2
  <2> QED BY <1>9, <2>1 DEF Without
<1> QED BY <1>10, <1>11, <1>12 DEF Kept, Request, Asking, InRun

\* Either of the two.
LEMMA GiveUpKept ==
  ASSUME NEW c \in Callers, Sound(c), NEW sess, Sits(c, sess), NEW ph, NEW retryable,
         GiveUpOrRetry(c, sess, ph, retryable)
  PROVE  Kept(c)
<1>1. run[c].held \in Records
  BY SoundGives DEF IsCall
<1> QED BY <1>1, RetryKept, FailKept DEF GiveUpOrRetry

\* The cut of a compaction is no result.
LEMMA CompactingKept ==
  ASSUME NEW c \in Callers, Sound(c), NEW pc \in {"compactRetry", "compacting"},
         Compacting(c, pc), pc = "compactRetry" => Linear(s, run[c].uid, FALSE)
  PROVE  Kept(c)
<1>1. IsCall(run[c]) /\ DOMAIN run = Callers /\ s' = s
  BY SoundGives DEF Compacting
<1>2. PICK kept \in CutPoints(s) : run' = [run EXCEPT ![c].pc = pc, ![c].kept = kept]
  BY DEF Compacting
<1>3. s.log[kept].kind # "tool"
  BY <1>2 DEF CutPoints, IdsOf, AssistantKinds
<1>4. Now(c, pc, run[c].uid, run[c].msgs, kept)
  BY <1>1, <1>2 DEF Now, IsCall
<1> QED BY <1>1, <1>3, <1>4 DEF Kept, Request, Now, Sound, Asking, InRun

\* The summary of a compaction continues the session.
LEMMA SummaryKept ==
  ASSUME NEW c \in Callers, Sound(c), NEW sess \in CompactedFor(c)
  PROVE  /\ IsSession(sess) /\ Older(sess.log) /\ RoundsLogged(sess.log) /\ sess.next >= s.next
         /\ run[c].kept \in DOMAIN sess.log => sess.log[run[c].kept].kind # "tool"
         /\ Linear(s, run[c].uid, FALSE) => Linear(sess, run[c].uid, FALSE)
<1>1. /\ IsSession(s) /\ Older(s.log) /\ s.next \in Nat /\ RoundsLogged(s.log) /\ Given(c)
      /\ run[c].kept \in Nat /\ run[c].kept < s.next
      /\ run[c].kept \in DOMAIN s.log => s.log[run[c].kept].kind # "tool"
  BY SoundGives DEF Sound, Ready
<1>2. CASE sess = s
  <2>1. s.next >= s.next
    BY <1>1
  <2> QED BY <1>1, <1>2, <2>1, Zenon
<1>3. CASE sess = Appended(s, "compaction", run[c].kept, 1)
  <2>1. Continues(s, sess, "compaction", run[c].kept)
    BY <1>1, <1>3, AppendedContinues
  <2>2. IsSession(sess)
    BY <1>1, CompactedSession
  <2>3. Older(sess.log)
    BY <1>1, <1>3, AppendedOlder
  <2>4. RoundsLogged(sess.log)
    BY <1>1, <2>1, ContinuesRounds
  <2>5. sess.next = s.next + 1
    BY <2>1 DEF Continues
  <2>6. run[c].kept \in DOMAIN sess.log => sess.log[run[c].kept].kind # "tool"
    BY <1>1, <2>1, ContinuesKept
  <2>7. Linear(s, run[c].uid, FALSE) => Linear(sess, run[c].uid, FALSE)
    BY <1>1, <2>1, ClosedLinear
  <2>8. sess.next >= s.next
    BY <1>1, <2>5
  <2> QED BY <2>2, <2>3, <2>4, <2>6, <2>7, <2>8, Zenon
<1> QED BY <1>2, <1>3 DEF CompactedFor

\* After a run that ended on an error.
LEMMA ErrorKept ==
  ASSUME NEW c \in Callers, Sound(c), AfterError(c) \/ CompactThenRetry(c)
  PROVE  Kept(c)
<1>1. Linear(s, run[c].uid, FALSE)
  BY DEF AfterError, CompactThenRetry, At, Sound, Request, Asking, InRun
<1>2. \A sess \in CompactedFor(c) : Sits(c, sess)
  BY <1>1, SummaryKept DEF Sits
<1>3. Sits(c, s)
  BY <1>2 DEF CompactedFor
<1>4. CASE AfterError(c)
  <2>1. CASE Compacting(c, "compactRetry")
    BY <1>1, <2>1, CompactingKept
  <2>2. CASE ~Compacting(c, "compactRetry")
    <3>1. \E ph, retryable : GiveUpOrRetry(c, s, ph, retryable)
      BY <1>4, <2>2 DEF AfterError
    <3> QED BY <1>3, <3>1, GiveUpKept
  <2> QED BY <2>1, <2>2
<1>5. CASE CompactThenRetry(c)
  <2>1. CASE FailTurn(c, s, "none")
    <3>1. "none" \in Records
      BY DEF Records
    <3> QED BY <1>3, <2>1, <3>1, FailKept
  <2>2. CASE \E sess \in CompactedFor(c) : GiveUpOrRetry(c, sess, "idle", TRUE)
    BY <1>2, <2>2, GiveUpKept
  <2> QED BY <1>5, <2>1, <2>2 DEF CompactThenRetry
<1> QED BY <1>4, <1>5

\* The end of invoke, in whatever way.
LEMMA EndKept ==
  ASSUME NEW c \in Callers, Sound(c),
         EndInvoke(c) \/ StartCompaction(c) \/ EndCompaction(c) \/ Cancel(c)
  PROVE  Kept(c)
<1>1. CASE StartCompaction(c)
  BY <1>1, CompactingKept DEF StartCompaction
<1>2. CASE EndInvoke(c) \/ EndCompaction(c) \/ Cancel(c)
  <2>1. DOMAIN run = Callers /\ IsSession(s) /\ s \in CompactedFor(c)
    BY SoundGives DEF CompactedFor
  <2>2. s' \in CompactedFor(c)
    BY <1>2, <2>1 DEF EndInvoke, EndCompaction, Cancel
  <2>3. RoundsLogged(s'.log) /\ IsSession(s')
    BY <2>2, SummaryKept
  <2>4. 0 \notin DOMAIN s'.log
    BY <2>3 DEF IsSession
  <2>5. run'[c].pc = "idle" /\ run'[c].kept = 0
    BY <1>2, <2>1 DEF EndInvoke, EndCompaction, Cancel, Idle, None
  <2> QED BY <2>3, <2>4, <2>5 DEF Kept, Request, Asking, InRun
<1> QED BY <1>1, <1>2

\* Aborts, steering and follow-up messages change no request.
LEMMA OthersKept ==
  ASSUME NEW c \in Callers, Sound(c), Abort \/ Steer \/ FollowUp
  PROVE  Kept(c)
<1>1. IsCall(run[c]) /\ DOMAIN run = Callers
  BY SoundGives
<1>2. /\ s' = s /\ run'[c].uid = run[c].uid /\ run'[c].msgs = run[c].msgs
      /\ run'[c].kept = run[c].kept /\ run'[c].pc = run[c].pc
  BY <1>1 DEF Abort, Steer, FollowUp, IsCall
<1> QED BY <1>2, StayKept

----------------------------------------------------------------------------
(* Whole and complete requests *)

\* A step of one call keeps the requests of the others, unless both hold the
\* phase.
LEMMA OthersStayKept ==
  ASSUME IInv, Apart, Apart', \A d \in Callers : Sound(d), IsSession(s'), NEW c \in Callers,
         Acts(c), NEW d \in Callers \ {c}
  PROVE  Request(d)'
<1>1. /\ Given(c) /\ IsCall(run[c]) /\ IsCall(run[d]) /\ DOMAIN run = Callers
      /\ s.next \in Nat /\ s'.next \in Nat /\ run[d].kept < s.next /\ Request(d)
  BY SoundGives, InvGives DEF Sound, IsSession
<1>2. CASE run[d].pc \in Busy
  <2>1. s' = s /\ run'[d] = run[d]
    BY <1>1, <1>2, ApartGives
  <2> QED BY <1>1, <2>1, StayKept DEF Kept
<1>3. CASE run[d].pc \notin Busy
  <2>1. /\ s'.next >= s.next
        /\ \A i \in DOMAIN s'.log : i < s.next => i \in DOMAIN s.log /\ s'.log[i] = s.log[i]
    BY <1>1, LogStays
  <2>2. /\ run'[d].pc = run[d].pc /\ run'[d].uid = run[d].uid
        /\ run'[d].msgs = run[d].msgs /\ run'[d].kept = run[d].kept
    BY <1>1, OthersStay
  <2>3. run'[d].kept \in DOMAIN s'.log => s'.log[run'[d].kept].kind # "tool"
    BY <1>1, <2>1, <2>2 DEF Request
  <2>4. run'[d].pc = "built" =>
           /\ ResultsFollow(run'[d].msgs)
           /\ \A n \in DOMAIN run'[d].msgs : run'[d].msgs[n].id < s'.next
    <3> SUFFICES ASSUME run[d].pc = "built"
                 PROVE  /\ ResultsFollow(run[d].msgs)
                        /\ \A n \in DOMAIN run[d].msgs : run[d].msgs[n].id < s'.next
      BY <2>2
    <3>1. /\ ResultsFollow(run[d].msgs)
          /\ \A n \in DOMAIN run[d].msgs : run[d].msgs[n].id < s.next
      BY <1>1 DEF Request
    <3>2. \A n \in DOMAIN run[d].msgs : run[d].msgs[n].id \in Nat
      <4>1. run[d].msgs \in Seq(Message)
        BY SoundGives
      <4>2. \A n \in DOMAIN run[d].msgs : run[d].msgs[n] \in Message
        BY <4>1
      <4> QED BY <4>2 DEF Message
    <3> QED BY <1>1, <2>1, <3>1, <3>2
  <2>5. run'[d].pc \notin Asking \cup {"top", "stream", "backoff", "tools"}
    BY <1>3, <2>2 DEF Asking, Busy, InRun
  <2> QED BY <2>3, <2>4, <2>5 DEF Request
<1> QED BY <1>2, <1>3

\* Every step keeps the rounds of every request when no two turns hold the
\* phase and neither hooks raise nor forks move the leaf.
LEMMA NextRequests ==
  Faults \subseteq {"cancel"} /\ Apart /\ Apart' /\ IInv /\ IInv' /\ Lines /\ Requests /\ [Next]_vars
    => Requests'
<1> SUFFICES ASSUME Faults \subseteq {"cancel"}, Apart, Apart', IInv, IInv', Lines, Requests,
                    [Next]_vars
             PROVE  Requests'
  OBVIOUS
<1>1. \A c \in Callers : Sound(c)
  BY InvReady DEF Lines, Requests, Sound
<1>2. CASE UNCHANGED vars
  BY <1>2 DEF vars, Requests, Request
<1>3. CASE Next
  <2>1. ASSUME NEW c \in Callers, Acts(c) PROVE Requests'
    <3>1. Sound(c) /\ ~HookFails(c)
      BY <1>1 DEF HookFails
    <3>2. Kept(c)
      BY <2>1, <3>1, StartKept, BeginKept, TopKept, CallsKept, StopKept, ToolsKept, LastToolsKept,
         ErrorKept, EndKept DEF Acts, Step, Answer
    <3>3. \A d \in Callers \ {c} : Request(d)'
      <4>1. IsSession(s')
        BY DEF IInv, TypeOK
      <4> QED BY <1>1, <2>1, <4>1, OthersStayKept
    <3> QED BY <3>2, <3>3 DEF Kept, Requests
  <2>2. CASE Abort \/ Steer \/ FollowUp
    <3>1. PICK c \in Callers : TRUE
      BY <2>2 DEF Abort, Steer, FollowUp
    <3>2. \A d \in Callers : Kept(d)
      BY <1>1, <2>2, OthersKept
    <3> QED BY <3>1, <3>2 DEF Kept, Requests
  <2>3. ~Fork
    BY DEF Fork
  <2> QED BY <1>3, <2>1, <2>2, <2>3 DEF Next, Acts
<1> QED BY <1>2, <1>3

\* With types and queues, this is inductive when no two turns hold the phase,
\* through cancellations, aborts, errors, retries and compactions:
\* results follow their calls in the log, a turn is one line of entries, and
\* its requests are whole and complete.
THEOREM RequestsInvariance ==
  Faults \subseteq {"cancel"} => (Spec /\ []Apart => []Requests)
<1> SUFFICES ASSUME Faults \subseteq {"cancel"} PROVE Spec /\ []Apart => []Requests
  OBVIOUS
<1>1. Init => Requests
  <2> SUFFICES ASSUME Init PROVE Requests
    OBVIOUS
  <2>1. DOMAIN s.log = {} /\ \A c \in Callers : run[c].pc = "idle"
    BY DEF Init, NoEntries, Idle
  <2> QED BY <2>1 DEF Requests, RoundsLogged, Request, Asking, InRun
<1>2. Apart /\ Apart' /\ IInv /\ IInv' /\ Lines /\ Requests /\ [Next]_vars => Requests'
  BY NextRequests
<1> QED BY <1>1, <1>2, Invariance, LinesInvariance, PTL DEF Spec

\* No request shows the provider a result without its calls, or calls of the
\* turn without their results.
THEOREM RoundsAreWhole ==
  Faults \subseteq {"cancel"} => (Spec /\ []Apart => []RoundsWhole)
<1> SUFFICES ASSUME Faults \subseteq {"cancel"} PROVE Spec /\ []Apart => []RoundsWhole
  OBVIOUS
<1>1. IInv /\ Lines /\ Requests => RoundsWhole
  <2> SUFFICES ASSUME Lines, Requests, NEW c \in Callers, NEW n \in DOMAIN Sent(c)
               PROVE  LET msgs == Sent(c)
                      IN  /\ msgs[n].kind = "tool" => n > 1 /\ msgs[n - 1].kind = "calls"
                          /\ msgs[n].kind = "calls" /\ msgs[n].id > run[c].uid =>
                               n < Len(msgs) /\ msgs[n + 1].kind = "tool"
    BY DEF RoundsWhole
  <2>1. run[c].pc = "stream" /\ Sent(c) = run[c].msgs
    BY DEF Sent, At
  <2>2. Reads(run[c].msgs, s.log, run[c].uid, FALSE)
    BY <2>1 DEF Requests, Request
  <2> QED BY <2>1, <2>2 DEF Reads, ResultsFollow, CallsAnswered
<1> QED BY <1>1, RequestsInvariance, LinesInvariance, PTL

\* Every request of a turn, a retry's too, carries the question and all that
\* the turn has recorded, or a compaction that covers it.
THEOREM TurnsAreRemembered ==
  Faults \subseteq {"cancel"} => (Spec /\ []Apart => []TurnSoFarSent)
<1> SUFFICES ASSUME Faults \subseteq {"cancel"} PROVE Spec /\ []Apart => []TurnSoFarSent
  OBVIOUS
<1>1. Lines /\ Requests => TurnSoFarSent
  <2> SUFFICES ASSUME Lines, Requests, NEW c \in Callers, At(c, "stream"),
                      NEW i \in IdsOf(s.log, {"user", "calls", "tool", "assistant"}), i >= run[c].uid
               PROVE  \E m \in ToSet(run[c].msgs) :
                        m = Item(s.log[i].kind, i) \/ (m.kind = "compaction" /\ m.id > i)
    BY DEF TurnSoFarSent
  <2>1. Carries(run[c].msgs, s.log, run[c].uid)
    BY DEF Requests, Request, Reads, At
  <2>2. PICK n \in DOMAIN run[c].msgs :
          run[c].msgs[n] = Item(s.log[i].kind, i)
            \/ (run[c].msgs[n].kind = "compaction" /\ run[c].msgs[n].id > i)
    BY <2>1 DEF Carries
  <2>3. run[c].msgs[n] \in ToSet(run[c].msgs)
    BY DEF ToSet
  <2> QED BY <2>2, <2>3
<1> QED BY <1>1, RequestsInvariance, LinesInvariance, PTL

=============================================================================
