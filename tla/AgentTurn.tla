----------------------------- MODULE AgentTurn -----------------------------
(***************************************************************************)
(* A turn of the agent: Agent.invoke, _run_with_retry and _run_compaction  *)
(* (src/operator_use/agent/service.py) around the loop of Engine._loop     *)
(* (src/operator_use/engine/service.py).  The asyncio event loop runs one  *)
(* caller from an await to the next, so an action is the code between two  *)
(* awaits at which another coroutine can change what the turn reads.       *)
(*                                                                         *)
(* s is the session in memory: its log, its leaf and the next entry id.    *)
(* phase is Agent._phase.  engine holds what all runs of the one Engine    *)
(* share: error_message, the caller whose run owns _signal, the steering   *)
(* and follow-up queues; inputs counts the messages ever queued.           *)
(* run[c] holds the locals of caller c's invoke: where it is, the entry of *)
(* its user message, the messages of its next request, the attempt, the    *)
(* error record held back, its run's abort signal, and the first entry     *)
(* the compaction in progress keeps.                                       *)
(***************************************************************************)
EXTENDS SessionTree, SequencesExt

CONSTANTS
  Callers,      \* coroutines that call invoke on the agent
  MaxId,        \* bound on the entries of the session
  MaxRetries,   \* retry_max_retries
  MaxInputs,    \* bound on the steering and follow-up messages queued
  Faults        \* which of "cancel", "hook", "fork" the environment does

ASSUME AgentAssumption ==
  /\ IsFiniteSet(Callers)
  /\ MaxId \in Nat /\ MaxRetries \in Nat /\ MaxInputs \in Nat
  /\ Faults \subseteq {"cancel", "hook", "fork"}

VARIABLES s, phase, engine, run

vars == <<s, phase, engine, run>>

InRun == {"top", "stream", "tools", "ended"}     \* inside Engine.run
Busy  == InRun \cup {"backoff", "compactRetry", "compacting"}
Stops == Busy \cup {"idle", "prepare", "built", "post"}

NoCaller == "nobody"
Errors   == {"none", "transient", "overflow", "fatal"}
Records  == {"none", "error", "partial"}
Item(kind, id) == [kind |-> kind, id |-> id]

\* The locals of a caller that is not in invoke.
Idle == [pc |-> "idle", uid |-> None, msgs |-> <<>>, attempt |-> 0,
         held |-> "none", signal |-> FALSE, kept |-> None]

IsSession(sess) ==
  /\ sess = [log |-> sess.log, leaf |-> sess.leaf, next |-> sess.next]
  /\ sess.next \in Nat \ {None}
  /\ IsLog(sess.log) /\ DOMAIN sess.log \subseteq 1..(sess.next - 1)
  /\ sess.leaf \in {None} \cup DOMAIN sess.log

IsCall(r) ==
  /\ r = [pc |-> r.pc, uid |-> r.uid, msgs |-> r.msgs, attempt |-> r.attempt,
          held |-> r.held, signal |-> r.signal, kept |-> r.kept]
  /\ r.pc \in Stops /\ r.held \in Records /\ r.uid \in Nat /\ r.kept \in Nat
  /\ r.attempt \in 0..MaxRetries /\ r.signal \in BOOLEAN
  /\ r.pc \in Busy \cup {"post"} => r.uid # None
  /\ r.pc \in {"compactRetry", "compacting"} => r.kept # None

\* The leaf is always an entry of the log, the attempts stay within the limit,
\* and each caller holds what the code has assigned where it is.
TypeOK ==
  /\ IsSession(s) /\ s.next <= MaxId + 1
  /\ phase \in {"idle", "turn", "compaction"}
  /\ engine.error \in Errors /\ engine.owner \in Callers \cup {NoCaller}
  /\ engine.inputs \in 0..MaxInputs
  /\ engine = [error |-> engine.error, owner |-> engine.owner, inputs |-> engine.inputs,
               steering |-> engine.steering, followup |-> engine.followup]
  /\ run = [c \in Callers |-> run[c]]
  /\ \A c \in Callers : IsCall(run[c])

----------------------------------------------------------------------------
(* The session in memory *)

\* The bound on ids must not stop a turn half way: it starts, calls tools or
\* compacts only when ids are left for its end, and for the inputs to come.
\* (The engine itself counts no rounds: TurnEnds does not rest on this bound.)
Spare(k) == s.next + k + (MaxInputs - engine.inputs) + Len(engine.followup) <= MaxId + 1

Appended(sess, kind, ref, n) ==
  LET new == sess.next..(sess.next + n - 1)
  IN  [log  |-> [i \in DOMAIN sess.log \cup new |->
                   IF i \in new
                     THEN NewEntry(kind, IF i = sess.next THEN sess.leaf ELSE i - 1, ref)
                     ELSE sess.log[i]],
       leaf |-> IF n = 0 THEN sess.leaf ELSE sess.next + n - 1,
       next |-> sess.next + n]

\* _register_message_handler: every handler registered, one per run in
\* progress, appends the message that any run emits.
Emitted(sess, kind) ==
  Appended(sess, kind, None, Cardinality({c \in Callers : run[c].pc \in InRun}))

\* The n-th number of S, counted from the smallest.
Nth(S, n) == CHOOSE i \in S : Cardinality({j \in S : j < i}) = n - 1

Listed(log, ids) ==
  [n \in 1..Cardinality(ids) |-> Item(log[Nth(ids, n)].kind, Nth(ids, n))]

\* build_session_context as a list: the summary of a compaction comes first.
Messages(sess) ==
  LET ids == Context(sess.log, sess.leaf)
  IN  Listed(sess.log, {i \in ids : sess.log[i].kind = "compaction"})
        \o Listed(sess.log, {i \in ids : sess.log[i].kind # "compaction"})

\* strip_unusable_trailing_assistant, then filter_empty_assistant_messages:
\* unusable assistant messages go from the end, empty ones from anywhere.
Usable(msgs) ==
  LET last == Newest({n \in DOMAIN msgs : msgs[n].kind \notin {"calls", "error", "partial"}})
      kept == {n \in 1..last : msgs[n].kind # "error"}
  IN  [n \in 1..Cardinality(kept) |-> msgs[Nth(kept, n)]]

\* find_valid_cut_points over what the last compaction left.
CutAnywhere(sess) ==                      \* fault: a cut may fall on a tool result
  IdsOf(sess.log, Carried) \cap Context(sess.log, sess.leaf)

CutPoints(sess) ==
  IdsOf(sess.log, {"user", "branch"} \cup AssistantKinds) \cap Context(sess.log, sess.leaf)

----------------------------------------------------------------------------
(* The start of a turn *)

At(c, pc) == run[c].pc = pc

\* invoke's guard; from here to Begin it awaits hooks and the memory recall.
Invoke(c) ==
  /\ At(c, "idle") /\ phase = "idle" /\ Spare(3)
  /\ run' = [run EXCEPT ![c].pc = "prepare"]
  /\ UNCHANGED <<s, phase, engine>>

\* The context is read, then the context hook is awaited.
Build(c) ==
  /\ At(c, "prepare")
  /\ run' = [run EXCEPT ![c].pc = "built", ![c].msgs = Messages(s)]
  /\ UNCHANGED <<s, phase, engine>>

\* Engine.run: a fresh abort signal, a fresh handler with nothing held back.
Started(r) == [r EXCEPT !.pc = "top", !.signal = FALSE, !.held = "none"]

\* The user message is persisted, the phase taken, the first attempt started.
Begin(c) ==
  /\ At(c, "built") /\ Spare(3)
  /\ s' = Appended(s, "user", None, 1)
  /\ phase' = "turn"
  /\ engine' = [engine EXCEPT !.owner = c]
  /\ run' = [run EXCEPT ![c] =
       [Started(@) EXCEPT !.uid = s.next, !.attempt = 0,
                          !.msgs = Append(Usable(run[c].msgs), Item("user", s.next))]]

----------------------------------------------------------------------------
(* The engine's loop *)

\* A synthetic or real answer closes the run.
Close(c, sess) ==
  /\ s' = Emitted(sess, "assistant")
  /\ run' = [run EXCEPT ![c].pc = "ended",
                        ![c].msgs = Append(@, Item("assistant", sess.next))]
  /\ UNCHANGED <<phase, engine>>

Top(c) ==
  /\ At(c, "top")
  /\ \/ /\ ~run[c].signal
        /\ run' = [run EXCEPT ![c].pc = "stream"]
        /\ UNCHANGED <<s, phase, engine>>
     \/ run[c].signal /\ Close(c, s)

\* The provider calls tools; the message is persisted before they run.
AnswerCalls(c) ==
  /\ At(c, "stream") /\ Spare(5)
  /\ s' = Emitted(s, "calls")
  /\ run' = [run EXCEPT ![c].pc = "tools", ![c].msgs = Append(@, Item("calls", s.next))]
  /\ UNCHANGED <<phase, engine>>

\* The provider is done: a follow-up message goes on with the run.
AnswerStop(c) ==
  /\ At(c, "stream")
  /\ IF engine.followup = <<>> THEN Close(c, s)
     ELSE /\ s' = Emitted(s, "assistant")
          /\ engine' = [engine EXCEPT !.followup = Tail(@)]
          /\ run' = [run EXCEPT ![c].pc = "top",
               ![c].msgs = @ \o <<Item("assistant", s.next), Head(engine.followup)>>]
          /\ UNCHANGED phase

\* The provider's stream was cancelled and says so.
AnswerAbort(c) == At(c, "stream") /\ Close(c, s)

\* Any other stop reason, such as a full output: nothing is recorded.
AnswerTruncated(c) ==
  /\ At(c, "stream")
  /\ run' = [run EXCEPT ![c].pc = "top"]
  /\ UNCHANGED <<s, phase, engine>>

\* The run ends on an error.  An error message is held back by every handler,
\* an exception leaves none.
Fails(c, err, held) ==
  /\ engine' = [engine EXCEPT !.error = err]
  /\ run' = [d \in Callers |->
       LET r == IF held # "none" /\ run[d].pc \in InRun
                  THEN [run[d] EXCEPT !.held = held] ELSE run[d]
       IN  IF d = c THEN [r EXCEPT !.pc = "ended"] ELSE r]
  /\ UNCHANGED <<s, phase>>

AnswerError(c) ==
  /\ At(c, "stream")
  /\ \E err \in Errors \ {"none"}, held \in Records : Fails(c, err, held)

\* The results of all the calls are one tool message; then the loop stops if
\* every tool asked for it or the run was aborted, or takes in a steer.
RunToolsKeepingSteer(c) ==                \* fault: the steer stays in the queue
  /\ At(c, "tools")
  /\ s' = Emitted(s, "tool")
  /\ run' = [run EXCEPT ![c].pc = "top",
       ![c].msgs = @ \o <<Item("tool", s.next)>> \o
                   (IF engine.steering = <<>> THEN <<>> ELSE <<Head(engine.steering)>>)]
  /\ UNCHANGED <<phase, engine>>

RunTools(c) ==
  /\ At(c, "tools")
  /\ s' = Emitted(s, "tool") /\ ~run[c].signal
  /\ run' = [run EXCEPT ![c].pc = "top",
       ![c].msgs = @ \o <<Item("tool", s.next)>> \o
                   (IF engine.steering = <<>> THEN <<>> ELSE <<Head(engine.steering)>>)]
  /\ engine' = [engine EXCEPT !.steering = IF @ = <<>> THEN @ ELSE Tail(@)]
  /\ UNCHANGED phase

RunToolsOpenEnd(c) ==                     \* fault: no answer after the last tool result
  /\ At(c, "tools")
  /\ s' = Emitted(s, "tool")
  /\ run' = [run EXCEPT ![c].pc = "ended", ![c].msgs = Append(@, Item("tool", s.next))]
  /\ UNCHANGED <<phase, engine>>

RunLastTools(c) ==
  LET sess == Emitted(s, "tool")
  IN  /\ At(c, "tools")
      /\ s' = Emitted(sess, "assistant")
      /\ run' = [run EXCEPT ![c].pc = "ended",
           ![c].msgs = @ \o <<Item("tool", s.next), Item("assistant", sess.next)>>]
      /\ UNCHANGED <<phase, engine>>

\* before_tool_call (a guardrail, the whitelist) raises outside the handler of
\* tool failures: the calls stay without results.
HookFails(c) ==
  /\ "hook" \in Faults /\ At(c, "tools")
  /\ Fails(c, "transient", "none")

----------------------------------------------------------------------------
(* After a run: success, retry, or failure *)

Succeed(c) ==
  /\ At(c, "ended") /\ engine.error = "none"
  /\ run' = [run EXCEPT ![c].pc = "post"]
  /\ phase' = "idle"
  /\ UNCHANGED <<s, engine>>

\* Engine.reset: the queues and the error are cleared.
Reset == engine' = [engine EXCEPT !.error = "none", !.steering = <<>>, !.followup = <<>>]

\* The context of the next attempt is rebuilt from the session.
RetryFromScratch(c, sess, ph) ==          \* fault: the first attempt's context is used
  /\ s' = sess /\ phase' = ph
  /\ run' = [run EXCEPT ![c].pc = "backoff", ![c].attempt = @ + 1,
                        ![c].msgs = SelectSeq(@, LAMBDA m : m.id <= run[c].uid)]

RetryUncounted(c, sess, ph) ==            \* fault: the attempt is not counted
  /\ s' = sess /\ phase' = ph
  /\ \E msgs \in {Messages(sess)} :
       run' = [run EXCEPT ![c].pc = "backoff", ![c].msgs = Usable(msgs)]

RetryFrom(c, sess, ph) ==
  /\ s' = sess /\ phase' = ph
  /\ \E msgs \in {Messages(sess)} :
       run' = [run EXCEPT ![c].pc = "backoff", ![c].attempt = @ + 1, ![c].msgs = Usable(msgs)]

\* The record held back is written, and the user message is removed.
FailTurn(c, sess, held) ==
  LET rec == Appended(sess, held, None, IF held = "none" THEN 0 ELSE 1)
      uid == run[c].uid
  IN  /\ s' = [rec EXCEPT !.log = Without(@, uid), !.leaf = LeafWithout(rec.log, @, uid)]
      /\ phase' = "idle"
      /\ run' = [run EXCEPT ![c] = Idle]

GiveUpOrRetry(c, sess, ph, retryable) ==
  IF retryable /\ run[c].attempt < MaxRetries
    THEN RetryFrom(c, sess, ph)
    ELSE FailTurn(c, sess, run[c].held)

\* _run_compaction before its first await.
Compacting(c, pc) ==
  /\ s.leaf \in DOMAIN s.log /\ s.log[s.leaf].kind # "compaction" /\ Spare(3)
  /\ \E kept \in CutPoints(s) : run' = [run EXCEPT ![c].pc = pc, ![c].kept = kept]
  /\ phase' = "compaction"
  /\ UNCHANGED s

AfterError(c) ==
  /\ At(c, "ended") /\ engine.error # "none"
  /\ Reset
  /\ IF engine.error = "overflow"
       THEN Compacting(c, "compactRetry") \/ GiveUpOrRetry(c, s, "idle", TRUE)
       ELSE GiveUpOrRetry(c, s, phase, engine.error = "transient")

Retry(c) ==
  /\ At(c, "backoff")
  /\ engine' = [engine EXCEPT !.owner = c]
  /\ run' = [run EXCEPT ![c] = Started(@)]
  /\ UNCHANGED <<s, phase>>

\* The summary is appended at the leaf of now; an extension may cancel it.
\* Either way the phase is released.
CompactedFor(c) == {s, Appended(s, "compaction", run[c].kept, 1)}

CompactThenRetry(c) ==
  /\ At(c, "compactRetry")
  /\ \/ \E sess \in CompactedFor(c) : GiveUpOrRetry(c, sess, "idle", TRUE)
     \/ FailTurn(c, s, "none")            \* the summarising call raises
  /\ UNCHANGED engine

\* After a turn that succeeded: the session is compacted if it has grown.  A
\* compaction with nothing to do releases the phase all the same.
EndInvoke(c) ==
  /\ At(c, "post")
  /\ run' = [run EXCEPT ![c] = Idle]
  /\ phase' \in {phase, "idle"}
  /\ UNCHANGED <<s, engine>>

StartCompaction(c) == At(c, "post") /\ Compacting(c, "compacting") /\ UNCHANGED engine

EndCompaction(c) ==
  /\ At(c, "compacting")
  /\ s' \in CompactedFor(c)
  /\ phase' = "idle"
  /\ run' = [run EXCEPT ![c] = Idle]
  /\ UNCHANGED engine

----------------------------------------------------------------------------
(* What other coroutines do meanwhile *)

\* The task that awaits invoke is cancelled: the finally blocks release the
\* phase and the handler, the session and the engine's error stay.
CancelHoldingPhase(c) ==                  \* fault: no finally block
  /\ "cancel" \in Faults /\ ~At(c, "idle")
  /\ run' = [run EXCEPT ![c] = Idle]
  /\ UNCHANGED <<s, phase, engine>>

Cancel(c) ==
  /\ "cancel" \in Faults /\ ~At(c, "idle")
  /\ run' = [run EXCEPT ![c] = Idle]
  /\ phase' = IF run[c].pc \in Busy THEN "idle" ELSE phase
  /\ UNCHANGED <<s, engine>>

\* engine.abort sets the signal of the newest run, finished or not.
Abort ==
  /\ engine.owner \in Callers /\ run[engine.owner].pc \in Busy \ {"compacting"}
  /\ run' = [run EXCEPT ![engine.owner].signal = TRUE]
  /\ UNCHANGED <<s, phase, engine>>

Steer ==
  /\ engine.inputs < MaxInputs /\ \E c \in Callers : ~At(c, "idle")
  /\ engine' = [engine EXCEPT !.inputs = @ + 1,
                              !.steering = Append(@, Item("steer", engine.inputs + 1))]
  /\ UNCHANGED <<s, phase, run>>

FollowUp ==
  /\ engine.inputs < MaxInputs /\ \E c \in Callers : ~At(c, "idle")
  /\ engine' = [engine EXCEPT !.inputs = @ + 1,
                              !.followup = Append(@, Item("followup", engine.inputs + 1))]
  /\ UNCHANGED <<s, phase, run>>

\* fork_session of the RPC server moves the leaf, whatever the agent does.
Fork ==
  /\ "fork" \in Faults /\ Spare(4)
  /\ \E target \in IdsOf(s.log, MessageKinds) :
       s' = [Appended(s, "leaf", target, 1) EXCEPT !.leaf = target]
  /\ UNCHANGED <<phase, engine, run>>

----------------------------------------------------------------------------
Init ==
  /\ s = [log |-> NoEntries, leaf |-> None, next |-> 1]
  /\ phase = "idle"
  /\ engine = [error |-> "none", owner |-> NoCaller, inputs |-> 0,
               steering |-> <<>>, followup |-> <<>>]
  /\ run = [c \in Callers |-> Idle]

Step(c) ==
  \/ Build(c) \/ Begin(c) \/ Top(c)
  \/ RunTools(c) \/ RunLastTools(c)
  \/ Succeed(c) \/ AfterError(c) \/ Retry(c) \/ CompactThenRetry(c)
  \/ EndInvoke(c) \/ StartCompaction(c) \/ EndCompaction(c)

Answer(c) == AnswerCalls(c) \/ AnswerStop(c) \/ AnswerAbort(c) \/ AnswerError(c)

Next ==
  /\ \/ \E c \in Callers :
          Invoke(c) \/ Step(c) \/ Answer(c) \/ AnswerTruncated(c) \/ HookFails(c) \/ Cancel(c)
     \/ Abort \/ Steer \/ FollowUp \/ Fork
  /\ s'.next <= MaxId + 1

Spec == Init /\ [][Next]_vars

\* The event loop runs every ready coroutine again, and a provider's stream
\* ends; how often it calls tools or cuts an answer short is not assumed.
FairSpec ==
  Spec /\ \A c \in Callers : WF_vars(Step(c)) /\ WF_vars(Answer(c) \/ AnswerTruncated(c))

----------------------------------------------------------------------------
(* Properties *)

Sent(c) == IF At(c, "stream") THEN run[c].msgs ELSE <<>>

\* A request never shows the provider a result without its calls, nor calls of
\* this turn without their results, through retries, compactions in the middle
\* of the turn and cancelled turns before it: providers reject both.
RoundsWhole ==
  \A c \in Callers : LET msgs == Sent(c) IN \A n \in DOMAIN msgs :
    /\ msgs[n].kind = "tool" => n > 1 /\ msgs[n - 1].kind = "calls"
    /\ msgs[n].kind = "calls" /\ msgs[n].id > run[c].uid =>
         n < Len(msgs) /\ msgs[n + 1].kind = "tool"

\* Every request of a turn, a retry's too, carries the question and all that
\* the turn has recorded, unless a compaction has summarised it: no tool runs
\* again because its result was forgotten (_run_with_retry rebuilds ctx).
TurnSoFarSent ==
  \A c \in Callers : At(c, "stream") =>
    \A i \in IdsOf(s.log, {"user", "calls", "tool", "assistant"}) : i >= run[c].uid =>
      \E m \in ToSet(run[c].msgs) :
        \/ m = Item(s.log[i].kind, i)
        \/ m.kind = "compaction" /\ m.id > i

\* A turn that succeeds leaves an answer of its own in the session.
TurnAnswered ==
  \A c \in Callers : At(c, "post") => \E i \in IdsOf(s.log, {"assistant"}) : i > run[c].uid

\* Steering and follow-up messages reach the model at most once, in the order
\* in which they were queued, whatever resets and retries drop.
InOrder(msgs, kind) ==
  \A m, n \in DOMAIN msgs :
    m < n /\ msgs[m].kind = kind /\ msgs[n].kind = kind => msgs[m].id < msgs[n].id

SteersInOrder ==
  \A c \in Callers :
    /\ InOrder(run[c].msgs \o engine.steering, "steer")
    /\ InOrder(run[c].msgs \o engine.followup, "followup")

\* The agent cannot be wedged: when no invoke is in progress, however the last
\* ones ended and overlapped, the phase admits the next.
PhaseReleased == (\A c \in Callers : At(c, "idle")) => phase = "idle"

\* An invoke ends once the provider calls no more tools and cuts no more
\* answers short, both of which the engine's loop repeats without a limit:
\* retries and overflow compactions cannot keep the turn going by themselves.
TurnEnds ==
  \A c \in Callers :
    <>[][~(AnswerCalls(c) \/ AnswerTruncated(c))]_vars => (~At(c, "idle") ~> At(c, "idle"))

\* The comments in invoke and _run_with_retry: what a failed or interrupted
\* turn left must not be sent to the provider.
OnlyUsableSent ==
  \A c \in Callers : LET msgs == Sent(c) IN \A n \in DOMAIN msgs :
    /\ msgs[n].kind \notin {"error", "partial"}
    /\ msgs[n].kind = "calls" => n < Len(msgs) /\ msgs[n + 1].kind = "tool"

\* Removing the message of a failed turn keeps the session clean: all that the
\* model knew before the turn, it knows after it.
FailedTurnKeepsHistory ==
  [][ \A c \in Callers :
        run[c].pc \in InRun /\ run'[c].pc = "idle" /\ run[c].uid \notin DOMAIN s'.log =>
          {m.id : m \in {m \in ToSet(run[c].msgs) : m.kind = "assistant" /\ m.id < run[c].uid}}
            \subseteq Context(s'.log, s'.leaf) ]_vars
=============================================================================
