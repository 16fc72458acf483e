------------------------------ MODULE Gateway ------------------------------
(***************************************************************************)
(* The gateway between chats and agents: Gateway                           *)
(* (src/operator_use/gateway/service.py), the incoming queue of Bus        *)
(* (src/operator_use/bus/service.py) and the permission requests of        *)
(* OperatorACPClient (src/operator_use/acp/client.py).                     *)
(*                                                                         *)
(* Messages and requests are numbered in the order in which they are made. *)
(* msg[m] is the chat m came from and what has become of it.  Each message *)
(* has a handler task of its own; a message that starts a session task     *)
(* names it.  entry[k] is the task of the entry of session key k.  run[m]  *)
(* is that task: where it waits, what has cancelled it, how many calls of  *)
(* cancel_session for its chat await it, whether its event handler is      *)
(* subscribed, whether a /new has dropped its entry, and what has been     *)
(* published of it, in order: "start" and "final" are what comes before    *)
(* and after its invoke, "cancel" the END of a cancel_session, "error"     *)
(* that of its failure, and "event" what its event handler publishes,      *)
(* whatever stream phase that carries.  busy: the agents whose phase is    *)
(* not idle.  perm[c] is the request whose future is registered for chat   *)
(* c, ask[r] that request.  phase.self is the message whose own handler or *)
(* session task has called Gateway.stop, None when another task has.       *)
(*                                                                         *)
(* Publishing never waits (the queues are unbounded), nor do subscribers   *)
(* of an agent's hooks, so a step is the code between two waits.           *)
(***************************************************************************)
EXTENDS Naturals, Sequences, FiniteSets

CONSTANTS
  Chats,       \* (channel, chat_id) pairs
  Keys,        \* session keys
  Profiles,    \* the keys that are profiles: every chat of the profile has it
  Agents,
  KeyOf,       \* the session key of a chat
  AgentOf,     \* the agent of a session key
  Asking,      \* the chats whose sessions make permission requests
  MaxAsks,     \* bound: permission requests made
  MaxCancels,  \* bound: calls of cancel_session for its chat that await a task
  MaxMsgs      \* bound: messages published

ASSUME GatewayAssumption ==
  /\ Profiles \subseteq Keys /\ Asking \subseteq Chats
  /\ KeyOf \in [Chats -> Keys] /\ AgentOf \in [Keys -> Agents]
  /\ MaxMsgs \in Nat /\ MaxAsks \in Nat /\ MaxCancels \in Nat

VARIABLES msg, entry, run, busy, perm, ask, phase

vars == <<msg, entry, run, busy, perm, ask, phase>>

None == 0
NoChat == "no chat"
Callers == {"cancel_session", "stop"}
Msgs == 1..MaxMsgs
Requests == 1..MaxAsks

Live    == {"created", "prepare", "turn", "leaving", "sending"}
Invoked == {"prepare", "turn", "leaving"}     \* subscribed to the agent
Fates   == {"settled", "task"}
Phases  == {"start", "event", "error", "cancel", "final"}

NoRun == [pc |-> "none", by |-> {}, calls |-> 0, sub |-> FALSE, dropped |-> FALSE,
          stream |-> <<>>]
NoAsk == [pc |-> "none", chat |-> NoChat]

Unfinished(m) == run[m].pc \in Live
Agent(m) == AgentOf[KeyOf[msg[m].chat]]

Messages == [chat : Chats \cup {NoChat}, at : {"unsent", "bus", "hooks"} \cup Fates]
Runs     == [pc : Live \cup {"none", "done", "broken", "cancelled"},
             by : SUBSET Callers, calls : 0..MaxCancels, sub : BOOLEAN,
             dropped : BOOLEAN, stream : Seq(Phases)]
Asks     == [pc : {"none", "waiting", "resolved", "ended"}, chat : Chats \cup {NoChat}]

\* Each variable has its shape, and a session task belongs to a message whose
\* fate it is.
TypeOK ==
  /\ msg \in [Msgs -> Messages] /\ run \in [Msgs -> Runs]
  /\ entry \in [Keys -> Msgs \cup {None}] /\ busy \subseteq Agents
  /\ perm \in [Chats -> Requests \cup {None}] /\ ask \in [Requests -> Asks]
  /\ phase \in [at : {"running", "stopping"}, self : Msgs \cup {None}]
  /\ \A m \in Msgs : run[m].pc # "none" <=> msg[m].at = "task"

Init ==
  /\ msg = [m \in Msgs |-> [chat |-> NoChat, at |-> "unsent"]]
  /\ entry = [k \in Keys |-> None]
  /\ run = [m \in Msgs |-> NoRun]
  /\ busy = {}
  /\ perm = [c \in Chats |-> None]
  /\ ask = [r \in Requests |-> NoAsk]
  /\ phase = [at |-> "running", self |-> None]

\* stop has marked what it cancels and awaits it; its own caller waits with it.
Stopped == phase.at = "stopping" /\ \A m \in Msgs : "stop" \in run[m].by => ~Unfinished(m)
Held(m) == phase.at = "stopping" /\ phase.self = m /\ ~Stopped

----------------------------------------------------------------------------
(* Incoming messages *)

\* publish_incoming: a channel puts a message on the bus.
Publish(c) ==
  \E m \in Msgs :
    /\ msg[m].at = "unsent" /\ \A o \in 1..(m - 1) : msg[o].at # "unsent"
    /\ msg' = [msg EXCEPT ![m] = [chat |-> c, at |-> "bus"]]
    /\ UNCHANGED <<entry, run, busy, perm, ask, phase>>

\* The loop takes the oldest message and spawns _handle_incoming, up to its
\* first wait.  A registered permission future takes the message for its reply.
First(m) == msg[m].at = "bus" /\ \A o \in 1..(m - 1) : msg[o].at # "bus"

Consume(m) ==
  LET c == msg[m].chat
  IN  /\ phase.at = "running" /\ First(m)
      /\ IF perm[c] # None
           THEN /\ perm' = [perm EXCEPT ![c] = None]
                /\ ask' = [ask EXCEPT ![perm[c]].pc = "resolved"]
                /\ msg' = [msg EXCEPT ![m].at = "settled"]
           ELSE /\ msg' = [msg EXCEPT ![m].at = "hooks"]
                /\ UNCHANGED <<perm, ask>>
      /\ UNCHANGED <<entry, run, busy, phase>>

\* The message:receive hooks have returned.  A message that they reject ends
\* aside, and so does a command, which leaves all this alone but for /new.
Handled(m, fate) ==
  /\ msg[m].at = "hooks" /\ ~Held(m)
  /\ msg' = [msg EXCEPT ![m].at = fate]

SetAside(m) ==
  /\ Handled(m, "settled")
  /\ UNCHANGED <<entry, run, busy, perm, ask, phase>>

\* /new and /clear from a channel of a profile: the entry is dropped while its
\* task, if any, runs on.
NewSession(m) ==
  LET k == KeyOf[msg[m].chat]
  IN  /\ Handled(m, "settled") /\ k \in Profiles
      /\ entry' = [entry EXCEPT ![k] = None]
      /\ run' = [o \in Msgs |-> IF o = entry[k] THEN [run[o] EXCEPT !.dropped = TRUE]
                                                ELSE run[o]]
      /\ UNCHANGED <<busy, perm, ask, phase>>

\* The text of a message whose session has an unfinished task goes to the
\* engine's steering queue; otherwise it gets a session task.
Processing(k) == \E m \in Msgs : m = entry[k] /\ Unfinished(m)

Steer(m) ==
  /\ Handled(m, "settled")
  /\ Processing(KeyOf[msg[m].chat])
  /\ UNCHANGED <<entry, run, busy, perm, ask, phase>>

StartUnchecked(m) ==                      \* fault: the task was looked at too early
  LET k == KeyOf[msg[m].chat]
  IN  /\ Handled(m, "task")
      /\ entry' = [entry EXCEPT ![k] = m]
      /\ run' = [run EXCEPT ![m].pc = "created"]
      /\ UNCHANGED <<busy, perm, ask, phase>>

Start(m) ==
  LET k == KeyOf[msg[m].chat]
  IN  /\ Handled(m, "task")
      /\ ~Processing(k)
      /\ entry' = [entry EXCEPT ![k] = m]
      /\ run' = [run EXCEPT ![m].pc = "created"]
      /\ UNCHANGED <<busy, perm, ask, phase>>

----------------------------------------------------------------------------
(* The session task, _run_session *)

Add(stream, p) ==                \* a run of events counts as one
  IF p = "event" /\ stream[Len(stream)] = "event" THEN stream ELSE Append(stream, p)

\* Cancellation is raised at the next wait, so a cancelled task takes no other step.
Steps(m, from) == run[m].pc = from /\ run[m].by = {} /\ ~Held(m)

\* The start, the subscription, and invoke up to its first wait: it refuses a busy agent.
Begin(m) ==
  /\ Steps(m, "created")
  /\ run' = [run EXCEPT ![m].sub = TRUE,
       ![m].pc = IF Agent(m) \in busy THEN "leaving" ELSE "prepare",
       ![m].stream = IF Agent(m) \in busy THEN <<"start", "error">> ELSE <<"start">>]
  /\ UNCHANGED <<msg, entry, busy, perm, ask, phase>>

\* The turn starts: invoke has awaited the hooks, and does not look at the phase again.
TurnStarts(m) ==
  /\ Steps(m, "prepare")
  /\ run' = [run EXCEPT ![m].pc = "turn"]
  /\ busy' = busy \cup {Agent(m)}
  /\ UNCHANGED <<msg, entry, perm, ask, phase>>

\* Every handler subscribed to the agent publishes the event to its own chat.
Emit(m) ==
  /\ run[m].pc = "turn"
  /\ run' = [o \in Msgs |->
       IF run[o].sub /\ Agent(o) = Agent(m)
         THEN [run[o] EXCEPT !.stream = Add(@, "event")] ELSE run[o]]
  /\ UNCHANGED <<msg, entry, busy, perm, ask, phase>>

\* The turn ends and invoke goes on to the memory provider, or it raises.
TurnEnds(m) ==
  /\ Steps(m, "turn")
  /\ run' = [run EXCEPT ![m].pc = "leaving"]
  /\ busy' = busy \ {Agent(m)}
  /\ UNCHANGED <<msg, entry, perm, ask, phase>>

Fails(m) ==
  /\ \E from \in {"prepare", "turn"} : Steps(m, from)
  /\ run' = [run EXCEPT ![m].pc = "leaving", ![m].stream = Add(@, "error")]
  /\ busy' = IF run[m].pc = "turn" THEN busy \ {Agent(m)} ELSE busy
  /\ UNCHANGED <<msg, entry, perm, ask, phase>>

Failed(m) == \E i \in DOMAIN run[m].stream : run[m].stream[i] = "error"

ReturnsListening(m) ==                    \* fault: unsub only after a good turn
  /\ Steps(m, "leaving")
  /\ run' = [run EXCEPT ![m].pc = "sending", ![m].sub = Failed(m)]
  /\ UNCHANGED <<msg, entry, busy, perm, ask, phase>>

ReturnsOnSuccess(m) ==                    \* fault: a failed turn returns at once
  /\ Steps(m, "leaving")
  /\ run' = [run EXCEPT ![m].sub = FALSE,
       ![m].pc = IF Failed(m) THEN "done" ELSE "sending"]
  /\ UNCHANGED <<msg, entry, busy, perm, ask, phase>>

\* invoke has returned, or the error hooks have: the handler is unsubscribed.
Returns(m) ==
  /\ Steps(m, "leaving")
  /\ run' = [run EXCEPT ![m].pc = "sending", ![m].sub = FALSE]
  /\ UNCHANGED <<msg, entry, busy, perm, ask, phase>>

\* The message:send hooks have returned: the end, unless sending their audio raised.
Done(m) ==
  /\ Steps(m, "sending")
  /\ run' = [run EXCEPT ![m].pc = "done", ![m].stream = Append(@, "final")]
  /\ UNCHANGED <<msg, entry, busy, perm, ask, phase>>

SendFails(m) ==
  /\ Steps(m, "sending")
  /\ run' = [run EXCEPT ![m].pc = "broken"]
  /\ UNCHANGED <<msg, entry, busy, perm, ask, phase>>

\* CancelledError leaves the task.
RunCancelled(m) ==
  /\ Unfinished(m) /\ run[m].by # {}
  /\ run' = [run EXCEPT ![m].pc = "cancelled", ![m].sub = FALSE]
  /\ busy' = IF run[m].pc = "turn" THEN busy \ {Agent(m)} ELSE busy
  /\ UNCHANGED <<msg, entry, perm, ask, phase>>

----------------------------------------------------------------------------
(* cancel_session and stop *)

CancelAtOnce(c) ==                        \* fault: END without awaiting the task
  \E m \in Msgs :
    /\ m = entry[KeyOf[c]] /\ Unfinished(m) /\ run[m].by = {}
    /\ run' = [run EXCEPT ![m].by = {"cancel_session"},
                 ![m].stream = IF msg[m].chat = c THEN Append(@, "cancel") ELSE @]
    /\ UNCHANGED <<msg, entry, busy, perm, ask, phase>>

\* Bound: the calls for a chat that await its task, one task's at a time.
Room(m) == run[m].calls < MaxCancels /\ \A o \in Msgs \ {m} : run[o].calls = 0

\* It cancels the task of the chat's entry, also one that an earlier call has
\* cancelled and still awaits.
CancelSession(c) ==
  \E m \in Msgs :
    /\ m = entry[KeyOf[c]] /\ Unfinished(m)
    /\ msg[m].chat = c => Room(m)
    /\ run' = [run EXCEPT ![m].by = @ \cup {"cancel_session"},
                 ![m].calls = IF msg[m].chat = c THEN @ + 1 ELSE @]
    /\ UNCHANGED <<msg, entry, busy, perm, ask, phase>>

\* Each call that awaited the task publishes an END to its chat.
CancelReturns(m) ==
  /\ run[m].pc = "cancelled" /\ run[m].calls > 0
  /\ run' = [run EXCEPT ![m].calls = @ - 1, ![m].stream = Append(@, "cancel")]
  /\ UNCHANGED <<msg, entry, busy, perm, ask, phase>>

\* stop cancels the loops, the handlers and the tasks of the entries it has,
\* without a wait in between, then awaits them all.  It leaves alone the task
\* that calls it: a handler, from a hook, or a session task after its turn, as
\* the reboot of the control_center tool does.
Entries == {entry[k] : k \in Keys} \ {None}

Stops(self, reached) ==
  /\ phase.at = "running"
  /\ phase' = [at |-> "stopping", self |-> self]
  /\ self # None => (msg[self].at = "hooks" \/ Steps(self, "leaving"))
  /\ msg' = [m \in Msgs |-> IF m \in reached /\ msg[m].at = "hooks"
                              THEN [msg[m] EXCEPT !.at = "settled"] ELSE msg[m]]
  /\ run' = [m \in Msgs |-> IF m \in Entries \ {self} /\ Unfinished(m)
                              THEN [run[m] EXCEPT !.by = @ \cup {"stop"}] ELSE run[m]]
  /\ UNCHANGED <<entry, busy, perm, ask>>

StopSessionsOnly ==                       \* fault: the handlers are not cancelled
  \E self \in Msgs \cup {None} : Stops(self, {})

Stop == \E self \in Msgs \cup {None} : Stops(self, Msgs \ {self})

----------------------------------------------------------------------------
(* request_permission *)

\* A tool or a subagent of a chat that has had a session task asks: the prompt
\* is published and the future registered, over any that is there.
Ask(r, c) ==
  /\ ask[r].pc = "none" /\ \A o \in 1..(r - 1) : ask[o].pc # "none"
  /\ \E m \in Msgs : msg[m].chat = c /\ run[m].stream # <<>>
  /\ ask' = [ask EXCEPT ![r].pc = "waiting", ![r].chat = c]
  /\ perm' = [perm EXCEPT ![c] = r]
  /\ UNCHANGED <<msg, entry, run, busy, phase>>

AskEndsQuietly(r) ==            \* fault: a request that timed out stays registered
  /\ ask[r].pc \in {"waiting", "resolved"}
  /\ ask' = [ask EXCEPT ![r].pc = "ended"]
  /\ perm' = IF ask[r].pc = "waiting" THEN perm ELSE [perm EXCEPT ![ask[r].chat] = None]
  /\ UNCHANGED <<msg, entry, run, busy, phase>>

\* The request ends with the answer, or with a denial 300 s after the prompt,
\* and whatever future its chat has registered goes with it.
AskEnds(r) ==
  /\ ask[r].pc \in {"waiting", "resolved"}
  /\ ask' = [ask EXCEPT ![r].pc = "ended"]
  /\ perm' = [perm EXCEPT ![ask[r].chat] = None]
  /\ UNCHANGED <<msg, entry, run, busy, phase>>

----------------------------------------------------------------------------

TaskStep(m) ==
  \/ Begin(m) \/ TurnStarts(m) \/ TurnEnds(m) \/ Fails(m) \/ Returns(m)
  \/ Done(m) \/ SendFails(m) \/ RunCancelled(m) \/ CancelReturns(m)

Handle(m) == SetAside(m) \/ NewSession(m) \/ Steer(m) \/ Start(m)

Next ==
  \/ \E c \in Chats : Publish(c) \/ CancelSession(c)
  \/ \E m \in Msgs : Consume(m) \/ Handle(m) \/ TaskStep(m) \/ Emit(m)
  \/ Stop
  \/ \E r \in Requests : AskEnds(r) \/ (\E c \in Asking : Ask(r, c))

Spec == Init /\ [][Next]_vars

\* The loop and the tasks are scheduled, hooks return, and a turn ends (AgentTurn).
\* What is done of a message follows one another, so one condition says it of all.
FairSpec == Spec /\ \A m \in Msgs : WF_vars(Consume(m) \/ Handle(m) \/ TaskStep(m))

----------------------------------------------------------------------------
(* Properties *)

\* An unfinished session task is the task of its key's entry, where the next
\* message, cancel_session and stop find it; only a /new can have lost it.
Reachable ==
  \A m \in Msgs : Unfinished(m) => run[m].dropped \/ entry[KeyOf[msg[m].chat]] = m

\* A chat sees the start of a run first and once, and after its end nothing of
\* it, after its cancellation nothing but the END of every cancel_session that
\* awaited it, whatever other runs of a shared agent emit meanwhile.  (A run
\* cancelled before its first step has those ENDs only.)
StreamsClose ==
  \A m \in Msgs :
    LET s == run[m].stream
    IN  \A i \in DOMAIN s : /\ s[i] = "start" <=> i = 1 /\ s[1] # "cancel"
                            /\ s[i] = "final" => i = Len(s)
                            /\ s[i] = "cancel" => \A j \in i..Len(s) : s[j] = "cancel"

\* Once stop has returned only tasks dropped by a /new still run, and no
\* handler is left to start another, but for the handler or the task that
\* called it.
StopLeavesNone ==
  Stopped => \A m \in Msgs \ {phase.self} : /\ msg[m].at # "hooks"
                                          /\ Unfinished(m) => run[m].dropped

\* Every message that reaches the gateway is settled, and a session task it
\* started ends with a DONE, unless it is cancelled, the gateway stops or its
\* audio cannot be sent: again and again no message is open.
Closed(m) ==
  \/ msg[m].at = "settled"
  \/ run[m].pc \in {"broken", "cancelled"}
  \/ run[m].stream # <<>> /\ run[m].stream[Len(run[m].stream)] = "final"

MessagesSettle ==
  []<>(\A m \in Msgs : msg[m].at = "unsent" \/ Closed(m) \/ phase.at # "running")

\* The future registered for a chat is that of a request of this chat that
\* still waits: no message is taken for the reply to a request that is over,
\* whatever requests overwrote one another's futures before it ended.
RepliesAwaited ==
  \A c \in Chats : perm[c] # None => ask[perm[c]] = [pc |-> "waiting", chat |-> c]
=============================================================================
