---------------------------- MODULE SessionTree ----------------------------
(***************************************************************************)
(* The append-only log of a session (src/operator_use/session/manager.py)  *)
(* as a pure data structure: the tree its parent links form, the branch   *)
(* the language model sees, and what a restart rebuilds from the log.      *)
(*                                                                         *)
(* A log is a function from entry ids to entries.  Ids are the naturals,   *)
(* in order of creation: the code's ids are random, but the order of the   *)
(* entries in memory and in the file is the order of creation, so the      *)
(* domain of the function, sorted, is that order.  None (0) is no entry.   *)
(* An entry keeps what the algorithms read: its kind, its parent, and the  *)
(* entry it points at (target of a leaf or label, first kept entry of a    *)
(* compaction).                                                            *)
(***************************************************************************)
EXTENDS Naturals, FiniteSets

None == 0

\* "calls" is an assistant message that asks for tools, "assistant" one that
\* closes a turn; "error" and "partial" record a failed provider call, "error"
\* without any content, "partial" with what had been streamed before.  "branch"
\* is a branch summary or a message of an extension: text for the model that is
\* no message entry.
AssistantKinds == {"assistant", "calls", "error", "partial"}
MessageKinds   == {"user", "tool"} \cup AssistantKinds
NavKinds       == {"leaf", "label", "unlabel"}
Kinds          == MessageKinds \cup NavKinds \cup {"info", "compaction", "branch"}

Entry == [kind : Kinds, parent : Nat, ref : Nat]

NewEntry(kind, parent, ref) == [kind |-> kind, parent |-> parent, ref |-> ref]

NoEntries == [i \in {} |-> [kind |-> "info", parent |-> None, ref |-> None]]

IsLog(log) == /\ DOMAIN log \subseteq Nat \ {None}
              /\ log \in [DOMAIN log -> Entry]

With(log, i, e) == [j \in DOMAIN log \cup {i} |-> IF j = i THEN e ELSE log[j]]
Only(log, S)    == [j \in DOMAIN log \cap S |-> log[j]]
Without(log, i) == [j \in DOMAIN log \ {i} |-> log[j]]

IdsOf(log, kinds)  == {i \in DOMAIN log : log[i].kind \in kinds}
HasAssistant(log)  == IdsOf(log, AssistantKinds) # {}

\* The newest id of S, None when S is empty.
Newest(S) == IF \E i \in S : \A j \in S : j <= i
               THEN CHOOSE i \in S : \A j \in S : j <= i
               ELSE None

\* remove_message: when the leaf itself is removed, the leaf falls back to the
\* newest message of the log, on whatever branch that is.
LeafKept(log, leaf, i) == leaf            \* fault: the leaf may name what was removed

LeafWithout(log, leaf, i) ==
  IF leaf = i THEN Newest(IdsOf(Without(log, i), MessageKinds)) ELSE leaf

----------------------------------------------------------------------------
(* get_branch: the entries met from an id up to the root.  A parent that   *)
(* is no longer in the log ends the walk; its set of ids seen never does,  *)
(* since parents are older (ParentsOlder of SessionStore).                 *)
Branch(log, from) ==
  LET up[i \in Nat] ==
        IF i \in DOMAIN log THEN {i} \cup up[log[i].parent] ELSE {}
  IN  up[from]

(* build_session_context: the entries whose text reaches the model. Behind *)
(* the branch's last compaction only what it kept is shown, and only if    *)
(* the first kept entry is still on the branch.                            *)
Carried == MessageKinds \cup {"branch"}

Context(log, from) ==
  LET path == Branch(log, from)
      text == {i \in path : log[i].kind \in Carried}
      c    == Newest({i \in path : log[i].kind = "compaction"})
  IN  IF c = None THEN text
      ELSE {c} \cup {i \in text : i > c}
               \cup {i \in text : /\ log[c].ref \in path
                                  /\ log[c].ref <= i /\ i < c}

(* _build_index: the leaf after a restart is the last entry of the file,   *)
(* or what that entry points at when it is a navigation.                   *)
LastEntry(log) == Newest(DOMAIN log)      \* fault: navigation entries ignored

BuildLeaf(log) ==
  LET last == Newest(DOMAIN log)
  IN  IF last = None THEN None
      ELSE IF log[last].kind = "leaf" THEN log[last].ref ELSE last

(* _build_index: an entry is labelled when the newest label entry that     *)
(* names it sets a label.                                                  *)
EverLabelled(log) ==                      \* fault: removals of labels ignored
  {log[i].ref : i \in IdsOf(log, {"label"})}

BuildLabels(log) ==
  {log[i].ref : i \in {i \in IdsOf(log, {"label"}) :
                        \A j \in IdsOf(log, {"unlabel"}) :
                           log[j].ref = log[i].ref => j < i}}
============================================================================
