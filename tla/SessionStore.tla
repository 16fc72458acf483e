---------------------------- MODULE SessionStore ----------------------------
(***************************************************************************)
(* SessionManager (src/operator_use/session/manager.py): one session held  *)
(* in memory and in one JSONL file, its operations, the death of the       *)
(* process inside or between writes, and the restart that reads the file   *)
(* back.                                                                   *)
(*                                                                         *)
(* mem is the manager's memory: entries, leaf_id, the labelled ids, the    *)
(* flushed flag, and turn, the user entry of the agent's turn in flight    *)
(* (user_entry_id of Agent.invoke, the entry a failed turn rolls back).    *)
(* file is what the disk holds: whether the first line is a valid header,  *)
(* the entries whose line is valid JSON, how the text ends (Nl: newline,   *)
(* Torn: part of a line, id: the whole line of entry id without its        *)
(* newline), and whether a line that is not valid JSON lies inside it.     *)
(***************************************************************************)
EXTENDS SessionTree

CONSTANT MaxId          \* bound on the ids a behaviour creates

ASSUME MaxIdAssumption == MaxId \in Nat

VARIABLES mem, file, up, nextId

vars == <<mem, file, up, nextId>>

Nl     == 0
Torn   == MaxId + 1
File(header, lines, tail, garbled) ==
  [header |-> header, lines |-> lines, tail |-> tail, garbled |-> garbled]
NoFile == File(FALSE, NoEntries, Nl, FALSE)
Blank  == [entries |-> NoEntries, leaf |-> None, labels |-> {},
           flushed |-> FALSE, turn |-> None]

IsMemory(m, n) ==
  /\ m = [entries |-> m.entries, leaf |-> m.leaf, labels |-> m.labels,
          flushed |-> m.flushed, turn |-> m.turn]
  /\ IsLog(m.entries) /\ DOMAIN m.entries \subseteq 1..n
  /\ m.leaf \in 0..n /\ m.turn \in 0..n /\ m.labels \subseteq 0..n
  /\ m.flushed \in BOOLEAN

IsFile(f, n) ==
  /\ f = File(f.header, f.lines, f.tail, f.garbled)
  /\ IsLog(f.lines) /\ DOMAIN f.lines \subseteq 1..n
  /\ f.header \in BOOLEAN /\ f.garbled \in BOOLEAN
  /\ f.tail \in {Nl, Torn} \cup DOMAIN f.lines

\* The memory and the file name only entries that were created, and the flag
\* that lets _persist append (flushed) stands only where the session's file has
\* its header: entries appended to a file without one are lost at the next start.
TypeOK ==
  /\ nextId \in 1..(MaxId + 1) /\ up \in BOOLEAN
  /\ IsMemory(mem, nextId - 1) /\ IsFile(file, nextId - 1)
  /\ up /\ mem.flushed => file.header

----------------------------------------------------------------------------
(* The file *)

\* _rewrite_file: truncate, then write the header and every entry.
Rewritten(log) == File(TRUE, log, Nl, FALSE)

\* What a death inside _rewrite_file leaves: nothing, part of the header, or
\* the lines of the entries up to k with or without a beginning of the next.
RewriteCut(log) ==
  {File(FALSE, NoEntries, t, FALSE) : t \in {Nl, Torn}} \cup
  UNION {{File(TRUE, Only(log, 1..k), t, FALSE) : t \in {Nl, Torn} \cup ({k} \cap DOMAIN log)} :
           k \in {None} \cup DOMAIN log}

\* The lines that stay valid once text is glued to the end of the file.
Glued(f) == IF f.tail = Nl THEN f.lines ELSE Without(f.lines, f.tail)

\* _persist, the append: text added to a file whose last line has no newline
\* becomes part of that line, and neither can be parsed.
Appended(f, i, e) ==
  IF f.tail = Nl THEN File(f.header, With(f.lines, i, e), Nl, f.garbled)
                 ELSE File(f.header, Glued(f), Nl, TRUE)

\* What a death inside that append leaves.
AppendCut(f, i, e) ==
  {f, File(f.header, Glued(f), Torn, f.garbled)} \cup
  (IF f.tail = Nl THEN {File(f.header, With(f.lines, i, e), i, f.garbled)} ELSE {})

\* The handler that meant to reach memory m finished its write, or the
\* process died in it and left one of the contents in cut.
Write(m, f, cut) ==
  \/ mem' = m /\ file' = f /\ UNCHANGED up
  \/ mem' = Blank /\ file' \in cut /\ up' = FALSE

Rewrite(m) == Write(m, Rewritten(m.entries), RewriteCut(m.entries))

\* _persist: nothing reaches the disk until an assistant message is in
\* memory; then the whole log is written once, and later entries one by one.
PersistAppends(m, i) ==                   \* fault: the earlier entries stay unwritten
  IF HasAssistant(m.entries)
    THEN Write([m EXCEPT !.flushed = TRUE],
               [Appended(file, i, m.entries[i]) EXCEPT !.header = TRUE], {file})
    ELSE mem' = [m EXCEPT !.flushed = FALSE] /\ UNCHANGED <<file, up>>

Persist(m, i) ==
  \/ /\ ~HasAssistant(m.entries)
     /\ mem' = [m EXCEPT !.flushed = FALSE]
     /\ UNCHANGED <<file, up>>
  \/ /\ HasAssistant(m.entries) /\ ~m.flushed
     /\ Rewrite([m EXCEPT !.flushed = TRUE])
  \/ /\ HasAssistant(m.entries) /\ m.flushed
     /\ Write(m, Appended(file, i, m.entries[i]), AppendCut(file, i, m.entries[i]))

----------------------------------------------------------------------------
(* The operations *)

Ready == up /\ nextId <= MaxId

\* _append_entry on memory m: the new entry becomes the leaf and is persisted.
AppendEntry(m, kind, parent, ref) ==
  /\ Ready
  /\ nextId' = nextId + 1
  /\ Persist([m EXCEPT !.entries = With(m.entries, nextId, NewEntry(kind, parent, ref)),
                       !.leaf = nextId], nextId)

BeginTurn ==
  /\ mem.turn = None
  /\ AppendEntry([mem EXCEPT !.turn = nextId], "user", mem.leaf, None)

TurnMessage ==
  /\ mem.turn # None
  /\ AppendEntry(mem, "assistant", mem.leaf, None)

EndTurn ==
  /\ up /\ mem.turn # None
  /\ mem' = [mem EXCEPT !.turn = None]
  /\ UNCHANGED <<file, up, nextId>>

AppendInfoAtRoot ==                       \* fault: the parent link is left out
  AppendEntry(mem, "info", None, None)

AppendInfo == AppendEntry(mem, "info", mem.leaf, None)

AppendCustomMessage == AppendEntry(mem, "branch", mem.leaf, None)

AppendCompaction ==
  \E kept \in IdsOf(mem.entries, MessageKinds) \cap Branch(mem.entries, mem.leaf) :
     AppendEntry(mem, "compaction", mem.leaf, kept)

AppendLabelChange ==
  \E target \in DOMAIN mem.entries :
     \/ AppendEntry([mem EXCEPT !.labels = @ \cup {target}], "label", mem.leaf, target)
     \/ AppendEntry([mem EXCEPT !.labels = @ \ {target}], "unlabel", mem.leaf, target)

\* branch: a leaf entry is logged, but the leaf moves to its target.
BranchTo ==
  \E target \in DOMAIN mem.entries :
     /\ Ready
     /\ nextId' = nextId + 1
     /\ Persist([mem EXCEPT
          !.entries = With(@, nextId, NewEntry("leaf", mem.leaf, target)),
          !.leaf = target], nextId)

BranchWithSummary ==
  \E from \in DOMAIN mem.entries \cup {None} :
     AppendEntry(mem, "branch", from, None)

\* patch_entry_meta and add_reaction: an entry's metadata, not modelled,
\* changes and the file is rewritten; flushed is left as it is.
PatchMeta ==
  /\ up /\ IdsOf(mem.entries, MessageKinds) # {}
  /\ Rewrite(mem)
  /\ UNCHANGED nextId

\* remove_message of the turn's user entry, when all its attempts failed.
Removed(m, i) ==
  [m EXCEPT !.entries = Without(m.entries, i), !.labels = @ \ {i},
            !.leaf = LeafWithout(m.entries, m.leaf, i)]

RemoveFromMemory ==                       \* fault: the file is not rewritten
  /\ up /\ mem.turn # None
  /\ mem' = [Removed(mem, mem.turn) EXCEPT !.turn = None]
  /\ UNCHANGED <<file, up, nextId>>

RemoveMessage ==
  /\ up /\ mem.turn # None
  /\ IF mem.turn \in IdsOf(mem.entries, MessageKinds)
       THEN Rewrite([Removed(mem, mem.turn) EXCEPT !.turn = None])
       ELSE mem' = [mem EXCEPT !.turn = None] /\ UNCHANGED <<file, up>>
  /\ UNCHANGED nextId

\* new_session: another file, created by its first write.
NewSessionKeepsFlushed ==                 \* fault: flushed is not reset
  /\ up
  /\ mem' = [Blank EXCEPT !.turn = mem.turn, !.flushed = mem.flushed]
  /\ file' = NoFile
  /\ UNCHANGED <<up, nextId>>

NewSession ==
  /\ up
  /\ mem' = [Blank EXCEPT !.turn = mem.turn]
  /\ file' = NoFile
  /\ UNCHANGED <<up, nextId>>

\* create_branched_session: the branch of an entry without its label entries,
\* then one new label entry for every label still set on it, in a new file.
RelabelledByTarget(log, target) ==        \* fault: the labelled id comes from the wrong map
  [i \in DOMAIN log \cup DOMAIN target |->
     IF i \in DOMAIN target THEN NewEntry("label", target[i], i) ELSE log[i]]

Relabelled(log, target) ==
  LET path == {i \in DOMAIN log : log[i].kind \notin {"label", "unlabel"}}
      new  == DOMAIN target
  IN  [i \in path \cup new |->
         IF i \in new
           THEN NewEntry("label", Newest({j \in path \cup new : j < i}), target[i])
           ELSE log[i]]

CreateBranchedSession ==
  \E from \in DOMAIN mem.entries :
    LET path == Only(mem.entries, Branch(mem.entries, from))
        kept == {i \in DOMAIN path : path[i].kind \notin {"label", "unlabel"}} \cap mem.labels
        new  == nextId..(nextId + Cardinality(kept) - 1)
    IN  /\ up /\ nextId + Cardinality(kept) <= MaxId + 1
        /\ nextId' = nextId + Cardinality(kept)
        /\ \E target \in [new -> kept] :
             LET log == Relabelled(path, target)
                 m   == [mem EXCEPT !.entries = log, !.leaf = BuildLeaf(log),
                                    !.labels = BuildLabels(log), !.flushed = HasAssistant(log)]
             IN  /\ {target[i] : i \in new} = kept
                 /\ IF HasAssistant(log) THEN Rewrite(m)
                    ELSE mem' = m /\ file' = NoFile /\ UNCHANGED up

\* What set_session reads back from a file with a valid header.
Loaded(f) == [entries |-> f.lines, leaf |-> BuildLeaf(f.lines),
              labels |-> BuildLabels(f.lines), flushed |-> TRUE, turn |-> mem.turn]

\* set_session on the session's file, by a new process after a crash or by
\* the peer_agent tool on a live agent.  A file without a valid header is
\* overwritten with a fresh one; a live manager keeps its old entries instead,
\* a case that needs a file to vanish and is not modelled.
SetSession ==
  /\ \/ /\ file.header
        /\ mem' = Loaded(file) /\ up' = TRUE /\ UNCHANGED file
     \/ /\ ~file.header /\ ~up
        /\ \/ mem' = [Blank EXCEPT !.flushed = TRUE] /\ file' = Rewritten(NoEntries) /\ up' = TRUE
           \/ mem' = Blank /\ file' \in RewriteCut(NoEntries) /\ UNCHANGED up
  /\ UNCHANGED nextId

\* fork_from: the valid lines of the file are copied to a new one.
ForkFrom ==
  /\ up /\ file.header
  /\ mem' = [Loaded(file) EXCEPT !.turn = None]
  /\ file' = Rewritten(file.lines)
  /\ UNCHANGED <<up, nextId>>

\* The process dies between two operations.
Crash ==
  /\ up /\ up' = FALSE
  /\ mem' = Blank
  /\ UNCHANGED <<file, nextId>>

Init ==
  /\ mem = Blank /\ file = NoFile /\ up = TRUE /\ nextId = 1

Next ==
  \/ BeginTurn \/ TurnMessage \/ EndTurn \/ RemoveMessage
  \/ AppendInfo \/ AppendCustomMessage \/ AppendCompaction \/ AppendLabelChange \/ PatchMeta
  \/ BranchTo \/ BranchWithSummary
  \/ NewSession \/ CreateBranchedSession \/ ForkFrom \/ SetSession \/ Crash

Spec == Init /\ [][Next]_vars

----------------------------------------------------------------------------
(* Properties *)

\* Every answer the model has given is on disk: once an assistant message is
\* in memory the file, unless a crash has garbled it, holds exactly the
\* entries in memory (_persist and _rewrite_file).
AnswersOnDisk ==
  up /\ HasAssistant(mem.entries) /\ ~file.garbled =>
    file.header /\ file.lines = mem.entries

\* The file never holds what memory does not: a message rolled back by
\* remove_message cannot come back from the disk.
NothingResurrected ==
  up => /\ DOMAIN file.lines \subseteq DOMAIN mem.entries
        /\ \A i \in DOMAIN file.lines : file.lines[i] = mem.entries[i]

\* The manager's leaf is the one _build_index would rebuild from the log, but
\* where remove_message took the leaf itself away at the end of a failed turn:
\* memory then goes on from the newest message, a restart from where the log's
\* last entry points, until the next entry.  No other step parts the two.
LeafRebuilds ==
  [][ up' /\ mem'.leaf # BuildLeaf(mem'.entries) =>
        /\ up /\ UNCHANGED nextId /\ mem'.turn = None
        /\ \/ /\ mem.leaf = mem.turn /\ mem.leaf \in DOMAIN mem.entries
              /\ mem'.entries = Without(mem.entries, mem.leaf)
           \/ /\ mem.leaf # BuildLeaf(mem.entries)
              /\ mem'.leaf = mem.leaf /\ mem'.entries = mem.entries ]_vars

\* A restart rebuilds the labels of the entries that still exist, whatever
\* sequence of labels, unlabels, rollbacks and branched sessions came before.
LabelsRebuild ==
  up => \A i \in DOMAIN mem.entries :
          i \in mem.labels <=> i \in BuildLabels(mem.entries)

\* Parents and references are older than the entry that names them, in
\* memory and on disk: every branch is a path back in time, which get_branch,
\* that stops at an id it has seen, never cuts for a repetition.
ParentsOlder ==
  \A log \in {mem.entries, file.lines} :
    \A i \in DOMAIN log : log[i].parent < i /\ log[i].ref < i

\* An append of metadata or of a label does not change what the model sees.
MetadataInvisible ==
  [][ (nextId' = nextId + 1 /\ up' /\ nextId \in DOMAIN mem'.entries
         /\ mem'.entries[nextId].kind \in {"info", "label", "unlabel"}
         /\ nextId = mem'.leaf /\ DOMAIN mem.entries \subseteq DOMAIN mem'.entries)
      => Context(mem'.entries, mem'.leaf) = Context(mem.entries, mem.leaf) ]_vars

\* _rewrite_file says it overwrites atomically: a process that dies in a write
\* leaves every entry that was on disk there, but for the message rolled back.
CrashKeepsFile ==
  [][ up /\ ~up' => DOMAIN file.lines \ {mem.turn} \subseteq DOMAIN file'.lines ]_vars
=============================================================================
