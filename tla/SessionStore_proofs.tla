------------------------ MODULE SessionStore_proofs ------------------------
(***************************************************************************)
(* What SessionStore's runs check on a few entries, proved for every       *)
(* number of entries: the type invariant, that every answer is on disk,    *)
(* that nothing rolled back survives in the file, that the log is a        *)
(* well-founded forest, that a restart rebuilds the leaf and the labels    *)
(* that memory held, and that metadata stays invisible to the model.       *)
(***************************************************************************)
EXTENDS SessionStore, SessionTree_proofs, FiniteSetTheorems, TLAPS

----------------------------------------------------------------------------
(* Logs *)

\* Dropping an entry of a log gives a log.
LEMMA WithoutLog ==
  ASSUME NEW log, IsLog(log), NEW i
  PROVE  IsLog(Without(log, i))
BY DEF IsLog, Without

\* Keeping only some entries of a log gives a log.
LEMMA OnlyLog ==
  ASSUME NEW log, IsLog(log), NEW S
  PROVE  IsLog(Only(log, S))
BY DEF IsLog, Only

\* The empty log.
LEMMA EmptyLog == IsLog(NoEntries) /\ DOMAIN NoEntries = {} /\ ~HasAssistant(NoEntries)
BY DEF NoEntries, IsLog, HasAssistant, IdsOf

----------------------------------------------------------------------------
(* The inductive invariant.  AnswersOnDisk is not inductive: it says        *)
(* nothing of a log without an answer, whose file may already exist.  The  *)
(* flushed flag is what carries it: a flushed log is the file's.           *)

Within(part, log) == /\ DOMAIN part \subseteq DOMAIN log
                     /\ \A i \in DOMAIN part : part[i] = log[i]

\* Memory m and file f agree, for a live manager.
Agree(m, f) ==
  /\ m.flushed => f.header
  /\ m.flushed /\ ~f.garbled => f.lines = m.entries
  /\ HasAssistant(m.entries) => m.flushed
  /\ Within(f.lines, m.entries)

Good(m, f, n) == /\ IsMemory(m, n) /\ IsFile(f, n)
                 /\ Older(m.entries) /\ Older(f.lines)

IInv == /\ nextId \in 1..(MaxId + 1) /\ up \in BOOLEAN
        /\ Good(mem, file, nextId - 1)
        /\ up => Agree(mem, file)

\* The inductive invariant implies the properties stated of the session.
LEMMA IInvImplies ==
  IInv => TypeOK /\ AnswersOnDisk /\ NothingResurrected /\ ParentsOlder
BY DEF IInv, Good, Agree, Within, Older, TypeOK, AnswersOnDisk, NothingResurrected,
       ParentsOlder

\* The memory of a dead process.
LEMMA BlankMemory ==
  ASSUME NEW n \in Nat
  PROVE  IsMemory(Blank, n) /\ Older(Blank.entries)
BY EmptyLog DEF IsMemory, Blank, Older, None

\* A file of entries that were created, with any end, is a file.
LEMMA FileOf ==
  ASSUME NEW n \in Nat, NEW h \in BOOLEAN, NEW lines, IsLog(lines), DOMAIN lines \subseteq 1..n,
         Older(lines), NEW t \in {Nl, Torn} \cup DOMAIN lines, NEW g \in BOOLEAN
  PROVE  IsFile(File(h, lines, t, g), n) /\ Older(File(h, lines, t, g).lines)
BY DEF IsFile, File

\* So is the file that does not exist yet.
LEMMA NoFileIsFile ==
  ASSUME NEW n \in Nat, NEW t \in {Nl, Torn}
  PROVE  IsFile(File(FALSE, NoEntries, t, FALSE), n) /\ Older(File(FALSE, NoEntries, t, FALSE).lines)
<1>1. IsLog(NoEntries) /\ DOMAIN NoEntries \subseteq 1..n /\ Older(NoEntries)
  BY EmptyLog DEF Older
<1> QED BY <1>1, FileOf

\* Whatever a death inside a write leaves is a file of older entries.
LEMMA RewriteCutIsFile ==
  ASSUME NEW n \in Nat, NEW log, IsLog(log), DOMAIN log \subseteq 1..n, Older(log),
         NEW f \in RewriteCut(log)
  PROVE  IsFile(f, n) /\ Older(f.lines)
<1>1. ASSUME NEW t \in {Nl, Torn}, f = File(FALSE, NoEntries, t, FALSE)
      PROVE  IsFile(f, n) /\ Older(f.lines)
  BY <1>1, NoFileIsFile
<1>2. ASSUME NEW k \in {None} \cup DOMAIN log, NEW t \in {Nl, Torn} \cup ({k} \cap DOMAIN log),
             f = File(TRUE, Only(log, 1..k), t, FALSE)
      PROVE  IsFile(f, n) /\ Older(f.lines)
  <2>1. k \in 0..n /\ (k \in DOMAIN log => k \in 1..k)
    BY DEF None
  <2>2. /\ IsLog(Only(log, 1..k)) /\ DOMAIN Only(log, 1..k) = DOMAIN log \cap (1..k)
        /\ \A j \in DOMAIN log \cap (1..k) : Only(log, 1..k)[j] = log[j]
    BY OnlyLog DEF Only
  <2>3. Older(Only(log, 1..k)) /\ t \in {Nl, Torn} \cup DOMAIN Only(log, 1..k)
    BY <2>1, <2>2 DEF Older
  <2> QED BY <1>2, <2>2, <2>3, FileOf
<1>3. \/ \E t \in {Nl, Torn} : f = File(FALSE, NoEntries, t, FALSE)
      \/ \E k \in {None} \cup DOMAIN log : \E t \in {Nl, Torn} \cup ({k} \cap DOMAIN log) :
           f = File(TRUE, Only(log, 1..k), t, FALSE)
  BY DEF RewriteCut
<1> QED BY <1>1, <1>2, <1>3

\* And what an append leaves, whether it finished or the process died in it.
LEMMA AppendFile ==
  ASSUME NEW n \in Nat, NEW f, IsFile(f, n), Older(f.lines), NEW i \in 1..n,
         NEW e \in Entry, e.parent < i, e.ref < i
  PROVE  /\ IsFile(Appended(f, i, e), n) /\ Older(Appended(f, i, e).lines)
         /\ \A g \in AppendCut(f, i, e) : IsFile(g, n) /\ Older(g.lines)
<1>1. /\ IsLog(f.lines) /\ i \in Nat \ {None} /\ DOMAIN f.lines \subseteq 1..n
  BY DEF IsFile, None
<1>2. /\ IsLog(With(f.lines, i, e)) /\ DOMAIN With(f.lines, i, e) = DOMAIN f.lines \cup {i}
      /\ With(f.lines, i, e)[i] = e
      /\ \A j \in DOMAIN f.lines \ {i} : With(f.lines, i, e)[j] = f.lines[j]
  BY <1>1, WithLog DEF With
<1>3. Older(With(f.lines, i, e))
  BY <1>2 DEF Older
<1>4. /\ IsLog(Glued(f)) /\ DOMAIN Glued(f) \subseteq DOMAIN f.lines
      /\ \A j \in DOMAIN Glued(f) : Glued(f)[j] = f.lines[j]
  BY <1>1, WithoutLog DEF Glued, Without
<1>5. Older(Glued(f))
  BY <1>4 DEF Older
<1>6. /\ f.header \in BOOLEAN /\ f.garbled \in BOOLEAN
      /\ DOMAIN Glued(f) \subseteq 1..n /\ DOMAIN With(f.lines, i, e) \subseteq 1..n
  BY <1>1, <1>2, <1>4 DEF IsFile
<1>7. IsFile(Appended(f, i, e), n) /\ Older(Appended(f, i, e).lines)
  BY <1>2, <1>3, <1>4, <1>5, FileOf, <1>6 DEF Appended
<1>8. ASSUME NEW g \in AppendCut(f, i, e)
      PROVE  IsFile(g, n) /\ Older(g.lines)
  <2>1. CASE g = f
    BY <2>1
  <2>2. CASE g = File(f.header, Glued(f), Torn, f.garbled)
    BY <2>2, <1>4, <1>5, FileOf, <1>6
  <2>3. CASE g = File(f.header, With(f.lines, i, e), i, f.garbled)
    BY <2>3, <1>2, <1>3, FileOf, <1>6
  <2> QED BY <1>8, <2>1, <2>2, <2>3 DEF AppendCut
<1> QED BY <1>7, <1>8

----------------------------------------------------------------------------
(* The writes preserve the invariant *)

\* _rewrite_file, finished or cut.
LEMMA RewriteSafe ==
  ASSUME NEW n \in 0..MaxId, nextId' = n + 1, NEW m, IsMemory(m, n), Older(m.entries),
         HasAssistant(m.entries) => m.flushed, up = TRUE, Rewrite(m)
  PROVE  IInv'
<1> USE MaxIdAssumption
<1>1. /\ IsLog(m.entries) /\ DOMAIN m.entries \subseteq 1..n
      /\ n \in Nat /\ nextId' - 1 = n /\ nextId' \in 1..(MaxId + 1)
  BY DEF IsMemory
<1>2. CASE mem' = m /\ file' = Rewritten(m.entries) /\ UNCHANGED up
  <2>1. IsFile(file', n) /\ Older(file'.lines) /\ file'.header /\ file'.lines = m.entries
    <3>1. file' = File(TRUE, m.entries, Nl, FALSE)
      BY <1>2 DEF Rewritten
    <3>2. file'.header /\ file'.lines = m.entries
      BY <3>1 DEF File
    <3> QED BY <1>1, <3>1, <3>2, FileOf
  <2>2. Agree(mem', file')
    BY <1>2, <2>1 DEF Agree, Within
  <2> QED BY <1>2, <2>1, <2>2 DEF IInv, Good
<1>3. CASE mem' = Blank /\ file' \in RewriteCut(m.entries) /\ up' = FALSE
  <2>1. IsFile(file', n) /\ Older(file'.lines)
    BY <1>1, <1>3, RewriteCutIsFile
  <2> QED BY <1>1, <1>3, <2>1, BlankMemory DEF IInv, Good
<1> QED BY <1>2, <1>3 DEF Rewrite, Write

\* _persist of one new entry.
LEMMA PersistSafe ==
  ASSUME IInv, up, nextId <= MaxId, nextId' = nextId + 1,
         NEW e \in Entry, e.parent < nextId, e.ref < nextId,
         NEW m, IsMemory(m, nextId), m.flushed = mem.flushed,
         m.entries = With(mem.entries, nextId, e), Persist(m, nextId)
  PROVE  IInv'
<1> USE MaxIdAssumption
<1>1. /\ nextId \in 1..MaxId /\ up = TRUE /\ Good(mem, file, nextId - 1) /\ Agree(mem, file)
      /\ nextId \notin DOMAIN mem.entries /\ nextId \notin DOMAIN file.lines
  BY DEF IInv, Good, IsMemory, IsFile
<1>2. /\ Older(m.entries) /\ DOMAIN m.entries = DOMAIN mem.entries \cup {nextId}
      /\ m.entries[nextId] = e
      /\ \A j \in DOMAIN mem.entries : m.entries[j] = mem.entries[j]
  BY <1>1 DEF With, Older, Good
<1>3. IsFile(file, nextId) /\ Older(file.lines)
  BY <1>1 DEF Good, IsFile
<1>4. HasAssistant(mem.entries) => HasAssistant(m.entries)
  BY <1>2 DEF HasAssistant, IdsOf
<1>5. CASE /\ ~HasAssistant(m.entries)
           /\ mem' = [m EXCEPT !.flushed = FALSE]
           /\ UNCHANGED <<file, up>>
  <2>1. /\ IsMemory(mem', nextId) /\ mem'.entries = m.entries /\ mem'.flushed = FALSE
    BY <1>5 DEF IsMemory
  <2>2. Agree(mem', file)
    BY <1>1, <1>2, <1>5, <2>1 DEF Agree, Within
  <2> QED BY <1>1, <1>2, <1>3, <1>5, <2>1, <2>2 DEF IInv, Good
<1>6. CASE /\ HasAssistant(m.entries) /\ ~m.flushed
           /\ Rewrite([m EXCEPT !.flushed = TRUE])
  <2>1. PICK fm : fm = [m EXCEPT !.flushed = TRUE]
    OBVIOUS
  <2>2. IsMemory(fm, nextId) /\ fm.entries = m.entries /\ fm.flushed = TRUE
    BY <2>1 DEF IsMemory
  <2>3. Rewrite(fm)
    BY <1>6, <2>1
  <2>4. nextId \in 0..MaxId /\ Older(fm.entries) /\ up = TRUE
    BY <1>1, <1>2, <2>2
  <2> QED BY <2>2, <2>3, <2>4, RewriteSafe
<1>7. CASE /\ HasAssistant(m.entries) /\ m.flushed
           /\ Write(m, Appended(file, nextId, m.entries[nextId]),
                     AppendCut(file, nextId, m.entries[nextId]))
  <2>1. /\ IsFile(Appended(file, nextId, e), nextId) /\ Older(Appended(file, nextId, e).lines)
        /\ \A g \in AppendCut(file, nextId, e) : IsFile(g, nextId) /\ Older(g.lines)
    BY <1>1, <1>3, AppendFile
  <2>2. CASE mem' = m /\ file' = Appended(file, nextId, e) /\ UNCHANGED up
    <3>1. CASE file.tail = Nl
      <4>1. /\ file'.lines = With(file.lines, nextId, e)
            /\ file'.header = file.header /\ file'.garbled = file.garbled
        BY <2>2, <3>1 DEF Appended, File
      <4>2. Within(file'.lines, m.entries)
        BY <1>1, <1>2, <4>1 DEF Agree, Within, With
      <4>3. ~file.garbled => file.header /\ file'.lines = m.entries
        BY <1>1, <1>7, <4>1 DEF Agree
      <4> QED BY <1>1, <1>2, <1>7, <2>1, <2>2, <4>1, <4>2, <4>3 DEF IInv, Good, Agree
    <3>2. CASE file.tail # Nl
      <4>1. file'.lines = Glued(file) /\ file'.garbled = TRUE /\ file'.header = file.header
        BY <2>2, <3>2 DEF Appended, File
      <4>2. Within(file'.lines, m.entries)
        BY <1>1, <1>2, <4>1 DEF Agree, Within, Glued, Without
      <4>3. Agree(m, file')
        BY <1>1, <1>7, <4>1, <4>2 DEF Agree
      <4> QED BY <1>1, <1>2, <2>1, <2>2, <4>3 DEF IInv, Good
    <3> QED BY <3>1, <3>2
  <2>3. CASE mem' = Blank /\ file' \in AppendCut(file, nextId, e) /\ up' = FALSE
    <3>1. nextId \in Nat /\ nextId' - 1 = nextId /\ nextId' \in 1..(MaxId + 1)
      BY <1>1
    <3> QED BY <2>1, <2>3, <3>1, BlankMemory DEF IInv, Good
  <2> QED BY <1>2, <1>7, <2>2, <2>3 DEF Write
<1> QED BY <1>5, <1>6, <1>7 DEF Persist

\* _append_entry, from a memory that differs from the manager's only in what
\* the operation has set before it.
LEMMA AppendEntrySafe ==
  ASSUME IInv, NEW m, IsMemory(m, nextId), m.entries = mem.entries, m.flushed = mem.flushed,
         NEW kind \in Kinds, NEW parent \in 0..(nextId - 1), NEW ref \in 0..(nextId - 1),
         AppendEntry(m, kind, parent, ref)
  PROVE  IInv'
<1>1. PICK e : e = NewEntry(kind, parent, ref)
  OBVIOUS
<1>2. nextId \in 1..(MaxId + 1) /\ up /\ nextId <= MaxId /\ nextId' = nextId + 1
  BY DEF IInv, AppendEntry, Ready
<1>3. e \in Entry /\ e.parent < nextId /\ e.ref < nextId
  BY <1>1, <1>2, MaxIdAssumption DEF NewEntry, Entry
<1>4. PICK mm : mm = [m EXCEPT !.entries = With(m.entries, nextId, e), !.leaf = nextId]
  OBVIOUS
<1>5. Persist(mm, nextId)
  BY <1>1, <1>4 DEF AppendEntry
<1>6. /\ IsLog(m.entries) /\ DOMAIN m.entries \subseteq 1..nextId /\ nextId \in Nat \ {None}
      /\ nextId \in 1..nextId
  BY <1>2, MaxIdAssumption DEF IsMemory, None
<1>7. IsLog(With(m.entries, nextId, e)) /\ DOMAIN With(m.entries, nextId, e) \subseteq 1..nextId
  BY <1>3, <1>6, WithLog DEF With
<1>8. /\ mm.entries = With(mem.entries, nextId, e) /\ mm.flushed = mem.flushed
      /\ IsMemory(mm, nextId)
  <2>1. mm = [entries |-> With(m.entries, nextId, e), leaf |-> nextId, labels |-> m.labels,
              flushed |-> m.flushed, turn |-> m.turn]
    BY <1>4 DEF IsMemory
  <2> QED BY <1>6, <1>7, <2>1 DEF IsMemory
<1> QED BY <1>2, <1>3, <1>5, <1>8, PersistSafe

----------------------------------------------------------------------------
(* What a restart rebuilds *)

\* The leaf and the labels rebuilt from a log name entries the log knows.
LEMMA BuildType ==
  ASSUME NEW n \in Nat, NEW log, IsLog(log), DOMAIN log \subseteq 1..n, Older(log)
  PROVE  BuildLeaf(log) \in 0..n /\ BuildLabels(log) \subseteq 0..n
<1>1. \A i \in DOMAIN log : i \in 1..n /\ log[i].ref \in 0..n
  BY DEF IsLog, Entry, Older
<1>2. Newest(DOMAIN log) \in DOMAIN log \cup {None}
  BY <1>1, NewestType
<1>3. BuildLeaf(log) \in 0..n
  BY <1>1, <1>2 DEF BuildLeaf, None
<1>4. BuildLabels(log) \subseteq 0..n
  BY <1>1 DEF BuildLabels, IdsOf
<1> QED BY <1>3, <1>4

\* Memory loaded from a file of older entries agrees with it.
LEMMA LoadedMemory ==
  ASSUME NEW n \in Nat, IsFile(file, n), Older(file.lines), file.header, mem.turn \in 0..n
  PROVE  /\ IsMemory(Loaded(file), n) /\ Loaded(file).entries = file.lines
         /\ Agree(Loaded(file), file)
<1>1. IsLog(file.lines) /\ DOMAIN file.lines \subseteq 1..n
  BY DEF IsFile
<1>2. BuildLeaf(file.lines) \in 0..n /\ BuildLabels(file.lines) \subseteq 0..n
  BY <1>1, BuildType
<1>3. IsMemory(Loaded(file), n) /\ Loaded(file).entries = file.lines /\ Loaded(file).flushed = TRUE
  BY <1>1, <1>2 DEF IsMemory, Loaded
<1> QED BY <1>3 DEF Agree, Within

----------------------------------------------------------------------------
(* create_branched_session *)

\* The log of a branched session is a log whose entries point back.
LEMMA RelabelledLog ==
  ASSUME NEW n \in Nat, NEW k \in Nat, NEW log, IsLog(log), DOMAIN log \subseteq 1..n, Older(log),
         NEW target, target \in [(n + 1)..(n + k) -> DOMAIN log]
  PROVE  /\ IsLog(Relabelled(log, target)) /\ DOMAIN Relabelled(log, target) \subseteq 1..(n + k)
         /\ Older(Relabelled(log, target))
<1> DEFINE path == {i \in DOMAIN log : log[i].kind \notin {"label", "unlabel"}}
           new  == (n + 1)..(n + k)
           par(i) == Newest({j \in path \cup new : j < i})
<1>1. DOMAIN target = new /\ \A i \in new : target[i] \in 1..n
  OBVIOUS
<1>2. Relabelled(log, target) =
        [i \in path \cup new |-> IF i \in new THEN NewEntry("label", par(i), target[i]) ELSE log[i]]
  BY <1>1 DEF Relabelled
<1>3. \A i \in new : par(i) \in 0..(i - 1)
  <2> TAKE i \in new
  <2>1. {j \in path \cup new : j < i} \subseteq 1..(i - 1)
    OBVIOUS
  <2>2. 1..(i - 1) \subseteq Nat
    OBVIOUS
  <2>3. par(i) \in {j \in path \cup new : j < i} \cup {None}
    BY <2>1, <2>2, NewestType
  <2> QED BY <2>1, <2>3 DEF None
<1> HIDE DEF par
<1>4. \A i \in new : /\ NewEntry("label", par(i), target[i]) \in Entry
                     /\ NewEntry("label", par(i), target[i]).parent < i
                     /\ NewEntry("label", par(i), target[i]).ref < i
  BY <1>1, <1>3 DEF NewEntry, Entry, Kinds, NavKinds
<1>5. \A i \in path : i \in 1..n /\ log[i] \in Entry /\ log[i].parent < i /\ log[i].ref < i
  BY DEF IsLog, Older
<1>6. path \cup new \subseteq 1..(n + k) /\ path \cup new \subseteq Nat \ {None}
  BY DEF None
<1> HIDE DEF path, new
<1> QED BY <1>2, <1>4, <1>5, <1>6 DEF IsLog, Older

\* create_branched_session, with names for what it computes on the way.
BranchSteps(from, path, kept, k, target, log, m) ==
  /\ path = Only(mem.entries, Branch(mem.entries, from))
  /\ kept = {i \in DOMAIN path : path[i].kind \notin {"label", "unlabel"}} \cap mem.labels
  /\ k = Cardinality(kept)
  /\ up /\ nextId + k <= MaxId + 1 /\ nextId' = nextId + k
  /\ target \in [nextId..(nextId + k - 1) -> kept]
  /\ log = Relabelled(path, target)
  /\ m = [mem EXCEPT !.entries = log, !.leaf = BuildLeaf(log),
                     !.labels = BuildLabels(log), !.flushed = HasAssistant(log)]
  /\ IF HasAssistant(log) THEN Rewrite(m) ELSE mem' = m /\ file' = NoFile /\ UNCHANGED up

LEMMA BranchedSession ==
  CreateBranchedSession =>
    \E from, path, kept, k, target, log, m : BranchSteps(from, path, kept, k, target, log, m)
<1> SUFFICES ASSUME CreateBranchedSession
             PROVE  \E from, path, kept, k, target, log, m :
                      BranchSteps(from, path, kept, k, target, log, m)
  OBVIOUS
<1>1. PICK from \in DOMAIN mem.entries :
        LET path == Only(mem.entries, Branch(mem.entries, from))
            kept == {i \in DOMAIN path : path[i].kind \notin {"label", "unlabel"}} \cap mem.labels
            new  == nextId..(nextId + Cardinality(kept) - 1)
        IN  /\ up /\ nextId + Cardinality(kept) <= MaxId + 1
            /\ nextId' = nextId + Cardinality(kept)
            /\ \E target \in [new -> kept] :
                 LET log == Relabelled(path, target)
                     m   == [mem EXCEPT !.entries = log, !.leaf = BuildLeaf(log),
                                        !.labels = BuildLabels(log), !.flushed = HasAssistant(log)]
                 IN  /\ {target[i] : i \in new} = kept
                     /\ IF HasAssistant(log) THEN Rewrite(m)
                        ELSE mem' = m /\ file' = NoFile /\ UNCHANGED up
  BY DEF CreateBranchedSession
<1>2. PICK path : path = Only(mem.entries, Branch(mem.entries, from))
  OBVIOUS
<1>3. PICK kept : kept = {i \in DOMAIN path : path[i].kind \notin {"label", "unlabel"}} \cap mem.labels
  OBVIOUS
<1>4. PICK k : k = Cardinality(kept)
  OBVIOUS
<1>5. /\ up /\ nextId + k <= MaxId + 1 /\ nextId' = nextId + k
      /\ \E target \in [nextId..(nextId + k - 1) -> kept] :
           LET log == Relabelled(path, target)
               m   == [mem EXCEPT !.entries = log, !.leaf = BuildLeaf(log),
                                  !.labels = BuildLabels(log), !.flushed = HasAssistant(log)]
           IN  /\ {target[i] : i \in nextId..(nextId + k - 1)} = kept
               /\ IF HasAssistant(log) THEN Rewrite(m)
                  ELSE mem' = m /\ file' = NoFile /\ UNCHANGED up
  BY <1>1, <1>2, <1>3, <1>4
<1>6. PICK target \in [nextId..(nextId + k - 1) -> kept] :
        LET log == Relabelled(path, target)
            m   == [mem EXCEPT !.entries = log, !.leaf = BuildLeaf(log),
                               !.labels = BuildLabels(log), !.flushed = HasAssistant(log)]
        IN  IF HasAssistant(log) THEN Rewrite(m)
            ELSE mem' = m /\ file' = NoFile /\ UNCHANGED up
  BY <1>5
<1>7. PICK log : log = Relabelled(path, target)
  OBVIOUS
<1>8. PICK m : m = [mem EXCEPT !.entries = log, !.leaf = BuildLeaf(log),
                               !.labels = BuildLabels(log), !.flushed = HasAssistant(log)]
  OBVIOUS
<1>9. IF HasAssistant(log) THEN Rewrite(m) ELSE mem' = m /\ file' = NoFile /\ UNCHANGED up
  BY <1>6, <1>7, <1>8
<1>10. BranchSteps(from, path, kept, k, target, log, m)
  BY <1>2, <1>3, <1>4, <1>5, <1>6, <1>7, <1>8, <1>9 DEF BranchSteps
<1> QED BY <1>10

----------------------------------------------------------------------------
(* The invariant *)

\* IInv holds of a fresh manager without a file.
LEMMA InitSafe == Init => IInv
<1> SUFFICES ASSUME Init PROVE IInv
  OBVIOUS
<1>1. /\ IsMemory(Blank, 0) /\ Older(Blank.entries)
      /\ IsFile(NoFile, 0) /\ Older(NoFile.lines)
  BY BlankMemory, NoFileIsFile DEF NoFile
<1>2. Agree(Blank, NoFile)
  BY EmptyLog DEF Agree, Within, Blank, NoFile, File
<1> QED BY <1>1, <1>2, MaxIdAssumption DEF Init, IInv, Good

\* IInv is inductive: one case per operation, restart and death.
LEMMA NextSafe == IInv /\ [Next]_vars => IInv'
<1> SUFFICES ASSUME IInv, [Next]_vars PROVE IInv'
  OBVIOUS
<1> USE MaxIdAssumption
<1>n. PICK n : n = nextId - 1
  OBVIOUS
<1>0. /\ n \in 0..MaxId /\ n \in Nat /\ nextId = n + 1 /\ nextId \in 1..(MaxId + 1)
      /\ up \in BOOLEAN
      /\ IsMemory(mem, n) /\ IsFile(file, n) /\ Older(mem.entries) /\ Older(file.lines)
      /\ up => Agree(mem, file)
  BY <1>n DEF IInv, Good
<1>a. /\ mem.leaf \in 0..n /\ mem.turn \in 0..n /\ mem.labels \subseteq 0..n
      /\ IsLog(mem.entries) /\ DOMAIN mem.entries \subseteq 1..n /\ mem.flushed \in BOOLEAN
      /\ mem = [entries |-> mem.entries, leaf |-> mem.leaf, labels |-> mem.labels,
                flushed |-> mem.flushed, turn |-> mem.turn]
      /\ IsMemory(mem, nextId) /\ 0..n = 0..(nextId - 1) /\ 0 \in 0..n
  BY <1>0 DEF IsMemory
<1>b. ASSUME nextId' = nextId, IsMemory(mem', n), Older(mem'.entries),
             IsFile(file', n), Older(file'.lines), up' \in BOOLEAN, up' => Agree(mem', file')
      PROVE  IInv'
  BY <1>0, <1>b DEF IInv, Good
<1>c. ASSUME nextId' = nextId, NEW m, IsMemory(m, n), Older(m.entries),
             HasAssistant(m.entries) => m.flushed, up = TRUE, Rewrite(m)
      PROVE  IInv'
  BY <1>0, <1>c, RewriteSafe
<1>1. CASE BeginTurn
  <2>1. PICK m : m = [mem EXCEPT !.turn = nextId]
    OBVIOUS
  <2>2. m = [entries |-> mem.entries, leaf |-> mem.leaf, labels |-> mem.labels,
             flushed |-> mem.flushed, turn |-> nextId]
    BY <1>a, <2>1
  <2>3. IsMemory(m, nextId) /\ m.entries = mem.entries /\ m.flushed = mem.flushed
    BY <1>0, <1>a, <2>2 DEF IsMemory
  <2>4. AppendEntry(m, "user", mem.leaf, None)
    BY <1>1, <2>1 DEF BeginTurn
  <2> QED BY <1>a, <2>3, <2>4, AppendEntrySafe DEF Kinds, MessageKinds, None
<1>2. CASE TurnMessage
  BY <1>2, <1>a, AppendEntrySafe DEF TurnMessage, Kinds, MessageKinds, AssistantKinds, None
<1>3. CASE EndTurn
  <2>1. mem' = [entries |-> mem.entries, leaf |-> mem.leaf, labels |-> mem.labels,
                flushed |-> mem.flushed, turn |-> None]
    BY <1>3, <1>a DEF EndTurn
  <2>2. IsMemory(mem', n) /\ mem'.entries = mem.entries /\ mem'.flushed = mem.flushed
    BY <1>a, <2>1 DEF IsMemory, None
  <2>3. Agree(mem', file)
    BY <1>0, <1>3, <2>2 DEF Agree, EndTurn
  <2> QED BY <1>0, <1>3, <1>b, <2>2, <2>3 DEF EndTurn
<1>4. CASE AppendInfo
  BY <1>4, <1>a, AppendEntrySafe DEF AppendInfo, Kinds, None
<1>18. CASE AppendCustomMessage
  BY <1>18, <1>a, AppendEntrySafe DEF AppendCustomMessage, Kinds, None
<1>5. CASE AppendCompaction
  <2>1. PICK kept \in DOMAIN mem.entries : AppendEntry(mem, "compaction", mem.leaf, kept)
    BY <1>5 DEF AppendCompaction, IdsOf
  <2>2. kept \in 0..(nextId - 1)
    BY <1>0, <1>a
  <2> QED BY <1>a, <2>1, <2>2, AppendEntrySafe DEF Kinds
<1>6. CASE AppendLabelChange
  <2>1. PICK t \in DOMAIN mem.entries :
          \/ AppendEntry([mem EXCEPT !.labels = @ \cup {t}], "label", mem.leaf, t)
          \/ AppendEntry([mem EXCEPT !.labels = @ \ {t}], "unlabel", mem.leaf, t)
    BY <1>6 DEF AppendLabelChange
  <2>2. t \in 0..n /\ t \in 0..(nextId - 1)
    BY <1>0, <1>a
  <2>3. ASSUME NEW labels \in SUBSET (0..n), NEW kind \in {"label", "unlabel"},
               AppendEntry([mem EXCEPT !.labels = labels], kind, mem.leaf, t)
        PROVE  IInv'
    <3>1. PICK m : m = [mem EXCEPT !.labels = labels]
      OBVIOUS
    <3>2. m = [entries |-> mem.entries, leaf |-> mem.leaf, labels |-> labels,
               flushed |-> mem.flushed, turn |-> mem.turn]
      BY <1>a, <3>1
    <3>3. IsMemory(m, nextId) /\ m.entries = mem.entries /\ m.flushed = mem.flushed
      BY <1>0, <1>a, <3>2 DEF IsMemory
    <3>4. AppendEntry(m, kind, mem.leaf, t)
      BY <2>3, <3>1
    <3> QED BY <1>a, <2>2, <3>3, <3>4, AppendEntrySafe DEF Kinds, NavKinds
  <2>4. (mem.labels \cup {t}) \in SUBSET (0..n) /\ (mem.labels \ {t}) \in SUBSET (0..n)
    BY <1>a, <2>2
  <2> QED BY <2>1, <2>3, <2>4
<1>7. CASE PatchMeta
  <2>1. up = TRUE /\ nextId' = nextId /\ Rewrite(mem) /\ (HasAssistant(mem.entries) => mem.flushed)
    BY <1>0, <1>7 DEF PatchMeta, Agree
  <2> QED BY <1>0, <1>c, <2>1
<1>8. CASE BranchTo
  <2>1. PICK t \in DOMAIN mem.entries :
          /\ Ready /\ nextId' = nextId + 1
          /\ Persist([mem EXCEPT !.entries = With(@, nextId, NewEntry("leaf", mem.leaf, t)),
                                 !.leaf = t], nextId)
    BY <1>8 DEF BranchTo
  <2>2. PICK e : e = NewEntry("leaf", mem.leaf, t)
    OBVIOUS
  <2>3. e \in Entry /\ e.parent < nextId /\ e.ref < nextId /\ t \in 0..nextId
    BY <1>0, <1>a, <2>2 DEF NewEntry, Entry, Kinds, NavKinds
  <2>4. PICK m : m = [mem EXCEPT !.entries = With(@, nextId, e), !.leaf = t]
    OBVIOUS
  <2>5. m = [entries |-> With(mem.entries, nextId, e), leaf |-> t, labels |-> mem.labels,
             flushed |-> mem.flushed, turn |-> mem.turn]
    BY <1>a, <2>4
  <2>6. nextId \in Nat \ {None} /\ nextId \in 1..nextId /\ DOMAIN mem.entries \subseteq 1..nextId
    BY <1>0, <1>a DEF None
  <2>7. IsLog(With(mem.entries, nextId, e)) /\ DOMAIN With(mem.entries, nextId, e) \subseteq 1..nextId
    <3>1. IsLog(With(mem.entries, nextId, e))
      BY <1>a, <2>3, <2>6, WithLog
    <3>2. DOMAIN With(mem.entries, nextId, e) \subseteq 1..nextId
      BY <2>6 DEF With
    <3> QED BY <3>1, <3>2
  <2>8. /\ IsMemory(m, nextId) /\ m.flushed = mem.flushed
        /\ m.entries = With(mem.entries, nextId, e)
    <3>1. mem.turn \in 0..nextId /\ mem.labels \subseteq 0..nextId
      BY <1>0, <1>a
    <3> QED BY <1>a, <2>3, <2>5, <2>7, <3>1 DEF IsMemory
  <2>9. up /\ nextId <= MaxId /\ Persist(m, nextId)
    BY <2>1, <2>2, <2>4 DEF Ready
  <2> QED BY <2>1, <2>3, <2>8, <2>9, PersistSafe
<1>9. CASE BranchWithSummary
  <2>1. PICK from \in DOMAIN mem.entries \cup {None} : AppendEntry(mem, "branch", from, None)
    BY <1>9 DEF BranchWithSummary
  <2>2. from \in 0..(nextId - 1) /\ None \in 0..(nextId - 1)
    BY <1>0, <1>a DEF None
  <2> QED BY <1>a, <2>1, <2>2, AppendEntrySafe DEF Kinds
<1>11. CASE RemoveMessage
  <2>1. up = TRUE /\ nextId' = nextId
    BY <1>0, <1>11 DEF RemoveMessage
  <2>2. CASE mem.turn \in IdsOf(mem.entries, MessageKinds)
    <3>1. PICK rest : rest = Without(mem.entries, mem.turn)
      OBVIOUS
    <3>2. PICK lf : lf = IF mem.leaf = mem.turn THEN Newest(IdsOf(rest, MessageKinds)) ELSE mem.leaf
      OBVIOUS
    <3>3. PICK m : m = [Removed(mem, mem.turn) EXCEPT !.turn = None]
      OBVIOUS
    <3>4. m = [entries |-> rest, leaf |-> lf, labels |-> mem.labels \ {mem.turn},
               flushed |-> mem.flushed, turn |-> None]
      BY <1>a, <3>1, <3>2, <3>3 DEF Removed, LeafWithout
    <3>5. /\ IsLog(rest) /\ DOMAIN rest \subseteq DOMAIN mem.entries
          /\ \A j \in DOMAIN rest : rest[j] = mem.entries[j]
      BY <1>a, <3>1, WithoutLog DEF Without
    <3>6. lf \in 0..n
      <4>1. IdsOf(rest, MessageKinds) \subseteq 1..n
        BY <1>a, <3>5 DEF IdsOf
      <4>2. Newest(IdsOf(rest, MessageKinds)) \in 1..n \cup {None}
        BY <1>0, <4>1, NewestType
      <4> QED BY <1>0, <1>a, <3>2, <4>2 DEF None
    <3>7. IsMemory(m, n) /\ m.entries = rest /\ m.flushed = mem.flushed
      <4>1. /\ DOMAIN rest \subseteq 1..n /\ mem.labels \ {mem.turn} \subseteq 0..n
            /\ None \in 0..n
        BY <1>a, <3>5 DEF None
      <4> QED BY <1>a, <3>4, <3>5, <3>6, <4>1 DEF IsMemory
    <3>8. Older(rest) /\ (HasAssistant(rest) => mem.flushed)
      BY <1>0, <2>1, <3>5 DEF Older, HasAssistant, IdsOf, Agree
    <3>9. Rewrite(m)
      BY <1>11, <2>2, <3>3 DEF RemoveMessage
    <3> QED BY <1>c, <2>1, <3>7, <3>8, <3>9
  <2>3. CASE mem.turn \notin IdsOf(mem.entries, MessageKinds)
    <3>1. mem' = [entries |-> mem.entries, leaf |-> mem.leaf, labels |-> mem.labels,
                  flushed |-> mem.flushed, turn |-> None] /\ UNCHANGED <<file, up>>
      BY <1>11, <1>a, <2>3 DEF RemoveMessage
    <3>2. IsMemory(mem', n) /\ mem'.entries = mem.entries /\ mem'.flushed = mem.flushed
      BY <1>a, <3>1 DEF IsMemory, None
    <3>3. Agree(mem', file)
      BY <1>0, <2>1, <3>2 DEF Agree
    <3> QED BY <1>0, <1>b, <2>1, <3>1, <3>2, <3>3
  <2> QED BY <2>2, <2>3
<1>12. CASE NewSession
  <2>1. mem' = [entries |-> NoEntries, leaf |-> None, labels |-> {},
                flushed |-> FALSE, turn |-> mem.turn]
    BY <1>12 DEF NewSession, Blank
  <2>2. /\ IsMemory(mem', n) /\ Older(mem'.entries) /\ mem'.entries = NoEntries
        /\ mem'.flushed = FALSE
    BY <1>a, <2>1, EmptyLog DEF IsMemory, Older, None
  <2>3. IsFile(file', n) /\ Older(file'.lines) /\ file'.lines = NoEntries
    BY <1>0, <1>12, NoFileIsFile DEF NewSession, NoFile, File
  <2>4. Agree(mem', file')
    BY <2>2, <2>3, EmptyLog DEF Agree, Within
  <2> QED BY <1>0, <1>12, <1>b, <2>2, <2>3, <2>4 DEF NewSession
<1>13. CASE CreateBranchedSession
  <2>p. PICK from, path, kept, k, target, log, m : BranchSteps(from, path, kept, k, target, log, m)
    BY <1>13, BranchedSession
  <2>1. /\ path = Only(mem.entries, Branch(mem.entries, from))
        /\ kept = {i \in DOMAIN path : path[i].kind \notin {"label", "unlabel"}} \cap mem.labels
        /\ k = Cardinality(kept)
        /\ up /\ nextId + k <= MaxId + 1 /\ nextId' = nextId + k
        /\ target \in [nextId..(nextId + k - 1) -> kept]
        /\ log = Relabelled(path, target)
        /\ m = [mem EXCEPT !.entries = log, !.leaf = BuildLeaf(log),
                           !.labels = BuildLabels(log), !.flushed = HasAssistant(log)]
        /\ IF HasAssistant(log) THEN Rewrite(m) ELSE mem' = m /\ file' = NoFile /\ UNCHANGED up
    BY <2>p DEF BranchSteps
  <2>2. /\ IsLog(path) /\ DOMAIN path \subseteq DOMAIN mem.entries
         /\ \A j \in DOMAIN path : path[j] = mem.entries[j]
    BY <1>a, <2>1, OnlyLog DEF Only
  <2>3. DOMAIN path \subseteq 1..n /\ Older(path) /\ kept \subseteq DOMAIN path /\ kept \subseteq 1..n
    BY <1>0, <1>a, <2>1, <2>2 DEF Older
  <2>4. k \in Nat
    <3>1. IsFiniteSet(1..n)
      BY <1>0, FS_Interval
    <3>2. IsFiniteSet(kept)
      BY <2>3, <3>1, FS_Subset
    <3> QED BY <2>1, <3>2, FS_CardinalityType
  <2>5. target \in [(n + 1)..(n + k) -> DOMAIN path]
    <3>1. nextId..(nextId + k - 1) = (n + 1)..(n + k)
      BY <1>0, <2>4
    <3> QED BY <2>1, <2>3, <3>1
  <2>6. IsLog(log) /\ DOMAIN log \subseteq 1..(n + k) /\ Older(log)
    BY <1>0, <2>1, <2>2, <2>3, <2>4, <2>5, RelabelledLog
  <2>7. BuildLeaf(log) \in 0..(n + k) /\ BuildLabels(log) \subseteq 0..(n + k)
    BY <1>0, <2>4, <2>6, BuildType
  <2>8. m = [entries |-> log, leaf |-> BuildLeaf(log), labels |-> BuildLabels(log),
              flushed |-> HasAssistant(log), turn |-> mem.turn]
    BY <1>a, <2>1
  <2>9. IsMemory(m, n + k) /\ m.entries = log /\ m.flushed = HasAssistant(log)
    <3>1. mem.turn \in 0..(n + k) /\ HasAssistant(log) \in BOOLEAN
      BY <1>0, <1>a, <2>4 DEF HasAssistant
    <3> QED BY <2>6, <2>7, <2>8, <3>1 DEF IsMemory
  <2>10. /\ n + k \in 0..MaxId /\ n + k \in Nat /\ nextId' = (n + k) + 1 /\ up = TRUE
         /\ nextId' - 1 = n + k /\ nextId' \in 1..(MaxId + 1)
    BY <1>0, <2>1, <2>4
  <2>11. CASE HasAssistant(log)
    BY <2>1, <2>6, <2>9, <2>10, <2>11, RewriteSafe
  <2>12. CASE ~HasAssistant(log)
    <3>1. mem' = m /\ file' = NoFile /\ up' = TRUE
      BY <2>1, <2>10, <2>12
    <3>2. IsFile(file', n + k) /\ Older(file'.lines) /\ file'.lines = NoEntries
      BY <2>10, <3>1, NoFileIsFile DEF NoFile, File
    <3>3. Agree(mem', file')
      BY <2>9, <2>12, <3>1, <3>2, EmptyLog DEF Agree, Within
    <3> QED BY <2>6, <2>9, <2>10, <3>1, <3>2, <3>3 DEF IInv, Good
  <2> QED BY <2>11, <2>12
<1>14. CASE ForkFrom
  <2>1. IsLog(file.lines) /\ DOMAIN file.lines \subseteq 1..n /\ file.header
    BY <1>0, <1>14 DEF IsFile, ForkFrom
  <2>2. /\ mem' = [entries |-> file.lines, leaf |-> BuildLeaf(file.lines),
                   labels |-> BuildLabels(file.lines), flushed |-> TRUE, turn |-> None]
        /\ file' = File(TRUE, file.lines, Nl, FALSE)
    BY <1>14 DEF ForkFrom, Loaded, Rewritten
  <2>3. IsMemory(mem', n) /\ mem'.entries = file.lines /\ mem'.flushed = TRUE
    BY <1>0, <1>a, <2>1, <2>2, BuildType DEF IsMemory, None
  <2>4. IsFile(file', n) /\ Older(file'.lines) /\ file'.header /\ file'.lines = file.lines
    BY <1>0, <2>1, <2>2, FileOf DEF File
  <2>5. Agree(mem', file')
    BY <2>3, <2>4 DEF Agree, Within
  <2> QED BY <1>0, <1>14, <1>b, <2>3, <2>4, <2>5 DEF ForkFrom
<1>15. CASE SetSession
  <2>1. CASE file.header /\ mem' = Loaded(file) /\ up' = TRUE /\ UNCHANGED file
    BY <1>0, <1>a, <1>b, <1>15, <2>1, LoadedMemory DEF SetSession
  <2>2. CASE mem' = [Blank EXCEPT !.flushed = TRUE] /\ file' = Rewritten(NoEntries) /\ up' = TRUE
    <3>1. mem' = [entries |-> NoEntries, leaf |-> None, labels |-> {},
                  flushed |-> TRUE, turn |-> None] /\ file' = File(TRUE, NoEntries, Nl, FALSE)
      BY <2>2 DEF Blank, Rewritten
    <3>2. /\ IsMemory(mem', n) /\ Older(mem'.entries) /\ mem'.entries = NoEntries
          /\ mem'.flushed = TRUE
      BY <1>a, <3>1, EmptyLog DEF IsMemory, Older, None
    <3>3. IsFile(file', n) /\ Older(file'.lines) /\ file'.lines = NoEntries /\ file'.header
      <4>1. IsLog(NoEntries) /\ DOMAIN NoEntries \subseteq 1..n /\ Older(NoEntries)
        BY EmptyLog DEF Older
      <4>2. IsFile(File(TRUE, NoEntries, Nl, FALSE), n)
        BY <1>0, <4>1, FileOf
      <4>3. file'.lines = NoEntries /\ file'.header
        BY <3>1 DEF File
      <4> QED BY <3>1, <4>1, <4>2, <4>3
    <3>4. Agree(mem', file')
      BY <3>2, <3>3 DEF Agree, Within
    <3> QED BY <1>0, <1>15, <1>b, <2>2, <3>2, <3>3, <3>4 DEF SetSession
  <2>3. CASE mem' = Blank /\ file' \in RewriteCut(NoEntries) /\ up' = FALSE
    <3>1. IsLog(NoEntries) /\ DOMAIN NoEntries \subseteq 1..n /\ Older(NoEntries)
      BY EmptyLog DEF Older
    <3>2. IsFile(file', n) /\ Older(file'.lines)
      BY <1>0, <2>3, <3>1, RewriteCutIsFile
    <3> QED BY <1>0, <1>15, <1>b, <2>3, <3>2, BlankMemory DEF SetSession
  <2> QED BY <1>0, <1>15, <2>1, <2>2, <2>3 DEF SetSession
<1>16. CASE Crash
  BY <1>0, <1>16, <1>b, BlankMemory DEF Crash
<1>17. CASE UNCHANGED vars
  BY <1>17 DEF vars, IInv, Good, Agree
<1> QED BY <1>1, <1>2, <1>3, <1>4, <1>5, <1>6, <1>7, <1>8, <1>9, <1>11, <1>12, <1>13,
           <1>14, <1>15, <1>16, <1>17, <1>18 DEF Next

\* Every reachable memory and file satisfies the inductive invariant.
THEOREM Invariance == Spec => []IInv
<1>1. Init => IInv
  BY InitSafe
<1>2. IInv /\ [Next]_vars => IInv'
  BY NextSafe
<1> QED BY <1>1, <1>2, PTL DEF Spec

\* The memory and the file name only entries that were created, and the manager
\* appends only to a file that has its header (_persist, new_session).
THEOREM TypeCorrect == Spec => []TypeOK
BY Invariance, IInvImplies, PTL

\* Whatever operations, crashes and restarts came before, every answer of the
\* model is on disk, with all the entries around it, unless a crash has
\* garbled the file (_persist, _rewrite_file, set_session).
THEOREM AnswersStayOnDisk == Spec => []AnswersOnDisk
BY Invariance, IInvImplies, PTL

\* The file never holds an entry that memory does not: what remove_message
\* rolled back does not come back at the next start.
THEOREM RollbackIsFinal == Spec => []NothingResurrected
BY Invariance, IInvImplies, PTL

\* Parent links and references lead to older entries in memory and on disk, the
\* new label entries of create_branched_session included, so get_branch never
\* meets an id twice and cuts no branch for it.
THEOREM LogIsWellFounded == Spec => []ParentsOlder
BY Invariance, IInvImplies, PTL

----------------------------------------------------------------------------
(* What memory holds is what a restart would rebuild *)

\* The labels of memory m are those _build_index finds in its log.
Rebuilt(m) == \A i \in DOMAIN m.entries : i \in m.labels <=> i \in BuildLabels(m.entries)

\* A log that a restart reads back rebuilds to what the restart has read.
LEMMA LoadedRebuilt ==
  ASSUME NEW m, m.labels = BuildLabels(m.entries)
  PROVE  Rebuilt(m)
BY DEF Rebuilt

\* So does the empty log.
LEMMA EmptyRebuilt == Rebuilt(Blank) /\ Blank.leaf = BuildLeaf(Blank.entries)
<1>1. Blank.entries = NoEntries /\ Blank.leaf = None /\ Blank.labels = {}
  BY DEF Blank
<1>2. BuildLeaf(NoEntries) = None
  BY EmptyLog, NewestOfNone DEF BuildLeaf
<1> QED BY <1>1, <1>2, EmptyLog DEF Rebuilt

\* What the newest entry makes of the leaf.
LEMMA AppendedLeaf ==
  ASSUME NEW log, NEW n \in Nat \ {None}, DOMAIN log \subseteq 1..n, n \notin DOMAIN log, NEW e
  PROVE  BuildLeaf(With(log, n, e)) = IF e.kind = "leaf" THEN e.ref ELSE n
<1>1. PICK new : new = With(log, n, e)
  OBVIOUS
<1>2. DOMAIN new = DOMAIN log \cup {n} /\ new[n] = e
  BY <1>1 DEF With
<1>3. /\ DOMAIN new \subseteq Nat /\ n \in DOMAIN new
      /\ \A j \in DOMAIN new : j <= n
  BY <1>2
<1>4. Newest(DOMAIN new) = n
  BY <1>3, NewestIs
<1> QED BY <1>1, <1>2, <1>4 DEF BuildLeaf, None

\* What the newest entry makes of the labels of the entries before it.
LEMMA AppendedLabels ==
  ASSUME NEW log, IsLog(log), NEW n \in Nat \ {None}, DOMAIN log \subseteq 1..n, n \notin DOMAIN log,
         Older(log), NEW e \in Entry, e.ref < n, NEW i \in DOMAIN log
  PROVE  /\ e.kind \notin {"label", "unlabel"} \/ e.ref # i =>
              (i \in BuildLabels(With(log, n, e)) <=> i \in BuildLabels(log))
         /\ e.kind = "label" /\ e.ref = i => i \in BuildLabels(With(log, n, e))
         /\ e.kind = "unlabel" /\ e.ref = i => i \notin BuildLabels(With(log, n, e))
<1>1. PICK new : new = With(log, n, e)
  OBVIOUS
<1>2. /\ DOMAIN new = DOMAIN log \cup {n} /\ new[n] = e
      /\ \A j \in DOMAIN log : new[j] = log[j] /\ j \in Nat /\ j < n
  BY <1>1 DEF With
<1>3. i \in BuildLabels(new) <=>
        \E a \in DOMAIN new : /\ new[a].kind = "label" /\ new[a].ref = i
                              /\ \A j \in DOMAIN new : new[j].kind = "unlabel" /\ new[j].ref = i => j < a
  BY DEF BuildLabels, IdsOf
<1>4. i \in BuildLabels(log) <=>
        \E a \in DOMAIN log : /\ log[a].kind = "label" /\ log[a].ref = i
                              /\ \A j \in DOMAIN log : log[j].kind = "unlabel" /\ log[j].ref = i => j < a
  BY DEF BuildLabels, IdsOf
<1>5. e.kind = "label" /\ e.ref = i => i \in BuildLabels(new)
  BY <1>2, <1>3
<1>6. ASSUME e.kind = "unlabel", e.ref = i
      PROVE  i \notin BuildLabels(new)
  <2>1. \A a \in DOMAIN new : a \in Nat /\ a <= n /\ ~ (n < a)
    BY <1>2
  <2> QED BY <1>2, <1>3, <1>6, <2>1
<1>7. ASSUME e.kind \notin {"label", "unlabel"} \/ e.ref # i
      PROVE  i \in BuildLabels(new) <=> i \in BuildLabels(log)
  <2>1. ~ (new[n].kind \in {"label", "unlabel"} /\ new[n].ref = i)
    BY <1>2, <1>7
  <2>2. \A j \in DOMAIN new : new[j].kind \in {"label", "unlabel"} /\ new[j].ref = i =>
          j \in DOMAIN log
    BY <1>2, <2>1
  <2>3. \A j \in DOMAIN log : j \in DOMAIN new /\ new[j] = log[j]
    BY <1>2
  <2> HIDE <1>2
  <2> QED BY <1>3, <1>4, <2>2, <2>3
<1> QED BY <1>1, <1>5, <1>6, <1>7

\* _append_entry on a memory whose labels are those of the manager, or differ
\* by what the new entry says, reaches a memory that rebuilds.
LEMMA AppendedRebuilt ==
  ASSUME NEW m, IsLog(m.entries), Older(m.entries), Rebuilt(m),
         NEW n \in Nat \ {None}, DOMAIN m.entries \subseteq 1..n, n \notin DOMAIN m.entries,
         n \notin m.labels,
         NEW e \in Entry, e.ref < n,
         NEW r, r.entries = With(m.entries, n, e),
         r.labels = CASE e.kind = "label"   -> m.labels \cup {e.ref}
                      [] e.kind = "unlabel" -> m.labels \ {e.ref}
                      [] OTHER              -> m.labels
  PROVE  Rebuilt(r)
<1>2. DOMAIN r.entries = DOMAIN m.entries \cup {n} /\ r.entries[n] = e
      /\ \A j \in DOMAIN m.entries : r.entries[j] = m.entries[j]
  BY DEF With
<1>3. ASSUME NEW i \in DOMAIN m.entries
      PROVE  i \in r.labels <=> i \in BuildLabels(r.entries)
  <2>1. i \in m.labels <=> i \in BuildLabels(m.entries)
    BY DEF Rebuilt
  <2>2. CASE e.kind = "label"
    BY <2>1, <2>2, AppendedLabels
  <2>3. CASE e.kind = "unlabel"
    BY <2>1, <2>3, AppendedLabels
  <2>4. CASE e.kind \notin {"label", "unlabel"}
    BY <2>1, <2>4, AppendedLabels
  <2> QED BY <2>2, <2>3, <2>4
<1>4. n \notin r.labels /\ n \notin BuildLabels(r.entries)
  <2>1. \A j \in DOMAIN r.entries : r.entries[j].ref # n
    <3>1. \A j \in DOMAIN m.entries : m.entries[j].ref < n /\ m.entries[j].ref \in Nat
      BY DEF Older, IsLog, Entry
    <3>2. e.ref \in Nat
      BY DEF Entry
    <3> QED BY <1>2, <3>1, <3>2
  <2>2. n \notin BuildLabels(r.entries)
    BY <2>1 DEF BuildLabels, IdsOf
  <2>3. e.ref # n
    BY DEF Entry
  <2>4. CASE e.kind = "label"
    BY <2>2, <2>3, <2>4
  <2>5. CASE e.kind = "unlabel"
    BY <2>2, <2>3, <2>5
  <2>6. CASE e.kind \notin {"label", "unlabel"}
    BY <2>2, <2>6
  <2> QED BY <2>4, <2>5, <2>6
<1> QED BY <1>2, <1>3, <1>4 DEF Rebuilt

\* remove_message of a message entry: no label speaks through it.
LEMMA RemovedRebuilt ==
  ASSUME NEW m, Rebuilt(m), NEW i \in IdsOf(m.entries, MessageKinds),
         NEW r, r.entries = Without(m.entries, i), r.labels = m.labels \ {i}
  PROVE  Rebuilt(r)
<1>1. /\ DOMAIN r.entries = DOMAIN m.entries \ {i}
      /\ \A j \in DOMAIN r.entries : r.entries[j] = m.entries[j]
      /\ i \in DOMAIN m.entries /\ m.entries[i].kind \in MessageKinds
  BY DEF Without, IdsOf
<1>2. m.entries[i].kind # "label" /\ m.entries[i].kind # "unlabel"
  BY <1>1 DEF MessageKinds, AssistantKinds
<1>3. BuildLabels(r.entries) = BuildLabels(m.entries)
  <2>1. /\ IdsOf(r.entries, {"label"}) = IdsOf(m.entries, {"label"})
        /\ IdsOf(r.entries, {"unlabel"}) = IdsOf(m.entries, {"unlabel"})
    BY <1>1, <1>2 DEF IdsOf
  <2>2. \A j \in IdsOf(m.entries, {"label"}) \cup IdsOf(m.entries, {"unlabel"}) :
          r.entries[j] = m.entries[j]
    BY <1>1, <1>2 DEF IdsOf
  <2> QED BY <2>1, <2>2 DEF BuildLabels
<1> QED BY <1>1, <1>3 DEF Rebuilt

\* A message that is not the leaf can go: the log still leads to the leaf.
LEMMA RemovedLeaf ==
  ASSUME NEW log, IsLog(log), NEW n \in Nat, DOMAIN log \subseteq 1..n,
         NEW i \in IdsOf(log, MessageKinds), BuildLeaf(log) # i
  PROVE  BuildLeaf(Without(log, i)) = BuildLeaf(log)
<1>1. PICK rest : rest = Without(log, i)
  OBVIOUS
<1>2. /\ DOMAIN rest = DOMAIN log \ {i} /\ \A j \in DOMAIN rest : rest[j] = log[j]
      /\ i \in DOMAIN log /\ log[i].kind # "leaf"
  BY <1>1 DEF Without, IdsOf, MessageKinds, AssistantKinds
<1>3. PICK last : last = Newest(DOMAIN log)
  OBVIOUS
<1>4. last # i
  BY <1>2, <1>3 DEF BuildLeaf, None, IsLog
<1>5. Newest(DOMAIN rest) = last
  BY <1>2, <1>3, <1>4, NewestWithout
<1>6. last # None => rest[last] = log[last]
  <2>1. DOMAIN log \subseteq Nat
    BY DEF IsLog
  <2>2. last \in DOMAIN log \cup {None}
    BY <1>3, <2>1, NewestType
  <2> QED BY <1>2, <1>4, <2>2
<1> QED BY <1>1, <1>3, <1>5, <1>6 DEF BuildLeaf

\* A live manager has reached the memory it wrote.
LEMMA RewriteReaches ==
  ASSUME NEW m, Rewrite(m), up'
  PROVE  mem' = m
BY DEF Rewrite, Write

LEMMA PersistReaches ==
  ASSUME NEW m, NEW n, NEW k, IsMemory(m, n), Persist(m, k), up'
  PROVE  /\ mem'.entries = m.entries /\ mem'.leaf = m.leaf /\ mem'.labels = m.labels
BY DEF Persist, Rewrite, Write, IsMemory

\* _append_entry reaches the memory it was given with the new entry as the leaf.
LEMMA AppendReaches ==
  ASSUME NEW m, NEW n, IsMemory(m, n), NEW kind, NEW parent, NEW ref,
         AppendEntry(m, kind, parent, ref), up'
  PROVE  /\ mem'.entries = With(m.entries, nextId, NewEntry(kind, parent, ref))
         /\ mem'.leaf = nextId /\ mem'.labels = m.labels
<1>1. PICK log : log = With(m.entries, nextId, NewEntry(kind, parent, ref))
  OBVIOUS
<1>2. PICK mm : mm = [m EXCEPT !.entries = log, !.leaf = nextId]
  OBVIOUS
<1>3. mm = [entries |-> log, leaf |-> nextId, labels |-> m.labels,
            flushed |-> m.flushed, turn |-> m.turn]
  BY <1>2 DEF IsMemory
<1>4. Persist(mm, nextId)
  BY <1>1, <1>2 DEF AppendEntry
<1>5. /\ mem'.entries = mm.entries /\ mem'.leaf = mm.leaf /\ mem'.labels = mm.labels
  BY <1>3, <1>4 DEF Persist, Rewrite, Write
<1> QED BY <1>1, <1>3, <1>5

\* _append_entry keeps memory rebuildable.
LEMMA AppendEntryRebuilt ==
  ASSUME IInv, up, up', Rebuilt(mem),
         NEW m, IsMemory(m, nextId), m.entries = mem.entries,
         NEW kind \in Kinds \ {"leaf"}, NEW parent \in 0..(nextId - 1), NEW ref \in 0..(nextId - 1),
         m.labels = CASE kind = "label"   -> mem.labels \cup {ref}
                      [] kind = "unlabel" -> mem.labels \ {ref}
                      [] OTHER            -> mem.labels,
         AppendEntry(m, kind, parent, ref)
  PROVE  Rebuilt(mem')
<1>1. PICK e : e = NewEntry(kind, parent, ref)
  OBVIOUS
<1>2. /\ nextId \in Nat \ {None} /\ IsMemory(mem, nextId - 1) /\ Older(mem.entries)
  BY MaxIdAssumption DEF IInv, Good, None
<1>3. /\ IsLog(mem.entries) /\ DOMAIN mem.entries \subseteq 1..nextId
      /\ nextId \notin DOMAIN mem.entries /\ nextId \notin mem.labels
  BY <1>2 DEF IsMemory
<1>4. e \in Entry /\ e.ref < nextId /\ e.kind = kind /\ e.ref = ref /\ e.kind # "leaf"
  BY <1>1, <1>2 DEF NewEntry, Entry
<1>5. /\ mem'.entries = With(mem.entries, nextId, e)
      /\ mem'.leaf = nextId /\ mem'.labels = m.labels
  BY <1>1, AppendReaches
<1>6. mem'.labels = CASE e.kind = "label"   -> mem.labels \cup {e.ref}
                      [] e.kind = "unlabel" -> mem.labels \ {e.ref}
                      [] OTHER              -> mem.labels
  BY <1>4, <1>5
<1> QED BY <1>2, <1>3, <1>4, <1>5, <1>6, AppendedRebuilt

\* Every operation of a live manager, and every restart, keeps it so.
LEMMA NextRebuilds ==
  ASSUME IInv, up => Rebuilt(mem), [Next]_vars
  PROVE  up' => Rebuilt(mem')
<1> SUFFICES ASSUME up' PROVE Rebuilt(mem')
  OBVIOUS
<1>n. PICK n : n = nextId - 1
  OBVIOUS
<1>0. /\ n \in Nat /\ nextId = n + 1 /\ nextId \in Nat /\ IsMemory(mem, n) /\ Older(mem.entries)
  BY <1>n, MaxIdAssumption DEF IInv, Good
<1>a. /\ mem.leaf \in 0..n /\ mem.turn \in 0..n /\ mem.labels \subseteq 0..n
      /\ IsLog(mem.entries) /\ DOMAIN mem.entries \subseteq 1..n
      /\ mem = [entries |-> mem.entries, leaf |-> mem.leaf, labels |-> mem.labels,
                flushed |-> mem.flushed, turn |-> mem.turn]
      /\ IsMemory(mem, nextId) /\ 0..n = 0..(nextId - 1) /\ 0 \in 0..n
  BY <1>0 DEF IsMemory
<1>b. ASSUME mem'.entries = mem.entries, mem'.labels = mem.labels, up
      PROVE  Rebuilt(mem')
  BY <1>b DEF Rebuilt
<1>c. ASSUME NEW kind \in Kinds \ {"leaf", "label", "unlabel"}, NEW parent \in 0..n, NEW ref \in 0..n,
             AppendEntry(mem, kind, parent, ref)
      PROVE  Rebuilt(mem')
  <2>1. up
    BY <1>c DEF AppendEntry, Ready
  <2>2. kind \in Kinds \ {"leaf"} /\ kind # "label" /\ kind # "unlabel"
    OBVIOUS
  <2>3. mem.labels = CASE kind = "label"   -> mem.labels \cup {ref}
                       [] kind = "unlabel" -> mem.labels \ {ref}
                       [] OTHER            -> mem.labels
    BY <2>2
  <2> QED BY <1>a, <1>c, <2>1, <2>2, <2>3, AppendEntryRebuilt
<1>1. CASE BeginTurn
  <2>1. PICK m : m = [mem EXCEPT !.turn = nextId]
    OBVIOUS
  <2>2. m = [entries |-> mem.entries, leaf |-> mem.leaf, labels |-> mem.labels,
             flushed |-> mem.flushed, turn |-> nextId]
    BY <1>a, <2>1
  <2>3. IsMemory(m, nextId) /\ m.entries = mem.entries /\ m.labels = mem.labels
    BY <1>0, <1>a, <2>2 DEF IsMemory
  <2>4. AppendEntry(m, "user", mem.leaf, None)
    BY <1>1, <2>1 DEF BeginTurn
  <2>5. up
    BY <2>4 DEF AppendEntry, Ready
  <2>6. "user" \in Kinds \ {"leaf"} /\ None \in 0..(nextId - 1) /\ mem.leaf \in 0..(nextId - 1)
    BY <1>a DEF Kinds, MessageKinds, None
  <2>7. m.labels = CASE "user" = "label"   -> mem.labels \cup {None}
                     [] "user" = "unlabel" -> mem.labels \ {None}
                     [] OTHER              -> mem.labels
    BY <2>3
  <2> QED BY <2>3, <2>4, <2>5, <2>6, <2>7, AppendEntryRebuilt
<1>2. CASE TurnMessage
  BY <1>2, <1>a, <1>c DEF TurnMessage, Kinds, MessageKinds, AssistantKinds, None
<1>3. CASE EndTurn
  <2>1. mem'.entries = mem.entries /\ mem'.leaf = mem.leaf /\ mem'.labels = mem.labels /\ up
    BY <1>3, <1>a DEF EndTurn
  <2> QED BY <1>b, <2>1
<1>4. CASE AppendInfo
  BY <1>4, <1>a, <1>c DEF AppendInfo, Kinds, None
<1>5. CASE AppendCustomMessage
  BY <1>5, <1>a, <1>c DEF AppendCustomMessage, Kinds, None
<1>6. CASE AppendCompaction
  <2>1. PICK kept \in DOMAIN mem.entries : AppendEntry(mem, "compaction", mem.leaf, kept)
    BY <1>6 DEF AppendCompaction, IdsOf
  <2>2. kept \in 0..n
    BY <1>0, <1>a
  <2> QED BY <1>a, <1>c, <2>1, <2>2 DEF Kinds
<1>7. CASE AppendLabelChange
  <2>1. PICK t \in DOMAIN mem.entries :
          \/ AppendEntry([mem EXCEPT !.labels = @ \cup {t}], "label", mem.leaf, t)
          \/ AppendEntry([mem EXCEPT !.labels = @ \ {t}], "unlabel", mem.leaf, t)
    BY <1>7 DEF AppendLabelChange
  <2>2. t \in 0..n /\ t \in 0..(nextId - 1)
    BY <1>0, <1>a
  <2>3. ASSUME NEW labels \in SUBSET (0..n), NEW kind \in {"label", "unlabel"},
               labels = CASE kind = "label"   -> mem.labels \cup {t}
                          [] kind = "unlabel" -> mem.labels \ {t}
                          [] OTHER            -> mem.labels,
               AppendEntry([mem EXCEPT !.labels = labels], kind, mem.leaf, t)
        PROVE  Rebuilt(mem')
    <3>1. PICK m : m = [mem EXCEPT !.labels = labels]
      OBVIOUS
    <3>2. m = [entries |-> mem.entries, leaf |-> mem.leaf, labels |-> labels,
               flushed |-> mem.flushed, turn |-> mem.turn]
      BY <1>a, <3>1
    <3>3. IsMemory(m, nextId) /\ m.entries = mem.entries /\ m.labels = labels
      BY <1>0, <1>a, <3>2 DEF IsMemory
    <3>4. AppendEntry(m, kind, mem.leaf, t) /\ up
      BY <2>3, <3>1 DEF AppendEntry, Ready
    <3>5. kind \in Kinds \ {"leaf"}
      BY DEF Kinds, NavKinds
    <3>6. m.labels = CASE kind = "label"   -> mem.labels \cup {t}
                       [] kind = "unlabel" -> mem.labels \ {t}
                       [] OTHER            -> mem.labels
      BY <2>3, <3>3
    <3> QED BY <1>a, <2>2, <3>3, <3>4, <3>5, <3>6, AppendEntryRebuilt
  <2>4. (mem.labels \cup {t}) \in SUBSET (0..n) /\ (mem.labels \ {t}) \in SUBSET (0..n)
    BY <1>a, <2>2
  <2>5. CASE AppendEntry([mem EXCEPT !.labels = @ \cup {t}], "label", mem.leaf, t)
    BY <2>3, <2>4, <2>5
  <2>6. CASE AppendEntry([mem EXCEPT !.labels = @ \ {t}], "unlabel", mem.leaf, t)
    BY <2>3, <2>4, <2>6
  <2> QED BY <2>1, <2>5, <2>6
<1>8. CASE PatchMeta
  <2>1. up /\ mem' = mem
    BY <1>8, RewriteReaches DEF PatchMeta
  <2> QED BY <1>b, <2>1
<1>9. CASE BranchTo
  <2>1. PICK t \in DOMAIN mem.entries :
          /\ Ready
          /\ Persist([mem EXCEPT !.entries = With(@, nextId, NewEntry("leaf", mem.leaf, t)),
                                 !.leaf = t], nextId)
    BY <1>9 DEF BranchTo
  <2>2. PICK e : e = NewEntry("leaf", mem.leaf, t)
    OBVIOUS
  <2>3. e \in Entry /\ e.ref < nextId /\ e.ref = t /\ e.kind = "leaf" /\ t \in 0..nextId
    BY <1>0, <1>a, <2>2 DEF NewEntry, Entry, Kinds, NavKinds
  <2>4. PICK m : m = [mem EXCEPT !.entries = With(@, nextId, e), !.leaf = t]
    OBVIOUS
  <2>5. m = [entries |-> With(mem.entries, nextId, e), leaf |-> t, labels |-> mem.labels,
             flushed |-> mem.flushed, turn |-> mem.turn]
    BY <1>a, <2>4
  <2>6. Persist(m, nextId) /\ up
    BY <2>1, <2>2, <2>4 DEF Ready
  <2>7. /\ mem'.entries = With(mem.entries, nextId, e) /\ mem'.leaf = t
        /\ mem'.labels = mem.labels
    BY <2>5, <2>6 DEF Persist, Rewrite, Write
  <2>8. mem'.labels = CASE e.kind = "label"   -> mem.labels \cup {e.ref}
                        [] e.kind = "unlabel" -> mem.labels \ {e.ref}
                        [] OTHER              -> mem.labels
    BY <2>3, <2>7
  <2>9. mem'.leaf = IF e.kind = "leaf" THEN e.ref ELSE nextId
    BY <2>3, <2>7
  <2>10. /\ nextId \in Nat \ {None} /\ DOMAIN mem.entries \subseteq 1..nextId
         /\ nextId \notin DOMAIN mem.entries /\ nextId \notin mem.labels
    BY <1>0, <1>a DEF None
  <2> QED BY <1>0, <1>a, <2>3, <2>6, <2>7, <2>8, <2>9, <2>10, AppendedRebuilt
<1>10. CASE BranchWithSummary
  <2>1. PICK from \in DOMAIN mem.entries \cup {None} : AppendEntry(mem, "branch", from, None)
    BY <1>10 DEF BranchWithSummary
  <2>2. from \in 0..n /\ None \in 0..n
    BY <1>0, <1>a DEF None
  <2> QED BY <1>c, <2>1, <2>2 DEF Kinds
<1>11. CASE RemoveMessage
  <2>1. up
    BY <1>11 DEF RemoveMessage
  <2>2. CASE mem.turn \in IdsOf(mem.entries, MessageKinds)
    <3>1. PICK i : i = mem.turn
      OBVIOUS
    <3>2. mem' = [Removed(mem, i) EXCEPT !.turn = None]
      BY <1>11, <2>2, <3>1, RewriteReaches DEF RemoveMessage
    <3>3. mem' = [entries |-> Without(mem.entries, i), leaf |-> LeafWithout(mem.entries, mem.leaf, i),
                  labels |-> mem.labels \ {i}, flushed |-> mem.flushed, turn |-> None]
      BY <1>a, <3>2 DEF Removed
    <3>4. /\ mem'.entries = Without(mem.entries, i) /\ mem'.labels = mem.labels \ {i}
          /\ mem'.leaf = LeafWithout(mem.entries, mem.leaf, i)
      BY <3>3
    <3> QED BY <1>0, <1>a, <2>1, <2>2, <3>1, <3>4, RemovedRebuilt
  <2>3. CASE mem.turn \notin IdsOf(mem.entries, MessageKinds)
    <3>1. mem' = [entries |-> mem.entries, leaf |-> mem.leaf, labels |-> mem.labels,
                  flushed |-> mem.flushed, turn |-> None]
      BY <1>11, <1>a, <2>3 DEF RemoveMessage
    <3> QED BY <1>b, <2>1, <3>1
  <2> QED BY <2>2, <2>3
<1>12. CASE NewSession
  <2>1. mem'.entries = NoEntries /\ mem'.leaf = None /\ mem'.labels = {}
    BY <1>12 DEF NewSession, Blank
  <2> QED BY <2>1, EmptyRebuilt DEF Blank, Rebuilt
<1>13. CASE CreateBranchedSession
  <2>1. \E log : mem' = [mem EXCEPT !.entries = log, !.leaf = BuildLeaf(log),
                                    !.labels = BuildLabels(log), !.flushed = HasAssistant(log)]
    BY <1>13, RewriteReaches DEF CreateBranchedSession
  <2>2. PICK log : mem' = [mem EXCEPT !.entries = log, !.leaf = BuildLeaf(log),
                                      !.labels = BuildLabels(log), !.flushed = HasAssistant(log)]
    BY <2>1
  <2>3. mem' = [entries |-> log, leaf |-> BuildLeaf(log), labels |-> BuildLabels(log),
                flushed |-> HasAssistant(log), turn |-> mem.turn]
    BY <1>a, <2>2
  <2> QED BY <2>3, LoadedRebuilt
<1>14. CASE ForkFrom
  <2>1. mem' = [entries |-> file.lines, leaf |-> BuildLeaf(file.lines),
                labels |-> BuildLabels(file.lines), flushed |-> TRUE, turn |-> None]
    BY <1>14 DEF ForkFrom, Loaded
  <2> QED BY <2>1, LoadedRebuilt
<1>15. CASE SetSession
  <2>1. CASE mem' = Loaded(file)
    BY <2>1, LoadedRebuilt DEF Loaded
  <2>2. CASE mem' = [Blank EXCEPT !.flushed = TRUE]
    <3>1. mem'.entries = NoEntries /\ mem'.leaf = None /\ mem'.labels = {}
      BY <2>2 DEF Blank
    <3> QED BY <3>1, EmptyRebuilt DEF Blank, Rebuilt
  <2>3. CASE mem' = Blank
    BY <2>3, EmptyRebuilt
  <2> QED BY <1>15, <2>1, <2>2, <2>3 DEF SetSession
<1>16. CASE Crash
  BY <1>16 DEF Crash
<1>17. CASE UNCHANGED vars
  BY <1>17, <1>b DEF vars
<1> QED BY <1>1, <1>2, <1>3, <1>4, <1>5, <1>6, <1>7, <1>8, <1>9, <1>10, <1>11, <1>12,
           <1>13, <1>14, <1>15, <1>16, <1>17 DEF Next

\* A step that appends metadata or a label leaves what the model sees.
LEMMA MetadataStep ==
  ASSUME IInv, up => Rebuilt(mem), [Next]_vars,
         nextId' = nextId + 1, up', nextId \in DOMAIN mem'.entries,
         mem'.entries[nextId].kind \in {"info", "label", "unlabel"},
         nextId = mem'.leaf, DOMAIN mem.entries \subseteq DOMAIN mem'.entries
  PROVE  Context(mem'.entries, mem'.leaf) = Context(mem.entries, mem.leaf)
<1>n. PICK n : n = nextId - 1
  OBVIOUS
<1>0. /\ n \in Nat /\ nextId = n + 1 /\ nextId \in Nat \ {None} /\ IsMemory(mem, n)
      /\ Older(mem.entries)
  BY <1>n, MaxIdAssumption DEF IInv, Good, None
<1>a. /\ mem.leaf \in 0..n /\ mem.turn \in 0..n /\ mem.labels \subseteq 0..n
      /\ IsLog(mem.entries) /\ DOMAIN mem.entries \subseteq 1..n
      /\ mem = [entries |-> mem.entries, leaf |-> mem.leaf, labels |-> mem.labels,
                flushed |-> mem.flushed, turn |-> mem.turn]
      /\ IsMemory(mem, nextId)
  BY <1>0 DEF IsMemory
<1>b. ASSUME NEW m, IsMemory(m, nextId), m.entries = mem.entries, NEW kind \in Kinds, NEW parent \in 0..n,
             NEW ref \in 0..n, kind \in {"info", "label", "unlabel"} => parent = mem.leaf,
             AppendEntry(m, kind, parent, ref)
      PROVE  Context(mem'.entries, mem'.leaf) = Context(mem.entries, mem.leaf)
  <2>1. PICK e : e = NewEntry(kind, parent, ref)
    OBVIOUS
  <2>2. /\ mem'.entries = With(mem.entries, nextId, e) /\ mem'.leaf = nextId
    BY <1>b, <2>1, AppendReaches
  <2>3. e \in Entry /\ e.kind = kind /\ e.parent = parent /\ e.parent < nextId
    BY <1>0, <1>b, <2>1 DEF NewEntry, Entry
  <2>4. mem'.entries[nextId] = e
    BY <2>2 DEF With
  <2>5. parent = mem.leaf /\ e.kind \in {"info", "label", "unlabel"}
    BY <1>b, <2>3, <2>4
  <2>6. DOMAIN mem.entries \subseteq 0..(nextId - 1)
    BY <1>0, <1>a
  <2>7. Context(With(mem.entries, nextId, e), nextId) = Context(mem.entries, e.parent)
    BY <1>0, <1>a, <2>3, <2>5, <2>6, MetadataKeeps
  <2> QED BY <2>2, <2>3, <2>5, <2>7
<1>1. CASE BeginTurn
  <2>1. PICK m : m = [mem EXCEPT !.turn = nextId]
    OBVIOUS
  <2>2. m = [entries |-> mem.entries, leaf |-> mem.leaf, labels |-> mem.labels,
             flushed |-> mem.flushed, turn |-> nextId]
    BY <1>a, <2>1
  <2>3. IsMemory(m, nextId) /\ m.entries = mem.entries
    BY <1>0, <1>a, <2>2 DEF IsMemory
  <2>4. AppendEntry(m, "user", mem.leaf, None)
    BY <1>1, <2>1 DEF BeginTurn
  <2>5. "user" \in Kinds /\ None \in 0..n
    BY <1>0 DEF Kinds, MessageKinds, None
  <2> QED BY <1>a, <1>b, <2>3, <2>4, <2>5
<1>2. CASE TurnMessage
  BY <1>2, <1>0, <1>a, <1>b DEF TurnMessage, Kinds, MessageKinds, AssistantKinds, None
<1>3. CASE AppendInfo
  BY <1>3, <1>0, <1>a, <1>b DEF AppendInfo, Kinds, None
<1>4. CASE AppendCustomMessage
  BY <1>4, <1>0, <1>a, <1>b DEF AppendCustomMessage, Kinds, None
<1>5. CASE AppendCompaction
  <2>1. PICK kept \in DOMAIN mem.entries : AppendEntry(mem, "compaction", mem.leaf, kept)
    BY <1>5 DEF AppendCompaction, IdsOf
  <2>2. kept \in 0..n
    BY <1>0, <1>a
  <2> QED BY <1>a, <1>b, <2>1, <2>2 DEF Kinds
<1>6. CASE AppendLabelChange
  <2>1. PICK t \in DOMAIN mem.entries :
          \/ AppendEntry([mem EXCEPT !.labels = @ \cup {t}], "label", mem.leaf, t)
          \/ AppendEntry([mem EXCEPT !.labels = @ \ {t}], "unlabel", mem.leaf, t)
    BY <1>6 DEF AppendLabelChange
  <2>2. t \in 0..n
    BY <1>0, <1>a
  <2>3. ASSUME NEW labels \in SUBSET (0..n), NEW kind \in {"label", "unlabel"},
               AppendEntry([mem EXCEPT !.labels = labels], kind, mem.leaf, t)
        PROVE  Context(mem'.entries, mem'.leaf) = Context(mem.entries, mem.leaf)
    <3>1. PICK m : m = [mem EXCEPT !.labels = labels]
      OBVIOUS
    <3>2. m = [entries |-> mem.entries, leaf |-> mem.leaf, labels |-> labels,
               flushed |-> mem.flushed, turn |-> mem.turn]
      BY <1>a, <3>1
    <3>3. IsMemory(m, nextId) /\ m.entries = mem.entries
      BY <1>0, <1>a, <3>2 DEF IsMemory
    <3>4. AppendEntry(m, kind, mem.leaf, t) /\ kind \in Kinds
      BY <2>3, <3>1 DEF Kinds, NavKinds
    <3> QED BY <1>a, <1>b, <2>2, <3>3, <3>4
  <2>4. (mem.labels \cup {t}) \in SUBSET (0..n) /\ (mem.labels \ {t}) \in SUBSET (0..n)
    BY <1>a, <2>2
  <2>5. CASE AppendEntry([mem EXCEPT !.labels = @ \cup {t}], "label", mem.leaf, t)
    BY <2>3, <2>4, <2>5
  <2>6. CASE AppendEntry([mem EXCEPT !.labels = @ \ {t}], "unlabel", mem.leaf, t)
    BY <2>3, <2>4, <2>6
  <2> QED BY <2>1, <2>5, <2>6
<1>7. CASE BranchTo
  <2>1. PICK t \in DOMAIN mem.entries :
          Persist([mem EXCEPT !.entries = With(@, nextId, NewEntry("leaf", mem.leaf, t)),
                              !.leaf = t], nextId)
    BY <1>7 DEF BranchTo
  <2>2. PICK e : e = NewEntry("leaf", mem.leaf, t)
    OBVIOUS
  <2>3. PICK m : m = [mem EXCEPT !.entries = With(@, nextId, e), !.leaf = t]
    OBVIOUS
  <2>4. m = [entries |-> With(mem.entries, nextId, e), leaf |-> t, labels |-> mem.labels,
             flushed |-> mem.flushed, turn |-> mem.turn]
    BY <1>a, <2>3
  <2>5. mem'.leaf = t
    BY <2>1, <2>2, <2>3, <2>4 DEF Persist, Rewrite, Write
  <2>6. nextId \notin DOMAIN mem.entries
    BY <1>0, <1>a
  <2> QED BY <2>5, <2>6
<1>8. CASE BranchWithSummary
  <2>1. PICK from \in DOMAIN mem.entries \cup {None} : AppendEntry(mem, "branch", from, None)
    BY <1>8 DEF BranchWithSummary
  <2>2. from \in 0..n /\ None \in 0..n
    BY <1>0, <1>a DEF None
  <2> QED BY <1>a, <1>b, <2>1, <2>2 DEF Kinds
<1>9. CASE CreateBranchedSession
  <2>p. PICK from, path, kept, k, target, log, m : BranchSteps(from, path, kept, k, target, log, m)
    BY <1>9, BranchedSession
  <2>1. /\ path = Only(mem.entries, Branch(mem.entries, from))
        /\ kept = {i \in DOMAIN path : path[i].kind \notin {"label", "unlabel"}} \cap mem.labels
        /\ k = Cardinality(kept)
        /\ up /\ nextId + k <= MaxId + 1 /\ nextId' = nextId + k
        /\ target \in [nextId..(nextId + k - 1) -> kept]
        /\ log = Relabelled(path, target)
        /\ m = [mem EXCEPT !.entries = log, !.leaf = BuildLeaf(log),
                           !.labels = BuildLabels(log), !.flushed = HasAssistant(log)]
        /\ IF HasAssistant(log) THEN Rewrite(m) ELSE mem' = m /\ file' = NoFile /\ UNCHANGED up
    BY <2>p DEF BranchSteps
  <2>2. /\ IsLog(path) /\ DOMAIN path \subseteq DOMAIN mem.entries
        /\ \A j \in DOMAIN path : path[j] = mem.entries[j]
    BY <1>a, <2>1, OnlyLog DEF Only
  <2>3. kept \subseteq DOMAIN path /\ kept \subseteq 1..n /\ kept \subseteq mem.labels
    BY <1>a, <2>1, <2>2
  <2>4. k \in Nat
    <3>1. IsFiniteSet(1..n)
      BY <1>0, FS_Interval
    <3>2. IsFiniteSet(kept)
      BY <2>3, <3>1, FS_Subset
    <3> QED BY <2>1, <3>2, FS_CardinalityType
  <2>5. k = 1 /\ nextId..(nextId + k - 1) = {nextId}
    <3>1. nextId' = nextId + k
      BY <2>1
    <3>2. k = 1
      BY <1>0, <2>4, <3>1
    <3> QED BY <1>0, <3>2
  <2>6. PICK t : t = target[nextId] /\ t \in kept
    BY <2>1, <2>5
  <2>7. PICK i \in DOMAIN mem.entries : mem.entries[i].kind = "label"
    <3>1. t \in DOMAIN mem.entries /\ t \in mem.labels
      BY <2>2, <2>3, <2>6
    <3>2. t \in BuildLabels(mem.entries)
      BY <2>1, <3>1 DEF Rebuilt
    <3> QED BY <3>2 DEF BuildLabels, IdsOf
  <2>8. mem'.entries = log
    <3>1. m = [entries |-> log, leaf |-> BuildLeaf(log), labels |-> BuildLabels(log),
               flushed |-> HasAssistant(log), turn |-> mem.turn]
      BY <1>a, <2>1
    <3>2. mem' = m
      BY <2>1, RewriteReaches
    <3> QED BY <3>1, <3>2
  <2>9. DOMAIN log = {j \in DOMAIN path : path[j].kind \notin {"label", "unlabel"}} \cup {nextId}
    <3>1. DOMAIN target = {nextId}
      BY <2>1, <2>5
    <3> QED BY <2>1, <3>1 DEF Relabelled
  <2>10. i \notin DOMAIN log
    BY <1>0, <1>a, <2>2, <2>7, <2>9
  <2> QED BY <2>7, <2>8, <2>10
<1>10. CASE EndTurn \/ RemoveMessage \/ PatchMeta \/ NewSession \/ ForkFrom \/ SetSession \/ Crash
            \/ UNCHANGED vars
  <2>1. nextId' = nextId
    BY <1>10 DEF EndTurn, RemoveMessage, PatchMeta, NewSession, ForkFrom, SetSession, Crash, vars
  <2> QED BY <1>0, <2>1
<1> QED BY <1>1, <1>2, <1>3, <1>4, <1>5, <1>6, <1>7, <1>8, <1>9, <1>10 DEF Next

\* Outside a turn only: in a turn the leaf is the one the log leads to.
LeafInTurn == up /\ mem.turn # None => mem.leaf = BuildLeaf(mem.entries)

\* A step that leaves a live manager with a leaf its log would not lead to has
\* just removed the leaf, or has changed neither the leaf nor the log.
LEMMA LeafStep ==
  ASSUME IInv, LeafInTurn, [Next]_vars, up', mem'.leaf # BuildLeaf(mem'.entries)
  PROVE  /\ up /\ UNCHANGED nextId /\ mem'.turn = None
         /\ \/ /\ mem.leaf = mem.turn /\ mem.leaf \in DOMAIN mem.entries
               /\ mem'.entries = Without(mem.entries, mem.leaf)
            \/ /\ mem.leaf # BuildLeaf(mem.entries)
               /\ mem'.leaf = mem.leaf /\ mem'.entries = mem.entries
<1> DEFINE Goal == /\ up /\ UNCHANGED nextId /\ mem'.turn = None
                   /\ \/ /\ mem.leaf = mem.turn /\ mem.leaf \in DOMAIN mem.entries
                         /\ mem'.entries = Without(mem.entries, mem.leaf)
                      \/ /\ mem.leaf # BuildLeaf(mem.entries)
                         /\ mem'.leaf = mem.leaf /\ mem'.entries = mem.entries
<1>n. PICK n : n = nextId - 1
  OBVIOUS
<1>0. /\ n \in Nat /\ nextId = n + 1 /\ nextId \in Nat \ {None} /\ IsMemory(mem, n)
  BY <1>n, MaxIdAssumption DEF IInv, Good, None
<1>a. /\ mem.leaf \in 0..n /\ mem.turn \in 0..n /\ mem.labels \subseteq 0..n
      /\ IsLog(mem.entries) /\ DOMAIN mem.entries \subseteq 1..n
      /\ DOMAIN mem.entries \subseteq 1..nextId /\ nextId \notin DOMAIN mem.entries
      /\ mem = [entries |-> mem.entries, leaf |-> mem.leaf, labels |-> mem.labels,
                flushed |-> mem.flushed, turn |-> mem.turn]
      /\ IsMemory(mem, nextId)
  BY <1>0 DEF IsMemory
<1>b. ASSUME mem'.entries = mem.entries, mem'.leaf = mem.leaf, up, UNCHANGED nextId,
             mem'.turn \in {None, mem.turn}
      PROVE  Goal
  BY <1>b DEF LeafInTurn
<1>c. ASSUME NEW m, IsMemory(m, nextId), m.entries = mem.entries, NEW kind, kind # "leaf",
             NEW parent, NEW ref, AppendEntry(m, kind, parent, ref)
      PROVE  FALSE
  <2>1. PICK e : e = NewEntry(kind, parent, ref)
    OBVIOUS
  <2>2. mem'.entries = With(mem.entries, nextId, e) /\ mem'.leaf = nextId
    BY <1>c, <2>1, AppendReaches
  <2>3. BuildLeaf(mem'.entries) = nextId
    BY <1>0, <1>a, <1>c, <2>1, <2>2, AppendedLeaf DEF NewEntry
  <2> QED BY <2>2, <2>3
<1>1. CASE BeginTurn
  <2>1. PICK m : m = [mem EXCEPT !.turn = nextId]
    OBVIOUS
  <2>2. m = [entries |-> mem.entries, leaf |-> mem.leaf, labels |-> mem.labels,
             flushed |-> mem.flushed, turn |-> nextId]
    BY <1>a, <2>1
  <2>3. IsMemory(m, nextId) /\ m.entries = mem.entries
    BY <1>0, <1>a, <2>2 DEF IsMemory
  <2>4. AppendEntry(m, "user", mem.leaf, None)
    BY <1>1, <2>1 DEF BeginTurn
  <2> QED BY <1>c, <2>3, <2>4
<1>2. CASE TurnMessage \/ AppendInfo \/ AppendCustomMessage
  BY <1>2, <1>a, <1>c DEF TurnMessage, AppendInfo, AppendCustomMessage
<1>3. CASE AppendCompaction
  BY <1>3, <1>a, <1>c DEF AppendCompaction
<1>4. CASE BranchWithSummary
  BY <1>4, <1>a, <1>c DEF BranchWithSummary
<1>5. CASE AppendLabelChange
  <2>1. PICK t \in DOMAIN mem.entries :
          \/ AppendEntry([mem EXCEPT !.labels = @ \cup {t}], "label", mem.leaf, t)
          \/ AppendEntry([mem EXCEPT !.labels = @ \ {t}], "unlabel", mem.leaf, t)
    BY <1>5 DEF AppendLabelChange
  <2>2. ASSUME NEW labels \in SUBSET (0..n), NEW kind \in {"label", "unlabel"},
               AppendEntry([mem EXCEPT !.labels = labels], kind, mem.leaf, t)
        PROVE  FALSE
    <3>1. PICK m : m = [mem EXCEPT !.labels = labels]
      OBVIOUS
    <3>2. m = [entries |-> mem.entries, leaf |-> mem.leaf, labels |-> labels,
               flushed |-> mem.flushed, turn |-> mem.turn]
      BY <1>a, <3>1
    <3>3. IsMemory(m, nextId) /\ m.entries = mem.entries
      BY <1>0, <1>a, <3>2 DEF IsMemory
    <3>4. AppendEntry(m, kind, mem.leaf, t) /\ kind # "leaf"
      BY <2>2, <3>1
    <3> QED BY <1>c, <3>3, <3>4
  <2>3. (mem.labels \cup {t}) \in SUBSET (0..n) /\ (mem.labels \ {t}) \in SUBSET (0..n)
    BY <1>a
  <2>4. CASE AppendEntry([mem EXCEPT !.labels = @ \cup {t}], "label", mem.leaf, t)
    BY <2>2, <2>3, <2>4
  <2>5. CASE AppendEntry([mem EXCEPT !.labels = @ \ {t}], "unlabel", mem.leaf, t)
    BY <2>2, <2>3, <2>5
  <2> QED BY <2>1, <2>4, <2>5
<1>6. CASE EndTurn
  <2>1. mem'.entries = mem.entries /\ mem'.leaf = mem.leaf /\ mem'.turn = None
    BY <1>6, <1>a DEF EndTurn
  <2> QED BY <1>6, <1>b, <2>1 DEF EndTurn
<1>7. CASE PatchMeta
  <2>1. mem' = mem
    BY <1>7, RewriteReaches DEF PatchMeta
  <2> QED BY <1>7, <1>b, <2>1 DEF PatchMeta
<1>8. CASE BranchTo
  <2>1. PICK t \in DOMAIN mem.entries :
          Persist([mem EXCEPT !.entries = With(@, nextId, NewEntry("leaf", mem.leaf, t)),
                              !.leaf = t], nextId)
    BY <1>8 DEF BranchTo
  <2>2. PICK e : e = NewEntry("leaf", mem.leaf, t)
    OBVIOUS
  <2>3. PICK m : m = [mem EXCEPT !.entries = With(@, nextId, e), !.leaf = t]
    OBVIOUS
  <2>4. m = [entries |-> With(mem.entries, nextId, e), leaf |-> t, labels |-> mem.labels,
             flushed |-> mem.flushed, turn |-> mem.turn]
    BY <1>a, <2>3
  <2>5. mem'.entries = With(mem.entries, nextId, e) /\ mem'.leaf = t
    BY <2>1, <2>2, <2>3, <2>4 DEF Persist, Rewrite, Write
  <2>6. BuildLeaf(mem'.entries) = t
    BY <1>0, <1>a, <2>2, <2>5, AppendedLeaf DEF NewEntry
  <2> QED BY <2>5, <2>6
<1>9. CASE RemoveMessage
  <2>0. up /\ UNCHANGED nextId
    BY <1>9 DEF RemoveMessage
  <2>1. CASE mem.turn \in IdsOf(mem.entries, MessageKinds)
    <3>1. PICK i : i = mem.turn /\ i \in DOMAIN mem.entries
      BY <2>1 DEF IdsOf
    <3>2. mem' = [Removed(mem, i) EXCEPT !.turn = None]
      BY <1>9, <2>1, <3>1, RewriteReaches DEF RemoveMessage
    <3>3. mem' = [entries |-> Without(mem.entries, i), leaf |-> LeafWithout(mem.entries, mem.leaf, i),
                  labels |-> mem.labels \ {i}, flushed |-> mem.flushed, turn |-> None]
      BY <1>a, <3>2 DEF Removed
    <3>4. /\ mem'.entries = Without(mem.entries, i) /\ mem'.turn = None
          /\ mem'.leaf = LeafWithout(mem.entries, mem.leaf, i)
      BY <3>3
    <3>5. CASE mem.leaf = i
      BY <2>0, <3>1, <3>4, <3>5
    <3>6. CASE mem.leaf # i
      <4>1. mem'.leaf = mem.leaf
        BY <3>4, <3>6 DEF LeafWithout
      <4>2. mem.leaf = BuildLeaf(mem.entries)
        BY <1>9, <2>0 DEF LeafInTurn, RemoveMessage
      <4>3. BuildLeaf(mem'.entries) = BuildLeaf(mem.entries)
        BY <1>0, <1>a, <2>1, <3>1, <3>4, <3>6, <4>2, RemovedLeaf
      <4> QED BY <4>1, <4>2, <4>3
    <3> QED BY <3>5, <3>6
  <2>2. CASE mem.turn \notin IdsOf(mem.entries, MessageKinds)
    <3>1. mem' = [mem EXCEPT !.turn = None]
      BY <1>9, <2>2 DEF RemoveMessage
    <3>2. mem'.entries = mem.entries /\ mem'.leaf = mem.leaf /\ mem'.turn = None
      BY <1>a, <3>1
    <3> QED BY <1>b, <2>0, <3>2
  <2> QED BY <2>1, <2>2
<1>10. CASE NewSession
  <2>1. mem'.entries = Blank.entries /\ mem'.leaf = Blank.leaf
    BY <1>10 DEF NewSession, Blank
  <2> QED BY <2>1, EmptyRebuilt
<1>11. CASE CreateBranchedSession
  <2>1. \E log : mem' = [mem EXCEPT !.entries = log, !.leaf = BuildLeaf(log),
                                    !.labels = BuildLabels(log), !.flushed = HasAssistant(log)]
    BY <1>11, RewriteReaches DEF CreateBranchedSession
  <2>2. PICK log : mem' = [mem EXCEPT !.entries = log, !.leaf = BuildLeaf(log),
                                      !.labels = BuildLabels(log), !.flushed = HasAssistant(log)]
    BY <2>1
  <2>3. mem' = [entries |-> log, leaf |-> BuildLeaf(log), labels |-> BuildLabels(log),
                flushed |-> HasAssistant(log), turn |-> mem.turn]
    BY <1>a, <2>2
  <2> QED BY <2>3
<1>12. CASE ForkFrom
  <2>1. mem' = [entries |-> file.lines, leaf |-> BuildLeaf(file.lines),
                labels |-> BuildLabels(file.lines), flushed |-> TRUE, turn |-> None]
    BY <1>12 DEF ForkFrom, Loaded
  <2> QED BY <2>1
<1>13. CASE SetSession
  <2>1. CASE mem' = Loaded(file)
    BY <2>1 DEF Loaded
  <2>2. CASE mem' = [Blank EXCEPT !.flushed = TRUE]
    <3>1. mem'.entries = Blank.entries /\ mem'.leaf = Blank.leaf
      BY <2>2 DEF Blank
    <3> QED BY <3>1, EmptyRebuilt
  <2>3. CASE mem' = Blank
    BY <2>3, EmptyRebuilt
  <2> QED BY <1>13, <2>1, <2>2, <2>3 DEF SetSession
<1>14. CASE Crash
  BY <1>14 DEF Crash
<1>15. CASE UNCHANGED vars
  BY <1>15, <1>b DEF vars
<1> QED BY <1>1, <1>2, <1>3, <1>4, <1>5, <1>6, <1>7, <1>8, <1>9, <1>10, <1>11, <1>12,
           <1>13, <1>14, <1>15 DEF Next

\* Every reachable memory has the labels a restart would rebuild from its log,
\* and in a turn the leaf too, whatever was branched or removed before: the
\* turn's first message has become the leaf of both (_append_entry, _build_index).
THEOREM RebuildInvariance ==
  Spec => [](IInv /\ (up => Rebuilt(mem)) /\ LeafInTurn)
<1>1. Init => (up => Rebuilt(mem)) /\ LeafInTurn
  BY EmptyRebuilt DEF Init, LeafInTurn
<1>2. IInv /\ (up => Rebuilt(mem)) /\ [Next]_vars => (up => Rebuilt(mem))'
  BY NextRebuilds
<1>3. IInv /\ LeafInTurn /\ [Next]_vars => LeafInTurn'
  BY LeafStep DEF LeafInTurn
<1> QED BY <1>1, <1>2, <1>3, Invariance, PTL DEF Spec

\* A restart rebuilds the labels of the entries that still exist, whatever
\* sequence of labels, rollbacks and branched sessions came before
\* (_build_index, append_label_change, create_branched_session).
THEOREM LabelsSurviveRestart == Spec => []LabelsRebuild
<1>1. (up => Rebuilt(mem)) => LabelsRebuild
  BY DEF Rebuilt, LabelsRebuild
<1> QED BY <1>1, RebuildInvariance, PTL

\* Memory's leaf and the one a restart rebuilds part only when remove_message
\* takes the leaf away at the end of a failed turn, and only until the next
\* entry (_build_index, branch, remove_message).
THEOREM LeafPartsOnRemoval == Spec => LeafRebuilds
<1>1. IInv /\ LeafInTurn /\ [Next]_vars =>
        [ up' /\ mem'.leaf # BuildLeaf(mem'.entries) =>
            /\ up /\ UNCHANGED nextId /\ mem'.turn = None
            /\ \/ /\ mem.leaf = mem.turn /\ mem.leaf \in DOMAIN mem.entries
                  /\ mem'.entries = Without(mem.entries, mem.leaf)
               \/ /\ mem.leaf # BuildLeaf(mem.entries)
                  /\ mem'.leaf = mem.leaf /\ mem'.entries = mem.entries ]_vars
  BY LeafStep
<1> QED BY <1>1, RebuildInvariance, PTL DEF Spec, LeafRebuilds

\* Appending metadata or a label never changes what the model is shown
\* (append_session_info, append_label_change, build_session_context).
THEOREM MetadataStaysInvisible == Spec => MetadataInvisible
<1>1. IInv /\ (up => Rebuilt(mem)) /\ [Next]_vars =>
        [ (nextId' = nextId + 1 /\ up' /\ nextId \in DOMAIN mem'.entries
             /\ mem'.entries[nextId].kind \in {"info", "label", "unlabel"}
             /\ nextId = mem'.leaf /\ DOMAIN mem.entries \subseteq DOMAIN mem'.entries)
          => Context(mem'.entries, mem'.leaf) = Context(mem.entries, mem.leaf) ]_vars
  BY MetadataStep
<1> QED BY <1>1, RebuildInvariance, PTL DEF Spec, MetadataInvisible
============================================================================
