------------------------ MODULE SessionTree_proofs ------------------------
(***************************************************************************)
(* What the algorithms on a session's log compute, for every log: the walk *)
(* of get_branch, the newest id of a set, and what an append leaves of     *)
(* the context.  Induction over ids is induction over sets of numbers:     *)
(* the least-number principle, which the library proves of < on Nat.       *)
(***************************************************************************)
EXTENDS SessionTree, WellFoundedInduction, TLAPS

----------------------------------------------------------------------------
(* Numbers *)

\* Every set of numbers that has one has a least one.
LEMMA LeastNumber ==
  ASSUME NEW T, T \subseteq Nat, T # {}
  PROVE  \E x \in T : \A y \in T : x <= y
<1> DEFINE R == OpToRel(<, Nat)
<1>1. IsWellFoundedOn(R, Nat)
  BY NatLessThanWellFounded
<1>2. \A x, y \in Nat : <<y, x>> \in R <=> y < x
  BY DEF OpToRel
<1> HIDE DEF R
<1>3. PICK x \in T : \A y \in T : ~ (<<y, x>> \in R)
  BY <1>1, WFMin
<1>4. x \in Nat /\ \A y \in T : y \in Nat /\ ~ (y < x)
  BY <1>2, <1>3
<1>5. \A y \in T : x <= y
  BY <1>4
<1> QED BY <1>5

\* A set that has each number whose predecessors it has is all of Nat.
LEMMA NumbersFrom ==
  ASSUME NEW S, \A n \in Nat : (\A m \in Nat : m < n => m \in S) => n \in S
  PROVE  \A n \in Nat : n \in S
<1>1. SUFFICES ASSUME Nat \ S # {} PROVE FALSE
  OBVIOUS
<1>2. PICK x \in Nat \ S : \A y \in Nat \ S : x <= y
  BY <1>1, LeastNumber
<1>3. \A m \in Nat : m < x => m \in S
  BY <1>2
<1> QED BY <1>2, <1>3

\* A set of numbers with a bound that has one has a greatest one.
LEMMA GreatestNumber ==
  ASSUME NEW T, NEW n \in Nat, T \subseteq 0..n, T # {}
  PROVE  \E x \in T : \A y \in T : y <= x
<1> DEFINE U == {m \in Nat : \A y \in T : y <= m}
<1>1. n \in U /\ U \subseteq Nat
  OBVIOUS
<1>2. PICK m \in U : \A k \in U : m <= k
  BY <1>1, LeastNumber
<1>3. m \in T
  <2>1. SUFFICES ASSUME m \notin T PROVE FALSE
    OBVIOUS
  <2>2. \A y \in T : y \in Nat /\ y < m
    BY <1>2, <2>1
  <2>3. PICK z : z \in T
    OBVIOUS
  <2>4. m - 1 \in Nat /\ ~ (m <= m - 1)
    BY <1>1, <1>2, <2>2, <2>3
  <2>5. \A y \in T : y <= m - 1
    BY <1>1, <1>2, <2>2
  <2> QED BY <1>2, <2>4, <2>5
<1> QED BY <1>2, <1>3

----------------------------------------------------------------------------
(* The newest id *)

\* The newest id of a set of naturals is one of them, or None.
LEMMA NewestType ==
  ASSUME NEW S, S \subseteq Nat
  PROVE  Newest(S) \in S \cup {None}
BY DEF Newest

\* An id no younger one of the set follows is the newest.
LEMMA NewestIs ==
  ASSUME NEW S, S \subseteq Nat, NEW x \in S, \A y \in S : y <= x
  PROVE  Newest(S) = x
<1>1. PICK z : z = Newest(S)
  OBVIOUS
<1>2. z = CHOOSE i \in S : \A j \in S : j <= i
  BY <1>1 DEF Newest
<1>3. z \in S /\ \A j \in S : j <= z
  BY <1>2
<1> QED BY <1>1, <1>3

\* The newest id of a set is no younger than any of it, if the set is bounded.
LEMMA NewestBounds ==
  ASSUME NEW S, NEW n \in Nat, S \subseteq 1..n
  PROVE  /\ S # {} => Newest(S) \in S
         /\ \A y \in S : y <= Newest(S)
<1>1. CASE S = {}
  BY <1>1
<1>2. CASE S # {}
  <2>1. S \subseteq 0..n /\ S \subseteq Nat
    OBVIOUS
  <2>2. PICK x \in S : \A y \in S : y <= x
    BY <1>2, <2>1, GreatestNumber
  <2>3. Newest(S) = x
    BY <2>1, <2>2, NewestIs
  <2> QED BY <2>2, <2>3
<1> QED BY <1>1, <1>2

\* Removing another id leaves the newest one what it is.
LEMMA NewestWithout ==
  ASSUME NEW S, NEW n \in Nat, S \subseteq 1..n, NEW x, Newest(S) # x
  PROVE  Newest(S \ {x}) = Newest(S)
<1>1. CASE S = {}
  BY <1>1
<1>2. CASE S # {}
  <2>1. Newest(S) \in S \ {x} /\ \A y \in S \ {x} : y <= Newest(S)
    BY <1>2, NewestBounds
  <2>2. \A y \in S \ {x} : y \in Nat
    OBVIOUS
  <2> QED BY <2>1, <2>2, NewestIs
<1> QED BY <1>1, <1>2

\* The newest of no ids is none.
LEMMA NewestOfNone == Newest({}) = None
BY DEF Newest

----------------------------------------------------------------------------
(* get_branch *)

\* Parents and references are older.
Older(log) == \A i \in DOMAIN log : log[i].parent < i /\ log[i].ref < i

\* The recursion of get_branch has a solution: the smallest set of ids that
\* holds an id and the parent of each entry it holds, without the ids that are
\* no entries.
Up(log, up, i) == IF i \in DOMAIN log THEN {i} \cup up[log[i].parent] ELSE {}

LEMMA WalkExists ==
  ASSUME NEW log, IsLog(log)
  PROVE  \E up : up = [i \in Nat |-> Up(log, up, i)]
<1> DEFINE Closed(C) == \A c \in C : c \in DOMAIN log => log[c].parent \in C
           Reach(i)  == {j \in Nat : \A C \in SUBSET Nat : i \in C /\ Closed(C) => j \in C}
           up        == [i \in Nat |-> Reach(i) \cap DOMAIN log]
<1>1. \A i \in DOMAIN log : i \in Nat /\ log[i].parent \in Nat
  BY DEF IsLog, Entry
<1>2. ASSUME NEW i \in Nat
      PROVE  Reach(i) \in SUBSET Nat /\ i \in Reach(i) /\ Closed(Reach(i))
  BY <1>1
<1>3. ASSUME NEW i \in Nat, NEW C \in SUBSET Nat, i \in C, Closed(C)
      PROVE  Reach(i) \subseteq C
  BY <1>3
<1>4. ASSUME NEW i \in Nat
      PROVE  up[i] = Up(log, up, i)
  <2>1. CASE i \in DOMAIN log
    <3>1. PICK p \in Nat : p = log[i].parent
      BY <1>1, <2>1
    <3>2. p \in Reach(i)
      BY <1>2, <2>1, <3>1
    <3>3. Reach(p) \subseteq Reach(i)
      BY <1>2, <1>3, <3>2
    <3>4. Closed({i} \cup Reach(p))
      BY <1>2, <3>1
    <3>5. Reach(i) \subseteq {i} \cup Reach(p)
      <4>1. PICK C : C = {i} \cup Reach(p)
        OBVIOUS
      <4>2. C \in SUBSET Nat /\ i \in C /\ Closed(C)
        BY <1>2, <3>4, <4>1
      <4> HIDE DEF Reach, Closed
      <4> QED BY <1>3, <4>1, <4>2
    <3>6. Reach(i) \cap DOMAIN log = {i} \cup (Reach(p) \cap DOMAIN log)
      BY <1>2, <2>1, <3>3, <3>5
    <3> QED BY <2>1, <3>1, <3>6 DEF Up
  <2>2. CASE i \notin DOMAIN log
    <3>1. Closed({i})
      BY <2>2
    <3>2. Reach(i) \subseteq {i}
      BY <1>3, <3>1
    <3> QED BY <2>2, <3>2 DEF Up
  <2> QED BY <2>1, <2>2
<1>5. up = [i \in Nat |-> Up(log, up, i)]
  BY <1>4
<1> QED BY <1>5

\* get_branch of an entry is the entry and the branch of its parent, of
\* anything else nothing.
THEOREM BranchUnfolds ==
  ASSUME NEW log, IsLog(log), NEW i \in Nat
  PROVE  Branch(log, i) =
           IF i \in DOMAIN log THEN {i} \cup Branch(log, log[i].parent) ELSE {}
<1>1. PICK up : up = CHOOSE f : f = [j \in Nat |-> Up(log, f, j)]
  OBVIOUS
<1>2. up = [j \in Nat |-> Up(log, up, j)]
  BY <1>1, WalkExists
<1>3. \A j : Branch(log, j) = up[j]
  BY <1>1 DEF Branch, Up
<1>4. up[i] = Up(log, up, i)
  BY <1>2
<1> QED BY <1>3, <1>4 DEF Up

\* The branch of an id has entries only, none younger than the id: the walk
\* of get_branch goes back in time.
THEOREM BranchBelow ==
  ASSUME NEW log, IsLog(log), Older(log), NEW i \in Nat
  PROVE  Branch(log, i) \subseteq {j \in DOMAIN log : j <= i}
<1> DEFINE P(n) == Branch(log, n) \subseteq {j \in DOMAIN log : j <= n}
           S    == {n \in Nat : P(n)}
<1>1. \A j \in DOMAIN log : j \in Nat /\ log[j].parent \in Nat /\ log[j].parent < j
  BY DEF IsLog, Entry, Older
<1>2. ASSUME NEW n \in Nat, \A m \in Nat : m < n => m \in S
      PROVE  n \in S
  <2>1. CASE n \in DOMAIN log
    <3>1. PICK p \in Nat : p = log[n].parent /\ p < n
      BY <1>1, <2>1
    <3>2. Branch(log, n) = {n} \cup Branch(log, p)
      BY <2>1, <3>1, BranchUnfolds
    <3>3. \A j \in Branch(log, p) : j \in DOMAIN log /\ j \in Nat /\ j <= p
      BY <1>1, <1>2, <3>1
    <3>4. \A j \in Branch(log, n) : j \in DOMAIN log /\ j <= n
      BY <2>1, <3>1, <3>2, <3>3
    <3> QED BY <3>4
  <2>2. CASE n \notin DOMAIN log
    BY <2>2, BranchUnfolds
  <2> QED BY <2>1, <2>2
<1> HIDE DEF S
<1>3. i \in S
  BY <1>2, NumbersFrom
<1> QED BY <1>3 DEF S

\* Two logs with the same entries up to an id have the same branches up to it.
LEMMA BranchSame ==
  ASSUME NEW log, IsLog(log), Older(log), NEW log2, IsLog(log2), NEW n \in Nat,
         \A j \in 0..n : /\ j \in DOMAIN log <=> j \in DOMAIN log2
                         /\ j \in DOMAIN log => log[j] = log2[j]
  PROVE  \A i \in 0..n : Branch(log2, i) = Branch(log, i)
<1> DEFINE S == {k \in Nat : k <= n => Branch(log2, k) = Branch(log, k)}
<1>1. \A j \in DOMAIN log : j \in Nat /\ log[j].parent \in Nat /\ log[j].parent < j
  BY DEF IsLog, Entry, Older
<1>2. ASSUME NEW k \in Nat, \A m \in Nat : m < k => m \in S
      PROVE  k \in S
  <2>1. SUFFICES ASSUME k <= n PROVE Branch(log2, k) = Branch(log, k)
    OBVIOUS
  <2>2. CASE k \in DOMAIN log
    <3>1. PICK p \in Nat : p = log[k].parent /\ p < k
      BY <1>1, <2>2
    <3>2. k \in DOMAIN log2 /\ log2[k].parent = p
      BY <2>1, <2>2, <3>1
    <3>3. Branch(log2, p) = Branch(log, p)
      BY <1>2, <2>1, <3>1
    <3>4. Branch(log, k) = {k} \cup Branch(log, p)
      BY <2>2, <3>1, BranchUnfolds
    <3>5. Branch(log2, k) = {k} \cup Branch(log2, p)
      BY <3>2, BranchUnfolds
    <3> QED BY <3>3, <3>4, <3>5
  <2>3. CASE k \notin DOMAIN log
    <3>1. k \notin DOMAIN log2
      BY <2>1, <2>3
    <3> QED BY <2>3, <3>1, BranchUnfolds
  <2> QED BY <2>2, <2>3
<1> HIDE DEF S
<1>3. \A k \in Nat : k \in S
  BY <1>2, NumbersFrom
<1> QED BY <1>3 DEF S

----------------------------------------------------------------------------
(* Appending *)

\* Adding an entry to a log gives a log.
LEMMA WithLog ==
  ASSUME NEW log, IsLog(log), NEW i \in Nat \ {None}, NEW e \in Entry
  PROVE  IsLog(With(log, i, e))
BY DEF IsLog, With

\* The branch of a new entry is the entry and the branch it continues.
LEMMA AppendedBranch ==
  ASSUME NEW log, IsLog(log), Older(log), NEW n \in Nat \ {None}, DOMAIN log \subseteq 0..(n - 1),
         NEW e \in Entry, e.parent < n
  PROVE  Branch(With(log, n, e), n) = {n} \cup Branch(log, e.parent)
<1>1. PICK new : new = With(log, n, e)
  OBVIOUS
<1>2. /\ IsLog(new) /\ DOMAIN new = DOMAIN log \cup {n} /\ new[n] = e
      /\ \A j \in DOMAIN log : j # n => new[j] = log[j]
  BY <1>1, WithLog DEF With
<1>3. PICK p \in Nat : p = e.parent /\ p < n
  BY DEF Entry
<1>4. n - 1 \in Nat /\ p \in 0..(n - 1)
  BY <1>3
<1>5. \A j \in 0..(n - 1) : j # n
  OBVIOUS
<1>6. \A j \in 0..(n - 1) : /\ j \in DOMAIN log <=> j \in DOMAIN new
                            /\ j \in DOMAIN log => log[j] = new[j]
  BY <1>2, <1>5
<1>7. Branch(new, p) = Branch(log, p)
  BY <1>2, <1>4, <1>6, BranchSame
<1>8. Branch(new, n) = {n} \cup Branch(new, p)
  BY <1>2, <1>3, BranchUnfolds
<1> QED BY <1>1, <1>3, <1>7, <1>8

\* Metadata and labels, appended to the branch the model sees, leave what it
\* sees alone.
LEMMA MetadataKeeps ==
  ASSUME NEW log, IsLog(log), Older(log), NEW n \in Nat \ {None}, DOMAIN log \subseteq 0..(n - 1),
         NEW e \in Entry, e.parent < n, e.kind \in {"info", "label", "unlabel"}
  PROVE  Context(With(log, n, e), n) = Context(log, e.parent)
<1>1. PICK new : new = With(log, n, e)
  OBVIOUS
<1>2. /\ DOMAIN new = DOMAIN log \cup {n} /\ new[n] = e
      /\ \A j \in DOMAIN log : j # n /\ new[j] = log[j]
  BY <1>1 DEF With
<1>3. PICK old : old = Branch(log, e.parent)
  OBVIOUS
<1>4. PICK path : path = Branch(new, n)
  OBVIOUS
<1>5. path = {n} \cup old
  BY <1>1, <1>3, <1>4, AppendedBranch
<1>6. old \subseteq DOMAIN log
  BY <1>3, BranchBelow DEF Entry
<1>7. {i \in path : new[i].kind \in Carried} = {i \in old : log[i].kind \in Carried}
  BY <1>2, <1>5, <1>6 DEF Carried, MessageKinds, AssistantKinds
<1>8. {i \in path : new[i].kind = "compaction"} = {i \in old : log[i].kind = "compaction"}
  BY <1>2, <1>5, <1>6
<1>9. PICK text : text = {i \in old : log[i].kind \in Carried}
  OBVIOUS
<1>10. PICK cs : cs = {i \in old : log[i].kind = "compaction"}
  OBVIOUS
<1>11. PICK c : c = Newest(cs)
  OBVIOUS
<1>12. cs \subseteq DOMAIN log /\ cs \subseteq Nat
  BY <1>6, <1>10
<1>13. c \in DOMAIN log \cup {None}
  BY <1>11, <1>12, NewestType
<1>14. CASE c = None
  <2>1. Context(new, n) = text
    BY <1>4, <1>7, <1>8, <1>9, <1>10, <1>11, <1>14 DEF Context
  <2>2. Context(log, e.parent) = text
    BY <1>3, <1>9, <1>10, <1>11, <1>14 DEF Context
  <2> QED BY <1>1, <2>1, <2>2
<1>15. CASE c # None
  <2>1. /\ c \in DOMAIN log /\ new[c] = log[c] /\ log[c].ref < c /\ c \in 0..(n - 1)
        /\ log[c].ref \in Nat
    BY <1>2, <1>13, <1>15 DEF Older, IsLog, Entry
  <2>2. log[c].ref # n
    BY <2>1
  <2>3. new[c].ref \in path <=> log[c].ref \in old
    BY <1>5, <2>1, <2>2
  <2>4. Context(new, n) = {c} \cup {i \in text : i > c}
                              \cup {i \in text : /\ new[c].ref \in path
                                                 /\ new[c].ref <= i /\ i < c}
    BY <1>4, <1>7, <1>8, <1>9, <1>10, <1>11, <1>15 DEF Context
  <2>5. Context(log, e.parent) = {c} \cup {i \in text : i > c}
                              \cup {i \in text : /\ log[c].ref \in old
                                                 /\ log[c].ref <= i /\ i < c}
    BY <1>3, <1>9, <1>10, <1>11, <1>15 DEF Context
  <2> QED BY <1>1, <2>1, <2>3, <2>4, <2>5
<1> QED BY <1>14, <1>15

\* An entry of any kind, appended to the log, leaves the branch of every earlier
\* entry and what the model would see of it alone (append_* and branch of the
\* manager, whichever leaf they append to); the new branch of a metadata or
\* label entry shows the model what the branch it continues did.
THEOREM ContextKept ==
  ASSUME NEW log, IsLog(log), Older(log), NEW n \in Nat \ {None}, DOMAIN log \subseteq 0..(n - 1),
         NEW e \in Entry, e.parent < n
  PROVE  /\ \A from \in 0..(n - 1) : /\ Branch(With(log, n, e), from) = Branch(log, from)
                                   /\ Context(With(log, n, e), from) = Context(log, from)
         /\ e.kind \in {"info", "label", "unlabel"} =>
              Context(With(log, n, e), n) = Context(log, e.parent)
<1>1. PICK new : new = With(log, n, e)
  OBVIOUS
<1>2. /\ IsLog(new) /\ DOMAIN new = DOMAIN log \cup {n}
      /\ \A j \in DOMAIN log : j # n /\ new[j] = log[j]
  BY <1>1, WithLog DEF With
<1>3. n - 1 \in Nat
  BY DEF None
<1>4. \A j \in 0..(n - 1) : /\ j \in DOMAIN log <=> j \in DOMAIN new
                            /\ j \in DOMAIN log => log[j] = new[j]
  BY <1>2
<1>5. ASSUME NEW from \in 0..(n - 1)
      PROVE  /\ Branch(new, from) = Branch(log, from)
             /\ Context(new, from) = Context(log, from)
  <2>1. Branch(new, from) = Branch(log, from)
    BY <1>2, <1>3, <1>4, BranchSame
  <2>2. PICK path : path = Branch(log, from)
    OBVIOUS
  <2>3. path \subseteq DOMAIN log /\ path \subseteq Nat
    BY <2>2, BranchBelow DEF IsLog
  <2>4. \A i \in path : new[i] = log[i]
    BY <1>2, <2>3
  <2>5. /\ {i \in path : new[i].kind \in Carried} = {i \in path : log[i].kind \in Carried}
        /\ {i \in path : new[i].kind = "compaction"} = {i \in path : log[i].kind = "compaction"}
    BY <2>4
  <2>6. PICK c : c = Newest({i \in path : log[i].kind = "compaction"})
    OBVIOUS
  <2>7. c = None \/ new[c] = log[c]
    <3>1. {i \in path : log[i].kind = "compaction"} \subseteq Nat
      BY <2>3
    <3>2. c \in {i \in path : log[i].kind = "compaction"} \cup {None}
      BY <2>6, <3>1, NewestType
    <3> QED BY <2>4, <3>2
  <2>8. Context(new, from) = Context(log, from)
    BY <2>1, <2>2, <2>5, <2>6, <2>7 DEF Context
  <2> QED BY <2>1, <2>8
<1>6. e.kind \in {"info", "label", "unlabel"} => Context(new, n) = Context(log, e.parent)
  BY <1>1, MetadataKeeps
<1> QED BY <1>1, <1>5, <1>6

\* A branch goes on to the parent of every entry on it.
LEMMA BranchGoesOn ==
  ASSUME NEW log, IsLog(log), Older(log), NEW from \in Nat,
         NEW i \in Branch(log, from), log[i].parent \in DOMAIN log
  PROVE  log[i].parent \in Branch(log, from)
<1> DEFINE P(n) == \A j \in Branch(log, n) :
                     log[j].parent \in DOMAIN log => log[j].parent \in Branch(log, n)
           T    == {n \in Nat : P(n)}
<1>1. \A n \in DOMAIN log : n \in Nat /\ log[n].parent \in Nat /\ log[n].parent < n
  BY DEF IsLog, Entry, Older
<1>2. ASSUME NEW n \in Nat, \A m \in Nat : m < n => m \in T
      PROVE  n \in T
  <2>1. CASE n \in DOMAIN log
    <3>1. PICK p \in Nat : p = log[n].parent /\ p < n
      BY <1>1, <2>1
    <3>2. Branch(log, n) = {n} \cup Branch(log, p)
      BY <2>1, <3>1, BranchUnfolds
    <3>3. p \in DOMAIN log => p \in Branch(log, p)
      BY BranchUnfolds
    <3>4. P(p)
      BY <1>2, <3>1
    <3> QED BY <3>1, <3>2, <3>3, <3>4
  <2>2. CASE n \notin DOMAIN log
    BY <2>2, BranchUnfolds
  <2> QED BY <2>1, <2>2
<1> HIDE DEF T
<1>3. from \in T
  BY <1>2, NumbersFrom
<1> QED BY <1>3 DEF T

\* The entries from one id to the newest are on the branch of the newest when
\* each continues the one before it.
LEMMA LineBranch ==
  ASSUME NEW log, IsLog(log), Older(log), NEW a \in Nat, NEW b \in Nat,
         \A i \in a..b : i \in DOMAIN log /\ (i > a => log[i].parent = i - 1)
  PROVE  a..b \subseteq Branch(log, b)
<1> DEFINE T == {k \in Nat : b - k \in a..b => b - k \in Branch(log, b)}
<1>1. ASSUME NEW n \in Nat, \A m \in Nat : m < n => m \in T
      PROVE  n \in T
  <2>1. SUFFICES ASSUME b - n \in a..b PROVE b - n \in Branch(log, b)
    OBVIOUS
  <2>2. CASE n = 0
    <3>1. b \in DOMAIN log
      BY <2>1, <2>2
    <3>2. b \in Branch(log, b)
      BY <3>1, BranchUnfolds
    <3> QED BY <2>2, <3>2
  <2>3. CASE n > 0
    <3>1. PICK i \in a..b : i = b - (n - 1)
      BY <2>1, <2>3
    <3>2. n - 1 \in T
      BY <1>1, <2>3
    <3>3. i \in Branch(log, b)
      BY <3>1, <3>2
    <3>4. log[i].parent = b - n /\ b - n \in DOMAIN log
      BY <2>1, <2>3, <3>1
    <3> QED BY <3>3, <3>4, BranchGoesOn
  <2> QED BY <2>2, <2>3
<1> HIDE DEF T
<1>2. \A n \in Nat : n \in T
  BY <1>1, NumbersFrom
<1>3. ASSUME NEW i \in a..b PROVE i \in Branch(log, b)
  <2>1. PICK k \in Nat : i = b - k
    <3>1. b - i \in Nat /\ i = b - (b - i)
      OBVIOUS
    <3> QED BY <3>1
  <2>2. k \in T
    BY <1>2
  <2> QED BY <2>1, <2>2 DEF T
<1> QED BY <1>3
============================================================================
