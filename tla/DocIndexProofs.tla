---------------------------- MODULE DocIndexProofs ----------------------------
(***************************************************************************)
(* Theorems about DocIndex: the index of a branch whose HEAD was scanned   *)
(* is exact, and keeps the history, for any number of branches, paths and  *)
(* commits of any kinds.                                                   *)
(***************************************************************************)
EXTENDS DocIndex, SequenceTheorems, FiniteSetTheorems, WellFoundedInduction, TLAPS

-----------------------------------------------------------------------------
(* The inductive invariant *)

FileSet == [id : Nat, at : Nat]
EventSet == [type : {"created", "deleted", "renamed"},
             old : Paths \cup {None}, new : Paths \cup {None}, at : Nat]
Trees == [Paths -> FileSet \cup {None}]

ScanSet ==
  {Idle}
  \cup [phase : {"entries"}, branch : Branches,
        todo : SUBSET Paths, from : [Paths -> Paths \cup {None}]]
  \cup [phase : {"history"}, branch : Branches, next : Nat \ {0}]
  \cup [phase : {"mark"}, branch : Branches]

GitTypes ==
  /\ commits \in 0..MaxCommits
  /\ tree \in [Branches -> Trees]
  /\ log \in [Branches -> Seq(EventSet)]
  /\ head \in [Branches -> Nat]
  /\ moved \subseteq Paths
DbTypes ==
  /\ base \in [Branches -> [head : Nat, tree : Trees]]
  /\ docs \subseteq Paths
  /\ version \in [Branches -> [Paths -> [path : Paths, status : Status, stamp : Nat]
                                        \cup {None}]]
  /\ events \subseteq [doc : docs, branch : Branches, event : EventSet]
  /\ scan \in ScanSet
  /\ scans \in Nat

HeadsOrdered ==
  \A b \in Branches : base[b].head <= head[b] /\ head[b] <= commits

\* Files of one identity at two paths: a rename or a copy has made them.
Alike(s, t) ==
  \A p, q \in Paths :
    p # q /\ s[p] # None /\ t[q] # None /\ s[p].id = t[q].id => {p, q} \subseteq moved
IdsOld(t) == \A p \in Files(t) : t[p].id <= commits
IdsConsistent ==
  \A b \in Branches :
    /\ IdsOld(tree[b]) /\ IdsOld(base[b].tree)
    /\ Alike(tree[b], tree[b]) /\ Alike(base[b].tree, tree[b])

\* What the log names, and that renames alone join two paths.
LogConsistent ==
  \A b \in Branches : \A i \in 1..Len(log[b]) :
    LET e == log[b][i] IN
    /\ e.new \in Paths \/ (e.new = None /\ e.old \in Paths)
    /\ moved = {} => e.old = None \/ e.new = None

\* A document is found at its own path, or both have been moved.
KeysConsistent ==
  \A b \in Branches, d \in Paths : version[b][d] # None =>
    /\ d \in docs
    /\ version[b][d].path = d \/ {d, version[b][d].path} \subseteq moved
    /\ version[b][d].stamp <= scans

\* The unmoved files of a branch that have their live version already.
LiveFiles(b, todo) ==
  \A p \in Files(tree[b]) \ (moved \cup todo) : IsLive(version[b][p])
ToldUpTo(b, n) ==
  moved = {} => \A i \in 1..Len(log[b]) : i < n => Told(b, log[b][i])

ScanConsistent ==
  scan # Idle =>
    /\ head[scan.branch] # base[scan.branch].head
    /\ scan.phase = "entries" =>
         /\ scan.todo \subseteq Files(tree[scan.branch])
         /\ LiveFiles(scan.branch, scan.todo)
         /\ \A q \in Paths : scan.from[q] # None => {q, scan.from[q]} \subseteq moved
    /\ scan.phase \in {"history", "mark"} => LiveFiles(scan.branch, {})
    /\ scan.phase = "history" => ToldUpTo(scan.branch, scan.next)
    /\ scan.phase = "mark" => ToldUpTo(scan.branch, Len(log[scan.branch]) + 1)

\* The index of a branch whose HEAD has been scanned, also while another
\* branch is being scanned.
Exact(b) ==
  \A p \in Paths \ moved : IsLive(version[b][p]) <=> p \in Files(tree[b])
UpToDate ==
  \A b \in Branches : base[b].head = head[b] =>
    Exact(b) /\ ToldUpTo(b, Len(log[b]) + 1)

DeletionsTold ==
  \A b \in Branches, d \in Paths :
    version[b][d] # None /\ version[b][d].status = "deleted" =>
      \E x \in events : /\ x.branch = b /\ x.event.type = "deleted"
                        /\ x.event.old = version[b][d].path

\* Every scan has a commit of its own: the ones to come, too.
Unscanned ==
  {b \in Branches : head[b] # base[b].head /\ ~(scan # Idle /\ scan.branch = b)}
ScansCounted ==
  IsFiniteSet(Unscanned) /\ scans + Cardinality(Unscanned) <= commits

IInv ==
  /\ GitTypes /\ DbTypes /\ HeadsOrdered /\ IdsConsistent /\ LogConsistent
  /\ KeysConsistent /\ ScanConsistent /\ UpToDate /\ DeletionsTold /\ ScansCounted

-----------------------------------------------------------------------------
(* Initial states *)

LEMMA InitIInv == Init => IInv
<1> SUFFICES ASSUME Init PROVE IInv
  OBVIOUS
<1> USE CommitsAssumption, NoneAssumption DEF Init
<1>1. GitTypes
  <2>1. NoTree \in Trees
    BY DEF NoTree, Trees
  <2>2. <<>> \in Seq(EventSet)
    OBVIOUS
  <2> QED BY <2>1, <2>2 DEF GitTypes
<1>2. DbTypes
  <2>1. NoTree \in Trees
    BY DEF NoTree, Trees
  <2> QED BY <2>1 DEF DbTypes, ScanSet
<1>3. HeadsOrdered
  BY DEF HeadsOrdered
<1>4. IdsConsistent
  BY DEF IdsConsistent, IdsOld, Alike, NoTree, Files
<1>5. LogConsistent
  BY DEF LogConsistent
<1>6. KeysConsistent
  BY DEF KeysConsistent
<1>7. ScanConsistent
  BY DEF ScanConsistent
<1>8. UpToDate
  BY DEF UpToDate, Exact, ToldUpTo, NoTree, Files, IsLive
<1>9. DeletionsTold
  BY DEF DeletionsTold
<1>10. ScansCounted
  <2>1. Unscanned = {}
    BY DEF Unscanned
  <2> QED BY <2>1, FS_EmptySet DEF ScansCounted
<1> QED BY <1>1, <1>2, <1>3, <1>4, <1>5, <1>6, <1>7, <1>8, <1>9, <1>10 DEF IInv

-----------------------------------------------------------------------------
(* git *)

LEMMA OneMore ==
  ASSUME NEW S, NEW x, IsFiniteSet(S)
  PROVE  /\ IsFiniteSet(S \cup {x})
         /\ Cardinality(S \cup {x}) <= Cardinality(S) + 1
         /\ Cardinality(S) \in Nat /\ Cardinality(S \cup {x}) \in Nat
BY FS_AddElement, FS_CardinalityType

\* What a commit may do to a tree: identities it makes are new or come from
\* files that are moved by it.
LEMMA CommitStep ==
  ASSUME IInv, NEW b \in Branches, NEW changed \in Trees,
         NEW entries \in Seq(EventSet), NEW between \in SUBSET Paths,
         Commit(b, changed, entries, between),
         \A p \in Files(changed) : changed[p].id <= commits + 1,
         \A p, q \in Paths :
           p # q /\ changed[p] # None /\ changed[q] # None /\ changed[p].id = changed[q].id
             => {p, q} \subseteq moved \cup between,
         \A p, q \in Paths :
           p # q /\ base[b].tree[p] # None /\ changed[q] # None
             /\ base[b].tree[p].id = changed[q].id => {p, q} \subseteq moved \cup between,
         \A i \in 1..Len(entries) :
           LET e == entries[i] IN
           /\ e.new \in Paths \/ (e.new = None /\ e.old \in Paths)
           /\ between = {} => e.old = None \/ e.new = None
  PROVE  IInv'
<1> USE DEF IInv, Commit, dbVars
<1>0. /\ commits \in Nat /\ scan = Idle /\ scan' = Idle
      /\ head[b] # commits + 1 /\ base[b].head # commits + 1
      /\ head'[b] = commits + 1 /\ base' = base
      /\ \A c \in Branches \ {b} : head'[c] = head[c] /\ tree'[c] = tree[c]
                                   /\ log'[c] = log[c]
      /\ tree'[b] = changed /\ log'[b] = log[b] \o entries
      /\ moved \subseteq moved'
      /\ base \in [Branches -> [head : Nat, tree : Trees]]
      /\ head \in [Branches -> Nat]
  BY CommitsAssumption DEF GitTypes, DbTypes, HeadsOrdered
<1>1. GitTypes'
  <2>1. log[b] \o entries \in Seq(EventSet)
    BY ConcatProperties DEF GitTypes
  <2> QED BY <2>1, CommitsAssumption DEF GitTypes
<1>2. DbTypes'
  BY <1>0 DEF DbTypes
<1>3. HeadsOrdered'
  BY <1>0 DEF HeadsOrdered, GitTypes
<1>4. IdsConsistent'
  <2>1. ASSUME NEW c \in Branches PROVE IdsOld(tree[c])' /\ IdsOld(base[c].tree)'
    <3>1. base[c].tree \in Trees /\ tree[c] \in Trees
      BY <1>0 DEF GitTypes
    <3>2. \A p \in Files(base[c].tree) : base[c].tree[p].id <= commits + 1
      BY <1>0, <3>1 DEF IdsConsistent, IdsOld, Files, Trees, FileSet
    <3>3. \A p \in Files(tree[c]) : tree[c][p].id <= commits + 1
      BY <1>0, <3>1 DEF IdsConsistent, IdsOld, Files, Trees, FileSet
    <3> QED BY <1>0, <3>2, <3>3 DEF IdsOld, Files
  <2>2. ASSUME NEW c \in Branches \ {b}
        PROVE  Alike(tree[c], tree[c])' /\ Alike(base[c].tree, tree[c])'
    BY <1>0 DEF IdsConsistent, Alike
  <2>3. Alike(tree[b], tree[b])' /\ Alike(base[b].tree, tree[b])'
    BY <1>0 DEF Alike
  <2> QED BY <2>1, <2>2, <2>3 DEF IdsConsistent
<1>5. LogConsistent'
  <2>1. ASSUME NEW c \in Branches \ {b}, NEW i \in 1..Len(log'[c])
        PROVE  /\ log'[c][i].new \in Paths \/ (log'[c][i].new = None /\ log'[c][i].old \in Paths)
               /\ moved' = {} => log'[c][i].old = None \/ log'[c][i].new = None
    BY <1>0 DEF LogConsistent
  <2>2. ASSUME NEW i \in 1..Len(log'[b])
        PROVE  /\ log'[b][i].new \in Paths \/ (log'[b][i].new = None /\ log'[b][i].old \in Paths)
               /\ moved' = {} => log'[b][i].old = None \/ log'[b][i].new = None
    <3>1. /\ Len(log[b]) \in Nat /\ Len(entries) \in Nat
          /\ Len(log'[b]) = Len(log[b]) + Len(entries)
          /\ log'[b][i] = IF i <= Len(log[b]) THEN log[b][i] ELSE entries[i - Len(log[b])]
      BY <1>0, ConcatProperties, LenProperties DEF GitTypes
    <3>2. CASE i <= Len(log[b])
      BY <1>0, <3>1, <3>2 DEF LogConsistent
    <3>3. CASE i > Len(log[b])
      <4>1. i - Len(log[b]) \in 1..Len(entries)
        BY <3>1, <3>3
      <4> QED BY <3>1, <3>3, <4>1
    <3> QED BY <3>1, <3>2, <3>3
  <2> QED BY <2>1, <2>2 DEF LogConsistent
<1>6. KeysConsistent'
  BY <1>0 DEF KeysConsistent
<1>7. ScanConsistent'
  BY <1>0 DEF ScanConsistent
<1>8. UpToDate'
  <2> SUFFICES ASSUME NEW c \in Branches, base'[c].head = head'[c]
               PROVE  Exact(c)' /\ ToldUpTo(c, Len(log[c]) + 1)'
    BY DEF UpToDate
  <2>1. c # b /\ base[c].head = head[c]
    BY <1>0
  <2>2. Exact(c)'
    BY <1>0, <2>1 DEF UpToDate, Exact
  <2>3. ToldUpTo(c, Len(log[c]) + 1)'
    BY <1>0, <2>1 DEF UpToDate, ToldUpTo, Told
  <2> QED BY <2>2, <2>3
<1>9. DeletionsTold'
  BY DEF DeletionsTold
<1>10. ScansCounted'
  <2>1. Unscanned' = Unscanned \cup {b}
    BY <1>0 DEF Unscanned
  <2>2. /\ IsFiniteSet(Unscanned')
        /\ Cardinality(Unscanned') <= Cardinality(Unscanned) + 1
        /\ Cardinality(Unscanned) \in Nat /\ Cardinality(Unscanned') \in Nat
    BY <2>1, OneMore DEF ScansCounted
  <2>3. scans' = scans /\ scans \in Nat /\ commits' = commits + 1
    BY DEF DbTypes
  <2> QED BY <1>0, <2>2, <2>3 DEF ScansCounted
<1> QED BY <1>1, <1>2, <1>3, <1>4, <1>5, <1>6, <1>7, <1>8, <1>9, <1>10

\* What the files of a branch are, for the five kinds of commit.
LEMMA TreeTypes ==
  ASSUME IInv, NEW b \in Branches
  PROVE  /\ commits \in Nat
         /\ tree[b] \in Trees /\ base[b].tree \in Trees
         /\ \A p \in Paths : tree[b][p] # None =>
              tree[b][p] \in FileSet /\ tree[b][p].id <= commits
         /\ \A p \in Paths : base[b].tree[p] # None =>
              base[b].tree[p] \in FileSet /\ base[b].tree[p].id <= commits
<1>1. commits \in Nat /\ tree[b] \in Trees /\ base[b].tree \in Trees
  BY CommitsAssumption DEF IInv, GitTypes, DbTypes
<1>2. IdsOld(tree[b]) /\ IdsOld(base[b].tree)
  BY DEF IInv, IdsConsistent
<1> QED BY <1>1, <1>2 DEF IdsOld, Files, Trees

LEMMA EventTypes ==
  ASSUME NEW n \in Nat, NEW p \in Paths, NEW q \in Paths
  PROVE  /\ Event("created", None, p, n) \in EventSet
         /\ Event("deleted", p, None, n) \in EventSet
         /\ Event("renamed", p, q, n) \in EventSet
BY DEF Event, EventSet

LEMMA CreateIInv ==
  ASSUME IInv, NEW b \in Branches, NEW p \in Paths, Create(b, p) PROVE IInv'
<1> DEFINE n == commits + 1
           t == [tree[b] EXCEPT ![p] = File(n, n)]
           es == <<Event("created", None, p, n)>>
<1>1. Commit(b, t, es, {})
  BY DEF Create
<1>2. t \in Trees /\ es \in Seq(EventSet)
  BY TreeTypes, EventTypes DEF Trees, FileSet, File
<1>3. /\ t[p] = File(n, n) /\ File(n, n).id = n
      /\ \A q \in Paths \ {p} : t[q] = tree[b][q]
  BY TreeTypes DEF Trees, File
<1>4. \A q \in Files(t) : t[q].id <= n
  BY <1>3, TreeTypes DEF Files, FileSet
<1>5. \A q, r \in Paths : q # r /\ t[q] # None /\ t[r] # None /\ t[q].id = t[r].id
                            => {q, r} \subseteq moved \cup {}
  BY <1>3, TreeTypes DEF IInv, IdsConsistent, Alike, FileSet
<1>6. \A q, r \in Paths : q # r /\ base[b].tree[q] # None /\ t[r] # None
                            /\ base[b].tree[q].id = t[r].id => {q, r} \subseteq moved \cup {}
  BY <1>3, TreeTypes DEF IInv, IdsConsistent, Alike, FileSet
<1>7. \A i \in 1..Len(es) : es[i].new \in Paths /\ es[i].old = None
  BY DEF Event
<1> HIDE DEF t, es
<1> QED BY <1>1, <1>2, <1>4, <1>5, <1>6, <1>7, CommitStep

LEMMA ModifyIInv ==
  ASSUME IInv, NEW b \in Branches, NEW p \in Paths, Modify(b, p) PROVE IInv'
<1> DEFINE n == commits + 1
           t == [tree[b] EXCEPT ![p].at = n]
<1>1. Commit(b, t, <<>>, {}) /\ tree[b][p] # None
  BY DEF Modify
<1>2. /\ t[p] = [tree[b][p] EXCEPT !.at = n]
      /\ \A q \in Paths \ {p} : t[q] = tree[b][q]
  BY TreeTypes DEF Trees
<1>3. t[p] \in FileSet /\ t[p].id = tree[b][p].id
  BY <1>1, <1>2, TreeTypes DEF FileSet
<1>4. t \in Trees
  BY <1>1, TreeTypes DEF Trees, FileSet
<1>5. \A q \in Files(t) : t[q].id <= n
  BY <1>1, <1>2, <1>3, TreeTypes DEF Files, FileSet
<1>6. \A q, r \in Paths : q # r /\ t[q] # None /\ t[r] # None /\ t[q].id = t[r].id
                            => {q, r} \subseteq moved \cup {}
  BY <1>1, <1>2, <1>3 DEF IInv, IdsConsistent, Alike
<1>7. \A q, r \in Paths : q # r /\ base[b].tree[q] # None /\ t[r] # None
                            /\ base[b].tree[q].id = t[r].id => {q, r} \subseteq moved \cup {}
  BY <1>1, <1>2, <1>3 DEF IInv, IdsConsistent, Alike
<1> DEFINE es == <<>>
<1>8. Commit(b, t, es, {}) /\ es \in Seq(EventSet) /\ \A i \in 1..Len(es) : FALSE
  BY <1>1
<1> HIDE DEF t, es
<1> QED BY <1>4, <1>5, <1>6, <1>7, <1>8, CommitStep

LEMMA DeleteIInv ==
  ASSUME IInv, NEW b \in Branches, NEW p \in Paths, Delete(b, p) PROVE IInv'
<1> DEFINE n == commits + 1
           t == [tree[b] EXCEPT ![p] = None]
           es == <<Event("deleted", p, None, n)>>
<1>1. Commit(b, t, es, {})
  BY DEF Delete
<1>2. t \in Trees /\ es \in Seq(EventSet)
  BY TreeTypes, EventTypes DEF Trees
<1>3. t[p] = None /\ \A q \in Paths \ {p} : t[q] = tree[b][q]
  BY TreeTypes DEF Trees
<1>4. \A q \in Files(t) : t[q].id <= n
  BY <1>3, TreeTypes DEF Files, FileSet
<1>5. \A q, r \in Paths : q # r /\ t[q] # None /\ t[r] # None /\ t[q].id = t[r].id
                            => {q, r} \subseteq moved \cup {}
  BY <1>3 DEF IInv, IdsConsistent, Alike
<1>6. \A q, r \in Paths : q # r /\ base[b].tree[q] # None /\ t[r] # None
                            /\ base[b].tree[q].id = t[r].id => {q, r} \subseteq moved \cup {}
  BY <1>3 DEF IInv, IdsConsistent, Alike
<1>7. \A i \in 1..Len(es) : es[i].new = None /\ es[i].old = p
  BY DEF Event
<1> HIDE DEF t, es
<1> QED BY <1>1, <1>2, <1>4, <1>5, <1>6, <1>7, CommitStep

LEMMA RenameIInv ==
  ASSUME IInv, NEW b \in Branches, NEW p \in Paths, NEW q \in Paths, Rename(b, p, q)
  PROVE  IInv'
<1> DEFINE n == commits + 1
           t == [tree[b] EXCEPT ![p] = None, ![q] = File(tree[b][p].id, n)]
           es == <<Event("renamed", p, q, n)>>
<1>1. Commit(b, t, es, {p, q}) /\ tree[b][p] # None /\ tree[b][q] = None /\ p # q
  BY DEF Rename
<1>2. File(tree[b][p].id, n) \in FileSet
  BY <1>1, TreeTypes DEF FileSet, File
<1>3. t \in Trees /\ es \in Seq(EventSet)
  BY <1>2, TreeTypes, EventTypes DEF Trees
<1>4. /\ t[p] = None /\ t[q] = File(tree[b][p].id, n) /\ t[q].id = tree[b][p].id
      /\ \A r \in Paths \ {p, q} : t[r] = tree[b][r]
  BY <1>1, TreeTypes DEF Trees, File
<1>5. \A r \in Files(t) : t[r].id <= n
  BY <1>1, <1>4, TreeTypes DEF Files, FileSet
<1>6. \A r, s \in Paths : r # s /\ t[r] # None /\ t[s] # None /\ t[r].id = t[s].id
                            => {r, s} \subseteq moved \cup {p, q}
  BY <1>1, <1>4 DEF IInv, IdsConsistent, Alike
<1>7. \A r, s \in Paths : r # s /\ base[b].tree[r] # None /\ t[s] # None
                            /\ base[b].tree[r].id = t[s].id => {r, s} \subseteq moved \cup {p, q}
  BY <1>1, <1>4 DEF IInv, IdsConsistent, Alike
<1>8. \A i \in 1..Len(es) : es[i].new \in Paths
  BY DEF Event
<1> HIDE DEF t, es
<1> QED BY <1>1, <1>3, <1>5, <1>6, <1>7, <1>8, CommitStep

LEMMA CopyIInv ==
  ASSUME IInv, NEW b \in Branches, NEW p \in Paths, NEW q \in Paths, Copy(b, p, q)
  PROVE  IInv'
<1> DEFINE n == commits + 1
           t == [tree[b] EXCEPT ![p].at = n, ![q] = File(tree[b][p].id, n)]
           es == <<Event("created", None, q, n)>>
<1>1. Commit(b, t, es, {p, q}) /\ tree[b][p] # None /\ tree[b][q] = None /\ p # q
  BY DEF Copy
<1>2. File(tree[b][p].id, n) \in FileSet /\ [tree[b][p] EXCEPT !.at = n] \in FileSet
  BY <1>1, TreeTypes DEF FileSet, File
<1>3. /\ t[p] = [tree[b][p] EXCEPT !.at = n] /\ t[p].id = tree[b][p].id
      /\ t[q] = File(tree[b][p].id, n) /\ t[q].id = tree[b][p].id
      /\ \A r \in Paths \ {p, q} : t[r] = tree[b][r]
  BY <1>1, TreeTypes DEF Trees, File, FileSet
<1>4. t \in Trees /\ es \in Seq(EventSet)
  <2>1. es \in Seq(EventSet)
    <3>1. n \in Nat
      BY TreeTypes
    <3>2. Event("created", None, q, n) \in EventSet
      BY <3>1, EventTypes
    <3> QED BY <3>2
  <2>2. DOMAIN t = Paths /\ t = [r \in Paths |-> t[r]]
    BY TreeTypes DEF Trees
  <2>3. \A r \in Paths : t[r] \in FileSet \cup {None}
    BY <1>1, <1>2, <1>3, TreeTypes DEF Trees
  <2> QED BY <2>1, <2>2, <2>3 DEF Trees
<1>5. \A r \in Files(t) : t[r].id <= n
  BY <1>1, <1>3, TreeTypes DEF Files, FileSet
<1>6. \A r, s \in Paths : r # s /\ t[r] # None /\ t[s] # None /\ t[r].id = t[s].id
                            => {r, s} \subseteq moved \cup {p, q}
  BY <1>1, <1>3 DEF IInv, IdsConsistent, Alike
<1>7. \A r, s \in Paths : r # s /\ base[b].tree[r] # None /\ t[s] # None
                            /\ base[b].tree[r].id = t[s].id => {r, s} \subseteq moved \cup {p, q}
  BY <1>1, <1>3 DEF IInv, IdsConsistent, Alike
<1>8. \A i \in 1..Len(es) : es[i].new \in Paths
  BY DEF Event
<1> HIDE DEF t, es
<1> QED BY <1>1, <1>4, <1>5, <1>6, <1>7, <1>8, CommitStep

-----------------------------------------------------------------------------
(* The scan *)

\* The scan of a branch is the only thing that happens meanwhile.
LEMMA ScanTypes ==
  ASSUME IInv, scan # Idle
  PROVE  /\ scan.branch \in Branches
         /\ tree[scan.branch] \in Trees /\ base[scan.branch].tree \in Trees
         /\ log[scan.branch] \in Seq(EventSet) /\ head[scan.branch] \in Nat
         /\ head[scan.branch] # base[scan.branch].head
         /\ \A p \in Paths : tree[scan.branch][p] # None =>
              tree[scan.branch][p] \in FileSet
BY DEF IInv, GitTypes, DbTypes, ScanSet, Idle, ScanConsistent, Trees

\* Nothing of git changes during a scan, nor the row in repo_refs.
LEMMA GitKept ==
  ASSUME IInv, UNCHANGED <<gitVars, base>>
  PROVE  GitTypes' /\ HeadsOrdered' /\ IdsConsistent' /\ LogConsistent'
BY DEF IInv, gitVars, GitTypes, HeadsOrdered, IdsConsistent, IdsOld, Alike, Files, LogConsistent

LEMMA CountKept ==
  ASSUME IInv, UNCHANGED <<gitVars, base, scans>>, scan # Idle, scan' # Idle,
         scan'.branch = scan.branch
  PROVE  ScansCounted'
<1>1. Unscanned' = Unscanned
  BY DEF Unscanned, gitVars
<1> QED BY <1>1 DEF ScansCounted, IInv, gitVars

\* What an origin tells: both files are of one identity.
LEMMA OriginsMoved ==
  ASSUME IInv, NEW b \in Branches, NEW q \in Paths, NEW p \in Origins(b, q)
  PROVE  p \in Paths /\ {p, q} \subseteq moved
<1>1. /\ p \in Paths /\ base[b].tree[p] # None /\ tree[b][q] # None
      /\ p # q /\ base[b].tree[p].id = tree[b][q].id
  BY DEF Origins, Files
<1> QED BY <1>1 DEF IInv, IdsConsistent, Alike

LEMMA BeginScanIInv ==
  ASSUME IInv, NEW b \in Branches, BeginScan(b) PROVE IInv'
<1>1. PICK f \in Renames(b) :
        scan' = [phase |-> "entries", branch |-> b, todo |-> Files(tree[b]), from |-> f]
  BY DEF BeginScan
<1>2. /\ scan = Idle /\ head[b] # base[b].head /\ scans' = scans + 1
      /\ UNCHANGED <<gitVars, dbVars>> /\ scan' # Idle
  BY <1>1 DEF BeginScan, Idle
<1>3. f \in [Paths -> Paths \cup {None}]
  BY DEF Renames
<1>4. \A q \in Paths : f[q] # None => {q, f[q]} \subseteq moved
  <2> SUFFICES ASSUME NEW q \in Paths, f[q] # None PROVE {q, f[q]} \subseteq moved
    OBVIOUS
  <2>1. f[q] \in Origins(b, q)
    BY DEF Renames
  <2> QED BY <2>1, OriginsMoved
<1>5. GitTypes' /\ HeadsOrdered' /\ IdsConsistent' /\ LogConsistent'
  BY <1>2, GitKept DEF dbVars
<1>6. DbTypes'
  <2>1. scan' \in ScanSet
    BY <1>1, <1>3 DEF ScanSet, Files
  <2> QED BY <1>2, <2>1 DEF IInv, DbTypes, dbVars, gitVars
<1>7. KeysConsistent'
  BY <1>2 DEF IInv, DbTypes, KeysConsistent, dbVars, gitVars
<1>8. ScanConsistent'
  BY <1>1, <1>2, <1>4 DEF ScanConsistent, LiveFiles, Files, dbVars, gitVars
<1>9. UpToDate' /\ DeletionsTold'
  BY <1>2 DEF IInv, UpToDate, Exact, ToldUpTo, Told, DeletionsTold, dbVars, gitVars, Files
<1>10. ScansCounted'
  <2>1. Unscanned' = Unscanned \ {b} /\ b \in Unscanned
    BY <1>1, <1>2 DEF Unscanned, dbVars, gitVars
  <2>2. IsFiniteSet(Unscanned) /\ scans + Cardinality(Unscanned) <= commits
    BY DEF IInv, ScansCounted
  <2>3. /\ IsFiniteSet(Unscanned')
        /\ Cardinality(Unscanned') = Cardinality(Unscanned) - 1
        /\ Cardinality(Unscanned) \in Nat
    BY <2>1, <2>2, FS_RemoveElement, FS_CardinalityType
  <2>4. scans \in Nat /\ commits' = commits /\ commits \in Nat
    BY <1>2, TreeTypes DEF IInv, DbTypes, gitVars
  <2> QED BY <1>2, <2>2, <2>3, <2>4 DEF ScansCounted
<1> QED BY <1>5, <1>6, <1>7, <1>8, <1>9, <1>10 DEF IInv

\* findDocumentByPath finds a document whose path was moved, or the path's own.
LEMMA FoundDocuments ==
  ASSUME IInv, NEW p \in Paths, NEW f \in Found(p), f # None
  PROVE  f \in Paths /\ f \in docs /\ (f = p \/ {f, p} \subseteq moved)
<1> DEFINE rows == {x \in Versions : Row(x).path = p}
<1>1. CASE rows # {}
  <2>1. PICK x \in rows : f = x[2]
    BY <1>1 DEF Found
  <2>2. /\ x[1] \in Branches /\ x[2] \in Paths
        /\ version[x[1]][x[2]] # None /\ version[x[1]][x[2]].path = p
    BY <2>1 DEF Versions, Row
  <2> QED BY <2>1, <2>2 DEF IInv, KeysConsistent
<1>2. CASE rows = {}
  BY <1>2 DEF Found
<1> QED BY <1>1, <1>2

\* What is told stays told, when events are added or change hands.
LEMMA ToldKept ==
  ASSUME \A x \in events : \E y \in events' : y.branch = x.branch /\ y.event = x.event
  PROVE  \A b, e : Told(b, e) => Told(b, e)'
BY DEF Told

\* The rows of a branch: what makes the index up to date looks only at whether
\* a version is live.
LEMMA OthersUpToDate ==
  ASSUME IInv, UNCHANGED <<gitVars, base>>, scan # Idle,
         \A c \in Branches \ {scan.branch} : version'[c] = version[c],
         \A b, e : Told(b, e) => Told(b, e)'
  PROVE  UpToDate'
<1> SUFFICES ASSUME NEW c \in Branches, base'[c].head = head'[c]
             PROVE  Exact(c)' /\ ToldUpTo(c, Len(log[c]) + 1)'
  BY DEF UpToDate
<1>1. c # scan.branch /\ base[c].head = head[c]
  BY ScanTypes DEF gitVars
<1>2. Exact(c) /\ ToldUpTo(c, Len(log[c]) + 1) /\ version'[c] = version[c]
  BY <1>1 DEF IInv, UpToDate
<1> QED BY <1>2 DEF Exact, ToldUpTo, gitVars, Files

\* A set of paths has a first one.
LEMMA LeastPath ==
  ASSUME NEW S \in SUBSET Paths, S # {}
  PROVE  \E q \in S : \A r \in S : q <= r
<1> DEFINE R == OpToRel(<, Nat)
<1>1. S \subseteq Nat
  BY DEF Paths
<1>2. \E q \in S : \A r \in S : ~ (<<r, q>> \in R)
  <2> HIDE DEF R
  <2> QED BY <1>1, NatLessThanWellFounded, WFMin DEF R
<1>3. \A q, r \in Nat : r < q => <<r, q>> \in R
  BY DEF OpToRel
<1> HIDE DEF R
<1>4. PICK q \in S : \A r \in S : ~ (<<r, q>> \in R)
  BY <1>2
<1>5. \A r \in S : ~ (r < q)
  BY <1>1, <1>3, <1>4
<1> QED BY <1>1, <1>5

LEMMA ScanEntryIInv == ASSUME IInv, ScanEntry PROVE IInv'
<1> DEFINE b == scan.branch
           p == CHOOSE q \in scan.todo : \A r \in scan.todo : q <= r
           old == scan.from[p]
<1>1. /\ scan # Idle /\ scan.phase = "entries" /\ scan.todo # {}
      /\ scan \in [phase : {"entries"}, branch : Branches,
                   todo : SUBSET Paths, from : [Paths -> Paths \cup {None}]]
      /\ UNCHANGED <<gitVars, base, scans>>
  BY DEF ScanEntry, IInv, DbTypes, ScanSet, Idle
<1>2. p \in scan.todo /\ p \in Paths
  <2>1. \E q \in scan.todo : \A r \in scan.todo : q <= r
    BY <1>1, LeastPath
  <2> QED BY <1>1, <2>1
<1>3. PICK f \in IF old # None THEN Found(old) ELSE {None} :
        \E d \in IF f # None THEN {f} ELSE {p} :
          /\ docs' = docs \cup {d}
          /\ Upsert(b, d, p, IF old # None THEN "renamed" ELSE "active")
          /\ IF old # None
             THEN Insert(d, b, Event("renamed", old, p, tree[b][p].at))
             ELSE UNCHANGED events
  BY DEF ScanEntry, Document, WithDocument
<1>3a. PICK d \in IF f # None THEN {f} ELSE {p} :
        /\ docs' = docs \cup {d}
        /\ Upsert(b, d, p, IF old # None THEN "renamed" ELSE "active")
        /\ IF old # None
           THEN Insert(d, b, Event("renamed", old, p, tree[b][p].at))
           ELSE UNCHANGED events
  BY <1>3
<1>4. scan' = [scan EXCEPT !.todo = @ \ {p}]
  BY DEF ScanEntry
<1> HIDE DEF p, old
<1>5. old # None => old \in Paths /\ {p, old} \subseteq moved
  BY <1>1, <1>2 DEF IInv, ScanConsistent, old
<1>6. d \in Paths /\ (d = p \/ {d, p} \subseteq moved)
  <2>1. CASE f # None
    <3>1. old # None /\ f \in Found(old) /\ d = f
      BY <1>3, <1>3a, <2>1
    <3> QED BY <1>5, <2>1, <3>1, FoundDocuments
  <2>2. CASE f = None
    BY <1>2, <1>3a, <2>2
  <2> QED BY <2>1, <2>2
<1>7. /\ b \in Branches /\ tree[b][p] \in FileSet \cup {None}
      /\ version \in [Branches -> [Paths -> [path : Paths, status : Status, stamp : Nat]
                                            \cup {None}]]
      /\ scans \in Nat
  BY <1>1, <1>2, ScanTypes DEF IInv, DbTypes, Trees
<1>8. PICK st \in {"active", "renamed"} :
        version' = [version EXCEPT ![b][d] = [path |-> p, status |-> st, stamp |-> scans]]
  BY <1>3a DEF Upsert
<1>9. /\ \A c \in Branches \ {b} : version'[c] = version[c]
      /\ \A k \in Paths \ {d} : version'[b][k] = version[b][k]
      /\ version'[b][d] = [path |-> p, status |-> st, stamp |-> scans]
      /\ version'[b][d] # None
      /\ IsLive(version'[b][d])
  BY <1>2, <1>6, <1>7, <1>8, NoneAssumption DEF IsLive
<1>10. events \subseteq events'
       /\ events' \subseteq [doc : docs', branch : Branches, event : EventSet]
  <2>1. CASE old = None
    BY <1>3a, <2>1 DEF IInv, DbTypes
  <2>2. CASE old # None
    <3>1. Event("renamed", old, p, tree[b][p].at) \in EventSet
      <4>1. p \in Files(tree[b])
        BY <1>1, <1>2 DEF IInv, DbTypes, ScanConsistent
      <4>2. tree[b][p].at \in Nat
        BY <1>2, <1>7, <4>1 DEF Files, FileSet
      <4> QED BY <1>2, <1>5, <2>2, <4>2, EventTypes
    <3>2. events' = events \cup
            {[doc |-> d, branch |-> b, event |-> Event("renamed", old, p, tree[b][p].at)]}
      BY <1>3a, <2>2 DEF Insert
    <3> QED BY <1>3a, <1>7, <3>1, <3>2 DEF IInv, DbTypes
  <2> QED BY <2>1, <2>2
<1>11. GitTypes' /\ HeadsOrdered' /\ IdsConsistent' /\ LogConsistent'
  BY <1>1, GitKept
<1>12. DbTypes'
  <2>1. scan' \in ScanSet
    BY <1>1, <1>4 DEF ScanSet
  <2>2. version' \in [Branches -> [Paths -> [path : Paths, status : Status, stamp : Nat]
                                            \cup {None}]]
    BY <1>2, <1>6, <1>7, <1>8 DEF Status
  <2>3. docs' \subseteq Paths
    BY <1>3a, <1>6 DEF IInv, DbTypes
  <2> QED BY <1>1, <1>10, <2>1, <2>2, <2>3 DEF IInv, DbTypes
<1>13. KeysConsistent'
  BY <1>1, <1>3a, <1>6, <1>7, <1>9 DEF IInv, KeysConsistent, gitVars
<1>14. ScanConsistent'
  <2>1. /\ scan' # Idle /\ scan'.phase = "entries" /\ scan'.branch = b
        /\ scan'.todo = scan.todo \ {p} /\ scan'.from = scan.from
    BY <1>1, <1>4 DEF Idle
  <2>2. ASSUME NEW q \in Files(tree[b]) \ (moved \cup scan'.todo)
        PROVE  IsLive(version'[b][q])
    <3>1. CASE q = p
      BY <1>6, <1>9, <3>1
    <3>2. CASE q # p
      <4>1. IsLive(version[b][q]) /\ q \in Paths
        BY <1>1, <2>1, <3>2 DEF IInv, ScanConsistent, LiveFiles, Files
      <4> QED BY <1>9, <4>1
    <3> QED BY <3>1, <3>2
  <2>3. LiveFiles(scan.branch, scan.todo)'
    BY <1>1, <2>1, <2>2 DEF LiveFiles, gitVars, Files
  <2> QED BY <1>1, <2>1, <2>2 DEF IInv, ScanConsistent, LiveFiles, gitVars, Files
<1>15. UpToDate'
  BY <1>1, <1>9, <1>10, ToldKept, OthersUpToDate
<1>16. DeletionsTold'
  BY <1>9, <1>10 DEF IInv, DeletionsTold
<1>17. ScansCounted'
  BY <1>1, <1>4, CountKept DEF Idle
<1> QED BY <1>11, <1>12, <1>13, <1>14, <1>15, <1>16, <1>17 DEF IInv

LEMMA EndEntriesIInv == ASSUME IInv, EndEntries PROVE IInv'
<1>1. /\ scan # Idle /\ scan.phase = "entries" /\ scan.todo = {}
      /\ scan.branch \in Branches
      /\ UNCHANGED <<gitVars, dbVars, scans>>
      /\ scan' = [phase |-> "history", branch |-> scan.branch, next |-> 1]
      /\ scan' # Idle
  BY ScanTypes DEF EndEntries, Idle
<1>2. GitTypes' /\ HeadsOrdered' /\ IdsConsistent' /\ LogConsistent'
  BY <1>1, GitKept DEF dbVars
<1>3. DbTypes'
  BY <1>1 DEF IInv, DbTypes, dbVars, ScanSet
<1>4. KeysConsistent' /\ DeletionsTold'
  BY <1>1 DEF IInv, KeysConsistent, DeletionsTold, dbVars, gitVars
<1>5. ScanConsistent'
  BY <1>1 DEF IInv, ScanConsistent, LiveFiles, ToldUpTo, dbVars, gitVars, Files
<1>6. UpToDate'
  BY <1>1 DEF IInv, UpToDate, Exact, ToldUpTo, Told, dbVars, gitVars, Files
<1>7. ScansCounted'
  BY <1>1, CountKept DEF dbVars
<1> QED BY <1>2, <1>3, <1>4, <1>5, <1>6, <1>7 DEF IInv

LEMMA EndHistoryIInv == ASSUME IInv, EndHistory PROVE IInv'
<1>1. /\ scan # Idle /\ scan.phase = "history" /\ ~MoreHistory
      /\ scan.branch \in Branches
      /\ scan \in [phase : {"history"}, branch : Branches, next : Nat \ {0}]
      /\ UNCHANGED <<gitVars, dbVars, scans>>
      /\ scan' = [phase |-> "mark", branch |-> scan.branch]
      /\ scan' # Idle
  BY ScanTypes DEF EndHistory, Idle, IInv, DbTypes, ScanSet
<1>2. GitTypes' /\ HeadsOrdered' /\ IdsConsistent' /\ LogConsistent'
  BY <1>1, GitKept DEF dbVars
<1>3. DbTypes'
  BY <1>1 DEF IInv, DbTypes, dbVars, ScanSet
<1>4. KeysConsistent' /\ DeletionsTold'
  BY <1>1 DEF IInv, KeysConsistent, DeletionsTold, dbVars, gitVars
<1>5. ScanConsistent'
  <2>1. Len(log[scan.branch]) \in Nat /\ scan.next > Len(log[scan.branch])
    BY <1>1, ScanTypes, LenProperties DEF MoreHistory
  <2>2. ToldUpTo(scan.branch, Len(log[scan.branch]) + 1) /\ LiveFiles(scan.branch, {})
    BY <1>1, <2>1 DEF IInv, ScanConsistent, ToldUpTo
  <2> QED BY <1>1, <2>2 DEF IInv, ScanConsistent, LiveFiles, ToldUpTo, Told, dbVars, gitVars, Files
<1>6. UpToDate'
  BY <1>1 DEF IInv, UpToDate, Exact, ToldUpTo, Told, dbVars, gitVars, Files
<1>7. ScansCounted'
  BY <1>1, CountKept DEF dbVars
<1> QED BY <1>2, <1>3, <1>4, <1>5, <1>6, <1>7 DEF IInv

LEMMA BackfillIInv == ASSUME IInv, Backfill PROVE IInv'
<1> DEFINE b == scan.branch
           e == log[b][scan.next]
           p == IF e.new # None THEN e.new ELSE e.old
<1>1. /\ scan # Idle /\ scan.phase = "history" /\ MoreHistory
      /\ scan \in [phase : {"history"}, branch : Branches, next : Nat \ {0}]
      /\ b \in Branches
      /\ UNCHANGED <<gitVars, base, scans>>
  <2>1. scan.phase = "history" /\ MoreHistory /\ UNCHANGED <<gitVars, base, scans>>
    BY DEF Backfill
  <2> QED BY <2>1 DEF IInv, DbTypes, ScanSet, Idle
<1>2. scan.next \in 1..Len(log[b]) /\ Len(log[b]) \in Nat
  BY <1>1, ScanTypes, LenProperties DEF MoreHistory
<1>3. /\ e \in EventSet
      /\ e.new \in Paths \/ (e.new = None /\ e.old \in Paths)
      /\ moved = {} => e.old = None \/ e.new = None
      /\ p \in Paths
  <2>1. e \in EventSet
    BY <1>2, ScanTypes, <1>1, ElementOfSeq
  <2>2. /\ e.new \in Paths \/ (e.new = None /\ e.old \in Paths)
        /\ moved = {} => e.old = None \/ e.new = None
    BY <1>1, <1>2 DEF IInv, LogConsistent
  <2> QED BY <2>1, <2>2, NoneAssumption
<1>4. PICK f \in Found(p) :
        \E o \in IF e.old = None THEN {None} ELSE IF e.old = p THEN {f} ELSE Found(e.old) :
          LET d == IF f # None THEN f ELSE IF o # None THEN o ELSE p
              merges == f # None /\ o \notin {None, f}
          IN IF merges /\ Reassigned(b, o, d) \cap events # {}
             THEN /\ scan' = [phase |-> "mark", branch |-> b]
                  /\ UNCHANGED <<docs, version, events>>
             ELSE /\ docs' = docs \cup {d}
                  /\ events' = (IF merges THEN (events \ Owned(b, o)) \cup Reassigned(b, o, d)
                                ELSE events)
                               \cup {[doc |-> d, branch |-> b, event |-> e]}
                  /\ version' =
                       [version EXCEPT ![b] =
                          [k \in Paths |->
                             IF e.type = "renamed" /\ IsLive(@[k]) /\ @[k].path = e.new
                             THEN [@[k] EXCEPT !.status = "renamed", !.stamp = scans]
                             ELSE @[k]]]
                  /\ scan' = [scan EXCEPT !.next = @ + 1]
  BY DEF Backfill, WithDocument
<1>5. PICK o \in IF e.old = None THEN {None} ELSE IF e.old = p THEN {f} ELSE Found(e.old) :
        LET d == IF f # None THEN f ELSE IF o # None THEN o ELSE p
            merges == f # None /\ o \notin {None, f}
        IN IF merges /\ Reassigned(b, o, d) \cap events # {}
           THEN /\ scan' = [phase |-> "mark", branch |-> b]
                /\ UNCHANGED <<docs, version, events>>
           ELSE /\ docs' = docs \cup {d}
                /\ events' = (IF merges THEN (events \ Owned(b, o)) \cup Reassigned(b, o, d)
                              ELSE events)
                             \cup {[doc |-> d, branch |-> b, event |-> e]}
                /\ version' =
                     [version EXCEPT ![b] =
                        [k \in Paths |->
                           IF e.type = "renamed" /\ IsLive(@[k]) /\ @[k].path = e.new
                           THEN [@[k] EXCEPT !.status = "renamed", !.stamp = scans]
                           ELSE @[k]]]
                /\ scan' = [scan EXCEPT !.next = @ + 1]
  BY <1>4
<1> DEFINE d == IF f # None THEN f ELSE IF o # None THEN o ELSE p
           merges == f # None /\ o \notin {None, f}
<1>6. d \in Paths
  <2>1. f # None => f \in Paths
    BY <1>3, <1>4, FoundDocuments
  <2>2. o # None => o \in Paths
    <3>1. CASE e.old = p
      BY <1>5, <2>1, <3>1
    <3>2. CASE e.old # p
      BY <1>3, <1>5, <3>2, FoundDocuments DEF EventSet
    <3> QED BY <3>1, <3>2
  <2> QED BY <1>3, <2>1, <2>2
\* Without a rename there is one path in an entry, and one document.
<1>7. moved = {} => ~merges
  BY <1>3, <1>5
<1>8. GitTypes' /\ HeadsOrdered' /\ IdsConsistent' /\ LogConsistent'
  BY <1>1, GitKept
<1>9. CASE merges /\ Reassigned(b, o, d) \cap events # {}
  <2>1. /\ scan' = [phase |-> "mark", branch |-> b]
        /\ UNCHANGED <<docs, version, events>> /\ scan' # Idle
    BY <1>5, <1>9 DEF Idle
  <2> HIDE DEF e, d, merges
  <2>2. DbTypes'
    BY <1>1, <2>1 DEF IInv, DbTypes, ScanSet
  <2>3. KeysConsistent' /\ DeletionsTold'
    BY <1>1, <2>1 DEF IInv, KeysConsistent, DeletionsTold, gitVars
  <2>4. ScanConsistent'
    BY <1>1, <1>7, <1>9, <2>1
       DEF IInv, ScanConsistent, LiveFiles, ToldUpTo, gitVars, Files
  <2>5. UpToDate'
    BY <1>1, <2>1 DEF IInv, UpToDate, Exact, ToldUpTo, Told, gitVars, Files
  <2>6. ScansCounted'
    BY <1>1, <2>1, CountKept
  <2> QED BY <1>8, <2>2, <2>3, <2>4, <2>5, <2>6 DEF IInv
<1>10. CASE ~(merges /\ Reassigned(b, o, d) \cap events # {})
  <2>1. /\ docs' = docs \cup {d}
        /\ events' = (IF merges THEN (events \ Owned(b, o)) \cup Reassigned(b, o, d) ELSE events)
                     \cup {[doc |-> d, branch |-> b, event |-> e]}
        /\ version' = [version EXCEPT ![b] =
             [k \in Paths |->
                IF e.type = "renamed" /\ IsLive(@[k]) /\ @[k].path = e.new
                THEN [@[k] EXCEPT !.status = "renamed", !.stamp = scans]
                ELSE @[k]]]
        /\ scan' = [scan EXCEPT !.next = @ + 1]
    BY <1>5, <1>10
  <2> HIDE DEF d, merges, e
  <2>2. events \subseteq [doc : docs, branch : Branches, event : EventSet]
    BY DEF IInv, DbTypes
  <2>3. /\ events' \subseteq [doc : docs', branch : Branches, event : EventSet]
        /\ \A x \in events : \E y \in events' : y.branch = x.branch /\ y.event = x.event
    <3>1. Reassigned(b, o, d) \subseteq [doc : {d}, branch : Branches, event : EventSet]
      BY <2>2 DEF Reassigned, Owned
    <3>2. \A x \in Owned(b, o) : \E y \in Reassigned(b, o, d) :
             y.branch = x.branch /\ y.event = x.event
      <4> SUFFICES ASSUME NEW x \in Owned(b, o)
                   PROVE  \E y \in Reassigned(b, o, d) : y.branch = x.branch /\ y.event = x.event
        OBVIOUS
      <4>1. x \in [doc : docs, branch : Branches, event : EventSet]
        BY <2>2 DEF Owned
      <4>2. [x EXCEPT !.doc = d] \in Reassigned(b, o, d)
        BY DEF Reassigned
      <4>3. [x EXCEPT !.doc = d].branch = x.branch /\ [x EXCEPT !.doc = d].event = x.event
        BY <4>1
      <4> QED BY <4>2, <4>3
    <3>3. [doc |-> d, branch |-> b, event |-> e] \in
            [doc : docs', branch : Branches, event : EventSet]
      BY <1>1, <1>3, <2>1
    <3> QED BY <2>1, <2>2, <3>1, <3>2, <3>3
  <2>4. \E y \in events' : y.branch = b /\ y.event = e
    <3> DEFINE y == [doc |-> d, branch |-> b, event |-> e]
    <3>1. y \in events' /\ y.branch = b /\ y.event = e
      BY <2>1
    <3> QED BY <3>1
  <2>5. \A c, g : Told(c, g) => Told(c, g)'
    BY <2>3, ToldKept
  <2>6. /\ version \in [Branches -> [Paths -> [path : Paths, status : Status, stamp : Nat]
                                              \cup {None}]]
        /\ scans \in Nat
    BY DEF IInv, DbTypes
  <2>7. /\ \A c \in Branches \ {b} : version'[c] = version[c]
        /\ \A k \in Paths : version'[b][k] # version[b][k] =>
             /\ IsLive(version[b][k])
             /\ version'[b][k] = [version[b][k] EXCEPT !.status = "renamed", !.stamp = scans]
    BY <1>1, <2>1, <2>6
  <2>8. ASSUME NEW k \in Paths
        PROVE  /\ version[b][k] = None <=> version'[b][k] = None
               /\ IsLive(version[b][k]) <=> IsLive(version'[b][k])
               /\ version'[b][k] # None =>
                    /\ version'[b][k] \in [path : Paths, status : Status, stamp : Nat]
                    /\ version'[b][k].path = version[b][k].path
                    /\ version'[b][k].stamp \in {version[b][k].stamp, scans}
    <3>1. CASE version'[b][k] = version[b][k]
      BY <1>1, <2>6, <3>1
    <3>2. CASE version'[b][k] # version[b][k]
      <4>1. version[b][k] \in [path : Paths, status : Status, stamp : Nat] /\ version[b][k] # None
        <5>1. IsLive(version[b][k])
          BY <2>7, <3>2
        <5>2. version[b] \in [Paths -> [path : Paths, status : Status, stamp : Nat] \cup {None}]
          BY <1>1, <2>6
        <5> QED BY <5>1, <5>2 DEF IsLive
      <4>2. /\ version'[b][k] = [version[b][k] EXCEPT !.status = "renamed", !.stamp = scans]
            /\ IsLive(version[b][k])
        BY <2>7, <3>2
      <4>3. /\ version'[b][k] \in [path : Paths, status : Status, stamp : Nat]
            /\ version'[b][k].path = version[b][k].path
            /\ version'[b][k].stamp = scans /\ version'[b][k].status = "renamed"
        BY <2>6, <4>1, <4>2 DEF Status
      <4>4. version'[b][k] # None
        BY <4>3, NoneAssumption DEF Status
      <4> QED BY <4>1, <4>2, <4>3, <4>4 DEF IsLive
    <3> QED BY <3>1, <3>2
  <2>9. DbTypes'
    <3>1. scan' \in ScanSet
      <4>1. scan' = [phase |-> "history", branch |-> b, next |-> scan.next + 1]
        BY <1>1, <2>1
      <4>2. scan.next + 1 \in Nat \ {0}
        BY <1>1
      <4> QED BY <1>1, <4>1, <4>2 DEF ScanSet
    <3>2. version' \in [Branches -> [Paths -> [path : Paths, status : Status, stamp : Nat]
                                              \cup {None}]]
      <4>1. version' = [version EXCEPT ![b] = version'[b]]
        BY <1>1, <2>1, <2>6
      <4>2. version'[b] = [k \in Paths |-> version'[b][k]]
        BY <1>1, <2>1, <2>6
      <4>3. version'[b] \in [Paths -> [path : Paths, status : Status, stamp : Nat] \cup {None}]
        BY <2>8, <4>2
      <4> QED BY <1>1, <2>6, <4>1, <4>3
    <3>3. docs' \subseteq Paths
      BY <1>6, <2>1 DEF IInv, DbTypes
    <3> QED BY <1>1, <2>3, <3>1, <3>2, <3>3 DEF IInv, DbTypes
  <2>10. KeysConsistent'
    <3> SUFFICES ASSUME NEW c \in Branches, NEW k \in Paths, version'[c][k] # None
                 PROVE  /\ k \in docs'
                        /\ \/ version'[c][k].path = k
                           \/ {k, version'[c][k].path} \subseteq moved'
                        /\ version'[c][k].stamp <= scans'
      BY DEF KeysConsistent
    <3>1. docs \subseteq docs' /\ moved' = moved /\ scans' = scans
      BY <1>1, <2>1 DEF gitVars
    <3>2. /\ version[c][k] # None /\ version'[c][k].path = version[c][k].path
          /\ version'[c][k].stamp \in {version[c][k].stamp, scans}
      <4>1. CASE c = b
        BY <2>8, <4>1
      <4>2. CASE c # b
        BY <2>7, <4>2
      <4> QED BY <4>1, <4>2
    <3>3. /\ k \in docs
          /\ version[c][k].path = k \/ {k, version[c][k].path} \subseteq moved
          /\ version[c][k].stamp <= scans
      BY <3>2 DEF IInv, KeysConsistent
    <3> QED BY <2>6, <3>1, <3>2, <3>3
  <2>11. ScanConsistent'
    <3>1. /\ scan' # Idle /\ scan'.phase = "history" /\ scan'.branch = b
          /\ scan'.next = scan.next + 1
      BY <1>1, <2>1 DEF Idle
    <3>2. LiveFiles(scan.branch, {})'
      BY <1>1, <2>8, <3>1 DEF IInv, ScanConsistent, LiveFiles, gitVars, Files
    <3>3. ToldUpTo(scan.branch, scan.next)'
      <4>1. moved' = moved /\ log' = log
        BY <1>1 DEF gitVars
      <4>2. ASSUME moved = {}, NEW i \in 1..Len(log[b]), i < scan.next + 1
            PROVE  \E y \in events' : y.branch = b /\ y.event = log[b][i]
        <5>1. CASE i = scan.next
          BY <2>4, <5>1 DEF e
        <5>2. CASE i < scan.next
          <6>1. Told(b, log[b][i])
            BY <1>1, <4>2, <5>2 DEF IInv, ScanConsistent, ToldUpTo
          <6> QED BY <2>3, <6>1 DEF Told
        <5> QED BY <1>1, <4>2, <5>1, <5>2
      <4> QED BY <3>1, <4>1, <4>2 DEF ToldUpTo, Told
    <3> QED BY <1>1, <3>1, <3>2, <3>3 DEF IInv, ScanConsistent, gitVars
  <2>12. UpToDate'
    BY <1>1, <2>5, <2>7, OthersUpToDate
  <2>13. DeletionsTold'
    <3> SUFFICES ASSUME NEW c \in Branches, NEW k \in Paths, version'[c][k] # None,
                        version'[c][k].status = "deleted"
                 PROVE  \E y \in events' : /\ y.branch = c /\ y.event.type = "deleted"
                                           /\ y.event.old = version'[c][k].path
      BY DEF DeletionsTold
    <3>1. version'[c][k] = version[c][k]
      <4>1. CASE c # b
        BY <2>7, <4>1
      <4>2. CASE c = b
        BY <2>7, <2>8, <4>2 DEF IsLive
      <4> QED BY <4>1, <4>2
    <3>2. PICK x \in events : /\ x.branch = c /\ x.event.type = "deleted"
                              /\ x.event.old = version[c][k].path
      BY <3>1 DEF IInv, DeletionsTold
    <3> QED BY <2>3, <3>1, <3>2
  <2>14. ScansCounted'
    BY <1>1, <2>1, CountKept DEF Idle
  <2> QED BY <1>8, <2>9, <2>10, <2>11, <2>12, <2>13, <2>14 DEF IInv
<1> QED BY <1>9, <1>10

LEMMA EndScanIInv == ASSUME IInv, EndScan PROVE IInv'
<1> DEFINE b == scan.branch
<1>1. /\ scan # Idle /\ scan.phase = "mark" /\ b \in Branches
      /\ scan' = Idle /\ UNCHANGED <<gitVars, docs, scans>>
      /\ base' = [base EXCEPT ![b] = [head |-> head[b], tree |-> tree[b]]]
  <2>1. /\ scan.phase = "mark" /\ scan' = Idle /\ UNCHANGED <<gitVars, docs, scans>>
        /\ base' = [base EXCEPT ![b] = [head |-> head[b], tree |-> tree[b]]]
    BY DEF EndScan
  <2>2. scan # Idle
    BY <2>1 DEF Idle
  <2> QED BY <2>1, <2>2, ScanTypes
<1>2. PICK f \in Existing(b) :
        LET gone == {f[p] : p \in {q \in Paths \ Present(b) :
                                     f[q] # None /\ IsLive(version[b][f[q]])}}
        IN /\ version' = [version EXCEPT ![b] =
                [d \in Paths |-> IF d \in gone
                                 THEN [@[d] EXCEPT !.status = "deleted", !.stamp = scans]
                                 ELSE @[d]]]
           /\ RecordDeleted(b, gone)
  BY DEF EndScan
<1> DEFINE gone == {f[p] : p \in {q \in Paths \ Present(b) :
                                    f[q] # None /\ IsLive(version[b][f[q]])}}
<1>3. /\ version' = [version EXCEPT ![b] =
           [d \in Paths |-> IF d \in gone
                            THEN [@[d] EXCEPT !.status = "deleted", !.stamp = scans]
                            ELSE @[d]]]
      /\ events' = events \cup
           {[doc |-> d, branch |-> b,
             event |-> Event("deleted", version[b][d].path, None, head[b])] : d \in gone}
  BY <1>2 DEF RecordDeleted
<1>4. \A p \in Paths :
        IF \A d \in Paths : version[b][d] # None => version[b][d].path # p
        THEN f[p] = None
        ELSE f[p] \in Paths /\ version[b][f[p]] # None /\ version[b][f[p]].path = p
  BY <1>2 DEF Existing
<1>5. ASSUME NEW d \in gone
      PROVE  /\ d \in Paths /\ version[b][d] # None /\ IsLive(version[b][d])
             /\ version[b][d].path \in Paths \ Files(tree[b])
  <2>1. PICK p \in Paths \ Files(tree[b]) : d = f[p] /\ f[p] # None /\ IsLive(version[b][f[p]])
    BY DEF Present
  <2> QED BY <1>4, <2>1
<1>6. ASSUME NEW p \in Paths \ Files(tree[b]), p \notin moved, IsLive(version[b][p])
      PROVE  p \in gone
  <2>1. version[b][p] # None /\ version[b][p].path = p
    BY <1>1, <1>6 DEF IsLive, IInv, KeysConsistent
  <2>2. f[p] \in Paths /\ version[b][f[p]] # None /\ version[b][f[p]].path = p
    BY <1>4, <2>1
  <2>3. f[p] = p
    BY <1>1, <1>6, <2>2 DEF IInv, KeysConsistent
  <2> QED BY <1>6, <2>2, <2>3, NoneAssumption DEF Present
<1> HIDE DEF gone
<1>7. /\ version \in [Branches -> [Paths -> [path : Paths, status : Status, stamp : Nat]
                                            \cup {None}]]
      /\ scans \in Nat /\ head[b] \in Nat
      /\ base \in [Branches -> [head : Nat, tree : Trees]]
      /\ head \in [Branches -> Nat]
  BY ScanTypes, <1>1 DEF IInv, DbTypes, GitTypes
<1>8. /\ \A c \in Branches \ {b} : version'[c] = version[c] /\ base'[c] = base[c]
      /\ \A k \in Paths \ gone : version'[b][k] = version[b][k]
      /\ base'[b] = [head |-> head[b], tree |-> tree[b]]
      /\ base'[b].head = head[b] /\ base'[b].tree = tree[b]
  BY <1>1, <1>3, <1>7
<1>9. ASSUME NEW k \in gone
      PROVE  /\ version'[b][k] \in [path : Paths, status : Status, stamp : Nat]
             /\ version'[b][k] # None
             /\ version'[b][k].status = "deleted" /\ version'[b][k].stamp = scans
             /\ version'[b][k].path = version[b][k].path
  <2>1. k \in Paths /\ version[b][k] \in [path : Paths, status : Status, stamp : Nat]
    BY <1>1, <1>5, <1>7
  <2>2. version'[b][k] = [version[b][k] EXCEPT !.status = "deleted", !.stamp = scans]
    BY <1>1, <1>3, <1>7, <2>1
  <2>3. /\ version'[b][k] \in [path : Paths, status : Status, stamp : Nat]
        /\ version'[b][k].status = "deleted" /\ version'[b][k].stamp = scans
        /\ version'[b][k].path = version[b][k].path
    BY <1>7, <2>1, <2>2 DEF Status
  <2> QED BY <2>3, NoneAssumption DEF Status
<1>10. /\ events \subseteq events'
       /\ events' \subseteq [doc : docs', branch : Branches, event : EventSet]
  <2>1. ASSUME NEW d \in gone
        PROVE  [doc |-> d, branch |-> b,
                event |-> Event("deleted", version[b][d].path, None, head[b])]
                  \in [doc : docs, branch : Branches, event : EventSet]
    <3>1. d \in docs
      BY <1>1, <1>5 DEF IInv, KeysConsistent
    <3>2. Event("deleted", version[b][d].path, None, head[b]) \in EventSet
      BY <1>5, <1>7, EventTypes
    <3> QED BY <1>1, <3>1, <3>2
  <2> QED BY <1>1, <1>3, <2>1 DEF IInv, DbTypes
<1>11. GitTypes' /\ LogConsistent'
  BY <1>1 DEF IInv, gitVars, GitTypes, LogConsistent
<1>12. HeadsOrdered' /\ IdsConsistent'
  BY <1>1, <1>7, <1>8
     DEF IInv, gitVars, HeadsOrdered, IdsConsistent, IdsOld, Alike, Files
<1>13. DbTypes'
  <2>1. version' \in [Branches -> [Paths -> [path : Paths, status : Status, stamp : Nat]
                                            \cup {None}]]
    <3>1. version' = [version EXCEPT ![b] = version'[b]]
      BY <1>1, <1>3, <1>7
    <3>2. version'[b] = [k \in Paths |-> version'[b][k]]
      BY <1>1, <1>3, <1>7
    <3>3. \A k \in Paths :
            version'[b][k] \in [path : Paths, status : Status, stamp : Nat] \cup {None}
      BY <1>1, <1>7, <1>8, <1>9
    <3> QED BY <1>1, <1>7, <3>1, <3>2, <3>3
  <2>2. base' \in [Branches -> [head : Nat, tree : Trees]]
    BY <1>1, <1>7, ScanTypes
  <2> QED BY <1>1, <1>10, <2>1, <2>2 DEF IInv, DbTypes, ScanSet
<1>14. KeysConsistent'
  BY <1>1, <1>5, <1>7, <1>8, <1>9 DEF IInv, KeysConsistent, gitVars
<1>15. ScanConsistent'
  BY <1>1 DEF ScanConsistent
<1>16. UpToDate'
  <2> SUFFICES ASSUME NEW c \in Branches, base'[c].head = head'[c]
               PROVE  Exact(c)' /\ ToldUpTo(c, Len(log[c]) + 1)'
    BY DEF UpToDate
  <2>1. \A a, g : Told(a, g) => Told(a, g)'
    BY <1>10 DEF Told
  <2>2. CASE c # b
    <3>1. Exact(c) /\ ToldUpTo(c, Len(log[c]) + 1)
      BY <1>1, <1>8, <2>2 DEF IInv, UpToDate, gitVars
    <3> QED BY <1>1, <1>8, <2>1, <2>2, <3>1 DEF Exact, ToldUpTo, gitVars, Files
  <2>3. CASE c = b
    <3>1. ToldUpTo(c, Len(log[c]) + 1) /\ LiveFiles(c, {})
      BY <1>1, <2>3 DEF IInv, ScanConsistent
    <3>2. ToldUpTo(c, Len(log[c]) + 1)'
      BY <1>1, <2>1, <3>1 DEF ToldUpTo, gitVars
    <3>3. ASSUME NEW p \in Paths \ moved
          PROVE  IsLive(version'[b][p]) <=> p \in Files(tree[b])
      <4>1. CASE p \in gone
        <5>1. ~IsLive(version'[b][p])
          BY <1>9, <4>1 DEF IsLive
        <5>2. version[b][p] # None /\ version[b][p].path \notin Files(tree[b])
          BY <1>5, <4>1
        <5>3. version[b][p].path = p
          BY <1>1, <5>2 DEF IInv, KeysConsistent
        <5> QED BY <5>1, <5>2, <5>3
      <4>2. CASE p \notin gone
        <5>1. version'[b][p] = version[b][p]
          BY <1>8, <4>2
        <5>2. p \in Files(tree[b]) => IsLive(version[b][p])
          BY <2>3, <3>1 DEF LiveFiles
        <5> QED BY <1>6, <4>2, <5>1, <5>2
      <4> QED BY <4>1, <4>2
    <3>4. Exact(c)'
      BY <1>1, <2>3, <3>3 DEF Exact, gitVars, Files
    <3> QED BY <3>2, <3>4
  <2> QED BY <2>2, <2>3
<1>17. DeletionsTold'
  <2> SUFFICES ASSUME NEW c \in Branches, NEW k \in Paths, version'[c][k] # None,
                      version'[c][k].status = "deleted"
               PROVE  \E y \in events' : /\ y.branch = c /\ y.event.type = "deleted"
                                         /\ y.event.old = version'[c][k].path
    BY DEF DeletionsTold
  <2>1. CASE c = b /\ k \in gone
    <3> DEFINE y == [doc |-> k, branch |-> b,
                     event |-> Event("deleted", version[b][k].path, None, head[b])]
    <3>1. y \in events'
      BY <1>3, <2>1
    <3>2. y.branch = c /\ y.event.type = "deleted" /\ y.event.old = version'[c][k].path
      BY <1>9, <2>1 DEF Event
    <3> QED BY <3>1, <3>2
  <2>2. CASE ~(c = b /\ k \in gone)
    <3>1. version'[c][k] = version[c][k]
      BY <1>8, <2>2
    <3> QED BY <1>10, <3>1 DEF IInv, DeletionsTold
  <2> QED BY <2>1, <2>2
<1>18. ScansCounted'
  <2>1. Unscanned' = Unscanned
    BY <1>1, <1>8 DEF Unscanned, gitVars
  <2> QED BY <1>1, <2>1 DEF IInv, ScansCounted, gitVars
<1> QED BY <1>11, <1>12, <1>13, <1>14, <1>15, <1>16, <1>17, <1>18 DEF IInv

-----------------------------------------------------------------------------
(* The theorems *)

LEMMA NextIInv == ASSUME IInv, [Next]_vars PROVE IInv'
<1>1. CASE \E b \in Branches, p \in Paths :
             \/ Create(b, p) \/ Modify(b, p) \/ Delete(b, p)
             \/ \E q \in Paths : Rename(b, p, q) \/ Copy(b, p, q)
  BY <1>1, CreateIInv, ModifyIInv, DeleteIInv, RenameIInv, CopyIInv
<1>2. CASE \E b \in Branches : BeginScan(b)
  BY <1>2, BeginScanIInv
<1>3. CASE ScanEntry \/ EndEntries \/ Backfill \/ EndHistory \/ EndScan
  BY <1>3, ScanEntryIInv, EndEntriesIInv, BackfillIInv, EndHistoryIInv, EndScanIInv
<1>4. CASE Rest \/ UNCHANGED vars
  <2>1. UNCHANGED vars
    BY <1>4 DEF Rest
  <2> QED BY <2>1
        DEF vars, gitVars, dbVars, IInv, GitTypes, DbTypes, HeadsOrdered, IdsConsistent,
            IdsOld, Alike, LogConsistent, KeysConsistent, ScanConsistent, LiveFiles,
            ToldUpTo, Told, Exact, Files, UpToDate, DeletionsTold, Unscanned, ScansCounted
<1> QED BY <1>1, <1>2, <1>3, <1>4 DEF Next

LEMMA SpecIInv == Spec => []IInv
BY InitIInv, NextIInv, PTL DEF Spec

(***************************************************************************)
(* Type correctness. That scans stays within its bound is a matter of      *)
(* counting: every scan answers a commit of its own (scanBranch returns at *)
(* once when HEAD is the one in repo_refs).                                *)
(***************************************************************************)
THEOREM TypeCorrect == Spec => []TypeOK
<1>1. IInv => TypeOK
  <2> SUFFICES ASSUME IInv PROVE TypeOK
    OBVIOUS
  <2>1. commits \in 0..MaxCommits /\ commits \in Nat /\ scans \in Nat /\ MaxCommits \in Nat
    BY CommitsAssumption DEF IInv, GitTypes, DbTypes
  <2>2. scans <= commits
    BY <2>1, FS_CardinalityType DEF IInv, ScansCounted
  <2>3. ASSUME NEW b \in Branches, NEW d \in Paths, version[b][d] # None
        PROVE  version[b][d] \in Row0 /\ d \in docs
    <3>1. /\ version[b][d] \in [path : Paths, status : Status, stamp : Nat]
          /\ d \in docs /\ version[b][d].stamp <= scans
      BY <2>3 DEF IInv, DbTypes, KeysConsistent
    <3>2. version[b][d].stamp \in 0..MaxCommits
      BY <2>1, <2>2, <3>1
    <3> QED BY <3>1, <3>2 DEF Row0
  <2>4. \A b \in Branches : head[b] \in 0..commits /\ base[b].head \in 0..head[b]
    BY <2>1 DEF IInv, GitTypes, DbTypes, HeadsOrdered
  <2>5. \A x \in events : x.doc \in docs /\ x.branch \in Branches
    BY DEF IInv, DbTypes
  <2>6. scan.phase \in {"idle", "entries", "history", "mark"}
    BY DEF IInv, DbTypes, ScanSet, Idle
  <2>7. docs \subseteq Paths
    BY DEF IInv, DbTypes
  <2> QED BY <2>1, <2>2, <2>3, <2>4, <2>5, <2>6, <2>7 DEF TypeOK
<1> QED BY <1>1, SpecIInv, PTL

(***************************************************************************)
(* The index of a branch whose HEAD was scanned is that HEAD, for every    *)
(* path that no rename or copy has touched on any branch: one live version *)
(* of every file, and none of what is gone.                                *)
(***************************************************************************)
THEOREM IndexExact == Spec => []IndexIsExact
<1>1. IInv => IndexIsExact
  <2> SUFFICES ASSUME IInv, NEW b \in Branches, Indexed(b), NEW p \in Paths \ moved
               PROVE  Cardinality(LiveAt(b, p)) = IF p \in Files(tree[b]) THEN 1 ELSE 0
    BY DEF IndexIsExact
  <2>1. IsLive(version[b][p]) <=> p \in Files(tree[b])
    BY DEF IInv, UpToDate, Exact, Indexed
  <2>2. LiveAt(b, p) = IF IsLive(version[b][p]) THEN {p} ELSE {}
    BY DEF IInv, KeysConsistent, LiveAt, IsLive
  <2> QED BY <2>1, <2>2, FS_EmptySet, FS_Singleton
<1> QED BY <1>1, SpecIInv, PTL

(***************************************************************************)
(* Of what was created and deleted there is an event, while nothing was    *)
(* renamed or copied; and of a deleted version always, whatever documents  *)
(* reassignPathEvents has given the events to.                             *)
(***************************************************************************)
THEOREM HistoryIsKept == Spec => []HistoryKept
<1>1. IInv => HistoryKept
  <2> SUFFICES ASSUME IInv, NEW b \in Branches, Indexed(b)
               PROVE  moved = {} => \A i \in 1..Len(log[b]) : Told(b, log[b][i])
    BY DEF HistoryKept, IInv, DeletionsTold
  <2>1. ToldUpTo(b, Len(log[b]) + 1) /\ Len(log[b]) \in Nat
    BY LenProperties DEF IInv, UpToDate, Indexed, GitTypes
  <2> QED BY <2>1 DEF ToldUpTo
<1> QED BY <1>1, SpecIInv, PTL
=============================================================================
