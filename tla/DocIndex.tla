------------------------------ MODULE DocIndex ------------------------------
(***************************************************************************)
(* internal/app/scanner.go (scanBranch, backfillPathHistory) and index.go: *)
(* how the scan of a branch brings documents, doc_versions and             *)
(* doc_path_events to the branch's HEAD, with the renames and copies that  *)
(* git reports.                                                            *)
(*                                                                         *)
(* A document is known by its doc_key, the path it was created under. One  *)
(* scan path ".", no filter, no failing command: Scanner has those. The    *)
(* steps of a scan are one transaction, so nobody else acts between them;  *)
(* updated_at has the resolution of a second, so rows that one scan has    *)
(* written may be found in any order. "renamed" stands for moved, too.     *)
(***************************************************************************)
EXTENDS Naturals, FiniteSets, Sequences

CONSTANTS Branches, None,
          NPaths,      \* the paths are 1..NPaths, in the order of ls-tree
          Kinds,       \* the kinds of commit that are made
          MaxCommits   \* bound: how many

Paths == 1..NPaths

ASSUME CommitsAssumption ==
  /\ NPaths \in Nat /\ MaxCommits \in Nat
  /\ Kinds \subseteq {"modify", "delete", "rename", "copy"}

\* None is no path, no file and no version.
ASSUME NoneAssumption ==
  /\ None \notin Paths
  /\ None \notin [id : Nat, at : Nat]
  /\ None \notin [path : Paths, status : {"active", "renamed", "deleted"}, stamp : Nat]

VARIABLES
  commits,  \* how many commits there are
  tree,     \* HEAD of each branch: its files, with identity and last commit
  log,      \* what git log --name-status --find-renames tells, oldest first
  head,     \* the commit of each branch
  base,     \* the commit in repo_refs, and its tree
  docs,     \* documents
  version,  \* doc_versions, unique by branch and document
  events,   \* doc_path_events
  scan,     \* the scan under way
  scans,    \* how many there were: updated_at of what they write
  moved     \* history: the paths that a rename or a copy has touched

gitVars == <<commits, tree, log, head, moved>>
dbVars == <<base, docs, version, events>>
vars == <<gitVars, dbVars, scan, scans>>

NoTree == [p \in Paths |-> None]
Files(t) == {p \in Paths : t[p] # None}
Idle == [phase |-> "idle"]

Init == /\ commits = 0
        /\ tree = [b \in Branches |-> NoTree]
        /\ log = [b \in Branches |-> <<>>]
        /\ head = [b \in Branches |-> 0]
        /\ base = [b \in Branches |-> [head |-> 0, tree |-> NoTree]]
        /\ docs = {}
        /\ version = [b \in Branches |-> [d \in Paths |-> None]]
        /\ events = {}
        /\ scan = Idle
        /\ scans = 0
        /\ moved = {}

-----------------------------------------------------------------------------
(* git *)

Event(type, old, new, at) == [type |-> type, old |-> old, new |-> new, at |-> at]

\* A commit n changes the files of a branch, and adds an entry to its log; of
\* a modified file the log has nothing that the scanner reads.
Commit(b, changed, entries, between) ==
  /\ scan = Idle /\ commits < MaxCommits
  /\ commits' = commits + 1
  /\ tree' = [tree EXCEPT ![b] = changed]
  /\ head' = [head EXCEPT ![b] = commits + 1]
  /\ log' = [log EXCEPT ![b] = @ \o entries]
  /\ moved' = moved \cup between
  /\ UNCHANGED <<dbVars, scan, scans>>

File(id, n) == [id |-> id, at |-> n]

Create(b, p) ==
  LET n == commits + 1 IN
  /\ tree[b][p] = None
  /\ Commit(b, [tree[b] EXCEPT ![p] = File(n, n)], <<Event("created", None, p, n)>>, {})

Modify(b, p) ==
  LET n == commits + 1 IN
  /\ "modify" \in Kinds /\ tree[b][p] # None
  /\ Commit(b, [tree[b] EXCEPT ![p].at = n], <<>>, {})

Delete(b, p) ==
  LET n == commits + 1 IN
  /\ "delete" \in Kinds /\ tree[b][p] # None
  /\ Commit(b, [tree[b] EXCEPT ![p] = None], <<Event("deleted", p, None, n)>>, {})

Rename(b, p, q) ==
  LET n == commits + 1 IN
  /\ "rename" \in Kinds /\ tree[b][p] # None /\ tree[b][q] = None
  /\ Commit(b, [tree[b] EXCEPT ![p] = None, ![q] = File(tree[b][p].id, n)],
            <<Event("renamed", p, q, n)>>, {p, q})

\* git log --find-renames does not look for copies.
Copy(b, p, q) ==
  LET n == commits + 1 IN
  /\ "copy" \in Kinds /\ tree[b][p] # None /\ tree[b][q] = None
  /\ Commit(b, [tree[b] EXCEPT ![p].at = n, ![q] = File(tree[b][p].id, n)],
            <<Event("created", None, q, n)>>, {p, q})

\* git diff --find-renames --find-copies: a new file comes from a file it
\* resembles, that is gone or was changed, too.
Origins(b, q) ==
  LET old == base[b].tree IN
  {p \in Files(old) : /\ q \in Files(tree[b]) \ Files(old)
                      /\ old[p].id = tree[b][q].id
                      /\ tree[b][p] # old[p]}

Renames(b) ==
  {f \in [Paths -> Paths \cup {None}] :
     \A q \in Paths : IF Origins(b, q) = {} THEN f[q] = None
                      ELSE f[q] \in Origins(b, q)}

-----------------------------------------------------------------------------
(* index.go *)

Versions == {x \in Branches \X Paths : version[x[1]][x[2]] # None}
Row(x) == version[x[1]][x[2]]
IsLive(v) == v # None /\ v.status # "deleted"

\* The documents findDocumentByPath may return: of the version of any branch
\* written last, else the one with this doc_key, else none.
Found(p) ==
  LET rows == {x \in Versions : Row(x).path = p}
      last == {x \in rows : \A y \in rows : Row(y).stamp <= Row(x).stamp}
  IN IF rows # {} THEN {x[2] : x \in last}
     ELSE IF p \in docs THEN {p} ELSE {None}

\* insertPathEvent: INSERT OR IGNORE.
Insert(d, b, e) == events' = events \cup {[doc |-> d, branch |-> b, event |-> e]}

\* upsertDocVersion: one row for a branch and a document.
Upsert(b, d, p, status) ==
  version' = [version EXCEPT ![b][d] = [path |-> p, status |-> status, stamp |-> scans]]

-----------------------------------------------------------------------------
(* scanBranch *)

\* HEAD has changed: git diff tells what was renamed, ls-tree what there is.
BeginScan(b) ==
  /\ scan = Idle /\ head[b] # base[b].head
  /\ scans' = scans + 1
  /\ \E f \in Renames(b) :
       scan' = [phase |-> "entries", branch |-> b, todo |-> Files(tree[b]), from |-> f]
  /\ UNCHANGED <<gitVars, dbVars>>

\* findOrCreateDocument goes by doc_key.
Document(p) == {p}

\* Mutant: the document is not inserted.
WithoutDocument(d) == docs
WithDocument(d) == docs \cup {d}

\* The next entry of ls-tree. A renamed file takes the document of its old
\* path along.
ScanEntry ==
  /\ scan.phase = "entries" /\ scan.todo # {}
  /\ LET b == scan.branch
         p == CHOOSE q \in scan.todo : \A r \in scan.todo : q <= r
         old == scan.from[p]
     IN /\ \E f \in IF old # None THEN Found(old) ELSE {None} :
             \E d \in IF f # None THEN {f} ELSE Document(p) :
               /\ docs' = WithDocument(d)
               /\ Upsert(b, d, p, IF old # None THEN "renamed" ELSE "active")
               /\ IF old # None
                  THEN Insert(d, b, Event("renamed", old, p, tree[b][p].at))
                  ELSE UNCHANGED events
        /\ scan' = [scan EXCEPT !.todo = @ \ {p}]
  /\ UNCHANGED <<gitVars, base, scans>>

EndEntries ==
  /\ scan.phase = "entries" /\ scan.todo = {}
  /\ scan' = [phase |-> "history", branch |-> scan.branch, next |-> 1]
  /\ UNCHANGED <<gitVars, dbVars, scans>>

\* Mutant: the last event is left out.
MoreHistoryButOne == scan.next < Len(log[scan.branch])
MoreHistory == scan.next <= Len(log[scan.branch])

\* reassignPathEvents, and what follows of it: the UPDATE fails when the other
\* document has an event already, and ends backfillPathHistory.
Owned(b, d) == {x \in events : x.branch = b /\ x.doc = d}
Reassigned(b, d, e) == {[x EXCEPT !.doc = e] : x \in Owned(b, d)}

\* backfillPathHistory, one event of the whole history. The rows of the new
\* path become renamed.
Backfill ==
  /\ scan.phase = "history" /\ MoreHistory
  /\ LET b == scan.branch
         e == log[b][scan.next]
         p == IF e.new # None THEN e.new ELSE e.old
     IN \E f \in Found(p) :
        \E o \in IF e.old = None THEN {None} ELSE IF e.old = p THEN {f} ELSE Found(e.old) :
          LET d == IF f # None THEN f ELSE IF o # None THEN o ELSE p
              merges == f # None /\ o \notin {None, f}
          IN IF merges /\ Reassigned(b, o, d) \cap events # {}
             THEN /\ scan' = [phase |-> "mark", branch |-> b]
                  /\ UNCHANGED <<docs, version, events>>
             ELSE /\ docs' = WithDocument(d)
                  /\ events' = (IF merges THEN (events \ Owned(b, o)) \cup Reassigned(b, o, d)
                                ELSE events)
                               \cup {[doc |-> d, branch |-> b, event |-> e]}
                  /\ version' =
                       [version EXCEPT ![b] =
                          [k \in Paths |->
                             IF e.type = "renamed" /\ IsLive(@[k]) /\ @[k].path = e.new
                             THEN [@[k] EXCEPT !.status = "renamed", !.stamp = scans]
                             ELSE @[k]]]
                  /\ scan' = [scan EXCEPT !.next = @ + 1]
  /\ UNCHANGED <<gitVars, base, scans>>

EndHistory ==
  /\ scan.phase = "history" /\ ~MoreHistory
  /\ scan' = [phase |-> "mark", branch |-> scan.branch]
  /\ UNCHANGED <<gitVars, dbVars, scans>>

\* existingBranchVersions: a map from path to row; of rows with one path it
\* keeps the last that is read.
Existing(b) ==
  LET rows(p) == {d \in Paths : version[b][d] # None /\ version[b][d].path = p}
  IN {f \in [Paths -> Paths \cup {None}] :
        \A p \in Paths : IF rows(p) = {} THEN f[p] = None ELSE f[p] \in rows(p)}

RecordDeleted(b, gone) ==
  events' = events \cup
    {[doc |-> d, branch |-> b,
      event |-> Event("deleted", version[b][d].path, None, head[b])] : d \in gone}

\* Mutant: a version is compared with the files of the last scan.
PresentBefore(b) == Files(base[b].tree)
Present(b) == Files(tree[b])

\* markDeletedVersions, upsertRepoRef and the commit of the transaction.
EndScan ==
  /\ scan.phase = "mark"
  /\ LET b == scan.branch IN
     /\ \E f \in Existing(b) :
          LET gone == {f[p] : p \in {q \in Paths \ Present(b) : f[q] # None /\ IsLive(version[b][f[q]])}}
          IN /\ version' = [version EXCEPT ![b] =
                   [d \in Paths |-> IF d \in gone
                                    THEN [@[d] EXCEPT !.status = "deleted", !.stamp = scans]
                                    ELSE @[d]]]
             /\ RecordDeleted(b, gone)
     /\ base' = [base EXCEPT ![b] = [head |-> head[b], tree |-> tree[b]]]
  /\ scan' = Idle
  /\ UNCHANGED <<gitVars, docs, scans>>

-----------------------------------------------------------------------------
\* The only place where the index may rest.
Rest == /\ commits = MaxCommits /\ scan = Idle
        /\ \A b \in Branches : head[b] = base[b].head
        /\ UNCHANGED vars

Next == \/ \E b \in Branches, p \in Paths :
             \/ Create(b, p) \/ Modify(b, p) \/ Delete(b, p)
             \/ \E q \in Paths : Rename(b, p, q) \/ Copy(b, p, q)
        \/ \E b \in Branches : BeginScan(b)
        \/ ScanEntry \/ EndEntries \/ Backfill \/ EndHistory \/ EndScan
        \/ Rest

Spec == Init /\ [][Next]_vars

-----------------------------------------------------------------------------
(* Properties *)

Status == {"active", "renamed", "deleted"}
Row0 == [path : Paths, status : Status, stamp : 0..MaxCommits]

(***************************************************************************)
(* Type correctness. A version belongs to a document.                      *)
(***************************************************************************)
TypeOK ==
  /\ commits \in 0..MaxCommits /\ scans \in 0..MaxCommits
  /\ docs \subseteq Paths
  /\ \A b \in Branches :
       /\ head[b] \in 0..commits /\ base[b].head \in 0..head[b]
       /\ \A d \in Paths : version[b][d] # None => version[b][d] \in Row0 /\ d \in docs
  /\ \A x \in events : x.doc \in docs /\ x.branch \in Branches
  /\ scan.phase \in {"idle", "entries", "history", "mark"}

\* The branch is not being scanned, and its HEAD has been.
Indexed(b) == scan = Idle /\ base[b].head = head[b]
LiveAt(b, p) == {d \in Paths : IsLive(version[b][d]) /\ version[b][d].path = p}

(***************************************************************************)
(* The index of a branch is its HEAD: every file of HEAD has exactly one   *)
(* live version there, and what HEAD does not have any more has none -     *)
(* but for the paths that a rename or a copy has ever involved (scanBranch *)
(* and markDeletedVersions; design document 9.2).                          *)
(***************************************************************************)
IndexIsExact ==
  \A b \in Branches : Indexed(b) =>
    \A p \in Paths \ moved :
      Cardinality(LiveAt(b, p)) = IF p \in Files(tree[b]) THEN 1 ELSE 0

Told(b, e) == \E x \in events : x.branch = b /\ x.event = e

(***************************************************************************)
(* Nothing happens without a trace. Every creation and deletion in the     *)
(* history of a branch is in doc_path_events while nothing was renamed or  *)
(* copied (backfillPathHistory); and of a version that is deleted an event *)
(* tells, whatever document has it by now (markDeletedVersions).           *)
(***************************************************************************)
HistoryKept ==
  \A b \in Branches : Indexed(b) =>
    /\ moved = {} => \A i \in 1..Len(log[b]) : Told(b, log[b][i])
    /\ \A d \in Paths :
         version[b][d] # None /\ version[b][d].status = "deleted" =>
           \E x \in events : /\ x.branch = b /\ x.event.type = "deleted"
                             /\ x.event.old = version[b][d].path

-----------------------------------------------------------------------------
(***************************************************************************)
(* Design document 7.1.5: when HEAD of a branch has no such file any more, *)
(* its version on the branch is marked deleted - whatever its history.     *)
(***************************************************************************)
DeletedIsMarked ==
  \A b \in Branches : Indexed(b) =>
    \A p \in Paths \ Files(tree[b]) : LiveAt(b, p) = {}
=============================================================================
