------------------------------ MODULE Scanner -------------------------------
(***************************************************************************)
(* internal/app/scanner.go (Scan, scanBranch as a whole, scanEnabled), the *)
(* repository's configuration (db.go) and recomputeLatest (index.go): how  *)
(* the scans of one repository follow its remote, its scan paths and its   *)
(* rules, when commands fail, scans are cancelled and the server dies.     *)
(*                                                                         *)
(* A scan path is a directory with one file; a file is a document, known   *)
(* by its path on every branch. What renames and copies do to documents is *)
(* in DocIndex. Branches are numbered in the order of their names, which   *)
(* is also that of branch_priority; commits by their time. Timestamps that *)
(* are compared become facts: stale is scanPathsChangedSince.              *)
(***************************************************************************)
EXTENDS Naturals, FiniteSets

CONSTANTS NBranches,
          Docs,        \* scan paths, and the file in each
          Scanners,    \* goroutines that call Scan
          Timer,       \* the one of StartScheduler
          None,
          MaxPushes,   \* bound: changes of the remote
          MaxEdits,    \* bound: changes of the configuration
          MaxFaults    \* bound: failures, cancellations and crashes

Branches == 1..NBranches

ASSUME ScannerAssumption ==
  /\ NBranches \in Nat \ {0} /\ Docs # {} /\ Timer \in Scanners
  /\ None \notin Scanners /\ None \notin [branch : Branches, at : Nat]
  /\ MaxPushes \in Nat \ {0} /\ MaxEdits \in Nat /\ MaxFaults \in Nat

VARIABLES
  remote,   \* the remote's branches: HEAD, or None
  pushes, edits, faults,
  mirror,   \* the branches of the local mirror
  config,   \* repositories and repo_scan_paths
  stale,    \* branches whose last_scanned_at is not after the paths' updated_at
  ref,      \* repo_refs: the HEAD of each branch that was scanned
  version,  \* doc_versions, by branch and document
  latest,   \* doc_latest
  row,      \* status of the newest row of scan_runs
  lock,     \* Scanner.locks: who has it
  scan,     \* the scan of each goroutine
  spoiled   \* history: branches that a fault or a late edit has left wrong

envVars == <<remote, pushes, edits, config>>
indexVars == <<stale, ref, version, spoiled>>
vars == <<envVars, faults, mirror, indexVars, latest, row, lock, scan>>

\* A commit; files tells of each file the commit that changed it last.
Head(n, files) == [commit |-> n, files |-> files]
Files(h) == {d \in Docs : h.files[d] # 0}
NoScan == [phase |-> "none"]

Init == /\ \E n \in 0..NBranches :
             remote = [b \in Branches |-> IF b <= n THEN Head(1, [d \in Docs |-> 1]) ELSE None]
        /\ pushes = 1
        /\ edits = 0
        /\ faults = 0
        /\ mirror = [b \in Branches |-> None]
        /\ config = [tracked |-> Branches, latest |-> Branches, paths |-> Docs, enabled |-> TRUE]
        /\ stale = Branches
        /\ ref = [b \in Branches |-> None]
        /\ version = [b \in Branches |-> [d \in Docs |-> None]]
        /\ latest = [d \in Docs |-> None]
        /\ row = "none"
        /\ lock = None
        /\ scan = [s \in Scanners |-> NoScan]
        /\ spoiled = {}

-----------------------------------------------------------------------------
(* The remote, external *)

Moves(b, head) ==
  /\ pushes < MaxPushes
  /\ pushes' = pushes + 1
  /\ remote' = [remote EXCEPT ![b] = head]
  /\ UNCHANGED <<edits, config, faults, mirror, indexVars, latest, row, lock, scan>>

\* A file is changed or created, or one is deleted.
Push(b, d) ==
  LET old == IF remote[b] = None THEN [x \in Docs |-> 0] ELSE remote[b].files
      n == pushes + 1
  IN \/ Moves(b, Head(n, [old EXCEPT ![d] = n]))
     \/ old[d] # 0 /\ Moves(b, Head(n, [old EXCEPT ![d] = 0]))

\* A branch is created at another one, or brought to it.
Join(b, c) == remote[c] # None /\ remote[b] # remote[c] /\ Moves(b, remote[c])
Remove(b) == remote[b] # None /\ Moves(b, None)

-----------------------------------------------------------------------------
(* The configuration *)

\* PATCH of a repository: updateRepository enables it, whatever it says.
Patch(new) ==
  /\ edits < MaxEdits
  /\ edits' = edits + 1
  /\ config' = [new EXCEPT !.enabled = TRUE]
  /\ UNCHANGED <<remote, pushes, faults, mirror, ref, version, latest, row, lock, scan>>

\* The rows of repo_scan_paths are written anew, with the time of now.
EditPaths(paths) ==
  /\ paths # {}
  /\ Patch([config EXCEPT !.paths = paths])
  /\ stale' = Branches
  /\ UNCHANGED spoiled

Toggled(S, b) == IF b \in S THEN S \ {b} ELSE S \cup {b}

\* A rule for tracked branches takes effect with the next scan, one for
\* doc_latest only where a branch is indexed anew.
EditRules(b) ==
  /\ \/ Patch([config EXCEPT !.tracked = Toggled(@, b)]) /\ UNCHANGED spoiled
     \/ Patch([config EXCEPT !.latest = Toggled(@, b)]) /\ spoiled' = spoiled \cup {b}
  /\ UNCHANGED stale

\* DELETE of a repository.
Disable ==
  /\ edits < MaxEdits /\ config.enabled
  /\ edits' = edits + 1
  /\ config' = [config EXCEPT !.enabled = FALSE]
  /\ UNCHANGED <<remote, pushes, faults, mirror, indexVars, latest, row, lock, scan>>

-----------------------------------------------------------------------------
(* Scan *)

LockFree == lock = None

\* TryLock, getRepository and the row. The timer passes over a repository that
\* is disabled; a scan that is refused the lock changes nothing.
Begin(s) ==
  /\ scan[s] = NoScan /\ LockFree
  /\ s = Timer => config.enabled
  /\ lock' = s
  /\ row' = "running"
  /\ scan' = [scan EXCEPT ![s] = [phase |-> "fetch", over |-> FALSE, repo |-> config]]
  /\ UNCHANGED <<envVars, faults, mirror, indexVars, latest>>

\* A step fails because its context is over, or by a fault of its own.
Fails(s) == IF scan[s].over THEN UNCHANGED faults
            ELSE faults < MaxFaults /\ faults' = faults + 1

Aborts(s) == scan' = [scan EXCEPT ![s] = [phase |-> "finish", status |-> "failed"]]

\* A time limit, a client that went away, the server that shuts down. Before
\* the branches, a step that fails comes to the same.
Cancel(s) ==
  /\ scan[s].phase = "branch" /\ ~scan[s].over
  /\ faults < MaxFaults /\ faults' = faults + 1
  /\ scan' = [scan EXCEPT ![s].over = TRUE]
  /\ UNCHANGED <<envVars, mirror, indexVars, latest, row, lock>>

Refuse(s) ==
  /\ scan[s].phase = "fetch" /\ ~scan[s].repo.enabled
  /\ Aborts(s)
  /\ UNCHANGED <<envVars, faults, mirror, indexVars, latest, row, lock>>

Fetch(s) ==
  /\ scan[s].phase = "fetch" /\ scan[s].repo.enabled
  /\ mirror' = remote
  /\ scan' = [scan EXCEPT ![s].phase = "read"]
  /\ UNCHANGED <<envVars, faults, indexVars, latest, row, lock>>

\* remote update fails, some of the branches being updated.
FetchFails(s) ==
  /\ scan[s].phase = "fetch" /\ scan[s].repo.enabled
  /\ Fails(s)
  /\ \E done \in SUBSET Branches :
       mirror' = [b \in Branches |-> IF b \in done THEN remote[b] ELSE mirror[b]]
  /\ Aborts(s)
  /\ UNCHANGED <<envVars, indexVars, latest, row, lock>>

\* The branches of the mirror, and the scan paths as they are by now.
Read(s) ==
  LET tracked == {b \in scan[s].repo.tracked : mirror[b] # None} IN
  /\ scan[s].phase = "read"
  /\ IF tracked = {} THEN Aborts(s)
     ELSE scan' = [scan EXCEPT ![s] =
            [phase |-> "branch", over |-> FALSE, status |-> "success", repo |-> @.repo,
             refs |-> mirror, paths |-> config.paths, stale |-> stale, todo |-> tracked]]
  /\ UNCHANGED <<envVars, faults, mirror, indexVars, latest, row, lock>>

ReadFails(s) ==
  /\ scan[s].phase = "read"
  /\ Fails(s)
  /\ Aborts(s)
  /\ UNCHANGED <<envVars, mirror, indexVars, latest, row, lock>>

-----------------------------------------------------------------------------
(* scanBranch, one transaction *)

Turn(s, b) == /\ scan[s].phase = "branch" /\ b \in scan[s].todo
              /\ \A c \in scan[s].todo : b <= c

\* Mutant: the scan paths' times are not looked at.
UnchangedHead(s, b) == ref[b] = scan[s].refs[b]
Unchanged(s, b) == ref[b] = scan[s].refs[b] /\ b \notin scan[s].stale

\* upsertRepoRef. Times are in seconds, and paths of the same second as
\* last_scanned_at are looked at again: of an edit that came since the paths
\* were read, that is all that can keep the next scan from skipping the branch.
Stamp(s, b) ==
  /\ ref' = [ref EXCEPT ![b] = scan[s].refs[b]]
  /\ \/ stale' = stale \ {b}
     \/ config.paths # scan[s].paths /\ stale' = stale
MissesPaths(s, b) == config.paths # scan[s].paths /\ b \notin stale'

Skip(s, b) ==
  /\ Turn(s, b) /\ Unchanged(s, b) /\ ~scan[s].over
  /\ Stamp(s, b)
  /\ spoiled' = IF MissesPaths(s, b) THEN spoiled \cup {b} ELSE spoiled
  /\ scan' = [scan EXCEPT ![s].todo = @ \ {b}]
  /\ UNCHANGED <<envVars, faults, mirror, version, latest, row, lock>>

\* Mutant: a version keeps its part in doc_latest.
DeletedOnly(v) == IF v = None THEN None ELSE [v EXCEPT !.live = FALSE]
\* markDeletedVersions
Deleted(v) == IF v = None THEN None ELSE [v EXCEPT !.live = FALSE, !.counts = FALSE]

\* What a scan stores of file d: its directory is not listed, and it counts as
\* deleted; its log cannot be read, and it is taken to be as new as the branch;
\* it cannot be stored, and is left as it was.
Stored(s, b, d, fault) ==
  LET head == scan[s].refs[b]
      old == version[b][d]
  IN IF d \notin scan[s].paths \cap Files(head) \/ fault = "unlisted" THEN Deleted(old)
     ELSE IF fault = "unstored" THEN old
     ELSE [live |-> TRUE, counts |-> b \in scan[s].repo.latest,
           at |-> IF fault = "guessed" THEN head.commit ELSE head.files[d]]

\* Other errors (renames, history) leave no trace here but the status, and
\* "guessed" not even that.
Index(s, b) ==
  /\ Turn(s, b) /\ ~Unchanged(s, b) /\ ~scan[s].over
  /\ \E f \in Docs, fault \in {"none", "unlisted", "guessed", "unstored", "other"} :
       /\ IF fault = "none" THEN UNCHANGED faults
          ELSE faults < MaxFaults /\ faults' = faults + 1
       /\ version' = [version EXCEPT ![b] =
            [d \in Docs |-> Stored(s, b, d, IF d = f THEN fault ELSE "none")]]
       /\ Stamp(s, b)
       /\ spoiled' = IF \/ fault \in {"unlisted", "guessed", "unstored"}
                        \/ MissesPaths(s, b)
                        \/ (b \in config.latest) # (b \in scan[s].repo.latest)
                     THEN spoiled \cup {b} ELSE spoiled \ {b}
       /\ scan' = [scan EXCEPT ![s].todo = @ \ {b},
                      ![s].status = IF fault \in {"none", "guessed"} THEN @ ELSE "partial_success"]
  /\ UNCHANGED <<envVars, mirror, latest, row, lock>>

\* Mutant: the files are stored before the transaction fails.
HalfDone(s, b) ==
  /\ version' = [version EXCEPT ![b] = [d \in Docs |-> Stored(s, b, d, "none")]]
  /\ UNCHANGED <<ref, stale, spoiled>>
\* Mutant: the head is stored before the transaction.
HeadStored(s, b) == Stamp(s, b) /\ UNCHANGED <<version, spoiled>>
RolledBack(s, b) == UNCHANGED indexVars

BranchFails(s, b) ==
  /\ Turn(s, b)
  /\ Fails(s)
  /\ RolledBack(s, b)
  /\ scan' = [scan EXCEPT ![s].todo = @ \ {b}, ![s].status = "partial_success"]
  /\ UNCHANGED <<envVars, mirror, latest, row, lock>>

-----------------------------------------------------------------------------
(* The end of Scan *)

Candidates(d) == {b \in Branches : version[b][d] # None /\ version[b][d].live
                                                      /\ version[b][d].counts}
Before(b, c, d) == \/ version[b][d].at > version[c][d].at
                   \/ version[b][d].at = version[c][d].at /\ b <= c
Winner(d) == CHOOSE b \in Candidates(d) : \A c \in Candidates(d) : Before(b, c, d)

Scanned(s) == scan[s].phase = "branch" /\ scan[s].todo = {}

RecomputeLatest(s) ==
  /\ Scanned(s) /\ ~scan[s].over
  /\ latest' = [d \in Docs |-> IF Candidates(d) = {} THEN None
                               ELSE [branch |-> Winner(d), at |-> version[Winner(d)][d].at]]
  /\ scan' = [scan EXCEPT ![s].phase = "finish"]
  /\ UNCHANGED <<envVars, faults, mirror, indexVars, row, lock>>

\* Mutant: the error is logged, and no more.
StatusAsBefore(s) == scan[s].status
StatusOfFailure(s) == "partial_success"

RecomputeFails(s) ==
  /\ Scanned(s)
  /\ Fails(s)
  /\ scan' = [scan EXCEPT ![s].phase = "finish", ![s].over = FALSE,
                          ![s].status = StatusOfFailure(s)]
  /\ UNCHANGED <<envVars, mirror, indexVars, latest, row, lock>>

\* finishScanRun, in a context of its own; then the lock.
Finish(s) ==
  /\ scan[s].phase = "finish"
  /\ \/ row' = scan[s].status /\ UNCHANGED faults
     \/ UNCHANGED row /\ faults < MaxFaults /\ faults' = faults + 1
  /\ scan' = [scan EXCEPT ![s] = NoScan]
  /\ lock' = None
  /\ UNCHANGED <<envVars, mirror, indexVars, latest>>

\* The server dies and starts again.
Crash ==
  /\ faults < MaxFaults /\ faults' = faults + 1
  /\ scan' = [s \in Scanners |-> NoScan]
  /\ lock' = None
  /\ UNCHANGED <<envVars, mirror, indexVars, latest, row>>

-----------------------------------------------------------------------------
Environment == \/ \E b \in Branches : \/ \E d \in Docs : Push(b, d)
                                     \/ \E c \in Branches : Join(b, c)
                                     \/ Remove(b)
               \/ \E paths \in SUBSET Docs : EditPaths(paths)
               \/ \E b \in Branches : EditRules(b)
               \/ Disable \/ Crash

Progress(s) == \/ Refuse(s) \/ Fetch(s) \/ FetchFails(s) \/ Read(s) \/ ReadFails(s)
               \/ \E b \in Branches : Skip(s, b) \/ Index(s, b) \/ BranchFails(s, b)
               \/ RecomputeLatest(s) \/ RecomputeFails(s) \/ Finish(s)

Next == \/ Environment
        \/ \E s \in Scanners : Begin(s) \/ Cancel(s) \/ Progress(s)

Spec == Init /\ [][Next]_vars

(***************************************************************************)
(* Fairness: the ticker of StartScheduler goes on ticking, and a scan that *)
(* has begun goes on. The bounds say that the remote, the configuration    *)
(* and the failures come to rest.                                          *)
(***************************************************************************)
FairSpec == /\ Spec
            /\ WF_vars(Begin(Timer))
            /\ \A s \in Scanners : WF_vars(Progress(s))

-----------------------------------------------------------------------------
(* Properties *)

Heads == {None} \cup [commit : 1..MaxPushes, files : [Docs -> 0..MaxPushes]]
Versions == {None} \cup [live : {TRUE}, counts : BOOLEAN, at : 1..MaxPushes]
                  \cup [live : {FALSE}, counts : {FALSE}, at : 1..MaxPushes]

(***************************************************************************)
(* Type correctness. A deleted version does not take part in doc_latest.   *)
(***************************************************************************)
TypeOK ==
  /\ \A b \in Branches : remote[b] \in Heads /\ mirror[b] \in Heads /\ ref[b] \in Heads
  /\ pushes \in 1..MaxPushes /\ edits \in 0..MaxEdits /\ faults \in 0..MaxFaults
  /\ config \in [tracked : SUBSET Branches, latest : SUBSET Branches,
                  paths : (SUBSET Docs) \ {{}}, enabled : BOOLEAN]
  /\ stale \subseteq Branches /\ spoiled \subseteq Branches
  /\ \A b \in Branches, d \in Docs : version[b][d] \in Versions
  /\ latest \in [Docs -> {None} \cup [branch : Branches, at : 1..MaxPushes]]
  /\ row \in {"none", "running", "success", "partial_success", "failed"}
  /\ lock \in Scanners \cup {None}
  /\ \A s \in Scanners : scan[s].phase \in {"none", "fetch", "read", "branch", "finish"}

\* What a clean scan of a branch leaves.
Matches(b, head, paths, counted) ==
  \A d \in Docs :
    IF d \in paths \cap Files(head)
    THEN version[b][d] = [live |-> TRUE, counts |-> b \in counted, at |-> head.files[d]]
    ELSE version[b][d] = Deleted(version[b][d])

(***************************************************************************)
(* The index of a branch is of one commit, the one in repo_refs: whatever  *)
(* fails as a whole, is cancelled or crashes, files of two commits are not *)
(* mixed (the transaction of scanBranch; design document 9.2, step 13, and *)
(* 9.3) - only a file whose own part of the transaction failed can differ. *)
(***************************************************************************)
IndexIsOneCommit ==
  \A b \in Branches \ spoiled, d \in Docs :
    version[b][d] # None /\ version[b][d].live =>
      /\ ref[b] # None
      /\ d \in Files(ref[b])
      /\ version[b][d].at = ref[b].files[d]

(***************************************************************************)
(* A scan that reports success has brought every tracked branch of the     *)
(* mirror up to date, or found it so - unless an earlier fault or an edit  *)
(* that came too late has spoiled the branch.                              *)
(***************************************************************************)
SuccessIsComplete ==
  \A s \in Scanners : scan[s].phase = "finish" /\ scan[s].status = "success" =>
    \A b \in scan[s].repo.tracked \ spoiled : scan[s].refs[b] # None =>
      /\ ref[b] = scan[s].refs[b]
      /\ Matches(b, ref[b], scan[s].paths, scan[s].repo.latest)

(***************************************************************************)
(* After a successful scan doc_latest has, for each document that has a    *)
(* version that takes part, the one changed last, and of those changed at  *)
(* the same time the one with the highest priority (recomputeLatest;       *)
(* design document 7.1.3).                                                 *)
(***************************************************************************)
LatestIsBest ==
  row = "success" /\ lock = None =>
    \A d \in Docs :
      \/ latest[d] = None /\ Candidates(d) = {}
      \/ /\ latest[d] # None /\ latest[d].branch \in Candidates(d)
         /\ latest[d].at = version[latest[d].branch][d].at
         /\ \A c \in Candidates(d) :
              \/ version[c][d].at < latest[d].at
              \/ version[c][d].at = latest[d].at /\ latest[d].branch <= c

(***************************************************************************)
(* The index catches up with the remote, the scan paths and the rules once *)
(* these rest, whatever has failed, been cancelled or crashed before - but *)
(* for the branches that a fault or a late edit has spoiled.               *)
(***************************************************************************)
IndexCatchesUp ==
  []<>(config.enabled =>
         \A b \in config.tracked \ spoiled : remote[b] # None =>
           ref[b] = remote[b] /\ Matches(b, remote[b], config.paths, config.latest))
=============================================================================
