--------------------------- MODULE ScannerProofs ----------------------------
(***************************************************************************)
(* What the scans of a repository guarantee for any number of branches,    *)
(* documents, goroutines, pushes, edits and faults: the index of a branch  *)
(* is of one commit, a scan that reports success is complete, and          *)
(* doc_latest is right after it.                                           *)
(***************************************************************************)
EXTENDS Scanner, WellFoundedInduction, TLAPS

-----------------------------------------------------------------------------
(* The inductive invariant. The types first: what a scan holds in each of   *)
(* its phases.                                                              *)

Commits == [commit : 1..MaxPushes, files : [Docs -> 0..MaxPushes]]
Configs == [tracked : SUBSET Branches, latest : SUBSET Branches,
            paths : (SUBSET Docs) \ {{}}, enabled : BOOLEAN]

Early == [phase : {"fetch", "read"}, over : {FALSE}, repo : Configs]
Late  == [phase : {"branch", "finish"}, over : BOOLEAN,
          status : {"success", "partial_success"}, repo : Configs,
          refs : [Branches -> Heads], paths : (SUBSET Docs) \ {{}},
          stale : SUBSET Branches, todo : SUBSET Branches]
Aborted == [phase |-> "finish", status |-> "failed"]

ScanOK(s) ==
  \/ scan[s] = NoScan \/ scan[s] \in Early \/ scan[s] = Aborted
  \/ /\ scan[s] \in Late
     /\ \A b \in scan[s].todo : scan[s].refs[b] # None
     /\ scan[s].phase = "finish" => scan[s].todo = {}

EnvTyped ==
  /\ remote \in [Branches -> Heads] /\ mirror \in [Branches -> Heads]
  /\ pushes \in 1..MaxPushes /\ edits \in 0..MaxEdits /\ faults \in 0..MaxFaults
  /\ config \in Configs
IndexTyped ==
  /\ ref \in [Branches -> Heads]
  /\ stale \in SUBSET Branches /\ spoiled \in SUBSET Branches
  /\ version \in [Branches -> [Docs -> Versions]]
LatestTyped == latest \in [Docs -> {None} \cup [branch : Branches, at : 1..MaxPushes]]
ScanTyped ==
  /\ row \in {"none", "running", "success", "partial_success", "failed"}
  /\ lock \in Scanners \cup {None}
  /\ DOMAIN scan = Scanners /\ \A s \in Scanners : ScanOK(s)

\* One scan at a time, and its row says that it runs.
Exclusive ==
  /\ \A s \in Scanners : scan[s] # NoScan => lock = s
  /\ lock # None => row = "running"

\* A branch that is not spoiled counts for doc_latest as it did when the scan
\* began.
RulesAt(s) ==
  scan[s] \in Early \cup Late =>
    \A b \in Branches \ spoiled : b \in config.latest <=> b \in scan[s].repo.latest
SameRules == \A s \in Scanners : RulesAt(s)

\* What the next scan would skip is right ...
CurrentAt(b) == ref[b] # None => Matches(b, ref[b], config.paths, config.latest)
Current == \A b \in Branches \ (spoiled \cup stale) : CurrentAt(b)

\* ... and so is what this scan is going to skip, and what it has done.
MaySkip(s, b) == b \in scan[s].todo /\ b \notin scan[s].stale /\ ref[b] # None
DoneWith(s, b) ==
  /\ scan[s].status = "success" /\ b \in scan[s].repo.tracked \ scan[s].todo
  /\ scan[s].refs[b] # None
RightBy(s, b) == Matches(b, ref[b], scan[s].paths, scan[s].repo.latest)

ScanningAt(s) ==
  scan[s] \in Late => \A b \in Branches \ spoiled :
    /\ MaySkip(s, b) => RightBy(s, b)
    /\ DoneWith(s, b) => ref[b] = scan[s].refs[b] /\ RightBy(s, b)
Scanning == \A s \in Scanners : ScanningAt(s)

OneCommitAt(b) ==
  \A d \in Docs :
    version[b][d] # None /\ version[b][d].live =>
      /\ ref[b] # None
      /\ d \in Files(ref[b])
      /\ version[b][d].at = ref[b].files[d]
OneCommit == \A b \in Branches \ spoiled : OneCommitAt(b)

\* doc_latest is right once it was recomputed.
LatestRightAt(d) ==
  \/ latest[d] = None /\ Candidates(d) = {}
  \/ /\ latest[d] # None /\ latest[d].branch \in Candidates(d)
     /\ latest[d].at = version[latest[d].branch][d].at
     /\ \A c \in Candidates(d) :
          \/ version[c][d].at < latest[d].at
          \/ version[c][d].at = latest[d].at /\ latest[d].branch <= c
LatestRight == \A d \in Docs : LatestRightAt(d)

FinishedAt(s) == scan[s].phase = "finish" /\ scan[s].status = "success" => LatestRight
Recomputed ==
  /\ row = "success" /\ lock = None => LatestRight
  /\ \A s \in Scanners : FinishedAt(s)

Typed == EnvTyped /\ IndexTyped /\ LatestTyped /\ ScanTyped

IInv == /\ Typed /\ Exclusive /\ SameRules /\ Current /\ Scanning
        /\ OneCommit /\ Recomputed

USE DEF envVars, indexVars

-----------------------------------------------------------------------------
(* What a step leaves alone.                                                *)

LEMMA Same ==
  ASSUME IInv
  PROVE  /\ UNCHANGED <<envVars, mirror, faults>> => EnvTyped'
         /\ UNCHANGED indexVars => IndexTyped'
         /\ UNCHANGED latest => LatestTyped'
         /\ UNCHANGED <<row, lock, scan>> => ScanTyped' /\ Exclusive'
         /\ UNCHANGED <<config, spoiled, scan>> => SameRules'
         /\ UNCHANGED <<config, indexVars>> => Current'
         /\ UNCHANGED <<indexVars, scan>> => Scanning'
         /\ UNCHANGED indexVars => OneCommit'
         /\ UNCHANGED <<version, latest, row, lock, scan>> => Recomputed'
<1>1. /\ UNCHANGED <<envVars, mirror, faults>> => EnvTyped'
      /\ UNCHANGED indexVars => IndexTyped'
      /\ UNCHANGED latest => LatestTyped'
  BY DEF IInv, Typed, EnvTyped, IndexTyped, LatestTyped
<1>2. UNCHANGED <<row, lock, scan>> => ScanTyped' /\ Exclusive'
  BY DEF IInv, Typed, ScanTyped, ScanOK, Exclusive
<1>3. UNCHANGED <<config, spoiled, scan>> => SameRules'
  BY DEF IInv, SameRules, RulesAt
<1>4. UNCHANGED <<config, indexVars>> => Current'
  BY DEF IInv, Current, CurrentAt, Matches
<1>5. UNCHANGED <<indexVars, scan>> => Scanning'
  BY DEF IInv, Scanning, ScanningAt, MaySkip, DoneWith, RightBy, Matches
<1>6. UNCHANGED indexVars => OneCommit'
  BY DEF IInv, OneCommit, OneCommitAt
<1>7. UNCHANGED <<version, latest, row, lock, scan>> => Recomputed'
  BY DEF IInv, Recomputed, FinishedAt, LatestRight, LatestRightAt, Candidates
<1> QED BY <1>1, <1>2, <1>3, <1>4, <1>5, <1>6, <1>7

\* A goroutine that scans is the only one.
LEMMA OnlyOne ==
  ASSUME Exclusive, NEW s \in Scanners, scan[s] # NoScan
  PROVE  /\ lock = s /\ lock # None /\ row = "running"
         /\ \A t \in Scanners : t # s => scan[t] = NoScan
BY ScannerAssumption DEF Exclusive

LEMMA Phases ==
  /\ NoScan.phase = "none" /\ NoScan \notin Early /\ NoScan \notin Late
  /\ Aborted.phase = "finish" /\ Aborted.status = "failed"
  /\ Aborted \notin Early /\ Aborted \notin Late
  /\ \A q \in Early : q.phase \in {"fetch", "read"} /\ q \notin Late
  /\ \A q \in Late : q.phase \in {"branch", "finish"} /\ q \notin Early
BY DEF NoScan, Early, Late, Aborted

\* Where a scan is says what it holds.
LEMMA PhaseTells ==
  ASSUME IInv, NEW s \in Scanners
  PROVE  /\ scan[s].phase # "none" => scan[s] # NoScan
         /\ scan[s].phase \in {"fetch", "read"} => scan[s] \in Early
         /\ scan[s].phase = "branch" => scan[s] \in Late
         /\ scan[s].phase = "finish" => scan[s] \in Late \/ scan[s] = Aborted
         /\ scan[s] \in Late => /\ \A b \in scan[s].todo : scan[s].refs[b] # None
                                /\ scan[s].phase = "finish" => scan[s].todo = {}
BY Phases DEF IInv, Typed, ScanTyped, ScanOK

\* What a step of the one scan has to keep: the others have none.
LEMMA OneScans ==
  ASSUME IInv, NEW s \in Scanners, scan[s] # NoScan, UNCHANGED <<row, lock>>,
         DOMAIN scan' = Scanners, \A t \in Scanners \ {s} : scan'[t] = scan[t],
         ScanOK(s)', RulesAt(s)', ScanningAt(s)', FinishedAt(s)'
  PROVE  ScanTyped' /\ Exclusive' /\ SameRules' /\ Scanning' /\ Recomputed'
<1>1. /\ lock = s /\ lock # None
      /\ \A t \in Scanners : t # s => scan[t] = NoScan
  BY OnlyOne DEF IInv
<1>2. \A t \in Scanners : t # s => scan'[t] = NoScan
  BY <1>1
<1>3. ASSUME NEW t \in Scanners, t # s
      PROVE  ScanOK(t)' /\ RulesAt(t)' /\ ScanningAt(t)' /\ FinishedAt(t)'
  <2>1. scan'[t] = NoScan
    BY <1>2, <1>3
  <2> QED BY <2>1, Phases DEF ScanOK, RulesAt, ScanningAt, FinishedAt
<1>4. ScanTyped'
  BY <1>3 DEF IInv, Typed, ScanTyped
<1>5. Exclusive'
  BY <1>1, <1>2 DEF IInv, Exclusive
<1>6. SameRules' /\ Scanning'
  BY <1>3 DEF SameRules, Scanning
<1>7. Recomputed'
  BY <1>1, <1>3 DEF Recomputed
<1> QED BY <1>4, <1>5, <1>6, <1>7

\* A scan that gives up.
LEMMA AbortKeeps ==
  ASSUME IInv, NEW s \in Scanners, scan[s] # NoScan, Aborts(s), UNCHANGED <<row, lock>>
  PROVE  ScanTyped' /\ Exclusive' /\ SameRules' /\ Scanning' /\ Recomputed'
<1>1. /\ DOMAIN scan' = Scanners /\ scan'[s] = Aborted
      /\ \A t \in Scanners \ {s} : scan'[t] = scan[t]
  BY DEF IInv, Typed, ScanTyped, Aborts, Aborted
<1>2. ScanOK(s)' /\ RulesAt(s)' /\ ScanningAt(s)' /\ FinishedAt(s)'
  BY <1>1, Phases DEF ScanOK, RulesAt, ScanningAt, FinishedAt
<1> QED BY <1>1, <1>2, OneScans

\* A fault, or none, or a context that is over.
LEMMA FaultsCounted ==
  ASSUME EnvTyped, \/ UNCHANGED faults
                   \/ faults < MaxFaults /\ faults' = faults + 1
  PROVE  faults' \in 0..MaxFaults
BY ScannerAssumption DEF EnvTyped

LEMMA ConfigFields ==
  ASSUME NEW c \in Configs
  PROVE  /\ c.tracked \in SUBSET Branches /\ c.latest \in SUBSET Branches
         /\ c.paths \in (SUBSET Docs) \ {{}} /\ c.enabled \in BOOLEAN
BY DEF Configs

\* updateRepository: one part is edited, and the repository enabled.
LEMMA ConfigEdited ==
  ASSUME NEW c \in Configs
  PROVE  /\ \A P \in (SUBSET Docs) \ {{}} :
              LET n == [[c EXCEPT !.paths = P] EXCEPT !.enabled = TRUE]
              IN n \in Configs /\ n.latest = c.latest
         /\ \A S \in SUBSET Branches :
              LET n == [[c EXCEPT !.tracked = S] EXCEPT !.enabled = TRUE]
              IN n \in Configs /\ n.latest = c.latest /\ n.paths = c.paths
         /\ \A S \in SUBSET Branches :
              LET n == [[c EXCEPT !.latest = S] EXCEPT !.enabled = TRUE]
              IN n \in Configs /\ n.latest = S /\ n.paths = c.paths
         /\ LET n == [c EXCEPT !.enabled = FALSE]
            IN n \in Configs /\ n.latest = c.latest /\ n.paths = c.paths
BY DEF Configs

LEMMA LateFields ==
  ASSUME NEW q \in Late
  PROVE  /\ q.phase \in {"branch", "finish"} /\ q.over \in BOOLEAN
         /\ q.status \in {"success", "partial_success"} /\ q.repo \in Configs
         /\ q.refs \in [Branches -> Heads] /\ q.paths \in (SUBSET Docs) \ {{}}
         /\ q.stale \in SUBSET Branches /\ q.todo \in SUBSET Branches
BY DEF Late

\* What a scan has read stays as it is.
SameReads(n, q) ==
  n.repo = q.repo /\ n.refs = q.refs /\ n.paths = q.paths /\ n.stale = q.stale

LEMMA HeadFields ==
  /\ Heads = {None} \cup Commits
  /\ \A h \in Commits : h.commit \in 1..MaxPushes /\ h.files \in [Docs -> 0..MaxPushes]
  /\ \A n \in 1..MaxPushes, files \in [Docs -> 0..MaxPushes] : Head(n, files) \in Commits
BY DEF Heads, Commits, Head

LEMMA InitIInv == Init => IInv
<1> SUFFICES ASSUME Init PROVE IInv
  OBVIOUS
<1>1. EnvTyped
  <2>1. 1 \in 1..MaxPushes /\ 0 \in 0..MaxEdits /\ 0 \in 0..MaxFaults
    BY ScannerAssumption
  <2>2. Head(1, [d \in Docs |-> 1]) \in Heads /\ None \in Heads
    <3>1. [d \in Docs |-> 1] \in [Docs -> 0..MaxPushes]
      BY <2>1
    <3> QED BY <2>1, <3>1, HeadFields
  <2>3. config \in Configs
    <3>1. config = [tracked |-> Branches, latest |-> Branches, paths |-> Docs,
                    enabled |-> TRUE]
      BY DEF Init
    <3>2. Docs \in (SUBSET Docs) \ {{}}
      BY ScannerAssumption
    <3> QED BY <3>1, <3>2 DEF Configs
  <2>4. remote \in [Branches -> Heads] /\ mirror \in [Branches -> Heads]
    BY <2>2 DEF Init
  <2> QED BY <2>1, <2>3, <2>4 DEF Init, EnvTyped
<1>2. IndexTyped /\ LatestTyped
  BY DEF Init, IndexTyped, LatestTyped, Heads, Versions
<1>3. ScanTyped /\ Exclusive
  BY DEF Init, ScanTyped, ScanOK, Exclusive
<1>4. SameRules /\ Scanning
  BY Phases DEF Init, SameRules, RulesAt, Scanning, ScanningAt
<1>5. Current /\ OneCommit
  BY DEF Init, Current, CurrentAt, OneCommit, OneCommitAt
<1>6. Recomputed
  BY Phases DEF Init, Recomputed, FinishedAt
<1> QED BY <1>1, <1>2, <1>3, <1>4, <1>5, <1>6 DEF IInv, Typed

-----------------------------------------------------------------------------
(* The remote and the configuration.                                        *)

LEMMA MovesKeep ==
  ASSUME IInv, NEW b \in Branches, NEW head \in Heads, Moves(b, head)
  PROVE  IInv'
<1>1. EnvTyped'
  <2>1. pushes' \in 1..MaxPushes
    BY ScannerAssumption DEF IInv, Typed, EnvTyped, Moves
  <2>2. remote' \in [Branches -> Heads]
    BY DEF IInv, Typed, EnvTyped, Moves
  <2> QED BY <2>1, <2>2 DEF IInv, Typed, EnvTyped, Moves
<1> QED BY <1>1, Same DEF Moves, IInv, Typed

LEMMA RemoteKeeps ==
  ASSUME IInv, NEW b \in Branches,
         \/ \E d \in Docs : Push(b, d)
         \/ \E c \in Branches : Join(b, c)
         \/ Remove(b)
  PROVE  IInv'
<1>1. remote \in [Branches -> Heads] /\ pushes \in 1..MaxPushes
  BY DEF IInv, Typed, EnvTyped
<1>2. ASSUME NEW d \in Docs, Push(b, d) PROVE IInv'
  <2> DEFINE old == IF remote[b] = None THEN [x \in Docs |-> 0] ELSE remote[b].files
             n == pushes + 1
  <2>1. pushes < MaxPushes
    BY <1>2 DEF Push, Moves
  <2>2. n \in 1..MaxPushes /\ n \in 0..MaxPushes /\ 0 \in 0..MaxPushes
    BY <1>1, <2>1, ScannerAssumption
  <2>3. old \in [Docs -> 0..MaxPushes]
    BY <1>1, <2>2, HeadFields
  <2>4. Head(n, [old EXCEPT ![d] = n]) \in Heads /\ Head(n, [old EXCEPT ![d] = 0]) \in Heads
    <3>1. /\ [old EXCEPT ![d] = n] \in [Docs -> 0..MaxPushes]
          /\ [old EXCEPT ![d] = 0] \in [Docs -> 0..MaxPushes]
      BY <2>2, <2>3
    <3> QED BY <2>2, <3>1, HeadFields
  <2>5. \E head \in Heads : Moves(b, head)
    BY <1>2, <2>4 DEF Push
  <2> QED BY <2>5, MovesKeep
<1>3. ASSUME NEW c \in Branches, Join(b, c) PROVE IInv'
  BY <1>1, <1>3, MovesKeep DEF Join
<1>4. CASE Remove(b)
  BY <1>4, MovesKeep DEF Remove, Heads
<1> QED BY <1>2, <1>3, <1>4

LEMMA EditPathsKeeps ==
  ASSUME IInv, NEW paths \in SUBSET Docs, EditPaths(paths)
  PROVE  IInv'
<1>1. /\ config \in Configs /\ paths \in (SUBSET Docs) \ {{}}
      /\ config' = [[config EXCEPT !.paths = paths] EXCEPT !.enabled = TRUE]
  <2>1. paths # {} /\ Patch([config EXCEPT !.paths = paths])
    BY DEF EditPaths
  <2>2. paths \in (SUBSET Docs) \ {{}}
    BY <2>1
  <2>3. config' = [[config EXCEPT !.paths = paths] EXCEPT !.enabled = TRUE]
    BY <2>1 DEF Patch
  <2> QED BY <2>2, <2>3 DEF IInv, Typed, EnvTyped
<1>2. config' \in Configs /\ config'.latest = config.latest
  BY <1>1, ConfigEdited
<1>3. EnvTyped'
  <2>1. edits' \in 0..MaxEdits
    BY ScannerAssumption DEF IInv, Typed, EnvTyped, EditPaths, Patch
  <2> QED BY <1>2, <2>1 DEF IInv, Typed, EnvTyped, EditPaths, Patch
<1>4. IndexTyped'
  BY DEF IInv, Typed, IndexTyped, EditPaths, Patch
<1>5. SameRules'
  BY <1>2 DEF IInv, SameRules, RulesAt, EditPaths, Patch
<1>6. Current'
  BY DEF Current, EditPaths
<1>7. Scanning'
  BY DEF IInv, Scanning, ScanningAt, MaySkip, DoneWith, RightBy, Matches, EditPaths, Patch
<1>8. OneCommit'
  BY DEF IInv, OneCommit, OneCommitAt, EditPaths, Patch
<1> QED BY <1>3, <1>4, <1>5, <1>6, <1>7, <1>8, Same DEF IInv, Typed, EditPaths, Patch

\* The branches whose rule changes for doc_latest become spoiled.
LEMMA EditRulesKeeps ==
  ASSUME IInv, NEW b \in Branches, EditRules(b)
  PROVE  IInv'
<1>1. config \in Configs /\ spoiled \in SUBSET Branches
  BY DEF IInv, Typed, EnvTyped, IndexTyped
<1>2. \A S \in SUBSET Branches : Toggled(S, b) \in SUBSET Branches
  BY DEF Toggled
<1>3. /\ config' \in Configs /\ config'.paths = config.paths
      /\ spoiled' \in SUBSET Branches /\ spoiled \subseteq spoiled'
      /\ \A c \in Branches \ spoiled' : c \in config'.latest <=> c \in config.latest
  <2>1. CASE Patch([config EXCEPT !.tracked = Toggled(@, b)]) /\ UNCHANGED spoiled
    <3>1. config' = [[config EXCEPT !.tracked = Toggled(config.tracked, b)]
                       EXCEPT !.enabled = TRUE]
      BY <2>1 DEF Patch
    <3>2. Toggled(config.tracked, b) \in SUBSET Branches
      BY <1>1, <1>2, ConfigFields
    <3> QED BY <1>1, <2>1, <3>1, <3>2, ConfigEdited
  <2>2. CASE /\ Patch([config EXCEPT !.latest = Toggled(@, b)])
             /\ spoiled' = spoiled \cup {b}
    <3>1. config' = [[config EXCEPT !.latest = Toggled(config.latest, b)]
                       EXCEPT !.enabled = TRUE]
      BY <2>2 DEF Patch
    <3>2. Toggled(config.latest, b) \in SUBSET Branches
      BY <1>1, <1>2, ConfigFields
    <3>3. /\ config' \in Configs /\ config'.paths = config.paths
          /\ config'.latest = Toggled(config.latest, b)
      BY <1>1, <3>1, <3>2, ConfigEdited
    <3> QED BY <1>1, <2>2, <3>3 DEF Toggled
  <2> QED BY <2>1, <2>2 DEF EditRules
<1>4. /\ edits < MaxEdits /\ edits' = edits + 1
      /\ UNCHANGED <<remote, pushes, faults, mirror, ref, version, stale>>
      /\ UNCHANGED <<latest, row, lock, scan>>
  BY DEF EditRules, Patch
<1>5. EnvTyped'
  <2>1. edits' \in 0..MaxEdits
    BY <1>4, ScannerAssumption DEF IInv, Typed, EnvTyped
  <2> QED BY <1>3, <1>4, <2>1 DEF IInv, Typed, EnvTyped
<1>6. IndexTyped'
  BY <1>3, <1>4 DEF IInv, Typed, IndexTyped
<1>7. SameRules'
  BY <1>3, <1>4 DEF IInv, SameRules, RulesAt
<1>8. Current'
  <2> SUFFICES ASSUME NEW c \in Branches \ (spoiled' \cup stale') PROVE CurrentAt(c)'
    BY DEF Current
  <2>1. CurrentAt(c) /\ (c \in config'.latest <=> c \in config.latest)
    BY <1>3, <1>4 DEF IInv, Current
  <2> QED BY <1>3, <1>4, <2>1 DEF CurrentAt, Matches
<1>9. Scanning'
  BY <1>3, <1>4 DEF IInv, Scanning, ScanningAt, MaySkip, DoneWith, RightBy, Matches
<1>10. OneCommit'
  BY <1>3, <1>4 DEF IInv, OneCommit, OneCommitAt
<1> QED BY <1>4, <1>5, <1>6, <1>7, <1>8, <1>9, <1>10, Same DEF IInv, Typed

LEMMA DisableKeeps ==
  ASSUME IInv, Disable
  PROVE  IInv'
<1>1. /\ config' \in Configs /\ config'.paths = config.paths
      /\ config'.latest = config.latest
  BY ConfigEdited DEF IInv, Typed, EnvTyped, Disable
<1>2. EnvTyped'
  <2>1. edits' \in 0..MaxEdits
    BY ScannerAssumption DEF IInv, Typed, EnvTyped, Disable
  <2> QED BY <1>1, <2>1 DEF IInv, Typed, EnvTyped, Disable
<1>3. SameRules'
  BY <1>1 DEF IInv, SameRules, RulesAt, Disable
<1>4. Current'
  BY <1>1 DEF IInv, Current, CurrentAt, Matches, Disable
<1> QED BY <1>2, <1>3, <1>4, Same DEF IInv, Typed, Disable

LEMMA CrashKeeps ==
  ASSUME IInv, Crash
  PROVE  IInv'
<1>1. EnvTyped'
  BY FaultsCounted DEF IInv, Typed, EnvTyped, Crash
<1>2. ScanTyped' /\ Exclusive'
  BY DEF IInv, Typed, ScanTyped, ScanOK, Exclusive, Crash
<1>3. SameRules' /\ Scanning'
  BY Phases DEF SameRules, RulesAt, Scanning, ScanningAt, Crash
<1>4. Recomputed'
  <2>1. row = "success" => LatestRight
    BY DEF IInv, Exclusive, Recomputed
  <2>2. LatestRight => LatestRight'
    BY DEF LatestRight, LatestRightAt, Candidates, Crash
  <2> QED BY <2>1, <2>2, Phases DEF Recomputed, FinishedAt, Crash
<1> QED BY <1>1, <1>2, <1>3, <1>4, Same DEF IInv, Typed, Crash

-----------------------------------------------------------------------------
(* A scan up to its branches.                                               *)

LEMMA BeginKeeps ==
  ASSUME IInv, NEW s \in Scanners, Begin(s)
  PROVE  IInv'
<1>1. /\ scan[s] = NoScan /\ lock = None /\ lock' = s /\ row' = "running"
      /\ UNCHANGED <<envVars, faults, mirror, indexVars, latest>>
  BY DEF Begin, LockFree
<1>2. \A t \in Scanners : scan[t] = NoScan
  BY <1>1, ScannerAssumption DEF IInv, Exclusive
<1>3. /\ DOMAIN scan' = Scanners
      /\ scan'[s] = [phase |-> "fetch", over |-> FALSE, repo |-> config]
      /\ \A t \in Scanners : t # s => scan'[t] = NoScan
  BY <1>2 DEF Begin, IInv, Typed, ScanTyped
<1>4. scan'[s] \in Early /\ scan'[s] \notin Late /\ scan'[s].phase = "fetch"
      /\ scan'[s].repo = config /\ scan'[s] # NoScan
  <2>1. config \in Configs
    BY DEF IInv, Typed, EnvTyped
  <2>2. scan'[s] \in Early /\ scan'[s].phase = "fetch" /\ scan'[s].repo = config
    BY <1>3, <2>1 DEF Early
  <2> QED BY <2>2, Phases
<1>5. ScanTyped' /\ Exclusive'
  BY <1>1, <1>3, <1>4, ScannerAssumption DEF ScanTyped, ScanOK, Exclusive
<1>6. SameRules' /\ Scanning'
  <2> SUFFICES ASSUME NEW t \in Scanners PROVE RulesAt(t)' /\ ScanningAt(t)'
    BY DEF SameRules, Scanning
  <2>1. CASE t = s
    BY <1>1, <1>4, <2>1 DEF RulesAt, ScanningAt
  <2>2. CASE t # s
    BY <1>3, <2>2, Phases DEF RulesAt, ScanningAt
  <2> QED BY <2>1, <2>2
<1>7. Recomputed'
  BY <1>1, <1>3, <1>4, Phases DEF Recomputed, FinishedAt
<1> QED BY <1>1, <1>5, <1>6, <1>7, Same DEF IInv, Typed

LEMMA RefuseKeeps ==
  ASSUME IInv, NEW s \in Scanners, Refuse(s)
  PROVE  IInv'
<1>1. /\ scan[s] # NoScan /\ Aborts(s) /\ UNCHANGED <<row, lock>>
      /\ UNCHANGED <<envVars, faults, mirror, indexVars, latest>>
  BY PhaseTells DEF Refuse
<1> QED BY <1>1, AbortKeeps, Same DEF IInv, Typed

LEMMA ReadFailsKeeps ==
  ASSUME IInv, NEW s \in Scanners, ReadFails(s)
  PROVE  IInv'
<1>1. /\ scan[s] # NoScan /\ Aborts(s) /\ UNCHANGED <<row, lock>>
      /\ UNCHANGED <<envVars, mirror, indexVars, latest>>
  BY PhaseTells DEF ReadFails
<1>2. EnvTyped'
  BY <1>1, FaultsCounted DEF IInv, Typed, EnvTyped, ReadFails, Fails
<1> QED BY <1>1, <1>2, AbortKeeps, Same DEF IInv, Typed

LEMMA FetchFailsKeeps ==
  ASSUME IInv, NEW s \in Scanners, FetchFails(s)
  PROVE  IInv'
<1>1. /\ scan[s] # NoScan /\ Aborts(s) /\ UNCHANGED <<row, lock>>
      /\ UNCHANGED <<envVars, indexVars, latest>>
  BY PhaseTells DEF FetchFails
<1>2. EnvTyped'
  <2>1. faults' \in 0..MaxFaults
    BY FaultsCounted DEF IInv, Typed, FetchFails, Fails, EnvTyped
  <2>2. mirror' \in [Branches -> Heads]
    BY DEF IInv, Typed, EnvTyped, FetchFails
  <2> QED BY <1>1, <2>1, <2>2 DEF IInv, Typed, EnvTyped
<1> QED BY <1>1, <1>2, AbortKeeps, Same DEF IInv, Typed

LEMMA FetchKeeps ==
  ASSUME IInv, NEW s \in Scanners, Fetch(s)
  PROVE  IInv'
<1>1. /\ scan[s] \in Early /\ scan[s] # NoScan /\ mirror' = remote
      /\ UNCHANGED <<row, lock>> /\ UNCHANGED <<envVars, faults, indexVars, latest>>
  BY PhaseTells DEF Fetch
<1>2. /\ DOMAIN scan' = Scanners /\ scan'[s] = [scan[s] EXCEPT !.phase = "read"]
      /\ \A t \in Scanners \ {s} : scan'[t] = scan[t]
  BY DEF Fetch, IInv, Typed, ScanTyped
<1>3. scan'[s] \in Early /\ scan'[s].phase = "read" /\ scan'[s].repo = scan[s].repo
  BY <1>1, <1>2 DEF Early
<1>4. EnvTyped'
  BY <1>1 DEF IInv, Typed, EnvTyped
<1>5. ScanOK(s)' /\ ScanningAt(s)' /\ FinishedAt(s)'
  BY <1>3, Phases DEF ScanOK, ScanningAt, FinishedAt
<1>6. RulesAt(s)'
  BY <1>1, <1>3 DEF IInv, SameRules, RulesAt
<1>7. ScanTyped' /\ Exclusive' /\ SameRules' /\ Scanning' /\ Recomputed'
  BY <1>1, <1>2, <1>5, <1>6, OneScans
<1> QED BY <1>1, <1>4, <1>7, Same DEF IInv, Typed

\* From now on the scan follows the paths and the branches it has read.
LEMMA ReadKeeps ==
  ASSUME IInv, NEW s \in Scanners, Read(s)
  PROVE  IInv'
<1> DEFINE tracked == {b \in scan[s].repo.tracked : mirror[b] # None}
           late == [phase |-> "branch", over |-> FALSE, status |-> "success",
                    repo |-> scan[s].repo, refs |-> mirror, paths |-> config.paths,
                    stale |-> stale, todo |-> tracked]
<1>1. /\ scan[s] \in Early /\ scan[s] # NoScan /\ UNCHANGED <<row, lock>>
      /\ UNCHANGED <<envVars, faults, mirror, indexVars, latest>>
  BY PhaseTells DEF Read
<1>2. CASE Aborts(s)
  BY <1>1, <1>2, AbortKeeps, Same DEF IInv, Typed
<1>3. CASE scan' = [scan EXCEPT ![s] = late]
  <2>1. /\ DOMAIN scan' = Scanners /\ scan'[s] = late
        /\ \A t \in Scanners \ {s} : scan'[t] = scan[t]
    BY <1>3 DEF IInv, Typed, ScanTyped
  <2>2. scan[s].repo \in Configs /\ scan[s].repo.tracked \in SUBSET Branches
    BY <1>1, ConfigFields DEF Early
  <2>3. late \in Late /\ late.phase = "branch"
    <3>1. tracked \in SUBSET Branches
      BY <2>2
    <3>2. config.paths \in (SUBSET Docs) \ {{}}
      BY ConfigFields DEF IInv, Typed, EnvTyped
    <3> HIDE DEF tracked
    <3> QED BY <2>2, <3>1, <3>2 DEF IInv, Typed, EnvTyped, IndexTyped, Late
  <2>4. /\ late.repo = scan[s].repo /\ late.refs = mirror /\ late.paths = config.paths
        /\ late.stale = stale /\ late.todo = tracked
    OBVIOUS
  <2> HIDE DEF late
  <2>5. ScanOK(s)' /\ FinishedAt(s)'
    BY <2>1, <2>3, <2>4, Phases DEF ScanOK, FinishedAt
  <2>6. \A b \in Branches \ spoiled : b \in config.latest <=> b \in scan[s].repo.latest
    BY <1>1 DEF IInv, SameRules, RulesAt
  <2>7. RulesAt(s)'
    BY <1>1, <2>1, <2>4, <2>6 DEF RulesAt
  <2>8. ScanningAt(s)'
    <3> SUFFICES ASSUME NEW b \in Branches \ spoiled
                 PROVE  /\ MaySkip(s, b)' => RightBy(s, b)'
                        /\ ~DoneWith(s, b)'
      BY <1>1 DEF ScanningAt
    <3>1. ~DoneWith(s, b)'
      BY <2>1, <2>4 DEF DoneWith
    <3>2. ASSUME MaySkip(s, b)' PROVE RightBy(s, b)'
      <4>1. b \notin stale /\ ref[b] # None
        BY <1>1, <2>1, <2>4, <3>2 DEF MaySkip
      <4>2. Matches(b, ref[b], config.paths, config.latest)
        BY <4>1 DEF IInv, Current, CurrentAt
      <4>3. Matches(b, ref[b], config.paths, scan[s].repo.latest)
        BY <2>6, <4>2 DEF Matches
      <4> QED BY <1>1, <2>1, <2>4, <4>3 DEF RightBy, Matches
    <3> QED BY <3>1, <3>2
  <2>9. ScanTyped' /\ Exclusive' /\ SameRules' /\ Scanning' /\ Recomputed'
    BY <1>1, <2>1, <2>5, <2>7, <2>8, OneScans
  <2> QED BY <1>1, <2>9, Same DEF IInv, Typed
<1> QED BY <1>2, <1>3 DEF Read

LEMMA CancelKeeps ==
  ASSUME IInv, NEW s \in Scanners, Cancel(s)
  PROVE  IInv'
<1>1. /\ scan[s] \in Late /\ scan[s] # NoScan /\ scan[s].phase = "branch"
      /\ UNCHANGED <<row, lock>> /\ UNCHANGED <<envVars, mirror, indexVars, latest>>
  BY PhaseTells DEF Cancel
<1>2. /\ DOMAIN scan' = Scanners /\ scan'[s] = [scan[s] EXCEPT !.over = TRUE]
      /\ \A t \in Scanners \ {s} : scan'[t] = scan[t]
  BY DEF Cancel, IInv, Typed, ScanTyped
<1>3. /\ scan'[s] \in Late /\ SameReads(scan'[s], scan[s]) /\ scan'[s].phase = "branch"
      /\ scan'[s].todo = scan[s].todo /\ scan'[s].status = scan[s].status
  BY <1>1, <1>2 DEF Late, SameReads
<1>4. EnvTyped'
  BY FaultsCounted DEF IInv, Typed, EnvTyped, Cancel
<1>5. ScanOK(s)' /\ FinishedAt(s)'
  BY <1>1, <1>3, PhaseTells DEF ScanOK, FinishedAt, SameReads
<1>6. RulesAt(s)'
  BY <1>1, <1>3 DEF IInv, SameRules, RulesAt, SameReads
<1>7. ScanningAt(s)'
  BY <1>1, <1>3 DEF IInv, Scanning, ScanningAt, MaySkip, DoneWith, RightBy, Matches,
      SameReads
<1>8. ScanTyped' /\ Exclusive' /\ SameRules' /\ Scanning' /\ Recomputed'
  BY <1>1, <1>2, <1>5, <1>6, <1>7, OneScans
<1> QED BY <1>1, <1>4, <1>8, Same DEF IInv, Typed

-----------------------------------------------------------------------------
(* The branches.                                                            *)

\* The scan has one branch less before it, and its status is st.
Takes(s, b, st) ==
  /\ scan[s] \in Late /\ scan[s] # NoScan /\ scan[s].phase = "branch"
  /\ b \in scan[s].todo /\ scan[s].refs[b] # None
  /\ DOMAIN scan' = Scanners /\ \A t \in Scanners \ {s} : scan'[t] = scan[t]
  /\ scan'[s] \in Late /\ SameReads(scan'[s], scan[s]) /\ scan'[s].phase = "branch"
  /\ scan'[s].todo = scan[s].todo \ {b} /\ scan'[s].status = st

LEMMA TurnTakes ==
  ASSUME IInv, NEW s \in Scanners, NEW b \in Branches, Turn(s, b)
  PROVE  /\ scan' = [scan EXCEPT ![s].todo = @ \ {b}] => Takes(s, b, scan[s].status)
         /\ \A st \in {"success", "partial_success"} :
              scan' = [scan EXCEPT ![s].todo = @ \ {b}, ![s].status = st]
                => Takes(s, b, st)
<1>1. /\ scan[s] \in Late /\ scan[s] # NoScan /\ scan[s].phase = "branch"
      /\ b \in scan[s].todo /\ scan[s].refs[b] # None
  BY PhaseTells DEF Turn
<1>2. DOMAIN scan = Scanners
  BY DEF IInv, Typed, ScanTyped
<1>3. ASSUME scan' = [scan EXCEPT ![s].todo = @ \ {b}]
      PROVE  Takes(s, b, scan[s].status)
  <2>1. /\ DOMAIN scan' = Scanners /\ \A t \in Scanners \ {s} : scan'[t] = scan[t]
        /\ scan'[s] = [scan[s] EXCEPT !.todo = scan[s].todo \ {b}]
    BY <1>2, <1>3
  <2>2. scan[s].status \in {"success", "partial_success"}
    BY <1>1, LateFields
  <2>3. /\ scan'[s] \in Late /\ SameReads(scan'[s], scan[s])
        /\ scan'[s].phase = scan[s].phase /\ scan'[s].todo = scan[s].todo \ {b}
        /\ scan'[s].status = scan[s].status
    BY <1>1, <2>1, <2>2 DEF Late, SameReads
  <2> QED BY <1>1, <2>1, <2>3 DEF Takes
<1>4. ASSUME NEW st \in {"success", "partial_success"},
             scan' = [scan EXCEPT ![s].todo = @ \ {b}, ![s].status = st]
      PROVE  Takes(s, b, st)
  <2>1. /\ DOMAIN scan' = Scanners /\ \A t \in Scanners \ {s} : scan'[t] = scan[t]
        /\ scan'[s] = [scan[s] EXCEPT !.todo = scan[s].todo \ {b}, !.status = st]
    BY <1>2, <1>4
  <2>2. /\ scan'[s] \in Late /\ SameReads(scan'[s], scan[s])
        /\ scan'[s].phase = scan[s].phase /\ scan'[s].todo = scan[s].todo \ {b}
        /\ scan'[s].status = st
    <3> DEFINE q == scan[s]
               n == [q EXCEPT !.todo = q.todo \ {b}, !.status = st]
    <3>1. q \in Late
      BY <1>1
    <3> HIDE DEF q
    <3>2. n \in Late
      BY <1>4, <3>1 DEF Late
    <3>3. /\ SameReads(n, q) /\ n.phase = q.phase
          /\ n.todo = q.todo \ {b} /\ n.status = st
      BY <3>1 DEF Late, SameReads
    <3> QED BY <2>1, <3>2, <3>3 DEF q
  <2> QED BY <1>1, <2>1, <2>2 DEF Takes
<1> QED BY <1>3, <1>4

\* What is left to show of a step that takes a branch.
LEMMA TakesKeeps ==
  ASSUME IInv, NEW s \in Scanners, NEW b \in Branches, NEW st, Takes(s, b, st),
         UNCHANGED <<row, lock>>, RulesAt(s)', ScanningAt(s)'
  PROVE  ScanTyped' /\ Exclusive' /\ SameRules' /\ Scanning' /\ Recomputed'
<1>1. ScanOK(s)' /\ FinishedAt(s)'
  BY PhaseTells DEF Takes, ScanOK, FinishedAt, SameReads
<1> QED BY <1>1, OneScans DEF Takes

\* A branch that is not taken is as it was.
OthersSame(b) ==
  \A c \in Branches \ {b} :
    /\ ref'[c] = ref[c] /\ version'[c] = version[c]
    /\ c \in spoiled' <=> c \in spoiled
    /\ c \in stale' <=> c \in stale

LEMMA OthersKept ==
  ASSUME IInv, NEW s \in Scanners, NEW b \in Branches, NEW st, Takes(s, b, st),
         OthersSame(b), st = scan[s].status \/ st = "partial_success", UNCHANGED config
  PROVE  \A c \in Branches \ {b} :
           /\ c \notin spoiled' => c \in config'.latest <=> c \in scan'[s].repo.latest
           /\ c \notin spoiled' /\ c \notin stale' => CurrentAt(c)'
           /\ c \notin spoiled' =>
                /\ MaySkip(s, c)' => RightBy(s, c)'
                /\ DoneWith(s, c)' => ref'[c] = scan'[s].refs[c] /\ RightBy(s, c)'
                /\ OneCommitAt(c)'
<1> TAKE c \in Branches \ {b}
<1>1. c \notin spoiled' => c \in config'.latest <=> c \in scan'[s].repo.latest
  BY DEF IInv, SameRules, RulesAt, Takes, SameReads, OthersSame
<1>2. c \notin spoiled' /\ c \notin stale' => CurrentAt(c)'
  BY DEF IInv, Current, CurrentAt, Matches, OthersSame
<1>3. c \notin spoiled' =>
        /\ MaySkip(s, c) => RightBy(s, c)
        /\ DoneWith(s, c) => ref[c] = scan[s].refs[c] /\ RightBy(s, c)
  BY DEF IInv, Scanning, ScanningAt, Takes, OthersSame
<1>4. /\ RightBy(s, c) => RightBy(s, c)'
      /\ MaySkip(s, c)' => MaySkip(s, c)
      /\ DoneWith(s, c)' => DoneWith(s, c)
      /\ ref'[c] = ref[c] /\ scan'[s].refs[c] = scan[s].refs[c]
  BY DEF Takes, SameReads, OthersSame, RightBy, Matches, MaySkip, DoneWith
<1>5. c \notin spoiled' => OneCommitAt(c)'
  BY DEF IInv, OneCommit, OneCommitAt, OthersSame
<1> QED BY <1>1, <1>2, <1>3, <1>4, <1>5

\* What then is left to show of b, if it is not spoiled.
LEMMA BranchTaken ==
  ASSUME IInv, NEW s \in Scanners, NEW b \in Branches, NEW st, Takes(s, b, st),
         OthersSame(b), st = scan[s].status \/ st = "partial_success",
         UNCHANGED <<envVars, row, lock>>, IndexTyped',
         b \notin spoiled' =>
           /\ b \in config.latest <=> b \in scan[s].repo.latest
           /\ b \notin stale' => CurrentAt(b)'
           /\ st = "success" => ref'[b] = scan[s].refs[b] /\ RightBy(s, b)'
           /\ OneCommitAt(b)'
  PROVE  /\ ScanTyped' /\ Exclusive' /\ SameRules' /\ Scanning' /\ Recomputed'
         /\ Current' /\ OneCommit'
<1>1. \A c \in Branches \ {b} :
        /\ c \notin spoiled' => c \in config'.latest <=> c \in scan'[s].repo.latest
        /\ c \notin spoiled' /\ c \notin stale' => CurrentAt(c)'
        /\ c \notin spoiled' =>
             /\ MaySkip(s, c)' => RightBy(s, c)'
             /\ DoneWith(s, c)' => ref'[c] = scan'[s].refs[c] /\ RightBy(s, c)'
             /\ OneCommitAt(c)'
  BY OthersKept
<1>2. /\ scan'[s].repo = scan[s].repo /\ scan'[s].refs = scan[s].refs
      /\ b \notin scan'[s].todo /\ scan'[s].status = st
  BY DEF Takes, SameReads
<1>3. Current' /\ OneCommit'
  BY <1>1 DEF Current, OneCommit
<1>4. RulesAt(s)'
  BY <1>1, <1>2 DEF RulesAt
<1>5. ScanningAt(s)'
  <2>1. ~MaySkip(s, b)'
    BY <1>2 DEF MaySkip
  <2>2. DoneWith(s, b)' => st = "success"
    BY <1>2 DEF DoneWith
  <2>3. \A c \in Branches \ spoiled' :
          /\ MaySkip(s, c)' => RightBy(s, c)'
          /\ DoneWith(s, c)' => ref'[c] = scan'[s].refs[c] /\ RightBy(s, c)'
    BY <1>1, <1>2, <2>1, <2>2
  <2> QED BY <2>3 DEF ScanningAt
<1> QED BY <1>3, <1>4, <1>5, TakesKeeps

\* Paths that changed since they were read leave the branch stale, or spoiled.
LEMMA Stamped ==
  ASSUME IInv, NEW s \in Scanners, NEW b \in Branches, scan[s] \in Late, Stamp(s, b)
  PROVE  /\ ref' \in [Branches -> Heads] /\ stale' \in SUBSET Branches
         /\ ref'[b] = scan[s].refs[b]
         /\ \A c \in Branches \ {b} : ref'[c] = ref[c] /\ (c \in stale' <=> c \in stale)
         /\ b \notin stale' /\ ~MissesPaths(s, b) => config.paths = scan[s].paths
<1>1. ref \in [Branches -> Heads] /\ stale \in SUBSET Branches
  BY DEF IInv, Typed, IndexTyped
<1>2. scan[s].refs \in [Branches -> Heads]
  BY LateFields
<1> QED BY <1>1, <1>2 DEF Stamp, MissesPaths

LEMMA SkipKeeps ==
  ASSUME IInv, NEW s \in Scanners, NEW b \in Branches, Skip(s, b)
  PROVE  IInv'
<1> DEFINE st == scan[s].status
<1>1. /\ Turn(s, b) /\ Unchanged(s, b) /\ Stamp(s, b)
      /\ spoiled' = IF MissesPaths(s, b) THEN spoiled \cup {b} ELSE spoiled
      /\ scan' = [scan EXCEPT ![s].todo = @ \ {b}]
      /\ UNCHANGED <<envVars, faults, mirror, version, latest, row, lock>>
  BY DEF Skip
<1>2. Takes(s, b, st)
  BY <1>1, TurnTakes
<1>3. scan[s] \in Late
  BY <1>2 DEF Takes
<1>4. /\ ref' \in [Branches -> Heads] /\ stale' \in SUBSET Branches
      /\ ref'[b] = scan[s].refs[b]
      /\ \A c \in Branches \ {b} : ref'[c] = ref[c] /\ (c \in stale' <=> c \in stale)
      /\ b \notin stale' /\ ~MissesPaths(s, b) => config.paths = scan[s].paths
  BY <1>1, <1>3, Stamped
<1>5. IndexTyped'
  BY <1>1, <1>4 DEF IInv, Typed, IndexTyped
<1>6. OthersSame(b)
  BY <1>1, <1>4 DEF OthersSame
<1>7. ref'[b] = ref[b]
  BY <1>1, <1>4 DEF Unchanged
<1>8. ASSUME b \notin spoiled'
      PROVE  /\ b \in config.latest <=> b \in scan[s].repo.latest
             /\ b \notin stale' => CurrentAt(b)'
             /\ st = "success" => ref'[b] = scan[s].refs[b] /\ RightBy(s, b)'
             /\ OneCommitAt(b)'
  <2>1. b \notin spoiled /\ ~MissesPaths(s, b)
    BY <1>1, <1>8
  <2>2. b \in config.latest <=> b \in scan[s].repo.latest
    BY <1>3, <2>1 DEF IInv, SameRules, RulesAt
  <2>3. MaySkip(s, b)
    BY <1>1, <1>2, <1>4, <1>7 DEF Unchanged, Takes, MaySkip
  <2>4. RightBy(s, b)
    BY <1>3, <2>1, <2>3 DEF IInv, Scanning, ScanningAt
  <2>5. RightBy(s, b)'
    BY <1>1, <1>2, <1>7, <2>4 DEF RightBy, Matches, Takes, SameReads
  <2>6. b \notin stale' => CurrentAt(b)'
    <3> SUFFICES ASSUME b \notin stale' PROVE CurrentAt(b)'
      OBVIOUS
    <3>1. config.paths = scan[s].paths
      BY <1>4, <2>1
    <3>2. Matches(b, ref[b], config.paths, config.latest)
      BY <2>2, <2>4, <3>1 DEF RightBy, Matches
    <3> QED BY <1>1, <1>7, <3>2 DEF CurrentAt, Matches
  <2>7. OneCommitAt(b)'
    BY <1>1, <1>7, <2>1 DEF IInv, OneCommit, OneCommitAt
  <2> QED BY <1>4, <2>2, <2>5, <2>6, <2>7
<1>9. /\ ScanTyped' /\ Exclusive' /\ SameRules' /\ Scanning' /\ Recomputed'
      /\ Current' /\ OneCommit'
  BY <1>1, <1>2, <1>5, <1>6, <1>8, BranchTaken
<1> QED BY <1>1, <1>5, <1>9, Same DEF IInv, Typed

-----------------------------------------------------------------------------
(* What a scan stores of a branch.                                          *)

LEMMA VersionFields ==
  /\ \A v \in Versions : /\ Deleted(v) \in Versions /\ Deleted(Deleted(v)) = Deleted(v)
                         /\ Deleted(v) # None => ~Deleted(v).live
  /\ \A counts \in BOOLEAN, at \in 1..MaxPushes :
       [live |-> TRUE, counts |-> counts, at |-> at] \in Versions
<1> DEFINE Alive == [live : {TRUE}, counts : BOOLEAN, at : 1..MaxPushes]
           Dead == [live : {FALSE}, counts : {FALSE}, at : 1..MaxPushes]
<1>1. Versions = {None} \cup Alive \cup Dead
  BY DEF Versions
<1>2. \A v \in Alive \cup Dead : LET w == [v EXCEPT !.live = FALSE, !.counts = FALSE]
                                 IN w \in Dead /\ ~w.live
  OBVIOUS
<1>3. \A w \in Dead : [w EXCEPT !.live = FALSE, !.counts = FALSE] = w
  OBVIOUS
<1>4. \A counts \in BOOLEAN, at \in 1..MaxPushes :
       [live |-> TRUE, counts |-> counts, at |-> at] \in Alive
  OBVIOUS
<1> HIDE DEF Alive, Dead
<1> QED BY <1>1, <1>2, <1>3, <1>4 DEF Deleted

LEMMA StoredTyped ==
  ASSUME IInv, NEW s \in Scanners, NEW b \in Branches, scan[s] \in Late,
         scan[s].refs[b] # None, NEW d \in Docs, NEW fault
  PROVE  Stored(s, b, d, fault) \in Versions
<1> DEFINE head == scan[s].refs[b]
<1>1. version[b][d] \in Versions
  BY DEF IInv, Typed, IndexTyped
<1>2. head.commit \in 1..MaxPushes /\ head.files[d] \in 0..MaxPushes
  BY LateFields, HeadFields
<1>3. d \in Files(head) => head.files[d] \in 1..MaxPushes
  BY <1>2 DEF Files
<1>4. (b \in scan[s].repo.latest) \in BOOLEAN
  OBVIOUS
<1> HIDE DEF head
<1> QED BY <1>1, <1>2, <1>3, <1>4, VersionFields DEF Stored, head

\* Without a fault of its own, every file is stored as the branch has it.
LEMMA StoredRight ==
  ASSUME IInv, NEW s \in Scanners, NEW b \in Branches, scan[s] \in Late,
         NEW d \in Docs, NEW fault, fault \notin {"unlisted", "guessed", "unstored"}
  PROVE  LET head == scan[s].refs[b]
             v == Stored(s, b, d, fault)
         IN /\ d \in scan[s].paths \cap Files(head) =>
                 v = [live |-> TRUE, counts |-> b \in scan[s].repo.latest,
                      at |-> head.files[d]]
            /\ d \notin scan[s].paths \cap Files(head) =>
                 v = Deleted(v) /\ (v # None => ~v.live)
<1>1. version[b][d] \in Versions
  BY DEF IInv, Typed, IndexTyped
<1> QED BY <1>1, VersionFields DEF Stored

LEMMA IndexKeeps ==
  ASSUME IInv, NEW s \in Scanners, NEW b \in Branches, Index(s, b)
  PROVE  IInv'
<1> DEFINE head == scan[s].refs[b]
<1>1. Turn(s, b) /\ UNCHANGED <<envVars, mirror, latest, row, lock>>
  BY DEF Index
<1>2. PICK f \in Docs, fault \in {"none", "unlisted", "guessed", "unstored", "other"} :
       /\ IF fault = "none" THEN UNCHANGED faults
          ELSE faults < MaxFaults /\ faults' = faults + 1
       /\ version' = [version EXCEPT ![b] =
            [d \in Docs |-> Stored(s, b, d, IF d = f THEN fault ELSE "none")]]
       /\ Stamp(s, b)
       /\ spoiled' = IF \/ fault \in {"unlisted", "guessed", "unstored"}
                        \/ MissesPaths(s, b)
                        \/ (b \in config.latest) # (b \in scan[s].repo.latest)
                     THEN spoiled \cup {b} ELSE spoiled \ {b}
       /\ scan' = [scan EXCEPT ![s].todo = @ \ {b},
                      ![s].status = IF fault \in {"none", "guessed"} THEN @ ELSE "partial_success"]
  BY DEF Index
<1> DEFINE st == IF fault \in {"none", "guessed"} THEN scan[s].status ELSE "partial_success"
           faultOf(d) == IF d = f THEN fault ELSE "none"
<1>3. scan[s] \in Late
  BY <1>1, PhaseTells DEF Turn
<1>4. st \in {"success", "partial_success"}
  BY <1>3, LateFields
<1>5. Takes(s, b, st)
  <2>1. scan' = [scan EXCEPT ![s].todo = @ \ {b}, ![s].status = st]
    BY <1>2
  <2> HIDE DEF st
  <2> QED BY <1>1, <1>4, <2>1, TurnTakes
<1>6. /\ ref' \in [Branches -> Heads] /\ stale' \in SUBSET Branches
      /\ ref'[b] = head
      /\ \A c \in Branches \ {b} : ref'[c] = ref[c] /\ (c \in stale' <=> c \in stale)
      /\ b \notin stale' /\ ~MissesPaths(s, b) => config.paths = scan[s].paths
  BY <1>2, <1>3, Stamped
<1>7. /\ version' \in [Branches -> [Docs -> Versions]]
      /\ \A d \in Docs : version'[b][d] = Stored(s, b, d, faultOf(d))
      /\ \A c \in Branches \ {b} : version'[c] = version[c]
  <2>1. version \in [Branches -> [Docs -> Versions]]
    BY DEF IInv, Typed, IndexTyped
  <2>2. \A d \in Docs : Stored(s, b, d, faultOf(d)) \in Versions
    BY <1>3, <1>5, StoredTyped DEF Takes
  <2>3. version' = [version EXCEPT ![b] = [d \in Docs |-> Stored(s, b, d, faultOf(d))]]
    BY <1>2
  <2> HIDE DEF faultOf
  <2> QED BY <2>1, <2>2, <2>3
<1>8. /\ spoiled' \in SUBSET Branches
      /\ \A c \in Branches \ {b} : c \in spoiled' <=> c \in spoiled
      /\ b \notin spoiled' => /\ fault \notin {"unlisted", "guessed", "unstored"}
                              /\ ~MissesPaths(s, b)
                              /\ b \in config.latest <=> b \in scan[s].repo.latest
  <2>1. spoiled \in SUBSET Branches
    BY DEF IInv, Typed, IndexTyped
  <2>2. CASE \/ fault \in {"unlisted", "guessed", "unstored"}
             \/ MissesPaths(s, b)
             \/ (b \in config.latest) # (b \in scan[s].repo.latest)
    <3>1. spoiled' = spoiled \cup {b}
      BY <1>2, <2>2
    <3> QED BY <2>1, <3>1
  <2>3. CASE /\ fault \notin {"unlisted", "guessed", "unstored"}
             /\ ~MissesPaths(s, b)
             /\ (b \in config.latest) = (b \in scan[s].repo.latest)
    <3>1. spoiled' = spoiled \ {b}
      BY <1>2, <2>3
    <3> QED BY <2>1, <2>3, <3>1
  <2> QED BY <2>2, <2>3
<1>9. IndexTyped' /\ OthersSame(b)
  BY <1>6, <1>7, <1>8 DEF IndexTyped, OthersSame
<1>10. ASSUME b \notin spoiled'
       PROVE  /\ b \in config.latest <=> b \in scan[s].repo.latest
              /\ b \notin stale' => CurrentAt(b)'
              /\ st = "success" => ref'[b] = scan[s].refs[b] /\ RightBy(s, b)'
              /\ OneCommitAt(b)'
  <2>1. \A d \in Docs : faultOf(d) \notin {"unlisted", "guessed", "unstored"}
    BY <1>8, <1>10
  <2> HIDE DEF faultOf, st
  <2>2. \A d \in Docs :
          /\ d \in scan[s].paths \cap Files(head) =>
               version'[b][d] = [live |-> TRUE, counts |-> b \in scan[s].repo.latest,
                                 at |-> head.files[d]]
          /\ d \notin scan[s].paths \cap Files(head) =>
               /\ version'[b][d] = Deleted(version'[b][d])
               /\ version'[b][d] # None => ~version'[b][d].live
    <3> TAKE d \in Docs
    <3>1. version'[b][d] = Stored(s, b, d, faultOf(d))
      BY <1>7
    <3>2. faultOf(d) \notin {"unlisted", "guessed", "unstored"}
      BY <2>1
    <3> DEFINE v == version'[b][d]
    <3>3. /\ d \in scan[s].paths \cap Files(head) =>
               v = [live |-> TRUE, counts |-> b \in scan[s].repo.latest,
                    at |-> head.files[d]]
          /\ d \notin scan[s].paths \cap Files(head) =>
               v = Deleted(v) /\ (v # None => ~v.live)
      BY <1>3, <3>1, <3>2, StoredRight
    <3> QED BY <3>3
  <2>4. RightBy(s, b)'
    BY <1>5, <1>6, <2>2 DEF RightBy, Matches, Takes, SameReads, Files
  <2>5. b \notin stale' => CurrentAt(b)'
    <3> SUFFICES ASSUME b \notin stale' PROVE CurrentAt(b)'
      OBVIOUS
    <3>1. config'.paths = scan[s].paths
      BY <1>1, <1>6, <1>8, <1>10
    <3>2. b \in config'.latest <=> b \in scan[s].repo.latest
      BY <1>1, <1>8, <1>10
    <3> QED BY <1>6, <2>2, <3>1, <3>2 DEF CurrentAt, Matches
  <2>6. OneCommitAt(b)'
    <3> SUFFICES ASSUME NEW d \in Docs, version'[b][d] # None, version'[b][d].live
                 PROVE  /\ ref'[b] # None /\ d \in Files(ref'[b])
                        /\ version'[b][d].at = ref'[b].files[d]
      BY DEF OneCommitAt, Files
    <3>1. d \in scan[s].paths \cap Files(head)
      BY <2>2
    <3>2. version'[b][d].at = head.files[d]
      <4>1. version'[b][d] = [live |-> TRUE, counts |-> b \in scan[s].repo.latest,
                              at |-> head.files[d]]
        BY <2>2, <3>1
      <4> HIDE DEF head
      <4> QED BY <4>1
    <3> QED BY <1>5, <1>6, <3>1, <3>2 DEF Takes
  <2> QED BY <1>6, <1>8, <1>10, <2>4, <2>5, <2>6
<1>11. /\ ScanTyped' /\ Exclusive' /\ SameRules' /\ Scanning' /\ Recomputed'
       /\ Current' /\ OneCommit'
  <2>1. st = scan[s].status \/ st = "partial_success"
    OBVIOUS
  <2> HIDE DEF st
  <2> QED BY <1>1, <1>5, <1>9, <1>10, <2>1, BranchTaken
<1>12. EnvTyped'
  <2>1. UNCHANGED faults \/ (faults < MaxFaults /\ faults' = faults + 1)
    BY <1>2
  <2> QED BY <1>1, <2>1, FaultsCounted DEF IInv, Typed, EnvTyped
<1> QED BY <1>1, <1>9, <1>11, <1>12, Same DEF IInv, Typed

LEMMA BranchFailsKeeps ==
  ASSUME IInv, NEW s \in Scanners, NEW b \in Branches, BranchFails(s, b)
  PROVE  IInv'
<1>1. /\ Turn(s, b) /\ Fails(s) /\ UNCHANGED indexVars
      /\ scan' = [scan EXCEPT ![s].todo = @ \ {b}, ![s].status = "partial_success"]
      /\ UNCHANGED <<envVars, mirror, latest, row, lock>>
  BY DEF BranchFails, RolledBack
<1>2. Takes(s, b, "partial_success")
  BY <1>1, TurnTakes
<1>3. EnvTyped'
  BY <1>1, FaultsCounted DEF IInv, Typed, EnvTyped, Fails
<1>4. IndexTyped' /\ Current' /\ OneCommit'
  BY <1>1, Same
<1>5. OthersSame(b)
  BY <1>1 DEF OthersSame
<1>6. ASSUME b \notin spoiled'
      PROVE  /\ b \in config.latest <=> b \in scan[s].repo.latest
             /\ b \notin stale' => CurrentAt(b)'
             /\ OneCommitAt(b)'
  <2>1. b \in config.latest <=> b \in scan[s].repo.latest
    BY <1>1, <1>2, <1>6 DEF IInv, SameRules, RulesAt, Takes
  <2> QED BY <1>4, <1>6, <2>1 DEF Current, OneCommit
<1>7. ScanTyped' /\ Exclusive' /\ SameRules' /\ Scanning' /\ Recomputed'
  BY <1>1, <1>2, <1>4, <1>5, <1>6, BranchTaken
<1> QED BY <1>1, <1>3, <1>4, <1>7, Same DEF IInv, Typed

-----------------------------------------------------------------------------
(* The end.                                                                 *)

\* A set of naturals has a least element.
LEMMA LeastExists ==
  ASSUME NEW T \in SUBSET Nat, T # {}
  PROVE  \E t \in T : \A u \in T : t <= u
<1>1. PICK t \in T : \A u \in T : ~(<<u, t>> \in OpToRel(<, Nat))
  BY NatLessThanWellFounded, WFMin
<1>2. \A u \in T : ~(u < t)
  BY <1>1 DEF OpToRel
<1>3. \A u \in T : t <= u
  BY <1>2
<1> QED BY <1>3

LEMMA VersionsCount ==
  ASSUME IInv, NEW d \in Docs, NEW b \in Candidates(d)
  PROVE  b \in Branches /\ b \in Nat /\ version[b][d].at \in 1..MaxPushes
<1>1. b \in Branches /\ version[b][d] \in Versions /\ version[b][d] # None
  BY DEF Candidates, IInv, Typed, IndexTyped
<1>2. version[b][d].at \in 1..MaxPushes
  BY <1>1 DEF Versions
<1>3. b \in Nat
  BY <1>1 DEF Branches
<1> QED BY <1>1, <1>2, <1>3

\* The order of recomputeLatest has a first one.
LEMMA WinnerExists ==
  ASSUME IInv, NEW d \in Docs, Candidates(d) # {}
  PROVE  /\ Winner(d) \in Candidates(d)
         /\ \A c \in Candidates(d) : Before(Winner(d), c, d)
<1> DEFINE At(b) == version[b][d].at
           Ages == {MaxPushes - At(b) : b \in Candidates(d)}
<1>1. \A b \in Candidates(d) : b \in Nat /\ At(b) \in 1..MaxPushes
  BY VersionsCount
<1>2. PICK b0 \in Candidates(d) : \A c \in Candidates(d) : At(c) <= At(b0)
  <2>1. Ages \in SUBSET Nat
    BY <1>1, ScannerAssumption
  <2>2. Ages # {}
    OBVIOUS
  <2>3. PICK x \in Ages : \A y \in Ages : x <= y
    BY <2>1, <2>2, LeastExists
  <2>4. PICK b0 \in Candidates(d) : x = MaxPushes - At(b0)
    OBVIOUS
  <2>5. \A c \in Candidates(d) : MaxPushes - At(b0) <= MaxPushes - At(c)
    BY <2>3, <2>4
  <2>6. \A c \in Candidates(d) : At(c) <= At(b0)
    BY <1>1, <2>5, ScannerAssumption
  <2> QED BY <2>6
<1> DEFINE Newest == {b \in Candidates(d) : At(b) = At(b0)}
<1>3. PICK b1 \in Newest : \A c \in Newest : b1 <= c
  <2>1. Newest \in SUBSET Nat /\ Newest # {}
    BY <1>1
  <2> QED BY <2>1, LeastExists
<1>4. \A c \in Candidates(d) : Before(b1, c, d)
  <2> TAKE c \in Candidates(d)
  <2>1. At(b1) = At(b0) /\ At(c) <= At(b0) /\ At(c) \in Nat /\ At(b0) \in Nat
    BY <1>1, <1>2
  <2>2. CASE At(c) = At(b0)
    BY <1>3, <2>1, <2>2 DEF Before
  <2>3. CASE At(c) # At(b0)
    BY <2>1, <2>3 DEF Before
  <2> QED BY <2>2, <2>3
<1>5. b1 \in Candidates(d)
  OBVIOUS
<1> QED BY <1>4, <1>5 DEF Winner

LEMMA RecomputeLatestKeeps ==
  ASSUME IInv, NEW s \in Scanners, RecomputeLatest(s)
  PROVE  IInv'
<1>1. /\ scan[s] \in Late /\ scan[s] # NoScan /\ scan[s].todo = {}
      /\ latest' = [d \in Docs |-> IF Candidates(d) = {} THEN None
                                   ELSE [branch |-> Winner(d), at |-> version[Winner(d)][d].at]]
      /\ UNCHANGED <<envVars, faults, mirror, indexVars, row, lock>>
  BY PhaseTells DEF RecomputeLatest, Scanned
<1>2. /\ DOMAIN scan' = Scanners /\ scan'[s] = [scan[s] EXCEPT !.phase = "finish"]
      /\ \A t \in Scanners \ {s} : scan'[t] = scan[t]
  BY DEF RecomputeLatest, IInv, Typed, ScanTyped
<1>3. /\ scan'[s] \in Late /\ SameReads(scan'[s], scan[s]) /\ scan'[s].phase = "finish"
      /\ scan'[s].todo = scan[s].todo /\ scan'[s].status = scan[s].status
  BY <1>1, <1>2 DEF Late, SameReads
<1>4. ASSUME NEW d \in Docs, Candidates(d) # {}
      PROVE  /\ Winner(d) \in Candidates(d)
             /\ \A c \in Candidates(d) : Before(Winner(d), c, d)
             /\ latest'[d] = [branch |-> Winner(d), at |-> version[Winner(d)][d].at]
             /\ latest'[d].branch = Winner(d)
             /\ latest'[d].at = version[Winner(d)][d].at
             /\ latest'[d] \in [branch : Branches, at : 1..MaxPushes] /\ latest'[d] # None
  <2>1. /\ Winner(d) \in Candidates(d)
        /\ \A c \in Candidates(d) : Before(Winner(d), c, d)
    BY <1>4, WinnerExists
  <2>2. latest'[d] = [branch |-> Winner(d), at |-> version[Winner(d)][d].at]
    BY <1>1, <1>4
  <2>3. Winner(d) \in Branches /\ version[Winner(d)][d].at \in 1..MaxPushes
    BY <2>1, VersionsCount
  <2>4. /\ latest'[d] \in [branch : Branches, at : 1..MaxPushes]
        /\ latest'[d] \in [branch : Branches, at : Nat]
    BY <2>2, <2>3
  <2>5. /\ latest'[d].branch = Winner(d)
        /\ latest'[d].at = version[Winner(d)][d].at
    BY <2>2
  <2> QED BY <2>1, <2>2, <2>4, <2>5, ScannerAssumption
<1>5. LatestTyped'
  BY <1>1, <1>4 DEF LatestTyped
<1>6. LatestRight'
  <2> SUFFICES ASSUME NEW d \in Docs PROVE LatestRightAt(d)'
    BY DEF LatestRight
  <2>0. Candidates(d)' = Candidates(d)
    BY <1>1 DEF Candidates
  <2>1. CASE Candidates(d) = {}
    BY <1>1, <2>0, <2>1 DEF LatestRightAt
  <2>2. CASE Candidates(d) # {}
    <3>1. \A c \in Candidates(d) : version[c][d].at \in Nat
      BY VersionsCount
    <3>2. latest'[d].branch = Winner(d) /\ latest'[d].at = version[Winner(d)][d].at
      BY <1>4, <2>2
    <3>3. latest'[d] # None /\ Winner(d) \in Candidates(d)
      BY <1>4, <2>2
    <3>4. \A c \in Candidates(d) : Before(Winner(d), c, d)
      BY <1>4, <2>2
    <3>5. version' = version
      BY <1>1
    <3> QED BY <2>0, <3>1, <3>2, <3>3, <3>4, <3>5 DEF Before, LatestRightAt
  <2> QED BY <2>1, <2>2
<1>7. ScanOK(s)' /\ FinishedAt(s)'
  BY <1>1, <1>3, <1>6 DEF ScanOK, FinishedAt
<1>8. RulesAt(s)'
  BY <1>1, <1>3 DEF IInv, SameRules, RulesAt, SameReads
<1>9. ScanningAt(s)'
  BY <1>1, <1>3 DEF IInv, Scanning, ScanningAt, MaySkip, DoneWith, RightBy, Matches,
      SameReads
<1>10. ScanTyped' /\ Exclusive' /\ SameRules' /\ Scanning' /\ Recomputed'
  BY <1>1, <1>2, <1>7, <1>8, <1>9, OneScans
<1> QED BY <1>1, <1>5, <1>10, Same DEF IInv, Typed

LEMMA RecomputeFailsKeeps ==
  ASSUME IInv, NEW s \in Scanners, RecomputeFails(s)
  PROVE  IInv'
<1>1. /\ scan[s] \in Late /\ scan[s] # NoScan /\ scan[s].todo = {}
      /\ Fails(s) /\ UNCHANGED <<envVars, mirror, indexVars, latest, row, lock>>
  BY PhaseTells DEF RecomputeFails, Scanned
<1>2. /\ DOMAIN scan' = Scanners
      /\ scan'[s] = [scan[s] EXCEPT !.phase = "finish", !.over = FALSE,
                                    !.status = "partial_success"]
      /\ \A t \in Scanners \ {s} : scan'[t] = scan[t]
  BY DEF RecomputeFails, StatusOfFailure, IInv, Typed, ScanTyped
<1>3. /\ scan'[s] \in Late /\ SameReads(scan'[s], scan[s]) /\ scan'[s].phase = "finish"
      /\ scan'[s].todo = scan[s].todo /\ scan'[s].status = "partial_success"
  BY <1>1, <1>2 DEF Late, SameReads
<1>4. EnvTyped'
  BY <1>1, FaultsCounted DEF IInv, Typed, EnvTyped, Fails
<1>5. ScanOK(s)' /\ FinishedAt(s)'
  BY <1>1, <1>3 DEF ScanOK, FinishedAt
<1>6. RulesAt(s)'
  BY <1>1, <1>3 DEF IInv, SameRules, RulesAt, SameReads
<1>7. ScanningAt(s)'
  BY <1>1, <1>3 DEF ScanningAt, MaySkip, DoneWith
<1>8. ScanTyped' /\ Exclusive' /\ SameRules' /\ Scanning' /\ Recomputed'
  BY <1>1, <1>2, <1>5, <1>6, <1>7, OneScans
<1> QED BY <1>1, <1>4, <1>8, Same DEF IInv, Typed

LEMMA FinishKeeps ==
  ASSUME IInv, NEW s \in Scanners, Finish(s)
  PROVE  IInv'
<1>1. /\ scan[s].phase = "finish" /\ lock' = None
      /\ UNCHANGED <<envVars, mirror, indexVars, latest>>
      /\ \/ row' = scan[s].status /\ UNCHANGED faults
         \/ UNCHANGED row /\ faults < MaxFaults /\ faults' = faults + 1
  BY DEF Finish
<1>2. /\ scan[s] # NoScan /\ (scan[s] \in Late \/ scan[s] = Aborted)
      /\ scan[s].status \in {"success", "partial_success", "failed"}
  <2>1. scan[s] # NoScan /\ (scan[s] \in Late \/ scan[s] = Aborted)
    BY <1>1, PhaseTells
  <2> QED BY <2>1, LateFields, Phases
<1>3. \A t \in Scanners : scan[s] # NoScan /\ t # s => scan[t] = NoScan
  BY DEF IInv, Exclusive
<1>4. DOMAIN scan' = Scanners /\ \A t \in Scanners : scan'[t] = NoScan
  BY <1>1, <1>3, PhaseTells DEF Finish, IInv, Typed, ScanTyped
<1>5. EnvTyped'
  BY <1>1, FaultsCounted DEF IInv, Typed, EnvTyped
<1>6. row' \in {"none", "running", "success", "partial_success", "failed"}
  BY <1>1, <1>2 DEF IInv, Typed, ScanTyped
<1>7. ScanTyped' /\ Exclusive'
  BY <1>1, <1>4, <1>6 DEF ScanTyped, ScanOK, Exclusive
<1>8. SameRules' /\ Scanning'
  BY <1>4, Phases DEF SameRules, RulesAt, Scanning, ScanningAt
<1>9. Recomputed'
  <2>1. row' = "success" => LatestRight
    <3>1. row = "running"
      BY <1>1, OnlyOne, PhaseTells DEF IInv
    <3>2. CASE row' = scan[s].status
      BY <1>1, <3>2 DEF IInv, Recomputed, FinishedAt
    <3>3. CASE row' = row
      BY <3>1, <3>3
    <3> QED BY <1>1, <3>2, <3>3
  <2>2. LatestRight => LatestRight'
    BY <1>1 DEF LatestRight, LatestRightAt, Candidates
  <2> QED BY <1>4, <2>1, <2>2, Phases DEF Recomputed, FinishedAt
<1> QED BY <1>1, <1>5, <1>7, <1>8, <1>9, Same DEF IInv, Typed

-----------------------------------------------------------------------------
LEMMA NextIInv == IInv /\ [Next]_vars => IInv'
<1> SUFFICES ASSUME IInv, [Next]_vars PROVE IInv'
  OBVIOUS
<1>1. CASE Environment
  BY <1>1, RemoteKeeps, EditPathsKeeps, EditRulesKeeps, DisableKeeps, CrashKeeps
     DEF Environment
<1>2. ASSUME NEW s \in Scanners, Begin(s) \/ Cancel(s) PROVE IInv'
  BY <1>2, BeginKeeps, CancelKeeps
<1>3. ASSUME NEW s \in Scanners, Progress(s) PROVE IInv'
  BY <1>3, RefuseKeeps, FetchKeeps, FetchFailsKeeps, ReadKeeps, ReadFailsKeeps,
     SkipKeeps, IndexKeeps, BranchFailsKeeps, RecomputeLatestKeeps,
     RecomputeFailsKeeps, FinishKeeps DEF Progress
<1>4. CASE UNCHANGED vars
  BY <1>4, Same DEF vars, IInv, Typed
<1> QED BY <1>1, <1>2, <1>3, <1>4 DEF Next

LEMMA SpecIInv == Spec => []IInv
BY InitIInv, NextIInv, PTL DEF Spec

(***************************************************************************)
(* The variables of the scans and of the index keep their types; a deleted *)
(* version does not take part in doc_latest.                               *)
(***************************************************************************)
THEOREM TypeCorrect == Spec => []TypeOK
<1>1. IInv => TypeOK
  <2> SUFFICES ASSUME IInv PROVE TypeOK
    OBVIOUS
  <2>1. \A s \in Scanners : scan[s].phase \in {"none", "fetch", "read", "branch", "finish"}
    BY Phases DEF IInv, Typed, ScanTyped, ScanOK
  <2> QED BY <2>1 DEF IInv, Typed, EnvTyped, IndexTyped, LatestTyped, ScanTyped,
       Configs, TypeOK
<1> QED BY <1>1, SpecIInv, PTL

(***************************************************************************)
(* The index of a branch is of the commit in repo_refs, however many scans *)
(* fail, are cancelled or die at whichever step.                           *)
(***************************************************************************)
THEOREM IndexStaysOneCommit == Spec => []IndexIsOneCommit
<1>1. IInv => IndexIsOneCommit
  BY DEF IInv, OneCommit, OneCommitAt, IndexIsOneCommit
<1> QED BY <1>1, SpecIInv, PTL

(***************************************************************************)
(* A scan that reports success has brought every tracked branch up to date *)
(* or has rightly passed over it: what makes a branch be skipped is proof  *)
(* of its index, but for those that are spoiled.                           *)
(***************************************************************************)
THEOREM SuccessMeansComplete == Spec => []SuccessIsComplete
<1>1. IInv => SuccessIsComplete
  <2> SUFFICES ASSUME IInv, NEW s \in Scanners,
                      scan[s].phase = "finish", scan[s].status = "success",
                      NEW b \in scan[s].repo.tracked \ spoiled, scan[s].refs[b] # None
               PROVE  /\ ref[b] = scan[s].refs[b]
                      /\ Matches(b, ref[b], scan[s].paths, scan[s].repo.latest)
    BY DEF SuccessIsComplete
  <2>1. scan[s] \in Late /\ scan[s].todo = {}
    BY PhaseTells, Phases
  <2>2. b \in Branches
    BY <2>1, LateFields, ConfigFields
  <2>3. DoneWith(s, b)
    BY <2>1 DEF DoneWith
  <2> QED BY <2>1, <2>2, <2>3 DEF IInv, Scanning, ScanningAt, RightBy
<1> QED BY <1>1, SpecIInv, PTL

(***************************************************************************)
(* After a successful scan doc_latest names for each document the version  *)
(* that was changed last, by priority among those of the same time.        *)
(***************************************************************************)
THEOREM LatestStaysBest == Spec => []LatestIsBest
<1>1. IInv => LatestIsBest
  BY DEF IInv, Recomputed, LatestRight, LatestRightAt, LatestIsBest
<1> QED BY <1>1, SpecIInv, PTL
=============================================================================
