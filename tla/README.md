# DocHarbor in TLA+

DocHarbor (`src/`) serves the documents of Git repositories: it mirrors each
repository, scans its branches into an SQLite index, and answers questions about
them with a *pi* agent, an external program it runs in a small pool of processes.
This directory holds TLA+ specifications of the parts of it where steps of
several actors meet or where long histories matter, TLC runs that check them, and
TLAPS proofs of what matters most. `src/internal/...` below is relative to the
repository.

## 1. The system

| Component | State it keeps | Operations | What is hard |
|---|---|---|---|
| **pi process pool** `internal/pirpc/pool.go` | slots (`entries`) with version, busy, retiring, runs; the queue of waiters; the current spec; `closed`, `retryAt`, `wake` | `Acquire`, `AcquireLatest`, `UpdateSpec`, `Release`, `Close`; goroutines `loop`/`reconcile` and one `startEntry` per slot | all of it is concurrent under one mutex; cancellation races the answer; capacity while versions roll; lost wake-ups; a start that comes too late |
| **pi RPC client** `internal/pirpc/client.go` | pending commands, their channels, `events` (bounded), stop reason | `Command`, `Close`; goroutines `writeLoop`, `readStdout`, `readStderr`, `reap` | a write that blocks, cancellation of a write, full channels, order of closing, pipes held by grandchildren |
| **pi run** `internal/app/ai_pi_runtime.go`, `ai_pi_api.go`, `ai_pi_storage.go` | table of active runs, one `piActiveRun` each (two mutexes), rows of `ai_runs` | ask, stop, steer, disconnect, deadline, shutdown, restart | control commands that reach the next borrower; order of settling, stop, timeout and death; rows that stay live |
| **branch scan and index** `internal/app/scanner.go`, `index.go` | `repo_refs`, `documents`, `doc_versions`, `doc_path_events`, `doc_latest`, `scan_runs` | `Scan`, `scanBranch`, `backfillPathHistory`, `recomputeLatest`; scheduler, webhook, manual scan | identity of a document over renames, copies, deletions and any number of scans; failing commands; configuration edited during a scan |
| **AI configuration** `ai.go` | versions and which is active, drafts, secrets, the master key | settings API (create, update, delete, test, apply, disable, choose the default), draft API | read, wait for a provider, write: another request may have published in between; two APIs over the same rows |
| **legacy questions** `ai.go` | sessions, messages, runs, steps | ask and wait, ask and stream | fail-over between providers; a client that leaves at any point; rows that must end up agreeing |
| **evidence pipeline** `ai_planner_tools.go`, `ai_evidence_*.go`, `ai_contract_checker.go`, `ai_retrieval_orchestrator.go`, `ai_answer_*.go` | none between questions | plan, search, curate, check the contract, verify, rewrite | a model decides each next step, and may change scope and contract on the way; what a reader may be shown |
| **pi configuration** `ai_pi_config.go` | snapshot directories, `configVersion` | `piRuntimeSpec` | rolls the pool to a new version |
| **transcripts, citations, diagnostics** `ai_pi_transcript.go`, ... | session files (written by pi) | read, merge, summarise | merging of line ranges |
| **git, database** `git.go`, `db.go` | mirrors, schema | run git, run SQL | partial failure |
| **access tokens, webhook secret** `access_token.go`, `webhook_secret.go` | a key file, one row | issue, verify, rotate | first use by two requests |
| **HTTP, MCP, network filter** `server.go`, `mcp*.go`, `client_network.go` | none | routing, read-only tools | - |
| **frontend, commands, scripts** | browser state | - | answers that arrive after the user has moved on |

How they interact: a question (`handlePiRunStream`) inserts a row, enters the
table of active runs and starts `executePiRun`, which takes the current spec from
the pi configuration, borrows a client from the pool, talks to it with `Command`
and its events, and returns it. The pool starts and ends clients; a client tells
the pool of its end by `Done`. pi calls back into the MCP server, which reads the
index and the mirrors that scans keep up to date. `Server.Close` cancels the
runs' root context, closes the pool and waits for all runs. (`main` returns as
soon as `ListenAndServe` does, without waiting for `Shutdown`; nothing of this is
persisted, and `initPiRuntime` cleans up at the next start.) Beside pi there is
the older engine: `askAIQuestion` and `askAIQuestionStream` take the active AI
configuration, let a planner - a model that answers with one action at a time -
search the index and the mirrors, ask the providers of the route for an answer,
verify it against the evidence and leave a message and a run in the database.

What makes each part correct is listed with its module in section 3; the hazards
the properties were chosen for, with the lines where they bite, are in
`PROJECT.json`.

## 2. The modules

| Module | Models | Uses |
|---|---|---|
| `ProcessLease` | abstract specification of the pool: a fair line for exclusive leases of at most `Size` processes | |
| `Pool` | `pool.go`, every critical section an action | refines `ProcessLease` |
| `Client` | `client.go` with the process and its pipes as environment | |
| `PiRun` | the life of a question, over the pool as `ProcessLease` promises it and commands that succeed or fail as `Client` promises | |
| `DocIndex` | `scanBranch`, `backfillPathHistory` and `index.go` over a small model of git | |
| `Scanner` | `Scan` and its triggers, `scanBranch` as a whole, `recomputeLatest`, the repository's configuration | |
| `ProviderRoute` | the pure part of a configuration: keys, routes, validation, the order providers are tried in | |
| `AIConfig` | versions, drafts, secrets: concurrent requests of the settings and the draft API | extends `ProviderRoute` |
| `Evidence` | contracts, classification, curation, coverage: pure operators | |
| `AnswerVerifier` | the checks of an answer, the verdict, the status of the run: pure operators | |
| `Planner` | the planner's loop and the retrieval it falls back to | extends `Evidence` |
| `LegacyAsk` | a question from the user's message to its last row, blocking or streamed | extends `Planner` and `AnswerVerifier` |
| `PoolProofs` | theorems about `Pool`, with what the changes of its queue do to a sequence | `SequenceTheorems`, `FiniteSetTheorems` |
| `ClientProofs` | theorems about `Client` | `SequenceTheorems` |
| `PiRunProofs` | theorems about `PiRun` | |
| `DocIndexProofs` | theorems about `DocIndex` | `SequenceTheorems`, `FiniteSetTheorems`, `WellFoundedInduction` |
| `ScannerProofs` | theorems about `Scanner` | `WellFoundedInduction` |
| `RouteProofs` | what the operators of `ProviderRoute` return, for lists of any length | `SequenceTheorems`, `FiniteSetTheorems`, `WellFoundedInduction` |
| `AIConfigProofs` | theorems about `AIConfig` | `RouteProofs` |
| `AskProofs` | theorems about `LegacyAsk`, with `Planner`, `Evidence` and `AnswerVerifier` below it | |
| `MCPool`, `MCClient`, `MCPiRun`, `MCDocIndex`, `MCScanner`, `MCAIConfig`, `MCLegacyAsk` | the instances TLC checks: symmetry sets, bodies of requests, replies of models | |

The layers meet where the code's do: `PiRun` assumes of the pool what
`PoolImplementsLease` proves of it (a process is lent to one run at a time and
only when it lives, a failed start may fail a request) and what `pool_live` checks (every
request is answered), and assumes of commands what `client_core` checks (each one
ends). `LegacyAsk` takes from `AIConfig` that there is one active version
(`OneActive`) whose route has a number of providers. `DocIndex` and `Scanner` divide
a scan between them: the first follows one `scanBranch` statement by statement, with
renames and without faults; the second takes it as one transaction, with faults, edits
and several scans, and with documents that keep their paths.

### Pool

One slot (`poolEntry`) is an element of `Entries`, which is reused once its
goroutine has ended. `phase` is where its `startEntry` stands: `starting` (inside
`pirpc.Start`), `failed`/`started` (out of the critical section, its `signal` still
to come), `watching` (waiting for `Done`), `exited`. `proc` is the process behind
its client: `healthy`, `stopping` (terminated, `reap` not finished), `done`. `at`
is where each caller stands. Every critical section of `mu` is an action, and so
is every statement outside of it that another goroutine can tell: `signal` after
the unlock, the select of `acquire`, `cancelWaiter`. `reconcile` holds the mutex
for its whole pass, but reads `Healthy()` of processes that die meanwhile, so its
pass is split into one action per slot (`RetireEntry`, `DispatchEntry`,
`SpareEntry`) with `LockFree` shutting everybody else out; map order is the choice
of the next slot. Time is abstract: `retryAt` is `backoff`, cleared by
`RetryElapses`. The contents of a spec, the progress callback (`position`) and
errors' texts are left out; a version stands for a spec.

### Client

Commands are ids. A pipe is a sequence of bounded length; a blocked write is a
write to a full pipe. `terminate` is `Terminate`, called by everyone, and kills
the process (`Dies`), which may leave an `orphan` that holds its pipes; which of the
reasons came first is left out. A call that has chosen `c.stop` and waits for
`c.done` is not told from one that is still in its select: neither is seen to do
anything before `done`, and `SeesDone` ends both. The
environment (`PiReads`, `PiAnswers`, `PiEmits`, `PiExits`, the consumer of events,
cancellations) is free to do nothing.

### PiRun

`pc[r]` is where `executePiRun` stands, one label per stretch that another
goroutine can interrupt; the final `defer` is seven of them (`Finishes`, `Stores`,
`Clears`, `Releases`, `Unlocks`, `Leaves`), since a stop, a crash of pi or of the
server may come between any two. `controlMu` is modelled (it is held across
commands), `mu` is not (what it guards is one step). `work[p]` and `steers[p]` say
for which run pi generates and whose supplements it has queued; they are what
must not outlive a lease. A write to the database may fail (`unsaved`). `Restart`
is the server's death at any time and `initPiRuntime` of the next one.

### DocIndex

git is a tree per branch whose files have an identity and a last commit, and a
log with what `--name-status --find-renames` prints. `diffNameStatus` is `Renames`:
for a new path any file it may come from, git's choice being free when there are
several; a copy is reported when its source was changed too, as `--find-copies`
does. A document is named by its `doc_key`, the path it was created under.
A scan is one transaction of many steps (`BeginScan`, one `ScanEntry` for each
entry of `ls-tree`, one `Backfill` for each event of the history, `EndScan`), and
as SQLite and the scanner's lock allow nobody between them, commits and other
scans wait for its end. The modelled repository has the one scan path `"."`. `moved` is a
history variable: the paths that a rename or a copy has touched. The code does lose
files there (section 5), and the invariants speak of all the others.

### Scanner

A file is a scan path of its own and a document of its own; what a commit knows of a
file is which commit changed it last, and a commit's number is its time. A scan of
`Scan` goes through `fetch` (`ensureMirror`), `read` (`branches`, `listScanPaths`),
`branch` (one `Skip`, `Index` or `BranchFails` for each tracked branch, in order) and
`finish`. It keeps what it has read in `scan[s]`: the repository since it took the lock,
the paths since `read`. Faults are a command, a statement or a transaction that fails
(`FetchFails`, `ReadFails`, the `fault` in `Index`, `BranchFails`, `RecomputeFails`, an
unsaved row in `Finish`), a context that ends (`Cancel`), and the server's death
(`Crash`). An `Index` may go wrong in one directory or file and store the rest, as the
code does. `stale` stands for the comparison of `updated_at` with `last_scanned_at`.

`spoiled` is a history variable: the branches whose index is wrong and which the code
does not look at again before they move. That happens when a directory could not be
listed or a file not be dated or stored, when the paths were edited after the scan had
read them, and when the rules of `doc_latest` were edited (hazards at `scanner.go:130`,
`:174` and `:377`). The properties claim that nothing else has this effect, and that
indexing such a branch again heals it.

### AIConfig and ProviderRoute

The database has one connection (`db.SetMaxOpenConns(1)`), so that a statement is a
step, and a transaction (`Publish`, `PublishDisabled`, `ActivateDraft`) is one too. A
request is a record with its own `pc`: it arrives with a body (`CreateArrives`, ...),
reads the active and the editable version (`ReadActive`, `ReadActiveVersion`), decides
(`CreateProvider`, `UpdateProvider`, `DeleteProvider`, `ApplySettings`, `SaveDefault`),
waits for providers (`TestProviders`, which come out either way), seals a secret
(`ReadMasterKey`, `WriteMasterKey`, `InsertSecret`, `StoreSecret`) and writes
(`UpdateEditable`, `InsertDraft`, `Publish`). The draft API is the last group of
actions. What a request computes is in `ProviderRoute`, operator by operator:
`Normalize` is `normalizeAIConfig`, `DefaultRoute` `buildDefaultRouting`, `Attempts`
`aiProvidersForRoute`, `ShownRoute` what the settings page says, `Valid`
`validateAIConfigData`. Names and keys are numbers, so that the search for a free key
and the redirection of routes by name are what they are in the code: key `10 * n + 1` is
the name `n` as `providerKeyBase` writes it, `10 * n + 2` the same with `-2`. A
configuration is normalised when it is written (`Row`) and again when it is read
(`Config`). `tested` and `byHand` are history; of an API key `tested` knows the row it
is in.

### Evidence, Planner, AnswerVerifier, LegacyAsk

The engine is one goroutine for a question; its partners are the model, which at each
round may reply anything, the client, which may leave at any time, and failing tools.
What makes it hard to test is the number of ways through it, not their interleaving.

Text is replaced by what the code reads in it. A slice of a file has a type
(`classifyAIEvidenceType`), says whether it speaks of units, and whether its path holds
a word the contract checker looks for. A reply of the planner is the part of an action
that has an effect: intent, explicit request, conversation flags. An answer is the set
of `Features` the verifier's regular expressions find. `Evidence` then computes what
the code computes: `Contract` (keys required by an intent, and the sources it
forbids), `Supports` and `Merge` (curation), `Check` (coverage: missing, conflict,
forbidden), and `AnswerVerifier` the failed checks, the verdict and `RunStatus`. The
planner's own assessment (`AssessContract`) is an `Opinions` function: for some keys a
status and the slices it refers to.

`Planner` has one action for each tool (`SearchCodeEvidence`, `ViewFileSlice`,
`ReadDiagnostics`, `AssessContract`, `Finish`, ...), each with what the loop does
around it: the scope that the conversation allows (`ScopeFrom`), the count of rounds
(`Continued`), the curation that may follow. `LegacyAsk` goes on from there: `Drafted`
(fail-over over `left` providers), `VerifyDraft`, `RewriteDraft`, `ShowAnswer`, and
the rows (`InsertAnswer`, `SettleMessage`, `FinishRun`); `Deferred` is the function a
stream defers. A statement fails when `conn` is `cancelled` unless it is made with
`aiPersistenceContext`, and an event fails from `broken` on.

## 3. What TLC checks

`pass` runs find no error; `violation` runs show that the code does not do what a
document, comment or test of the repository says.

| Run | Module | Instance | Shows |
|---|---|---|---|
| `pool_core` | MCPool | 2 callers, 3 slots, 2 versions, `Size` 1, 2 runs per process | `TypeOK`, `ExclusiveLease`, `NoLeakedLease`, `QueuedOrAnswered`, `CapacityRespected`, `NoLostWakeup`, and that the pool implements `ProcessLease` (`LeaseSpec`) |
| `pool_live` | MCPool | 1 caller, 2 slots, 2 versions | `EveryRequestAnswered`, `CloseTerminates` |
| `client_core` | MCClient | 2 commands, one of them cancelled, channel of 1, pipe of 2 | `TypeOK`, `DoneIsLast`, `PendingIsExact`, `StopEnds`, `ResponsesArrive` |
| `run_core` | MCPiRun | 2 sessions, 2 runs, 1 process, one run supplemented | `TypeOK`, `NoCrossTalk`, `EndIsReported`, `LeaseHasRun` |
| `run_ends` | MCPiRun | 1 session, 2 runs, 1 process, 1 restart, close | `LiveRowHasRunner`, `RunsEnd`, `CloseEnds` |
| `docs_core` | MCDocIndex | 2 branches, 3 paths, 4 commits of all kinds | `TypeOK`, `IndexIsExact`, `HistoryKept` |
| `docs_ghost` | MCDocIndex | 1 branch, 2 paths, 4 commits | *violated*: what HEAD does not have is deleted |
| `scan_core` | MCScanner | 2 branches, 2 files, the timer and another caller, one push, one edit, one fault | `TypeOK`, `IndexIsOneCommit`, `SuccessIsComplete`, `LatestIsBest`, `IndexCatchesUp` |
| `config_core` | MCAIConfig | 2 settings requests at a time or one of the draft API, 3 in all, 2 names | `TypeOK`, `OneActive`, `EnabledIsTested`, `ActiveIsServed`, `PublishedIsFrozen` |
| `config_names` | MCAIConfig | 1 request at a time, 3 in all | *violated*: names have no part in routing |
| `ask_core` | MCLegacyAsk | 2 repositories, 4 slices, 2 planner rounds, 3 searches, 2 providers | `TypeOK`, `ScopeHeld`, `SucceededIsCovered`, `NothingUnverified`, `RowsSettle`, `QuestionEnds` |
| `ask_steps` | MCLegacyAsk | the same | *violated*: steps are shown only when the policy allows them |

`PROJECT.json` names for each checked property a mutant: a plausible bug in a
mapped definition (the operator just before it, marked "Mutant") with which TLC
finds the property violated.

### Bounds, and why they are enough

* *Pool.* What callers compete for is one slot, so `Size = 1` with two callers is
  the tightest case; three slot identities let one exit, one serve and one start.
  Two versions are needed to retire a process by version and to come back to the
  first. `MaxRuns` 2 lets a process be lent again and then wear out. The theorems
  hold for every `Size` and `MaxRuns`.
* *Client.* Two commands are enough for one to be written behind another and for
  answers out of order; that only one of them may be cancelled (`Impatient`) leaves the
  other to depend on what the first does to the process. A channel of one event and
  pipes of two lines fill as the code's 256 events and 64 KiB do; `MaxEvents` 2
  overflows the channel with an answer behind the event.
* *PiRun.* One process for two sessions makes every run the next borrower of the
  other's process; two runs in one session meet in the table of active runs.
  `Steered`, `Closes` and `MaxRestarts` are bounds: each run switches on what its
  question needs (supplements in `run_core`, restart and close in `run_ends`).
* *DocIndex.* Three paths allow chains of renames beside a file that stays, two
  branches a document with a version on each; the disagreements of section 5 need two
  paths, one branch and two to four commits.
* *Scanner.* The remote starts with none, one or both of its branches, at the same
  commit, and changes once: a file, a deletion, a branch that is created, brought to the
  other or removed. One fault and one edit may fall anywhere, before, in or after any
  number of scans by two callers. Two branches are needed for a choice in `doc_latest`
  and for a scan that fails between them, two files for an index of two commits.
* *AIConfig.* Two requests at a time meet in every window; three arrivals let a third
  see what two have left. The database starts new, with or without a key file, or with
  one provider in use. Two names are enough for a second provider, for one that is
  renamed, and for one that is renamed to what is another's key: names are free.
  Priorities may be given or left out. `ExpertAlone` keeps the draft API from running
  beside anything else: outside of this bound the code does what section 5 says.
* *LegacyAsk.* Two rounds are the code's 6 and three searches its own: two rounds are
  enough for a change of intent or of scope after evidence was curated, a third one
  changed nothing but the number of states. Two of the four slices are one text on two
  branches, which the curator merges into one group under its best label; one is of
  the other repository, and one has a name that the contracts about changing data forbid
  and the others do not.
  The replies name an intent with a value-flow contract, one for a direct update, plain
  questions, and none; the seven opinions assess all keys alike, several differently, or
  some only, with references to one slice or more; the answers, the empty one among them,
  are those the verifier treats differently. Two providers fail over once.
* Symmetry is used for callers, slots, requests, sessions and branches, in runs
  without liveness properties only, and only where the specification treats them alike.

### Fairness

* `Pool!Fairness`: goroutines are scheduled. Go's mutex hands the lock to a waiter
  that starves for 1 ms, so critical sections are strongly fair; `select` picks among
  ready cases at random, so the loop's end is. `pirpc.Start` has a time-out, `reap`
  ends (checked in `client_core`), tickers tick, a borrower returns its process since
  runs have a time limit (`run_ends`). Nothing forces a request, a crash, a
  cancellation, a new configuration or `Close`. `EveryRequestAnswered` is stated for
  pools whose configuration eventually rests and whose processes eventually stay
  alive: with a crash after each start there is nobody to serve.
* `Client!Fairness`: the goroutines of the client run. Nothing is asked of pi or the
  consumer of events.
* `PiRun!Fairness`: goroutines run, each command ends (it has a deadline), deadlines
  pass, the pool replaces dead processes. Nothing is asked of pi, users, or the disk.
* `Scanner!FairSpec`: the ticker goes on ticking, and a scan that has begun goes on (its
  commands have a time limit, the timer's and the webhook's scans one of 30 minutes).
  Nothing forces a push, an edit, a webhook or a fault; that these end is what
  `IndexCatchesUp` is stated for, and the bounds `MaxPushes`, `MaxEdits` and `MaxFaults`
  provide it.
* `LegacyAsk!FairSpec`: the handler goes on (git, the database and the providers answer
  or time out). Nothing is asked of the client, and the model may reply anything.
* Deadlock is checked in every run but `config_core`, which ends when `MaxArrivals`
  requests have been answered; where another system may rest, a module has an action
  that says so (`Terminated` in `Pool`, `Over` in `PiRun`, `Rest` in `DocIndex`).

## 4. What TLAPS proves

Each theorem holds for every value of the constants of its module: any number of
callers, slots, commands, sessions, runs, processes, branches, documents, requests,
providers or pieces of evidence, any capacity and any bound.

| Theorem | States |
|---|---|
| `PoolProofs!TypeCorrect` | `TypeOK` |
| `PoolProofs!LeasesAreExclusive` | no process is lent to two callers |
| `PoolProofs!LeasesDoNotLeak` | a slot is busy exactly while a caller has its client |
| `PoolProofs!WaitersAreKept` | a waiter is queued once or answered |
| `PoolProofs!CapacityIsRespected` | starting, serving and exiting slots never exceed `Size` |
| `PoolProofs!WakeupsAreKept` | an idle slot with a reason to wake has a wake-up on its way |
| `PoolProofs!PoolImplementsLease` | the pool implements `ProcessLease`: `Spec => Lease!Spec` |
| `ClientProofs!TypeCorrect` | `TypeOK` |
| `ClientProofs!DoneComesLast` | events is closed when nobody can send on it any more, done after it |
| `ClientProofs!PendingStaysExact` | the table of pending commands neither leaks nor loses one |
| `PiRunProofs!TypeCorrect` | `TypeOK` |
| `PiRunProofs!LeasesHaveRuns` | a borrowed process has a run that is going to release it |
| `PiRunProofs!NothingCrosses` | nothing of a run reaches the next borrower of its process |
| `PiRunProofs!EndsAreReported` | the row says how the run ended |
| `PiRunProofs!RowsHaveRunners` | a live row has its run at work |
| `PiRunProofs!EndIsFinal` | a terminal row is never rewritten |
| `PiRunProofs!RunAdvances` | no step takes a run back, every step of `executePiRun` takes it further |
| `DocIndexProofs!TypeCorrect` | `TypeOK` |
| `DocIndexProofs!IndexExact` | the index of a scanned branch is exactly its HEAD, for unmoved paths |
| `DocIndexProofs!HistoryIsKept` | what happened to a branch, and every deletion, is recorded |
| `ScannerProofs!TypeCorrect` | `TypeOK` |
| `ScannerProofs!IndexStaysOneCommit` | the index of a branch is of the one commit in `repo_refs` |
| `ScannerProofs!SuccessMeansComplete` | a scan that reports success has indexed every tracked branch, or rightly skipped it |
| `ScannerProofs!LatestStaysBest` | `doc_latest` is right after a successful scan |
| `RouteProofs!ValidRouteIsShown` | of a configuration that may be published, with any names, questions try usable providers only and at least one; the settings page shows the route they take, unless a provider is named like another's key |
| `AIConfigProofs!TypeCorrect` | `TypeOK` |
| `AIConfigProofs!OneVersionIsActive` | once there is a version, exactly one is active |
| `AIConfigProofs!WhatIsPublishedIsFrozen` | what was published is not changed |
| `AIConfigProofs!EnabledTested` | AI is on only with a usable provider whose test passed with the model and the secret row it has; questions try it, unless a provider is named like another's key |
| `AIConfigProofs!ActiveServed` | questions find usable providers, and only such, in the active configuration; they try what the settings page shows, by priority, unless a provider is named like another's key |
| `AskProofs!TypeCorrect` | `TypeOK` |
| `AskProofs!EvidenceStaysInScope` | no evidence from outside the selected repositories |
| `AskProofs!StreamsSettle` | the message and the run of a stream settle and agree |
| `AskProofs!ShownIsVerified` | no unverified text of a model is shown |
| `AskProofs!SuccessIsCovered` | success means evidence for all that the contract requires, or a forbidden source that nobody looked at (section 5) |
| `AskProofs!QuestionAdvances` | every step of the handler lowers the number of steps left, none of the client raises it |

They rest on the assumptions the modules name, and on nothing else. `Pool`: `Size` and
`MaxRuns` are positive (the constructor forces them to), `Entries` is finite, the
sentinels are no members of the sets. `Client`: capacities are numbers, `NoCommand` is no
command. `PiRun`: `None` is no run, session or process, and `MaxRestarts` is a number. `DocIndex`:
`MaxCommits` is a number, and `None` is neither a path nor a record of a file or a version. `Scanner`: there is a
branch and a document, bounds are numbers, and `None` is neither a goroutine nor a row.
`AIConfig`: bounds are numbers, providers and configurations that come from outside are
well formed, and a provider in use at the start has a key, a model and a secret; of
names nothing is assumed. `LegacyAsk`: rounds and searches are at least one, providers
are counted, scopes, conversations and slices are of the repositories there are, and
the planner's opinions refer to slices.

The theorems of `AIConfigProofs` have `ExpertAlone` as their hypothesis, as the run has:
beside another request the draft API does overwrite what was published (section 5).
In place of a hypothesis on names, `EnabledIsTested` and `ActiveIsServed` say what holds for
all of them - there is a usable provider to try, and nothing else is tried - and ask
for the rest of a configuration whose providers are `NamesApart` (none is named like
another's key). What the code does to the others is the run `config_names`.

None of the invariants is inductive as it stands. What the strengthened ones add:

*Pool.* That a lease is exclusive after a dispatch depends on the idle slot having no
borrower and the head of the queue no answer. `IInv` adds `CallersConsistent` (who stands
where has which answer), `QueueConsistent` (the queue holds exactly the unanswered
waiters, once each), `SlotsConsistent` (a busy slot has a client, is not retiring, is not
worn out and has a borrower), `LeasesConsistent` (two borrowers never share a slot; a
pooled slot somebody has is busy) and `ScanConsistent` (the slots that `reconcile` has yet
to visit are idle: nobody lends or retires one during its pass). Each action has a lemma;
those that leave queue, slots and answers alone share `Untouched`. Capacity needs that
only `AddEntry` enlarges the pool, and that its guard counts slots against a target of at
most `Size` (`TargetBound`, `PoolGrowth`). For wake-ups `WakeInv` keeps apart who has
a reason to wake (`Wakeable`) and what attends to it (`Attended`: the token, a signal owed
after unlocking, the pass under way), and adds `Configured`: before the first configuration
there is no slot, so nothing needs waking. The refinement maps the queue to the line,
answers to leases and pooled slots to live processes, and shows for each action the
abstract step it is, using `IInv`.

*Client.* `ReapConsistent` says what each stage of `reap` has waited for: stop, then the
two readers, then the writer. `HandsConsistent` says that who writes or delivers has a
command to do it for, so that a command that is taken out of the table is one that
nobody else is about to answer.

*PiRun.* Six parts, one for each thing the stages of `executePiRun` decide. `Leased`: a run
has a client from the pool's answer to its release, and the pool agrees. `Controlled`:
which stages hold `controlMu`, so that at most one of run, stopper and steerer has it.
`Reached`: who waits for it finds either a process that the run still has or a run that is
finished. `Quiet`: a living process generates only in the event loop of its borrower, what
it has to tell belongs to that loop, and its supplements are gone before the release.
`Reasoned`: a run past its loop has a reason for its end, and a verdict exactly from
`Stores` on. `Seated`: the session of a run under way knows it. `Written`, beside them, says that
a row is terminal only after `Stores`, so that nothing that comes later finds it open
(`EndIsFinal`). `NoCrossTalk` follows from
`Leased`, `Reached` and `Quiet`, and it is `Controlled` that makes `Quiet` survive a
stop or a supplement that was waiting while the run ended.

*DocIndex.* The property speaks of unmoved paths, and the invariant must say why nothing a
moved path does reaches them. `IdsConsistent`: two files of one origin at different paths,
in one tree or across a scanned tree and the present one, have both been moved, so a
rename that git reports never names an unmoved path. `KeysConsistent`: the version of a
document is at the document's own path, or both have been moved; with `Files` keyed by path
this makes the live version at an unmoved path unique. `ScanConsistent` carries "every
unmoved file of HEAD that the loop has passed has its live version" through the loop of
`scanBranch` into the history and the marking of deletions, which alone makes the converse
true (`UpToDate`): exactness is established afresh by each scan, and does not lean on the
index having been right before. `ToldUpTo` counts how much of the log the backfill has
recorded, `DeletionsTold` that a mark never goes without its event. `ScansCounted` bounds
the scans: a scan takes away a branch from the finite set `Unscanned`, and only a commit
adds one.

*Scanner.* `Exclusive`: one scan at a time, with its row `running`. What makes a scan's
success mean anything is that skipping a branch is sound, and that is an invariant of two
tenses: `Current` says that a branch whose head and paths have not changed since it was
scanned has the index the present configuration asks for, and `Scanning` says the same of
what the scan under way has read and may yet skip, or has done already. A scan that reads
the paths turns the first into the second (`ReadKeeps`), one that stamps a branch the second
into the first (`SkipKeeps`, `IndexKeeps`), and `SameRules` makes up for the repository
being read earlier than the paths. The branches where an edit falls between are exactly those
that `spoiled` has. `Recomputed` carries `doc_latest` from `recomputeLatest` to the row; that
its order has a first element (`WinnerExists`) is a minimum of naturals, twice.

*AIConfig.* `ReqOK` says what each request knows of the rows: that the version it holds
exists, that there is one once it has loaded a configuration, and that what the draft API
is about to write is a draft - which no other request can publish meanwhile, since the
draft API is alone (`Alone`, from `ExpertAlone`). `SomeActive` survives a publication
because superseding the old row and making the new one active is one transaction, and
lemmas on rows (`RewriteRow`, `AppendActive`, ...) say of each statement that it keeps what
was published. `KeysOK` ties secrets to master keys: a request that is about to seal has
a key that the file had, and a secret it is to change exists.

What is served is a matter of the configuration that a request has in its hand, between
the read and the write, and of what it may rely on when another publishes in between.
`SInv` says it for all of them: `RowsServe`, that each version keeps its keys apart
(`Own`), and that one which was ever active is `Sound` as it is read back, that is after
another `Normalize`, and, unless made by hand, has a tested provider and a route by
priority; `ReqsServe`, what a request at each of its stops knows of its configuration -
that it still holds the provider it edits, that the one it enables is the one it tests,
that what it is about to publish is sound and tested already. `Sound` asks of every
entry of the route that it is a key, and of every provider that it has a model and no
secret that does not exist, so that an entry which a name has redirected is a provider
too, if another; what depends on which provider an entry stands for (`TestedIn`,
`Ranked`) is claimed with `NamesApart`, where `Normalize` redirects none. Since a secret
row is never deleted and a test that passed stays passed, these survive the steps of the
others (`ServesGrows`); each decision of a handler has a lemma (`CreateServes`, ...) that
its new configuration has them. Below it, `RouteProofs` says what `ProviderRoute`
computes: `Normalize` gives each provider a key of its own and keeps a sound
configuration sound, `DefaultRoute` lists exactly the usable providers, once and in
order, and for a sound configuration whose names are apart `Normalize` changes nothing
and the three readers of a route (`Valid`, `Attempts`, `ShownRoute`) agree. Two models of
the code's loops were restated for it: what a loop keeps of a list is `At` of a set of
positions, and an order is `InOrder` of its pairs, so that both can be reasoned about
without recursion.

*LegacyAsk.* `ScopeInv`: with repositories selected the scope is the one asked with, since
`ScopeFrom` replaces only a scope without a boundary; then each tool of the planner is
shown to find slices inside it. `ReportInv`: the report is the one of the present
contract and evidence. `SuccessInv` carries it from the planner through verification and
rewriting, neither of which touches the evidence, to the row. `RowsInv` says for each stage
of the handler how far the rows are, `TextInv` which texts have passed the verifier.
`TypeInv` bounds the planner by its stages: `searches` is at most `round` in the loop, and
`FallBack` starts it anew for the retrieval, which has a limit of its own. That nothing
goes round is a number: `Remaining` counts the stages `Ahead`, each weighed with more than
the most a stage can take within itself, and what is left `Within` the present one, and
every step of the handler lowers it.

Only model-checked: liveness (`EveryRequestAnswered`, `CloseTerminates`, `StopEnds`,
`ResponsesArrive`, `RunsEnd`, `CloseEnds`, `IndexCatchesUp`, `QuestionEnds`), which needs
fairness and ENABLED, out of the prover's reach. Of `RunsEnd` and `QuestionEnds` the part
that needs neither is proved: `RunAdvances` and `QuestionAdvances` show that no run and no
question can take steps for ever, so that TLC is left with its being scheduled and never
stuck. Every invariant and every action property
that a passing run checks is a theorem.

## 5. What the code does that its documents do not say

Three are `violation` runs, and entries of `findings` with the lines quoted.

* `docs_ghost`: a renamed file that changes later becomes a second document, and when
  it is deleted one of the two stays.
* `ask_steps`: an answer that failed a check is rewritten once, and the rewriting is
  accepted with gaps even when it gives the very steps that the policy forbids while
  required evidence is missing.
* `config_names`: a provider whose display name is another's key takes its place in the
  route (`normalizeAIConfig`, `ai.go:636-643`; the design of the provider settings, `:39`
  and `:361`, says that names have no part in routing). The run renames a second provider
  so; questions then try it twice and the first one never.

Others have no run of their own; the modules contain the behaviour, and the properties
are stated so as to allow it.

* The back-off after a process that died unused is skipped when `reconcile` retires the
  slot between the moment the process counts as unhealthy and the moment it counts as
  done (`pool.go:356`), against the comment at `:354`.
* After a change of configuration and back, the start that the change had cancelled
  fails a request of the present (`pool.go:334`). `Release` twice would end the lease of
  the next borrower (`pool.go:228`); no caller does it, and `Pool` has none that does.
* A copy takes the version of the file it was copied from (`scanner.go:158`), and a
  rename in the history ends the backfill of every later scan (`scanner.go:321`).
* A branch whose `ls-tree` failed, whose paths were edited during its scan or whose
  rules changed keeps a wrong index until it moves (`scanner.go:130`, `:174`, `:377`).
* Branches that were deleted, or are no longer tracked, keep their versions, which go on
  taking part in `doc_latest` (`scanner.go:83`).
* A command whose answer comes before `writeLoop` disarms the cancellation of its write
  can have its process killed when its context is cancelled afterwards
  (`client.go:257-258`; the comment at `:242` says that cancelling a command that is
  written and only waits does not kill). `Client` contains it: `Cancel` of an answered
  command whose watch is armed.
* `updateAIConfigDraft` and `publishAIConfigDraft` check that a version is a draft in one
  statement and write it in another: a publication in between is overwritten
  (`ai.go:2854`, `:2876`). `ExpertAlone` keeps it out of the run.
* Two first requests may each write `ai-master.key`, and the switch for AI hides a
  pending draft (`ai.go:3161`, `:2357`).
* A blocking question whose client leaves during retrieval keeps its run `running`
  (`ai.go:4552`): the request's context is cancelled when the rows are written, and
  nothing cleans up at the next start. The design (`AI Agent` redesign, `:451`) has a
  partial run saved. `RowsSettle` speaks of streams.
* A slice that the planner views at a commit keeps the label `smart_latest`
  (`ai_planner_tools.go:614-625`), though it may be of an older or unmerged one.
* Forbidden evidence is reported and looked at by nobody: the run may succeed
  (`SucceededIsCovered` says so), and the classification as `test_fixture`, for which
  the curator has branches, is never made.
* An action without an intent sets the intent back to `document_qa`
  (`ai_planner_tools.go:379`), and with it the contract.
* PATCH of a repository enables it, whatever it says (`withRepositoryDefaults`).

## 6. What is not modelled

See `components` in `PROJECT.json` for each part and its reason. In short:

* text: prompts, previews, ranking, citations and transcripts, the words of answers.
  Where a rule decides on words (classification, checks of an answer) its outcome is an
  input of the model, free in every combination the rules allow;
* HTTP, JSON, routing, the network filter, the MCP tools: stateless;
* git and SQLite themselves: environment, with the failures the code handles;
* of the AI configuration: rollback, rotation and removal of secrets, policies other than
  the provider route; of the legacy engine: sessions, feedback and candidates of
  knowledge;
* access tokens and the webhook secret, the snapshots of the pi configuration, and the
  frontend's composables (section 7).

## 7. Plan

Done: `ProcessLease`, `Pool` and its proofs; `Client`, `PiRun`, `Scanner`, `AIConfig` and
`LegacyAsk` (with `ProviderRoute`, `Evidence`, `AnswerVerifier`, `Planner`) and theirs;
`DocIndex` and its proofs.

Next, in this order:

1. Small modules: access-token key, merging of citation ranges, the snapshot clean-up
   of `piRuntimeSpec`, the streaming composable of the frontend.
2. One run per question is kept: a new module takes the place of runs whose question it
   answers with more of the system.
