------------------------------- MODULE PiRun --------------------------------
(***************************************************************************)
(* internal/app/ai_pi_runtime.go and ai_pi_api.go: the life of a question  *)
(* asked of pi, from the POST that creates its row to the terminal row.    *)
(*                                                                         *)
(* A run is a goroutine (executePiRun). Other goroutines act on it: the    *)
(* abort and steer handlers, the goroutine stop() starts, the browser that *)
(* disconnects, the deadline, the server that closes or dies. piRuntime.mu *)
(* guards the table of active runs, piActiveRun.mu its fields; both are    *)
(* held briefly, so what happens under them is one step. controlMu is held *)
(* across commands, hence modelled.                                        *)
(*                                                                         *)
(* The pool is what ProcessLease promises of it: a free healthy process or *)
(* an error. A command to pi is one step that succeeds or fails; every one *)
(* has a deadline. Text, tools, citations and usage are left out; so is    *)
(* emit, which never blocks for ever (each write to a browser has a        *)
(* deadline).                                                              *)
(***************************************************************************)
EXTENDS Naturals, FiniteSets

CONSTANTS Sessions, Runs, Procs, None,
          Steered,      \* bound: the runs that users supplement
          Closes,       \* bound: whether the server is closed
          MaxRestarts   \* bound: how often the server starts again

ASSUME BoundsAssumption == /\ Steered \subseteq Runs
                           /\ Closes \in BOOLEAN
                           /\ MaxRestarts \in Nat
ASSUME NoneAssumption == None \notin Sessions \cup Runs \cup Procs

VARIABLES
  server,      \* "serving", "closing" (root ctx cancelled), "closed"
  restarts,
  active,      \* s.pi.active: the run of each session, or None
  row,         \* ai_runs.status of each run, "none" before the INSERT
  unsaved,     \* runs whose terminal savePiRun failed
  session,     \* ai_runs.session_id
  pc,          \* where executePiRun stands
  client,      \* its process, or None
  shown,       \* active.client is set
  queueOff,    \* queueCtx is cancelled
  stop,        \* active.stopStatus, "" if none
  finished,    \* active.finished
  ready,       \* active.sessionReady
  expired,     \* the deadline of runContext is over
  settled,     \* generationSettled
  runErr,      \* runErr # nil
  verdict,     \* the status the final defer arrives at
  control,     \* who has controlMu: "nobody", "run", "stopper", "steerer"
  stopper,     \* the goroutine of stop: "none", "waiting", "clearing", "aborting"
  steerer,     \* a steer request: "none", "waiting", "sending"
  owner,       \* the pool's lease of each process
  healthy,     \* client.Healthy()
  work,        \* the run pi generates for
  steers,      \* the runs whose supplements are in pi's queue
  event        \* agent_settled is in c.events

runVars == <<client, shown, ready, expired, settled, runErr, verdict>>
stopVars == <<stop, queueOff, stopper>>
procVars == <<owner, healthy, work, steers, event>>
dbVars == <<row, unsaved, session>>
serverVars == <<server, restarts, active>>
vars == <<serverVars, dbVars, pc, runVars, finished, stopVars, control,
          steerer, procVars>>

-----------------------------------------------------------------------------
Live(r) == row[r] \in {"queued", "running"}
Exists(r) == pc[r] # "none"
\* runContext exists, and its Err is not nil.
ContextOver(r) == expired[r] \/ server # "serving"
Has(r) == client[r] # None
Alive(r) == Has(r) /\ healthy[client[r]]

Init == /\ server = "serving" /\ restarts = 0
        /\ active = [s \in Sessions |-> None]
        /\ row = [r \in Runs |-> "none"]
        /\ unsaved = {}
        /\ session = [r \in Runs |-> None]
        /\ pc = [r \in Runs |-> "none"]
        /\ client = [r \in Runs |-> None]
        /\ shown = [r \in Runs |-> FALSE]
        /\ queueOff = [r \in Runs |-> FALSE]
        /\ stop = [r \in Runs |-> ""]
        /\ finished = [r \in Runs |-> FALSE]
        /\ ready = [r \in Runs |-> FALSE]
        /\ expired = [r \in Runs |-> FALSE]
        /\ settled = [r \in Runs |-> FALSE]
        /\ runErr = [r \in Runs |-> FALSE]
        /\ verdict = [r \in Runs |-> ""]
        /\ control = [r \in Runs |-> "nobody"]
        /\ stopper = [r \in Runs |-> "none"]
        /\ steerer = [r \in Runs |-> "none"]
        /\ owner = [p \in Procs |-> None]
        /\ healthy = [p \in Procs |-> TRUE]
        /\ work = [p \in Procs |-> None]
        /\ steers = [p \in Procs |-> {}]
        /\ event = [p \in Procs |-> FALSE]

Goto(r, where) == pc' = [pc EXCEPT ![r] = where]
Fails(r) == runErr' = [runErr EXCEPT ![r] = TRUE]
KillProc(p) == healthy' = [healthy EXCEPT ![p] = FALSE]

-----------------------------------------------------------------------------
(* Requests *)

\* handlePiRunStream, under piRuntime.mu. The unique index of ai_runs refuses
\* a second live row of a session.
Post(s, r) ==
  /\ server = "serving" /\ active[s] = None
  /\ row[r] = "none"
  /\ \A q \in Runs : session[q] = s => ~Live(q)
  /\ row' = [row EXCEPT ![r] = "queued"]
  /\ session' = [session EXCEPT ![r] = s]
  /\ active' = [active EXCEPT ![s] = r]
  /\ Goto(r, "spec")
  /\ UNCHANGED <<server, restarts, unsaved, runVars, finished, stopVars,
                 control, steerer, procVars>>

\* The browser goes: the request's context ends, and queueCtx with it, which
\* nothing but the queue looks at.
Disconnect(r) ==
  /\ pc[r] \in {"spec", "queue"} /\ ~queueOff[r]
  /\ queueOff' = [queueOff EXCEPT ![r] = TRUE]
  /\ UNCHANGED <<serverVars, dbVars, pc, runVars, finished, stop, stopper,
                 control, steerer, procVars>>

\* Mutant: a finished run can still be stopped.
StoppableLate(r) == stop[r] = ""
Stoppable(r) == ~finished[r] /\ stop[r] = ""
\* active.stop: the first status counts.
Stop(r, status) ==
  IF Stoppable(r)
  THEN /\ stop' = [stop EXCEPT ![r] = status]
       /\ IF shown[r] THEN /\ stopper' = [stopper EXCEPT ![r] = "waiting"]
                           /\ UNCHANGED queueOff
          ELSE /\ queueOff' = [queueOff EXCEPT ![r] = TRUE]
               /\ UNCHANGED stopper
  ELSE UNCHANGED stopVars

\* The abort handler: it may hold the run since before the run has ended.
Abort(r) ==
  /\ Exists(r) /\ Stoppable(r)
  /\ Stop(r, "aborted")
  /\ UNCHANGED <<serverVars, dbVars, pc, runVars, finished, control, steerer,
                 procVars>>

\* The steer handler finds the run, then waits for controlMu.
Steer(r) ==
  /\ r \in Steered /\ Exists(r) /\ active[session[r]] = r
  /\ steerer[r] = "none"
  /\ steerer' = [steerer EXCEPT ![r] = "waiting"]
  /\ UNCHANGED <<serverVars, dbVars, pc, runVars, finished, stopVars, control,
                 procVars>>

Steerable(r) == shown[r] /\ ~finished[r] /\ ready[r] /\ stop[r] = ""

SteerLocks(r) ==
  /\ steerer[r] = "waiting" /\ control[r] = "nobody"
  /\ IF Steerable(r)
     THEN /\ steerer' = [steerer EXCEPT ![r] = "sending"]
          /\ control' = [control EXCEPT ![r] = "steerer"]
     ELSE /\ steerer' = [steerer EXCEPT ![r] = "none"]
          /\ UNCHANGED control
  /\ UNCHANGED <<serverVars, dbVars, pc, runVars, finished, stopVars, procVars>>

\* The command may reach pi although the handler is told that it failed.
SteerSends(r) ==
  /\ steerer[r] = "sending"
  /\ \E arrived \in BOOLEAN :
       steers' = IF arrived /\ healthy[client[r]]
                 THEN [steers EXCEPT ![client[r]] = @ \cup {r}] ELSE steers
  /\ steerer' = [steerer EXCEPT ![r] = "none"]
  /\ control' = [control EXCEPT ![r] = "nobody"]
  /\ UNCHANGED <<serverVars, dbVars, pc, runVars, finished, stopVars, owner,
                 healthy, work, event>>

-----------------------------------------------------------------------------
(* The goroutine that stop() starts: clear_queue, then abort *)

StillRunning(r) == ~finished[r]

StopperLocks(r) ==
  /\ stopper[r] = "waiting" /\ control[r] = "nobody"
  /\ IF StillRunning(r)
     THEN /\ stopper' = [stopper EXCEPT ![r] = "clearing"]
          /\ control' = [control EXCEPT ![r] = "stopper"]
     ELSE /\ stopper' = [stopper EXCEPT ![r] = "none"]
          /\ UNCHANGED control
  /\ UNCHANGED <<serverVars, dbVars, pc, runVars, finished, stop, queueOff,
                 steerer, procVars>>

StopperClears(r) ==
  /\ stopper[r] = "clearing"
  /\ stopper' = [stopper EXCEPT ![r] = "aborting"]
  /\ steers' \in {steers, [steers EXCEPT ![client[r]] = {}]}
  /\ UNCHANGED <<serverVars, dbVars, pc, runVars, finished, stop, queueOff,
                 control, steerer, owner, healthy, work, event>>

\* abort is answered - pi should be idle then, but may fail to be - or it is
\* not, and the process is closed.
StopperAborts(r) ==
  /\ stopper[r] = "aborting"
  /\ stopper' = [stopper EXCEPT ![r] = "none"]
  /\ control' = [control EXCEPT ![r] = "nobody"]
  /\ \/ /\ work' = [work EXCEPT ![client[r]] = None]
        /\ event' = [event EXCEPT ![client[r]] = @ \/ work[client[r]] # None]
        /\ UNCHANGED healthy
     \/ UNCHANGED <<work, event, healthy>>
     \/ KillProc(client[r]) /\ UNCHANGED <<work, event>>
  /\ UNCHANGED <<serverVars, dbVars, pc, runVars, finished, stop, queueOff,
                 steerer, owner, steers>>

-----------------------------------------------------------------------------
(* executePiRun, up to the prompt *)

\* piRuntimeSpec: no enabled configuration, a file error, a cancelled request.
ReadsSpec(r) ==
  /\ pc[r] = "spec"
  /\ \/ Goto(r, "queue") /\ UNCHANGED runErr
     \/ Goto(r, "final") /\ Fails(r)
  /\ UNCHANGED <<serverVars, dbVars, client, shown, ready, expired, settled,
                 verdict, finished, stopVars, control, steerer, procVars>>

AcquireGets(r, p) ==
  /\ pc[r] = "queue" /\ owner[p] = None /\ healthy[p]
  /\ owner' = [owner EXCEPT ![p] = r]
  /\ client' = [client EXCEPT ![r] = p]
  /\ Goto(r, "got")
  /\ UNCHANGED <<serverVars, dbVars, shown, ready, expired, settled, runErr,
                 verdict, finished, stopVars, control, steerer, healthy, work,
                 steers, event>>

\* Mutant: only its context gets a request out of the queue.
QueueKeeps(r) == queueOff[r]
QueueLeft(r) == TRUE

\* The queue was left: by the request's context, or since the pool fails.
AcquireFails(r) ==
  /\ pc[r] = "queue" /\ QueueLeft(r)
  /\ IF queueOff[r] THEN Stop(r, "aborted") /\ UNCHANGED runErr
     ELSE Fails(r) /\ UNCHANGED stopVars
  /\ Goto(r, "final")
  /\ UNCHANGED <<serverVars, dbVars, client, shown, ready, expired, settled,
                 verdict, finished, control, steerer, procVars>>

\* active.client is published; a run stopped meanwhile does not begin.
ShowsClient(r) ==
  /\ pc[r] = "got"
  /\ shown' = [shown EXCEPT ![r] = TRUE]
  /\ Goto(r, IF stop[r] # "" THEN "final" ELSE "save")
  /\ UNCHANGED <<serverVars, dbVars, client, ready, expired, settled, runErr,
                 verdict, finished, stopVars, control, steerer, procVars>>

\* savePiRun with the root context, then "started".
SavesRunning(r) ==
  /\ pc[r] = "save"
  /\ \/ /\ server = "serving"
        /\ row' = [row EXCEPT ![r] = "running"]
        /\ Goto(r, "prepare")
        /\ UNCHANGED runErr
     \/ /\ Goto(r, "final") /\ Fails(r)
        /\ UNCHANGED row
  /\ UNCHANGED <<serverVars, unsaved, session, client, shown, ready, expired,
                 settled, verdict, finished, stopVars, control, steerer,
                 procVars>>

\* new_session or switch_session, set_model, get_session_stats.
Prepares(r) ==
  /\ pc[r] = "prepare"
  /\ \/ /\ Alive(r) /\ ~ContextOver(r)
        /\ ready' = [ready EXCEPT ![r] = TRUE]
        /\ Goto(r, "ready")
        /\ UNCHANGED runErr
     \/ /\ Goto(r, "final") /\ Fails(r)
        /\ UNCHANGED ready
  /\ UNCHANGED <<serverVars, dbVars, client, shown, expired, settled, verdict,
                 finished, stopVars, control, steerer, procVars>>

\* controlMu is taken, and a stop accepted so far keeps the model from
\* starting.
ChecksStop(r) ==
  /\ pc[r] = "ready" /\ control[r] = "nobody"
  /\ IF stop[r] # "" THEN Goto(r, "final") /\ UNCHANGED control
     ELSE /\ Goto(r, "prompt")
          /\ control' = [control EXCEPT ![r] = "run"]
  /\ UNCHANGED <<serverVars, dbVars, runVars, finished, stopVars, steerer,
                 procVars>>

\* The prompt is accepted, or handled by an extension without a generation.
PromptAccepted(r) ==
  /\ pc[r] = "prompt" /\ Alive(r) /\ ~ContextOver(r)
  /\ \/ /\ Goto(r, "loop")
        /\ work' = [work EXCEPT ![client[r]] = r]
        /\ UNCHANGED settled
     \/ /\ Goto(r, "wrap")
        /\ settled' = [settled EXCEPT ![r] = TRUE]
        /\ UNCHANGED work
  /\ control' = [control EXCEPT ![r] = "nobody"]
  /\ UNCHANGED <<serverVars, dbVars, client, shown, ready, expired, runErr,
                 verdict, finished, stopVars, steerer, owner, healthy, steers,
                 event>>

\* pi may have started all the same: the process is closed.
PromptFails(r) ==
  /\ pc[r] = "prompt"
  /\ \E arrived \in BOOLEAN :
       work' = IF arrived /\ Alive(r) THEN [work EXCEPT ![client[r]] = r] ELSE work
  /\ control' = [control EXCEPT ![r] = "nobody"]
  /\ KillProc(client[r])
  /\ Fails(r)
  /\ Goto(r, "final")
  /\ UNCHANGED <<serverVars, dbVars, client, shown, ready, expired, settled,
                 verdict, finished, stopVars, steerer, owner, steers, event>>

-----------------------------------------------------------------------------
(* executePiRun, the event loop *)

InLoop(r) == pc[r] \in {"loop", "grace"}

\* ctx.Done: the run stops itself, and gives abort ten seconds.
LoopTimesOut(r) ==
  /\ pc[r] = "loop" /\ ContextOver(r)
  /\ Stop(r, IF expired[r] THEN "timeout" ELSE "failed")
  /\ Goto(r, "grace")
  /\ UNCHANGED <<serverVars, dbVars, runVars, finished, control, steerer,
                 procVars>>

\* Mutant: the ten seconds have no end.
GraceEndless == FALSE
GraceOver == TRUE

LoopGivesUp(r) ==
  /\ pc[r] = "grace" /\ GraceOver
  /\ KillProc(client[r])
  /\ Goto(r, "wrap")
  /\ UNCHANGED <<serverVars, dbVars, runVars, finished, stopVars, control,
                 steerer, owner, work, steers, event>>

LoopSettles(r) ==
  /\ InLoop(r) /\ event[client[r]]
  /\ event' = [event EXCEPT ![client[r]] = FALSE]
  /\ settled' = [settled EXCEPT ![r] = TRUE]
  /\ finished' = [finished EXCEPT ![r] = TRUE]
  /\ Goto(r, "wrap")
  /\ UNCHANGED <<serverVars, dbVars, client, shown, ready, expired, runErr,
                 verdict, stopVars, control, steerer, owner, healthy, work,
                 steers>>

\* More tool calls than AIMaxToolCalls.
ToolLimit(r) ==
  /\ InLoop(r) /\ work[client[r]] = r /\ Stoppable(r)
  /\ Stop(r, "aborted")
  /\ UNCHANGED <<serverVars, dbVars, pc, runVars, finished, control, steerer,
                 procVars>>

Died(r) == Fails(r)

\* The events are closed, or Done is: the process is gone.
LoopDies(r) ==
  /\ InLoop(r) /\ ~healthy[client[r]]
  /\ Died(r)
  /\ Goto(r, "wrap")
  /\ UNCHANGED <<serverVars, dbVars, client, shown, ready, expired, settled,
                 verdict, finished, stopVars, control, steerer, procVars>>

\* The model's error, the session file, the usage and the citations.
Wraps(r) ==
  /\ pc[r] = "wrap"
  /\ Fails(r) \/ UNCHANGED runErr
  /\ Goto(r, "final")
  /\ UNCHANGED <<serverVars, dbVars, client, shown, ready, expired, settled,
                 verdict, finished, stopVars, control, steerer, procVars>>

-----------------------------------------------------------------------------
(* executePiRun, the deferred functions *)

\* A runContext exists from "prepare" on; before, the run has not started.
Unsettled(r) == row[r] = "running" /\ ~settled[r] /\ ContextOver(r)

\* Mutant: success is not written down.
VerdictKeeps(r) == IF stop[r] # "" THEN stop[r]
                   ELSE IF runErr[r] THEN "failed" ELSE row[r]
Verdict(r) == IF stop[r] # "" THEN stop[r]
              ELSE IF Unsettled(r) /\ expired[r] THEN "timeout"
              ELSE IF runErr[r] THEN "failed" ELSE "succeeded"

\* controlMu is taken and kept until the process is given back.
Finishes(r) ==
  /\ pc[r] = "final" /\ control[r] = "nobody"
  /\ control' = [control EXCEPT ![r] = "run"]
  /\ finished' = [finished EXCEPT ![r] = TRUE]
  /\ verdict' = [verdict EXCEPT ![r] = Verdict(r)]
  /\ IF Unsettled(r) /\ Has(r) THEN KillProc(client[r]) ELSE UNCHANGED healthy
  /\ Goto(r, "store")
  /\ UNCHANGED <<serverVars, dbVars, client, shown, ready, expired, settled,
                 runErr, stopVars, steerer, owner, work, steers, event>>

\* Mutant: the defer ends when the row cannot be saved.
StoredOrDone(r) == IF Has(r) /\ r \notin unsaved' THEN "clear" ELSE "unlock"
Stored(r) == IF Has(r) THEN "clear" ELSE "unlock"

\* savePiRun with a context of its own; when it fails only the browser hears.
Stores(r) ==
  /\ pc[r] = "store"
  /\ \/ row' = [row EXCEPT ![r] = verdict[r]] /\ UNCHANGED <<unsaved, verdict>>
     \/ /\ unsaved' = unsaved \cup {r}
        /\ verdict' = [verdict EXCEPT ![r] = "failed"]
        /\ UNCHANGED row
  /\ Goto(r, Stored(r))
  /\ UNCHANGED <<serverVars, session, client, shown, ready, expired, settled,
                 runErr, finished, stopVars, control, steerer, procVars>>

\* Mutant: supplements that were not consumed stay in pi's queue.
ClearedNothing(r) == UNCHANGED <<steers, healthy>>
\* clear_queue succeeds, or the process is closed.
Cleared(r) == \/ steers' = [steers EXCEPT ![client[r]] = {}] /\ UNCHANGED healthy
              \/ KillProc(client[r]) /\ UNCHANGED steers

Clears(r) ==
  /\ pc[r] = "clear"
  /\ IF Alive(r) THEN Cleared(r) ELSE UNCHANGED <<steers, healthy>>
  /\ Goto(r, "release")
  /\ UNCHANGED <<serverVars, dbVars, runVars, finished, stopVars, control,
                 steerer, owner, work, event>>

\* Pool.Release, which drops the events that are left.
Releases(r) ==
  /\ pc[r] = "release"
  /\ owner' = [owner EXCEPT ![client[r]] = None]
  /\ event' = [event EXCEPT ![client[r]] = FALSE]
  /\ Goto(r, "unlock")
  /\ UNCHANGED <<serverVars, dbVars, runVars, finished, stopVars, control,
                 steerer, healthy, work, steers>>

\* "done" is emitted, and controlMu released.
Unlocks(r) ==
  /\ pc[r] = "unlock"
  /\ control' = [control EXCEPT ![r] = "nobody"]
  /\ Goto(r, "leave")
  /\ UNCHANGED <<serverVars, dbVars, runVars, finished, stopVars, steerer,
                 procVars>>

\* The variables of the goroutine of r, and what of active is not read when
\* it is finished, end with it.
Forgets(F(_)) ==
  LET Reset(f, v) == [r \in Runs |-> IF F(r) THEN v ELSE f[r]] IN
  /\ client' = Reset(client, None) /\ shown' = Reset(shown, FALSE)
  /\ ready' = Reset(ready, FALSE) /\ expired' = Reset(expired, FALSE)
  /\ settled' = Reset(settled, FALSE) /\ runErr' = Reset(runErr, FALSE)
  /\ verdict' = Reset(verdict, "") /\ stop' = Reset(stop, "")
  /\ queueOff' = Reset(queueOff, FALSE)

\* The outer defer: the session is free again.
Leaves(r) ==
  /\ pc[r] = "leave"
  /\ finished' = [finished EXCEPT ![r] = TRUE]
  /\ active' = [active EXCEPT ![session[r]] = None]
  /\ Forgets(LAMBDA q : q = r)
  /\ Goto(r, "ended")
  /\ UNCHANGED <<server, restarts, dbVars, stopper, control, steerer, procVars>>

-----------------------------------------------------------------------------
(* Time, pi, the pool and the server *)

\* It has no effect on a run that is settled or already stopping itself.
Deadline(r) ==
  /\ pc[r] \in {"prepare", "ready", "prompt", "loop", "wrap", "final"}
  /\ row[r] = "running" /\ ~settled[r] /\ ~expired[r]
  /\ expired' = [expired EXCEPT ![r] = TRUE]
  /\ UNCHANGED <<serverVars, dbVars, pc, client, shown, ready, settled,
                 runErr, verdict, finished, stopVars, control, steerer,
                 procVars>>

\* pi settles; supplements that came too late stay in its queue.
PiSettles(p) ==
  /\ healthy[p] /\ work[p] # None
  /\ work' = [work EXCEPT ![p] = None]
  /\ event' = [event EXCEPT ![p] = TRUE]
  /\ UNCHANGED <<serverVars, dbVars, pc, runVars, finished, stopVars, control,
                 steerer, owner, healthy, steers>>

PiTakesSupplements(p) ==
  /\ healthy[p] /\ work[p] # None /\ steers[p] # {}
  /\ steers' = [steers EXCEPT ![p] = {}]
  /\ UNCHANGED <<serverVars, dbVars, pc, runVars, finished, stopVars, control,
                 steerer, owner, healthy, work, event>>

PiDies(p) ==
  /\ healthy[p]
  /\ KillProc(p)
  /\ UNCHANGED <<serverVars, dbVars, pc, runVars, finished, stopVars, control,
                 steerer, owner, work, steers, event>>

\* The pool puts a new process in the place of a dead one.
PoolReplaces(p) ==
  /\ ~healthy[p] /\ owner[p] = None /\ server = "serving"
  /\ healthy' = [healthy EXCEPT ![p] = TRUE]
  /\ work' = [work EXCEPT ![p] = None]
  /\ steers' = [steers EXCEPT ![p] = {}]
  /\ event' = [event EXCEPT ![p] = FALSE]
  /\ UNCHANGED <<serverVars, dbVars, pc, runVars, finished, stopVars, control,
                 steerer, owner>>

\* piRuntime.close: the root context, then the pool's processes ...
ServerCloses ==
  /\ Closes /\ server = "serving"
  /\ server' = "closing"
  /\ UNCHANGED <<restarts, active, dbVars, pc, runVars, finished, stopVars,
                 control, steerer, procVars>>

PoolCloses ==
  /\ server = "closing" /\ \E p \in Procs : healthy[p]
  /\ healthy' = [p \in Procs |-> FALSE]
  /\ UNCHANGED <<serverVars, dbVars, pc, runVars, finished, stopVars, control,
                 steerer, owner, work, steers, event>>

RunsEnded == \A r \in Runs : pc[r] \in {"none", "ended"}
\* ... then it waits for the runs, and the database is closed.
CloseReturns ==
  /\ server = "closing" /\ \A p \in Procs : ~healthy[p]
  /\ RunsEnded
  /\ server' = "closed"
  /\ UNCHANGED <<restarts, active, dbVars, pc, runVars, finished, stopVars,
                 control, steerer, procVars>>

\* Mutant: only rows in state running are marked.
MarkedRunning(r) == IF row[r] = "running" THEN "failed" ELSE row[r]
Marked(r) == IF Live(r) THEN "failed" ELSE row[r]

\* The server process dies, or has closed, and starts again: initPiRuntime
\* marks the rows of the runs that are gone.
Restart ==
  /\ restarts < MaxRestarts
  /\ restarts' = restarts + 1
  /\ server' = "serving"
  /\ active' = [s \in Sessions |-> None]
  /\ row' = [r \in Runs |-> Marked(r)]
  /\ pc' = [r \in Runs |-> IF Exists(r) THEN "ended" ELSE "none"]
  /\ finished' = [r \in Runs |-> Exists(r)]
  /\ control' = [r \in Runs |-> "nobody"]
  /\ stopper' = [r \in Runs |-> "none"]
  /\ steerer' = [r \in Runs |-> "none"]
  /\ owner' = [p \in Procs |-> None]
  /\ healthy' = [p \in Procs |-> TRUE]
  /\ work' = [p \in Procs |-> None]
  /\ steers' = [p \in Procs |-> {}]
  /\ event' = [p \in Procs |-> FALSE]
  /\ Forgets(Exists)
  /\ UNCHANGED <<unsaved, session>>

\* The only places the system may stop.
Over == /\ \/ server = "closed"
           \/ \A r \in Runs : pc[r] = "ended"
        /\ UNCHANGED vars

-----------------------------------------------------------------------------
RunStep(r) == \/ ReadsSpec(r) \/ AcquireFails(r) \/ ShowsClient(r)
              \/ \E p \in Procs : AcquireGets(r, p)
              \/ SavesRunning(r) \/ Prepares(r) \/ ChecksStop(r)
              \/ PromptAccepted(r) \/ PromptFails(r)
              \/ LoopTimesOut(r) \/ LoopGivesUp(r) \/ LoopSettles(r)
              \/ LoopDies(r) \/ Wraps(r)
              \/ Finishes(r) \/ Stores(r) \/ Clears(r) \/ Releases(r)
              \/ Unlocks(r) \/ Leaves(r)
ControlStep(r) == \/ SteerLocks(r) \/ SteerSends(r)
                  \/ StopperLocks(r) \/ StopperClears(r) \/ StopperAborts(r)
ProcStep(p) == PiSettles(p) \/ PiTakesSupplements(p) \/ PiDies(p) \/ PoolReplaces(p)

Next == \/ \E r \in Runs : \/ \E s \in Sessions : Post(s, r)
                           \/ Disconnect(r) \/ Abort(r) \/ Steer(r)
                           \/ RunStep(r) \/ ToolLimit(r) \/ Deadline(r)
                           \/ ControlStep(r)
        \/ \E p \in Procs : ProcStep(p)
        \/ ServerCloses \/ PoolCloses \/ CloseReturns \/ Restart \/ Over

Spec == Init /\ [][Next]_vars

(***************************************************************************)
(* Fairness: goroutines are scheduled, controlMu is given to a waiter that *)
(* starves, every command to pi has a deadline, a run has one too, and the *)
(* pool answers every request and replaces what died (Pool shows so).      *)
(* Nothing is asked of pi, of users, or of the server's end.               *)
(***************************************************************************)
Fairness == /\ \A r \in Runs : /\ SF_vars(RunStep(r))
                               /\ SF_vars(ControlStep(r))
                               /\ WF_vars(Deadline(r))
            /\ \A p \in Procs : WF_vars(PoolReplaces(p))
            /\ WF_vars(PoolCloses) /\ WF_vars(CloseReturns)

FairSpec == Spec /\ Fairness

-----------------------------------------------------------------------------
(* Properties *)

Terminal == {"succeeded", "failed", "aborted", "timeout"}
Stages == {"none", "spec", "queue", "got", "save", "prepare", "ready",
           "prompt", "loop", "grace", "wrap", "final", "store", "clear",
           "release", "unlock", "leave", "ended"}

(***************************************************************************)
(* Type correctness.                                                       *)
(***************************************************************************)
TypeOK ==
  /\ server \in {"serving", "closing", "closed"}
  /\ restarts \in 0..MaxRestarts
  /\ active \in [Sessions -> Runs \cup {None}]
  /\ row \in [Runs -> {"none", "queued", "running"} \cup Terminal]
  /\ unsaved \in SUBSET Runs
  /\ session \in [Runs -> Sessions \cup {None}]
  /\ pc \in [Runs -> Stages]
  /\ client \in [Runs -> Procs \cup {None}]
  /\ stop \in [Runs -> {"", "aborted", "timeout", "failed"}]
  /\ verdict \in [Runs -> {""} \cup Terminal]
  /\ shown \in [Runs -> BOOLEAN] /\ queueOff \in [Runs -> BOOLEAN]
  /\ finished \in [Runs -> BOOLEAN] /\ ready \in [Runs -> BOOLEAN]
  /\ expired \in [Runs -> BOOLEAN] /\ settled \in [Runs -> BOOLEAN]
  /\ runErr \in [Runs -> BOOLEAN]
  /\ control \in [Runs -> {"nobody", "run", "stopper", "steerer"}]
  /\ stopper \in [Runs -> {"none", "waiting", "clearing", "aborting"}]
  /\ steerer \in [Runs -> {"none", "waiting", "sending"}]
  /\ owner \in [Procs -> Runs \cup {None}]
  /\ healthy \in [Procs -> BOOLEAN] /\ event \in [Procs -> BOOLEAN]
  /\ work \in [Procs -> Runs \cup {None}]
  /\ steers \in [Procs -> SUBSET Runs]

(***************************************************************************)
(* Nothing of one run reaches the next borrower of its process (comments   *)
(* of controlMu and of the final defer). A process that may be borrowed    *)
(* neither generates nor keeps a supplement or an event, and a borrowed    *)
(* one only its borrower's; a control command is only sent to a process    *)
(* that its run still borrows, by one goroutine at a time.                 *)
(***************************************************************************)
NoCrossTalk ==
  /\ \A p \in Procs : healthy[p] =>
       /\ work[p] \in {None, owner[p]}
       /\ steers[p] \subseteq {owner[p]}
       /\ event[p] => owner[p] # None
  /\ \A r \in Runs :
       /\ stopper[r] \in {"clearing", "aborting"} => control[r] = "stopper"
       /\ steerer[r] = "sending" => control[r] = "steerer"
       /\ control[r] \in {"stopper", "steerer"} =>
            /\ pc[r] \notin {"none", "prompt", "leave", "ended"}
            /\ Has(r) /\ owner[client[r]] = r

(***************************************************************************)
(* A live row has its run at work, and the session knows it; so no session *)
(* is occupied by a run that is gone - unless the terminal row could not   *)
(* be written. Closing leaves terminal rows (comments of initPiRuntime and *)
(* of the final defer).                                                    *)
(***************************************************************************)
LiveRowHasRunner ==
  \A r \in Runs :
    Live(r) => \/ /\ active[session[r]] = r
                  /\ pc[r] \notin {"none", "ended"}
                  /\ server # "closed"
               \/ r \in unsaved

(***************************************************************************)
(* The row tells how the run ended. A stop that was accepted is what it    *)
(* says; it says success only of a generation that has settled and that no *)
(* deadline, error or end of the server has cut short; and it has been     *)
(* written before anybody else can borrow the process.                     *)
(***************************************************************************)
EndIsReported ==
  \A r \in Runs :
    /\ verdict[r] # "" /\ stop[r] # "" /\ r \notin unsaved => verdict[r] = stop[r]
    /\ verdict[r] = "succeeded" => settled[r] /\ ~runErr[r] /\ stop[r] = ""
    /\ pc[r] \in {"clear", "release", "unlock", "leave"} /\ r \notin unsaved
         => row[r] = verdict[r]

(***************************************************************************)
(* A process is borrowed by a run that is still going to release it.       *)
(***************************************************************************)
LeaseHasRun ==
  \A p \in Procs : owner[p] # None =>
    /\ client[owner[p]] = p
    /\ pc[owner[p]] \notin {"none", "spec", "queue", "unlock", "leave", "ended"}

(***************************************************************************)
(* Every run ends, whatever pi, the users and the disk do.                 *)
(***************************************************************************)
RunsEnd == \A r \in Runs : Exists(r) ~> pc[r] = "ended"

(***************************************************************************)
(* Closing the server ends, unless it dies: close waits for runs that all  *)
(* get to know of it, those in the queue too.                              *)
(***************************************************************************)
CloseEnds == server = "closing" ~> server # "closing"
=============================================================================
