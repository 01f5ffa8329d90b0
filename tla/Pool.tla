-------------------------------- MODULE Pool --------------------------------
(***************************************************************************)
(* internal/pirpc/pool.go: the pool of pi processes. One scheduling loop   *)
(* (loop/reconcile), one goroutine per slot (startEntry), the goroutines   *)
(* that call Acquire, AcquireLatest, Release, UpdateSpec and Close, and    *)
(* the processes themselves, which may die at any time.                    *)
(*                                                                         *)
(* Every critical section of p.mu that is short is one action, guarded by  *)
(* LockFree; reconcile, which loops over the queue and over the map of     *)
(* entries while it holds p.mu, is one action per iteration, so processes  *)
(* die and contexts are cancelled in the middle of it, as they do.         *)
(*                                                                         *)
(* The definitions under a comment "Mutant" are not part of the model:     *)
(* each is a plausible mistake in the definition that follows it, which a  *)
(* property must detect when it takes that definition's place.             *)
(***************************************************************************)
EXTENDS Naturals, FiniteSets, Sequences, SequencesExt

CONSTANTS Callers,    \* goroutines that acquire and release
          Entries,    \* identities of slots (*poolEntry and its *Client)
          Versions,   \* values of Spec.Version
          Size,       \* p.size
          MaxRuns,    \* p.maxRuns
          None,       \* nothing answered yet
          Failed,     \* an acquireResult with an error
          NoVersion   \* p.hasSpec = false

ASSUME SizeAssumption == Size \in Nat \ {0} /\ MaxRuns \in Nat \ {0}
ASSUME EntriesAssumption == IsFiniteSet(Entries)
ASSUME ValuesAssumption == /\ None \notin Entries
                           /\ Failed \notin Entries
                           /\ None # Failed
                           /\ NoVersion \notin Versions

VARIABLES
  \* under p.mu
  specVersion,   \* p.spec.Version, or NoVersion
  closed,        \* p.closed
  queue,         \* p.queue, the waiters named by their callers
  backoff,       \* time.Now().Before(p.retryAt)
  \* per slot
  phase,         \* where the goroutine startEntry stands
  version,       \* entry.version
  busy,          \* entry.busy
  retiring,      \* entry.retiring
  runs,          \* entry.runs
  proc,          \* the process: stop closed is "stopping", done closed "done"
  \* per caller
  at,            \* where the caller stands in acquire / cancelWaiter
  answer,        \* w.result while waiting, the client in hand afterwards
  cancelled,     \* ctx.Err() # nil, of the acquire in progress
  \* the scheduling loop and Close
  wake,          \* p.wake holds its one token
  loop, cursor, scan,   \* program counter and iterations of reconcile
  finished       \* p.done is closed

specVars == <<specVersion, backoff>>
slotVars == <<phase, version, busy, retiring, runs, proc>>
callerVars == <<at, answer, cancelled>>
loopVars == <<loop, cursor, scan>>
vars == <<specVersion, closed, queue, backoff, phase, version, busy, retiring,
          runs, proc, at, answer, cancelled, wake, loop, cursor, scan, finished>>

-----------------------------------------------------------------------------
(* Derived state *)

InPool(e) == phase[e] \in {"starting", "started", "watching"}
HasClient(e) == phase[e] \in {"started", "watching"}
Pool == {e \in Entries : InPool(e)}
Busy == {e \in Entries : busy[e]}
\* Mutant: a slot that is lent out counts as idle.
IdleOrBusy(e) == HasClient(e) /\ ~retiring[e]
Idle(e) == HasClient(e) /\ ~retiring[e] /\ ~busy[e]
Current(e) == version[e] = specVersion
Queued(c) == \E i \in DOMAIN queue : queue[i] = c
\* A slot object nobody refers to any more: its identity may be used again.
Fresh(e) == phase[e] = "none" /\ \A c \in Callers : answer[c] # e
LockFree == loop \notin {"purge", "place", "grow"}
\* Mutant: an exiting process no longer counts.
SlotsServing == Cardinality({e \in Entries : InPool(e) /\ ~retiring[e]})
SlotsUsed == Cardinality(Pool)
\* One process for each request and one to spare, as far as Size allows.
Target == LET wanted == Cardinality(Busy) + Len(queue) + 1
          IN  IF wanted < Size THEN wanted ELSE Size

-----------------------------------------------------------------------------
Init == /\ specVersion = NoVersion
        /\ closed = FALSE
        /\ queue = <<>>
        /\ backoff = FALSE
        /\ phase = [e \in Entries |-> "none"]
        /\ version = [e \in Entries |-> NoVersion]
        /\ busy = [e \in Entries |-> FALSE]
        /\ retiring = [e \in Entries |-> FALSE]
        /\ runs = [e \in Entries |-> 0]
        /\ proc = [e \in Entries |-> "none"]
        /\ at = [c \in Callers |-> "idle"]
        /\ answer = [c \in Callers |-> None]
        /\ cancelled = [c \in Callers |-> FALSE]
        /\ wake = FALSE
        /\ loop = "select"
        /\ cursor = 1
        /\ scan = {}
        /\ finished = FALSE

-----------------------------------------------------------------------------
(* The configuration *)

\* updateSpecLocked: a new version forgets the back-off and cancels the
\* starts of every other version, which then return an error.
AdoptSpec(v) ==
  /\ specVersion' = v
  /\ backoff' = (backoff /\ v = specVersion)

UpdateSpec(v) ==
  /\ LockFree /\ ~closed
  /\ v # specVersion
  /\ AdoptSpec(v)
  /\ wake' = TRUE
  /\ UNCHANGED <<closed, queue, slotVars, callerVars, loopVars, finished>>

-----------------------------------------------------------------------------
(* Callers. The next acquire of a caller comes with a context of its own,  *)
(* hence cancelled is reset when the caller leaves the select.             *)

\* Mutant: the newest waiter is served first.
JoinedFirst(c) == <<c>> \o queue
Joined(c) == Append(queue, c)

Enqueue(c) ==
  /\ at[c] = "idle"
  /\ at' = [at EXCEPT ![c] = "waiting"]
  /\ queue' = Joined(c)
  /\ wake' = TRUE
  /\ UNCHANGED <<closed, slotVars, answer, cancelled, loopVars, finished>>

Acquire(c, v) == LockFree /\ ~closed /\ AdoptSpec(v) /\ Enqueue(c)

AcquireLatest(c) == /\ LockFree /\ ~closed
                    /\ specVersion # NoVersion
                    /\ Enqueue(c)
                    /\ UNCHANGED specVars

\* The caller's context is cancelled while acquire waits in its select.
CancelContext(c) ==
  /\ at[c] = "waiting"
  /\ cancelled' = [cancelled EXCEPT ![c] = TRUE]
  /\ UNCHANGED <<specVars, closed, queue, slotVars, at, answer, wake,
                 loopVars, finished>>

\* Mutant: a process that came with the cancellation is forgotten.
TakeAnswerForgetting(c, next) ==
  LET keeps == answer[c] \in Entries /\ next = "holding"
  IN  /\ at' = [at EXCEPT ![c] = IF keeps THEN next ELSE "idle"]
      /\ answer' = [answer EXCEPT ![c] = IF keeps THEN @ ELSE None]
      /\ cancelled' = [cancelled EXCEPT ![c] = FALSE]
\* The caller takes what is in its channel, and keeps a process if it is one.
TakeAnswer(c, next) ==
  /\ at' = [at EXCEPT ![c] = IF answer[c] \in Entries THEN next ELSE "idle"]
  /\ answer' = [answer EXCEPT ![c] = IF @ \in Entries THEN @ ELSE None]
  /\ cancelled' = [cancelled EXCEPT ![c] = FALSE]

\* case result := <-w.result. A process that arrives together with the
\* cancellation is handed back by the caller.
Receive(c) ==
  /\ at[c] = "waiting" /\ answer[c] # None
  /\ TakeAnswer(c, IF cancelled[c] THEN "returning" ELSE "holding")
  /\ UNCHANGED <<specVars, closed, queue, slotVars, wake, loopVars, finished>>

\* case <-ctx.Done(): cancelWaiter takes the waiter out of the queue, and
\* signals once it has unlocked ...
GiveUpQueued(c) ==
  /\ at[c] = "waiting" /\ cancelled[c] /\ LockFree
  /\ \E i \in DOMAIN queue : queue[i] = c /\ queue' = RemoveAt(queue, i)
  /\ at' = [at EXCEPT ![c] = "signalling"]
  /\ cancelled' = [cancelled EXCEPT ![c] = FALSE]
  /\ UNCHANGED <<specVars, closed, slotVars, answer, wake, loopVars, finished>>

\* ... or finds that it was answered already, and takes the answer.
GiveUpAnswered(c) ==
  /\ at[c] = "waiting" /\ cancelled[c] /\ LockFree
  /\ ~Queued(c)
  /\ TakeAnswer(c, "returning")
  /\ UNCHANGED <<specVars, closed, queue, slotVars, wake, loopVars, finished>>

SignalCancelled(c) ==
  /\ at[c] = "signalling"
  /\ at' = [at EXCEPT ![c] = "idle"]
  /\ wake' = TRUE
  /\ UNCHANGED <<specVars, closed, queue, slotVars, answer, cancelled,
                 loopVars, finished>>

\* Mutant: the scheduler is not told.
ReleaseQuietly(e) ==
  /\ IF HasClient(e) /\ busy[e] /\ ~retiring[e]
     THEN /\ busy' = [busy EXCEPT ![e] = FALSE]
          /\ runs' = [runs EXCEPT ![e] = @ + 1]
     ELSE UNCHANGED <<busy, runs>>
  /\ UNCHANGED wake
\* Release under the lock: a client that is not lent out at the moment, or
\* whose slot is gone, is ignored.
ReleaseLocked(e) ==
  IF HasClient(e) /\ busy[e] /\ ~retiring[e]
  THEN /\ busy' = [busy EXCEPT ![e] = FALSE]
       /\ runs' = [runs EXCEPT ![e] = @ + 1]
       /\ wake' = TRUE
  ELSE UNCHANGED <<busy, runs, wake>>

Release(c) ==
  /\ at[c] \in {"holding", "returning"} /\ LockFree
  /\ ReleaseLocked(answer[c])
  /\ at' = [at EXCEPT ![c] = "idle"]
  /\ answer' = [answer EXCEPT ![c] = None]
  /\ UNCHANGED <<specVars, closed, queue, phase, version, retiring, proc,
                 cancelled, loopVars, finished>>

-----------------------------------------------------------------------------
(* The scheduling loop *)

LoopWakes == /\ loop = "select" /\ wake
             /\ wake' = FALSE
             /\ loop' = "woken"
             /\ UNCHANGED <<specVars, closed, queue, slotVars, callerVars,
                            cursor, scan, finished>>

LoopTicks == /\ loop = "select"
             /\ loop' = "woken"
             /\ UNCHANGED <<specVars, closed, queue, slotVars, callerVars,
                            wake, cursor, scan, finished>>

LoopExits == /\ loop = "select" /\ closed
             /\ loop' = "exited"
             /\ UNCHANGED <<specVars, closed, queue, slotVars, callerVars,
                            wake, cursor, scan, finished>>

ReconcileBegins ==
  /\ loop = "woken"
  /\ loop' = IF closed \/ specVersion = NoVersion THEN "select" ELSE "purge"
  /\ UNCHANGED <<specVars, closed, queue, slotVars, callerVars, wake, cursor,
                 scan, finished>>

\* The first loop: cancelled waiters leave the queue with their error.
PurgeWaiter ==
  /\ loop = "purge" /\ cursor \in DOMAIN queue
  /\ IF cancelled[queue[cursor]]
     THEN /\ answer' = [answer EXCEPT ![queue[cursor]] = Failed]
          /\ queue' = RemoveAt(queue, cursor)
          /\ UNCHANGED cursor
     ELSE /\ cursor' = cursor + 1
          /\ UNCHANGED <<answer, queue>>
  /\ UNCHANGED <<specVars, closed, slotVars, at, cancelled, wake, loop, scan,
                 finished>>

PurgeEnds ==
  /\ loop = "purge" /\ cursor \notin DOMAIN queue
  /\ loop' = "place"
  /\ cursor' = 1
  /\ scan' = {e \in Entries : Idle(e)}
  /\ UNCHANGED <<specVars, closed, queue, slotVars, callerVars, wake, finished>>

\* The second loop: the idle slots, in the order of a map iteration.
\* Mutant: one run too many.
WornOutLate(e) == version[e] # specVersion \/ runs[e] > MaxRuns \/ proc[e] # "healthy"
WornOut(e) == version[e] # specVersion \/ runs[e] >= MaxRuns \/ proc[e] # "healthy"

RetireEntry(e) ==
  /\ loop = "place" /\ e \in scan
  /\ WornOut(e)
  /\ retiring' = [retiring EXCEPT ![e] = TRUE]
  /\ proc' = [proc EXCEPT ![e] = IF @ = "healthy" THEN "stopping" ELSE @]
  /\ scan' = scan \ {e}
  /\ UNCHANGED <<specVars, closed, queue, phase, version, busy, runs,
                 callerVars, wake, loop, cursor, finished>>

DispatchEntry(e) ==
  /\ loop = "place" /\ e \in scan
  /\ ~WornOut(e) /\ queue # <<>>
  /\ busy' = [busy EXCEPT ![e] = TRUE]
  /\ answer' = [answer EXCEPT ![Head(queue)] = e]
  /\ queue' = Tail(queue)
  /\ scan' = scan \ {e}
  /\ UNCHANGED <<specVars, closed, phase, version, retiring, runs, proc, at,
                 cancelled, wake, loop, cursor, finished>>

SpareEntry(e) ==
  /\ loop = "place" /\ e \in scan
  /\ ~WornOut(e) /\ queue = <<>>
  /\ scan' = scan \ {e}
  /\ UNCHANGED <<specVars, closed, queue, slotVars, callerVars, wake, loop,
                 cursor, finished>>

PlaceEnds ==
  /\ loop = "place" /\ scan = {}
  /\ loop' = IF backoff THEN "select" ELSE "grow"
  /\ UNCHANGED <<specVars, closed, queue, slotVars, callerVars, wake, cursor,
                 scan, finished>>

\* The third loop: new slots up to the target.
AddEntry(e) ==
  /\ loop = "grow" /\ Fresh(e)
  /\ SlotsUsed < Target
  /\ phase' = [phase EXCEPT ![e] = "starting"]
  /\ version' = [version EXCEPT ![e] = specVersion]
  /\ UNCHANGED <<specVars, closed, queue, busy, retiring, runs, proc,
                 callerVars, wake, loopVars, finished>>

GrowEnds ==
  /\ loop = "grow" /\ SlotsUsed >= Target
  /\ loop' = "select"
  /\ UNCHANGED <<specVars, closed, queue, slotVars, callerVars, wake, cursor,
                 scan, finished>>

-----------------------------------------------------------------------------
(* The goroutine of a slot, and its process *)

\* Mutant: the waiter is dropped without an answer.
FailHeadSilently == /\ queue' = IF queue = <<>> THEN queue ELSE Tail(queue)
                    /\ UNCHANGED answer
FailHead == IF queue = <<>> THEN UNCHANGED <<queue, answer>>
            ELSE /\ queue' = Tail(queue)
                 /\ answer' = [answer EXCEPT ![Head(queue)] = Failed]

\* delete(p.entries, entry)
DropEntry(e, next) ==
  /\ phase' = [phase EXCEPT ![e] = next]
  /\ version' = [version EXCEPT ![e] = NoVersion]
  /\ busy' = [busy EXCEPT ![e] = FALSE]
  /\ retiring' = [retiring EXCEPT ![e] = FALSE]
  /\ runs' = [runs EXCEPT ![e] = 0]
  /\ proc' = [proc EXCEPT ![e] = "none"]

\* Start returned an error: its own, or the cancellation of its context.
StartFails(e) ==
  /\ phase[e] = "starting" /\ LockFree
  /\ DropEntry(e, "failed")
  /\ IF ~closed /\ Current(e)
     THEN backoff' = TRUE /\ FailHead
     ELSE UNCHANGED <<backoff, queue, answer>>
  /\ UNCHANGED <<specVersion, closed, at, cancelled, wake, loopVars, finished>>

\* Mutant: Close is not noticed.
LateForVersion(e) == ~Current(e)
Late(e) == closed \/ ~Current(e)

\* Start returned a client, perhaps for a version replaced meanwhile.
StartSucceeds(e) ==
  /\ phase[e] = "starting" /\ LockFree
  /\ phase' = [phase EXCEPT ![e] = "started"]
  /\ retiring' = [retiring EXCEPT ![e] = Late(e)]
  /\ proc' = [proc EXCEPT ![e] = IF Late(e) THEN "stopping" ELSE "healthy"]
  /\ UNCHANGED <<specVersion, backoff, closed, queue, version, busy, runs,
                 callerVars, wake, loopVars, finished>>

\* p.signal() after the unlock, at each of the three places of startEntry.
SignalEntry(e) ==
  /\ phase[e] \in {"failed", "started", "exited"}
  /\ phase' = [phase EXCEPT ![e] = IF @ = "started" THEN "watching" ELSE "none"]
  /\ wake' = TRUE
  /\ UNCHANGED <<specVars, closed, queue, version, busy, retiring, runs, proc,
                 callerVars, loopVars, finished>>

\* <-client.Done(), then the slot is removed. A process of the current
\* version that dies before it was ever lent counts as a failed start.
DiedUnused(e) == /\ ~closed /\ ~retiring[e] /\ ~busy[e]
                 /\ runs[e] = 0 /\ Current(e)

EntryExits(e) ==
  /\ phase[e] = "watching" /\ proc[e] = "done" /\ LockFree
  /\ DropEntry(e, "exited")
  /\ IF DiedUnused(e)
     THEN backoff' = TRUE /\ FailHead
     ELSE UNCHANGED <<backoff, queue, answer>>
  /\ UNCHANGED <<specVersion, closed, at, cancelled, wake, loopVars, finished>>

\* The process stops by itself: it exits, an MCP server fails, an event
\* overflows, or the holder closes the client.
Crash(e) ==
  /\ proc[e] = "healthy"
  /\ proc' = [proc EXCEPT ![e] = "stopping"]
  /\ UNCHANGED <<specVars, closed, queue, phase, version, busy, retiring, runs,
                 callerVars, wake, loopVars, finished>>

\* Client.reap closes done.
Reap(e) ==
  /\ proc[e] = "stopping"
  /\ proc' = [proc EXCEPT ![e] = "done"]
  /\ UNCHANGED <<specVars, closed, queue, phase, version, busy, retiring, runs,
                 callerVars, wake, loopVars, finished>>

\* The second of back-off after a failure is over.
RetryElapses ==
  /\ backoff
  /\ backoff' = FALSE
  /\ UNCHANGED <<specVersion, closed, queue, slotVars, callerVars,
                 wake, loopVars, finished>>

-----------------------------------------------------------------------------
(* Closing *)

Close ==
  /\ LockFree /\ ~closed
  /\ closed' = TRUE
  /\ answer' = [c \in Callers |-> IF Queued(c) THEN Failed ELSE answer[c]]
  /\ queue' = <<>>
  /\ proc' = [e \in Entries |-> IF HasClient(e) /\ proc[e] = "healthy"
                                THEN "stopping" ELSE proc[e]]
  /\ UNCHANGED <<specVersion, backoff, phase, version, busy, retiring, runs,
                 at, cancelled, wake, loopVars, finished>>

\* <-p.workerDone, p.workers.Wait(), close(p.done)
CloseReturns ==
  /\ closed /\ ~finished
  /\ loop = "exited"
  /\ \A e \in Entries : phase[e] = "none"
  /\ finished' = TRUE
  /\ UNCHANGED <<specVars, closed, queue, slotVars, callerVars, wake, loopVars>>

\* The only place the system may stop.
Terminated == /\ finished
              /\ \A c \in Callers : at[c] = "idle"
              /\ UNCHANGED vars

-----------------------------------------------------------------------------
CallerStep(c) == \/ AcquireLatest(c)
                 \/ \E v \in Versions : Acquire(c, v)
                 \/ CancelContext(c)
                 \/ Receive(c)
                 \/ GiveUpQueued(c)
                 \/ GiveUpAnswered(c)
                 \/ SignalCancelled(c)
                 \/ Release(c)

LoopStep == \/ LoopWakes
            \/ LoopTicks
            \/ LoopExits
            \/ ReconcileBegins
            \/ PurgeWaiter
            \/ PurgeEnds
            \/ \E e \in Entries : \/ RetireEntry(e)
                                  \/ DispatchEntry(e)
                                  \/ SpareEntry(e)
                                  \/ AddEntry(e)
            \/ PlaceEnds
            \/ GrowEnds

SlotStep(e) == \/ StartFails(e)
               \/ StartSucceeds(e)
               \/ SignalEntry(e)
               \/ EntryExits(e)
               \/ Crash(e)
               \/ Reap(e)

Next == \/ \E v \in Versions : UpdateSpec(v)
        \/ \E c \in Callers : CallerStep(c)
        \/ LoopStep
        \/ \E e \in Entries : SlotStep(e)
        \/ RetryElapses
        \/ Close
        \/ CloseReturns
        \/ Terminated

Spec == Init /\ [][Next]_vars

(***************************************************************************)
(* Fairness. Goroutines are scheduled. A critical section that has to wait *)
(* for p.mu is strongly fair, since sync.Mutex hands the lock to a waiter  *)
(* that starves; so is the end of the loop, since select picks among its   *)
(* ready cases at random. Start returns after startupTimeout at the        *)
(* latest, reap ends, the ticker ticks and the back-off is one second. A   *)
(* borrower gives its process back: a run has a time limit. Nothing forces *)
(* a crash, a cancellation, a request, a new configuration or Close.       *)
(***************************************************************************)
SlotProgress(e) == \/ StartFails(e) \/ StartSucceeds(e) \/ SignalEntry(e)
                   \/ EntryExits(e) \/ Reap(e)
CallerProgress(c) == \/ Receive(c) \/ GiveUpQueued(c) \/ GiveUpAnswered(c)
                     \/ SignalCancelled(c) \/ Release(c)

Fairness == /\ WF_vars(LoopStep) /\ SF_vars(LoopExits)
            /\ WF_vars(RetryElapses) /\ WF_vars(CloseReturns)
            /\ \A e \in Entries : SF_vars(SlotProgress(e))
            /\ \A c \in Callers : SF_vars(CallerProgress(c))

FairSpec == Spec /\ Fairness

-----------------------------------------------------------------------------
(* Properties *)

(***************************************************************************)
(* Type correctness.                                                       *)
(***************************************************************************)
TypeOK ==
  /\ specVersion \in Versions \cup {NoVersion}
  /\ closed \in BOOLEAN /\ backoff \in BOOLEAN
  /\ wake \in BOOLEAN /\ finished \in BOOLEAN
  /\ queue \in Seq(Callers)
  /\ phase \in [Entries -> {"none", "starting", "started", "watching",
                            "failed", "exited"}]
  /\ version \in [Entries -> Versions \cup {NoVersion}]
  /\ busy \in [Entries -> BOOLEAN] /\ retiring \in [Entries -> BOOLEAN]
  /\ runs \in [Entries -> 0..MaxRuns]
  /\ proc \in [Entries -> {"none", "healthy", "stopping", "done"}]
  /\ at \in [Callers -> {"idle", "waiting", "returning", "holding",
                         "signalling"}]
  /\ answer \in [Callers -> Entries \cup {None, Failed}]
  /\ cancelled \in [Callers -> BOOLEAN]
  /\ loop \in {"select", "woken", "purge", "place", "grow", "exited"}
  /\ cursor \in Nat \ {0}
  /\ scan \in SUBSET Entries

(***************************************************************************)
(* The slots in use, the starting and the exiting ones among them, never   *)
(* exceed the capacity, also while a new configuration replaces the        *)
(* processes of the old one (comment of Stats).                            *)
(***************************************************************************)
CapacityRespected == Cardinality(Pool) <= Size

(***************************************************************************)
(* One process serves one caller: from the delivery into the result        *)
(* channel until the end of Release nobody else has it, whichever way the  *)
(* caller leaves acquire.                                                  *)
(***************************************************************************)
ExclusiveLease == \A c, d \in Callers :
                    c # d /\ answer[c] \in Entries => answer[c] # answer[d]

(***************************************************************************)
(* No lease leaks: a slot marked busy has a borrower who will give it      *)
(* back, and a borrowed process that is still in the pool is marked busy   *)
(* and not being retired, so that Release will find it.                    *)
(***************************************************************************)
NoLeakedLease ==
  /\ \A e \in Entries : busy[e] => \E c \in Callers : answer[c] = e
  /\ \A c \in Callers : answer[c] \in Entries /\ InPool(answer[c])
                           => busy[answer[c]] /\ ~retiring[answer[c]]

(***************************************************************************)
(* A waiter is in the queue, once, or its answer is in its channel, never  *)
(* both and never neither: each waiter is answered at most once, so no     *)
(* send blocks while p.mu is held, and none is forgotten.                  *)
(***************************************************************************)
QueuedOrAnswered ==
  /\ \A c \in Callers : Queued(c) <=> at[c] = "waiting" /\ answer[c] = None
  /\ \A i, j \in DOMAIN queue : queue[i] = queue[j] => i = j

(***************************************************************************)
(* No wake-up is lost: while an idle slot could serve the head of the      *)
(* queue or is due for replacement, the token is in p.wake, or a goroutine *)
(* still owes a signal, or the loop is about to reconcile or has yet to    *)
(* look at that slot. Only the retry after a failure is left to the ticker *)
(* (comment in loop).                                                      *)
(***************************************************************************)
SignalOwed == \/ \E e \in Entries : phase[e] \in {"failed", "started", "exited"}
              \/ \E c \in Callers : at[c] = "signalling"

NoLostWakeup ==
  \A e \in Entries :
    /\ ~closed /\ Idle(e)
    /\ queue # <<>> \/ version[e] # specVersion \/ runs[e] >= MaxRuns
    => \/ wake \/ SignalOwed
       \/ loop \in {"woken", "purge"}
       \/ loop = "place" /\ e \in scan

-----------------------------------------------------------------------------
(***************************************************************************)
(* The pool implements the abstract dispenser of exclusive leases.         *)
(***************************************************************************)
LeaseOf == [c \in Callers |-> IF answer[c] \in Entries THEN answer[c] ELSE None]

Lease == INSTANCE ProcessLease
           WITH Procs <- Entries, line <- queue, lease <- LeaseOf, live <- Pool
LeaseSpec == Lease!Spec

(***************************************************************************)
(* Every request is answered, provided the configuration and the processes *)
(* eventually leave the pool alone.                                        *)
(***************************************************************************)
Undisturbed == specVersion' = specVersion /\ \A e \in Entries : ~Crash(e)
EveryRequestAnswered ==
  <>[][Undisturbed]_vars => \A c \in Callers : at[c] = "waiting" ~> at[c] # "waiting"

(***************************************************************************)
(* A pool that is closed ends: Close returns even when processes are lent  *)
(* out or starting.                                                        *)
(***************************************************************************)
CloseTerminates == closed ~> finished

=============================================================================
