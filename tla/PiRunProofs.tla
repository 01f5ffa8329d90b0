---------------------------- MODULE PiRunProofs -----------------------------
(***************************************************************************)
(* What the life of a question guarantees for any number of sessions, runs *)
(* and processes, wherever stops, supplements, deadlines, the deaths of pi *)
(* and of the server fall: a lease has a run that releases it, nothing of  *)
(* a run reaches the next borrower, the row tells how the run ended, and a *)
(* live row has its run.                                                   *)
(***************************************************************************)
EXTENDS PiRun, TLAPS

-----------------------------------------------------------------------------
(* The inductive invariant, by what it speaks of.                           *)

Afoot   == {"got", "save", "prepare", "ready", "prompt", "loop", "grace", "wrap"}
Closing == {"store", "clear", "release", "unlock", "leave"}

\* Who has a process, and that the pool agrees.
Leased ==
  /\ \A r \in Runs :
       /\ pc[r] \in {"none", "spec", "queue", "ended"} => client[r] = None
       /\ pc[r] \in Afoot \cup {"clear", "release"} => client[r] # None
       /\ Has(r) /\ pc[r] \notin {"unlock", "leave"} => owner[client[r]] = r
  /\ LeaseHasRun

\* Who holds controlMu.
ControlledAt(r) ==
  /\ control[r] = "run" <=> pc[r] \in {"prompt", "store", "clear", "release", "unlock"}
  /\ control[r] = "stopper" <=> stopper[r] \in {"clearing", "aborting"}
  /\ control[r] = "steerer" <=> steerer[r] = "sending"
  /\ control[r] \in {"stopper", "steerer"} => shown[r] /\ pc[r] # "leave"

Controlled == \A r \in Runs : ControlledAt(r)

\* Who waits for it finds a process that the run still has, or a run that is
\* finished.
ReachedAt(r) ==
  /\ shown[r] => Has(r) /\ pc[r] # "got"
  /\ stopper[r] = "waiting" => shown[r] \/ finished[r]
  /\ stopper[r] # "none" => stop[r] # "" \/ finished[r]
  /\ pc[r] \in Closing \cup {"ended"} => finished[r]
  /\ finished[r] => pc[r] \in Closing \cup {"wrap", "final", "ended"}

Reached == \A r \in Runs : ReachedAt(r)

\* What a living process is busy with: it generates in the event loop of its
\* borrower only, and what it has to tell belongs to that loop.
Quiet ==
  \A p \in Procs : healthy[p] =>
    /\ work[p] # None => work[p] = owner[p] /\ pc[owner[p]] \in {"loop", "grace"}
    /\ event[p] => /\ work[p] = None /\ owner[p] # None
                   /\ pc[owner[p]] \notin {"got", "save", "prepare", "ready", "prompt"}
    /\ steers[p] \subseteq {owner[p]}
    /\ owner[p] # None /\ pc[owner[p]] = "release" => steers[p] = {}

\* A run that is past its loop has a reason for its end.
ReasonedAt(r) ==
  /\ pc[r] \in {"wrap", "final"} => settled[r] \/ runErr[r] \/ stop[r] # ""
  /\ pc[r] = "grace" => stop[r] # ""
  /\ verdict[r] # "" <=> pc[r] \in Closing
  /\ verdict[r] # "" /\ stop[r] # "" /\ r \notin unsaved => verdict[r] = stop[r]
  /\ verdict[r] = "succeeded" => settled[r] /\ ~runErr[r] /\ stop[r] = ""
  /\ pc[r] \in {"clear", "release", "unlock", "leave"} /\ r \notin unsaved
       => row[r] = verdict[r]

Reasoned == \A r \in Runs : ReasonedAt(r)

\* The session of a run that is under way knows it.
SeatedAt(r) ==
  /\ row[r] = "none" <=> pc[r] = "none"
  /\ pc[r] # "none" => session[r] \in Sessions
  /\ pc[r] \notin {"none", "ended"} => active[session[r]] = r /\ server # "closed"
  /\ pc[r] = "ended" => ~Live(r) \/ r \in unsaved

Seated == \A r \in Runs : SeatedAt(r)

IInv == TypeOK /\ Leased /\ Controlled /\ Reached /\ Quiet /\ Reasoned /\ Seated

(* Bookkeeping of the model: what is visible to the provers everywhere.     *)
USE DEF serverVars, dbVars, runVars, stopVars, procVars, Goto, Fails,
        KillProc, Has

\* The types, by what each part of the invariant needs of them.
LeaseTypes == /\ pc \in [Runs -> Stages] /\ client \in [Runs -> Procs \cup {None}]
              /\ owner \in [Procs -> Runs \cup {None}]
ControlTypes ==
  /\ pc \in [Runs -> Stages] /\ shown \in [Runs -> BOOLEAN]
  /\ control \in [Runs -> {"nobody", "run", "stopper", "steerer"}]
  /\ stopper \in [Runs -> {"none", "waiting", "clearing", "aborting"}]
  /\ steerer \in [Runs -> {"none", "waiting", "sending"}]
ReachTypes ==
  /\ pc \in [Runs -> Stages] /\ client \in [Runs -> Procs \cup {None}]
  /\ shown \in [Runs -> BOOLEAN] /\ finished \in [Runs -> BOOLEAN]
  /\ stopper \in [Runs -> {"none", "waiting", "clearing", "aborting"}]
  /\ stop \in [Runs -> {"", "aborted", "timeout", "failed"}]
QuietTypes ==
  /\ LeaseTypes
  /\ healthy \in [Procs -> BOOLEAN] /\ event \in [Procs -> BOOLEAN]
  /\ work \in [Procs -> Runs \cup {None}]
  /\ steers \in [Procs -> SUBSET Runs]
ReasonTypes ==
  /\ pc \in [Runs -> Stages] /\ unsaved \in SUBSET Runs
  /\ row \in [Runs -> {"none", "queued", "running"} \cup Terminal]
  /\ stop \in [Runs -> {"", "aborted", "timeout", "failed"}]
  /\ verdict \in [Runs -> {""} \cup Terminal]
  /\ settled \in [Runs -> BOOLEAN] /\ runErr \in [Runs -> BOOLEAN]
  /\ finished \in [Runs -> BOOLEAN]
SeatTypes ==
  /\ pc \in [Runs -> Stages] /\ unsaved \in SUBSET Runs
  /\ row \in [Runs -> {"none", "queued", "running"} \cup Terminal]
  /\ active \in [Sessions -> Runs \cup {None}]
  /\ session \in [Runs -> Sessions \cup {None}]

LEMMA SmallTypes ==
  TypeOK => /\ LeaseTypes /\ ControlTypes /\ ReachTypes
            /\ QuietTypes /\ ReasonTypes /\ SeatTypes
BY DEF TypeOK, LeaseTypes, ControlTypes, ReachTypes, QuietTypes, ReasonTypes,
       SeatTypes

\* A part of the invariant is touched by a write to one of its variables only.
LEMMA Same ==
  ASSUME IInv
  PROVE  /\ UNCHANGED <<pc, client, owner>> => Leased'
         /\ UNCHANGED <<pc, shown, control, stopper, steerer>> => Controlled'
         /\ UNCHANGED <<pc, client, shown, finished, stop, stopper>> => Reached'
         /\ UNCHANGED <<pc, procVars>> => Quiet'
         /\ UNCHANGED <<pc, row, unsaved, verdict, settled, runErr, stop>> => Reasoned'
         /\ UNCHANGED <<pc, dbVars, active, server>> => Seated'
<1>1. UNCHANGED <<pc, client, owner>> => Leased'
  BY DEF IInv, Leased, LeaseHasRun
<1>2. UNCHANGED <<pc, shown, control, stopper, steerer>> => Controlled'
  BY DEF IInv, Controlled, ControlledAt
<1>3. UNCHANGED <<pc, client, shown, finished, stop, stopper>> => Reached'
  BY DEF IInv, Reached, ReachedAt
<1>4. UNCHANGED <<pc, procVars>> => Quiet'
  BY DEF IInv, Quiet
<1>5. UNCHANGED <<pc, row, unsaved, verdict, settled, runErr, stop>> => Reasoned'
  BY DEF IInv, Reasoned, ReasonedAt
<1>6. UNCHANGED <<pc, dbVars, active, server>> => Seated'
  BY DEF IInv, Seated, SeatedAt, Live
<1> QED BY <1>1, <1>2, <1>3, <1>4, <1>5, <1>6

\* What a stop writes.
StopWrites(r) ==
  /\ stop' \in [Runs -> {"", "aborted", "timeout", "failed"}]
  /\ queueOff' \in [Runs -> BOOLEAN]
  /\ stopper' \in [Runs -> {"none", "waiting", "clearing", "aborting"}]
  /\ \A q \in Runs :
       \/ stop'[q] = stop[q] /\ stopper'[q] = stopper[q]
       \/ /\ Stoppable(q) /\ stop'[q] # ""
          /\ stopper'[q] = stopper[q] \/ (shown[q] /\ stopper'[q] = "waiting")
  /\ ~finished[r] => stop'[r] # ""

LEMMA StopEffect ==
  ASSUME TypeOK, NEW r \in Runs, NEW status \in {"aborted", "timeout", "failed"},
         Stop(r, status)
  PROVE  StopWrites(r)
<1>1. /\ stop \in [Runs -> {"", "aborted", "timeout", "failed"}]
      /\ queueOff \in [Runs -> BOOLEAN]
      /\ stopper \in [Runs -> {"none", "waiting", "clearing", "aborting"}]
  BY DEF TypeOK
<1>2. CASE Stoppable(r) /\ shown[r]
  <2>1. /\ stop' = [stop EXCEPT ![r] = status] /\ queueOff' = queueOff
        /\ stopper' = [stopper EXCEPT ![r] = "waiting"]
    BY <1>2 DEF Stop
  <2> QED BY <1>1, <1>2, <2>1 DEF StopWrites
<1>3. CASE Stoppable(r) /\ ~shown[r]
  <2>1. /\ stop' = [stop EXCEPT ![r] = status] /\ stopper' = stopper
        /\ queueOff' = [queueOff EXCEPT ![r] = TRUE]
    BY <1>3 DEF Stop
  <2> QED BY <1>1, <1>3, <2>1 DEF StopWrites
<1>4. CASE ~Stoppable(r)
  <2>1. stop' = stop /\ queueOff' = queueOff /\ stopper' = stopper
    BY <1>4 DEF Stop
  <2>2. finished[r] \/ stop[r] # ""
    BY <1>4 DEF Stoppable
  <2> QED BY <1>1, <2>1, <2>2 DEF StopWrites
<1> QED BY <1>2, <1>3, <1>4

\* It comes to a run that has no verdict yet, and whose stopper has not begun.
LEMMA StopInTime ==
  ASSUME Reached, Reasoned, NEW r \in Runs, StopWrites(r) \/ UNCHANGED stopVars
  PROVE  /\ \A q \in Runs : \/ stopper'[q] = stopper[q]
                            \/ stopper[q] = "none" /\ stopper'[q] = "waiting"
         /\ \A q \in Runs : \/ stop'[q] = stop[q]
                            \/ verdict[q] = "" /\ stop'[q] # ""
<1>1. ASSUME NEW q \in Runs, Stoppable(q)
      PROVE  verdict[q] = "" /\ stopper[q] = "none"
  <2>1. ~finished[q] /\ stop[q] = "" /\ ReachedAt(q) /\ ReasonedAt(q)
    BY <1>1 DEF Stoppable, Reached, Reasoned
  <2> QED BY <2>1 DEF ReachedAt, ReasonedAt
<1> QED BY <1>1 DEF StopWrites

USE NoneAssumption

LEMMA InitIInv == Init => IInv
<1> SUFFICES ASSUME Init PROVE IInv
  OBVIOUS
<1>1. TypeOK
  <2>1. restarts \in 0..MaxRestarts
    <3>1. restarts = 0
      BY DEF Init
    <3> QED BY <3>1, BoundsAssumption
  <2>2. /\ active \in [Sessions -> Runs \cup {None}] /\ unsaved \in SUBSET Runs
        /\ row \in [Runs -> {"none", "queued", "running"} \cup Terminal]
        /\ session \in [Runs -> Sessions \cup {None}]
        /\ client \in [Runs -> Procs \cup {None}] /\ pc \in [Runs -> Stages]
        /\ verdict \in [Runs -> {""} \cup Terminal]
    BY DEF Init, Stages
  <2>3. /\ owner \in [Procs -> Runs \cup {None}] /\ healthy \in [Procs -> BOOLEAN]
        /\ work \in [Procs -> Runs \cup {None}] /\ steers \in [Procs -> SUBSET Runs]
        /\ event \in [Procs -> BOOLEAN]
    BY DEF Init
  <2> QED BY <2>1, <2>2, <2>3 DEF Init, TypeOK
<1>2. Leased /\ Controlled
  BY DEF Init, Leased, LeaseHasRun, Afoot, Controlled, ControlledAt
<1>3. Reached /\ Quiet
  BY DEF Init, Reached, ReachedAt, Closing, Quiet
<1>4. Reasoned /\ Seated
  BY DEF Init, Reasoned, ReasonedAt, Closing, Seated, SeatedAt, Live
<1> QED BY <1>1, <1>2, <1>3, <1>4 DEF IInv

-----------------------------------------------------------------------------
(* Requests *)

LEMMA PostKeeps ==
  ASSUME IInv, NEW s \in Sessions, NEW r \in Runs, Post(s, r)
  PROVE  IInv'
<1>1. TypeOK'
  BY DEF IInv, TypeOK, Terminal, Stages, Post
<1>2. Leased'
  <2>1. LeaseTypes /\ Leased
    BY SmallTypes DEF IInv
  <2>2. pc[r] = "none" /\ pc' = [pc EXCEPT ![r] = "spec"]
    BY DEF IInv, Seated, SeatedAt, Post
  <2>3. UNCHANGED <<client, owner>>
    BY DEF Post
  <2> QED BY <2>1, <2>2, <2>3 DEF LeaseTypes, Leased, LeaseHasRun, Afoot
<1>3. Controlled'
  <2>1. ControlTypes /\ Controlled
    BY SmallTypes DEF IInv
  <2>2. pc[r] = "none" /\ pc' = [pc EXCEPT ![r] = "spec"]
    BY DEF IInv, Seated, SeatedAt, Post
  <2>3. UNCHANGED <<shown, control, stopper, steerer>>
    BY DEF Post
  <2> QED BY <2>1, <2>2, <2>3 DEF ControlTypes, Controlled, ControlledAt
<1>4. Reached'
  <2>1. ReachTypes /\ Reached
    BY SmallTypes DEF IInv
  <2>2. pc[r] = "none" /\ pc' = [pc EXCEPT ![r] = "spec"]
    BY DEF IInv, Seated, SeatedAt, Post
  <2>3. UNCHANGED <<client, shown, finished, stop, stopper>>
    BY DEF Post
  <2> QED BY <2>1, <2>2, <2>3 DEF ReachTypes, Reached, ReachedAt, Closing
<1>5. Quiet'
  <2>1. QuietTypes /\ Quiet /\ LeaseTypes /\ Leased
    BY SmallTypes DEF IInv
  <2>2. pc[r] = "none" /\ pc' = [pc EXCEPT ![r] = "spec"]
    BY DEF IInv, Seated, SeatedAt, Post
  <2>3. UNCHANGED <<client, procVars>>
    BY DEF Post
  <2> QED BY <2>1, <2>2, <2>3 DEF QuietTypes, Quiet, LeaseTypes, Leased,
      LeaseHasRun
<1>6. Reasoned'
  <2>1. ReasonTypes /\ Reasoned
    BY SmallTypes DEF IInv
  <2>2. pc[r] = "none" /\ pc' = [pc EXCEPT ![r] = "spec"]
    BY DEF IInv, Seated, SeatedAt, Post
  <2>3. /\ UNCHANGED <<unsaved, verdict, settled, runErr, stop, finished>>
        /\ row' = [row EXCEPT ![r] = "queued"]
    BY DEF Post
  <2> QED BY <2>1, <2>2, <2>3 DEF ReasonTypes, Reasoned, ReasonedAt, Closing
<1>7. Seated'
  <2>1. SeatTypes /\ Seated
    BY SmallTypes DEF IInv
  <2> QED BY <2>1 DEF SeatTypes, Seated, SeatedAt, Live, Post
<1> QED BY <1>1, <1>2, <1>3, <1>4, <1>5, <1>6, <1>7 DEF IInv

LEMMA DisconnectKeeps ==
  ASSUME IInv, NEW r \in Runs, Disconnect(r)
  PROVE  IInv'
<1>1. TypeOK'
  BY DEF IInv, TypeOK, Disconnect
<1>2. Leased' /\ Controlled' /\ Reached' /\ Quiet' /\ Reasoned' /\ Seated'
  BY Same DEF Disconnect
<1> QED BY <1>1, <1>2 DEF IInv

LEMMA AbortKeeps ==
  ASSUME IInv, NEW r \in Runs, Abort(r)
  PROVE  IInv'
<1>1. TypeOK'
  <2>1. TypeOK /\ StopWrites(r)
    BY StopEffect DEF IInv, Abort
  <2> QED BY <2>1 DEF TypeOK, StopWrites, Abort
<1>2. Controlled'
  <2>1. TypeOK /\ ControlTypes /\ Controlled /\ Reached /\ Reasoned
    BY SmallTypes DEF IInv
  <2>2. UNCHANGED <<pc, shown, control, steerer>>
    BY DEF Abort
  <2>3. \A q \in Runs : \/ stopper'[q] = stopper[q]
                        \/ stopper[q] = "none" /\ stopper'[q] = "waiting"
    <3>1. StopWrites(r) \/ UNCHANGED stopVars
      BY <2>1, StopEffect DEF Abort
    <3> QED BY <2>1, <3>1, StopInTime
  <2> QED BY <2>1, <2>2, <2>3 DEF ControlTypes, Controlled, ControlledAt
<1>3. Reached'
  <2>1. TypeOK /\ ReachTypes /\ Reached
    BY SmallTypes DEF IInv
  <2>2. UNCHANGED <<pc, client, shown, finished>>
    BY DEF Abort
  <2>3. \A q \in Runs :
          \/ stop'[q] = stop[q] /\ stopper'[q] = stopper[q]
          \/ /\ stop'[q] # ""
             /\ stopper'[q] = stopper[q] \/ (shown[q] /\ stopper'[q] = "waiting")
    BY <2>1, StopEffect DEF Abort, StopWrites
  <2> QED BY <2>1, <2>2, <2>3 DEF ReachTypes, Reached, ReachedAt, Closing
<1>4. Reasoned'
  <2>1. TypeOK /\ ReasonTypes /\ Reasoned /\ Reached
    BY SmallTypes DEF IInv
  <2>2. UNCHANGED <<pc, row, unsaved, verdict, settled, runErr, finished>>
    BY DEF Abort
  <2>3. \A q \in Runs : \/ stop'[q] = stop[q]
                        \/ verdict[q] = "" /\ stop'[q] # ""
    <3>1. StopWrites(r) \/ UNCHANGED stopVars
      BY <2>1, StopEffect DEF Abort
    <3> QED BY <2>1, <3>1, StopInTime
  <2> QED BY <2>1, <2>2, <2>3 DEF ReasonTypes, Reasoned, ReasonedAt
<1>5. Leased' /\ Quiet' /\ Seated'
  BY Same DEF Abort
<1> QED BY <1>1, <1>2, <1>3, <1>4, <1>5 DEF IInv

LEMMA SteerKeeps ==
  ASSUME IInv, NEW r \in Runs, Steer(r)
  PROVE  IInv'
<1>1. TypeOK'
  BY DEF IInv, TypeOK, Steer
<1>2. Controlled'
  <2>1. ControlTypes /\ Controlled
    BY SmallTypes DEF IInv
  <2> QED BY <2>1 DEF ControlTypes, Controlled, ControlledAt, Steer
<1>3. Leased' /\ Reached' /\ Quiet' /\ Reasoned' /\ Seated'
  BY Same DEF Steer
<1> QED BY <1>1, <1>2, <1>3 DEF IInv

LEMMA SteerLocksKeeps ==
  ASSUME IInv, NEW r \in Runs, SteerLocks(r)
  PROVE  IInv'
<1>1. TypeOK'
  <2>1. TypeOK
    BY DEF IInv
  <2>2. /\ steerer' \in [Runs -> {"none", "waiting", "sending"}]
        /\ control' \in [Runs -> {"nobody", "run", "stopper", "steerer"}]
    BY ZenonT(40), <2>1 DEF TypeOK, SteerLocks
  <2> QED BY <2>1, <2>2 DEF TypeOK, SteerLocks
<1>2. Controlled'
  <2>1. ControlTypes /\ Controlled
    BY SmallTypes DEF IInv
  <2>2. /\ steerer[r] = "waiting" /\ control[r] = "nobody"
        /\ UNCHANGED <<pc, shown, stopper>>
    BY DEF SteerLocks
  <2>3. CASE Steerable(r)
    <3>1. shown[r] /\ pc[r] # "leave"
      BY <2>3 DEF IInv, Reached, ReachedAt, Closing, Steerable
    <3>2. /\ steerer' = [steerer EXCEPT ![r] = "sending"]
          /\ control' = [control EXCEPT ![r] = "steerer"]
      BY <2>3 DEF SteerLocks
    <3> QED BY <2>1, <2>2, <3>1, <3>2 DEF ControlTypes, Controlled, ControlledAt
  <2>4. CASE ~Steerable(r)
    <3>1. steerer' = [steerer EXCEPT ![r] = "none"] /\ UNCHANGED control
      BY <2>4 DEF SteerLocks
    <3> QED BY <2>1, <2>2, <3>1 DEF ControlTypes, Controlled, ControlledAt
  <2> QED BY <2>3, <2>4
<1>3. Leased' /\ Reached' /\ Quiet' /\ Reasoned' /\ Seated'
  BY Same DEF SteerLocks
<1> QED BY <1>1, <1>2, <1>3 DEF IInv

LEMMA SteerSendsKeeps ==
  ASSUME IInv, NEW r \in Runs, SteerSends(r)
  PROVE  IInv'
<1>1. TypeOK'
  <2>1. TypeOK
    BY DEF IInv
  <2>2. /\ steerer' \in [Runs -> {"none", "waiting", "sending"}]
        /\ control' \in [Runs -> {"nobody", "run", "stopper", "steerer"}]
    BY <2>1 DEF TypeOK, SteerSends
  <2>3. steers' \in [Procs -> SUBSET Runs]
    <3>1. steers \in [Procs -> SUBSET Runs]
      BY <2>1 DEF TypeOK
    <3>2. steers' = steers \/ steers' = [steers EXCEPT ![client[r]] = @ \cup {r}]
      BY DEF SteerSends
    <3> QED BY <3>1, <3>2
  <2> QED BY <2>1, <2>2, <2>3 DEF TypeOK, SteerSends
<1>2. Controlled'
  <2>1. ControlTypes /\ Controlled
    BY SmallTypes DEF IInv
  <2> QED BY <2>1 DEF ControlTypes, Controlled, ControlledAt, SteerSends
<1>3. Quiet'
  <2>1. QuietTypes /\ Quiet
    BY SmallTypes DEF IInv
  <2>2. /\ client[r] \in Procs /\ owner[client[r]] = r
        /\ pc[r] # "release"
    BY ZenonT(40), SmallTypes DEF IInv, SteerSends, Controlled, ControlledAt, Reached,
        ReachedAt,
        Closing, Leased, LeaseTypes
  <2>3. /\ UNCHANGED <<pc, owner, healthy, work, event>>
        /\ steers' = steers \/ steers' = [steers EXCEPT ![client[r]] = @ \cup {r}]
    BY DEF SteerSends
  <2> QED BY <2>1, <2>2, <2>3 DEF QuietTypes, Quiet, LeaseTypes
<1>4. Leased' /\ Reached' /\ Reasoned' /\ Seated'
  BY Same DEF SteerSends
<1> QED BY <1>1, <1>2, <1>3, <1>4 DEF IInv

-----------------------------------------------------------------------------
(* The goroutine that a stop starts *)

LEMMA StopperLocksKeeps ==
  ASSUME IInv, NEW r \in Runs, StopperLocks(r)
  PROVE  IInv'
<1>1. TypeOK'
  <2>1. TypeOK
    BY DEF IInv
  <2>2. /\ stopper' \in [Runs -> {"none", "waiting", "clearing", "aborting"}]
        /\ control' \in [Runs -> {"nobody", "run", "stopper", "steerer"}]
    BY ZenonT(40), <2>1 DEF TypeOK, StopperLocks
  <2> QED BY <2>1, <2>2 DEF TypeOK, StopperLocks
<1>2. Controlled'
  <2>1. ControlTypes /\ Controlled
    BY SmallTypes DEF IInv
  <2>2. /\ stopper[r] = "waiting" /\ control[r] = "nobody"
        /\ UNCHANGED <<pc, shown, steerer>>
    BY DEF StopperLocks
  <2>3. CASE StillRunning(r)
    <3>1. shown[r] /\ pc[r] # "leave"
      BY <2>2, <2>3 DEF IInv, Reached, ReachedAt, Closing, StillRunning
    <3>2. /\ stopper' = [stopper EXCEPT ![r] = "clearing"]
          /\ control' = [control EXCEPT ![r] = "stopper"]
      BY <2>3 DEF StopperLocks
    <3> QED BY <2>1, <2>2, <3>1, <3>2 DEF ControlTypes, Controlled, ControlledAt
  <2>4. CASE ~StillRunning(r)
    <3>1. stopper' = [stopper EXCEPT ![r] = "none"] /\ UNCHANGED control
      BY <2>4 DEF StopperLocks
    <3> QED BY <2>1, <2>2, <3>1 DEF ControlTypes, Controlled, ControlledAt
  <2> QED BY <2>3, <2>4
<1>3. Reached'
  <2>1. ReachTypes /\ Reached
    BY SmallTypes DEF IInv
  <2> QED BY ZenonT(40), <2>1 DEF ReachTypes, Reached, ReachedAt, Closing, StopperLocks,
      StillRunning
<1>4. Leased' /\ Quiet' /\ Reasoned' /\ Seated'
  BY Same DEF StopperLocks
<1> QED BY <1>1, <1>2, <1>3, <1>4 DEF IInv

LEMMA StopperClearsKeeps ==
  ASSUME IInv, NEW r \in Runs, StopperClears(r)
  PROVE  IInv'
<1>1. TypeOK'
  BY DEF IInv, TypeOK, StopperClears
<1>2. Controlled'
  <2>1. ControlTypes /\ Controlled
    BY SmallTypes DEF IInv
  <2> QED BY <2>1 DEF ControlTypes, Controlled, ControlledAt, StopperClears
<1>3. Reached'
  <2>1. ReachTypes /\ Reached
    BY SmallTypes DEF IInv
  <2> QED BY <2>1 DEF ReachTypes, Reached, ReachedAt, Closing, StopperClears
<1>4. Quiet'
  <2>1. QuietTypes /\ Quiet /\ Leased
    BY SmallTypes DEF IInv
  <2> QED BY <2>1 DEF QuietTypes, Quiet, Leased, LeaseTypes, LeaseHasRun, Afoot,
      StopperClears
<1>5. Leased' /\ Reasoned' /\ Seated'
  BY Same DEF StopperClears
<1> QED BY <1>1, <1>2, <1>3, <1>4, <1>5 DEF IInv

LEMMA StopperAbortsKeeps ==
  ASSUME IInv, NEW r \in Runs, StopperAborts(r)
  PROVE  IInv'
<1>1. TypeOK'
  BY DEF IInv, TypeOK, StopperAborts
<1>2. Controlled'
  <2>1. ControlTypes /\ Controlled
    BY SmallTypes DEF IInv
  <2> QED BY <2>1 DEF ControlTypes, Controlled, ControlledAt, StopperAborts
<1>3. Reached'
  <2>1. ReachTypes /\ Reached
    BY SmallTypes DEF IInv
  <2> QED BY <2>1 DEF ReachTypes, Reached, ReachedAt, Closing, StopperAborts
<1>4. Quiet'
  <2>1. QuietTypes /\ Quiet /\ Leased
    BY SmallTypes DEF IInv
  <2> QED BY <2>1 DEF QuietTypes, Quiet, Leased, LeaseTypes, LeaseHasRun, Afoot,
      StopperAborts
<1>5. Leased' /\ Reasoned' /\ Seated'
  BY Same DEF StopperAborts
<1> QED BY <1>1, <1>2, <1>3, <1>4, <1>5 DEF IInv

-----------------------------------------------------------------------------
(* The run, up to the prompt *)

LEMMA ReadsSpecKeeps ==
  ASSUME IInv, NEW r \in Runs, ReadsSpec(r)
  PROVE  IInv'
<1>1. TypeOK'
  <2>1. pc \in [Runs -> Stages] /\ runErr \in [Runs -> BOOLEAN] /\ TypeOK
    BY DEF IInv, TypeOK
  <2>2. pc' \in [Runs -> Stages] /\ runErr' \in [Runs -> BOOLEAN]
    BY <2>1 DEF ReadsSpec, Stages
  <2> QED BY <2>1, <2>2 DEF TypeOK, ReadsSpec
<1>2. Leased'
  <2>1. LeaseTypes /\ Leased
    BY SmallTypes DEF IInv
  <2> QED BY <2>1 DEF LeaseTypes, Leased, LeaseHasRun, Afoot, ReadsSpec
<1>3. Controlled'
  <2>1. ControlTypes /\ Controlled
    BY SmallTypes DEF IInv
  <2> QED BY <2>1 DEF ControlTypes, Controlled, ControlledAt, ReadsSpec
<1>4. Reached'
  <2>1. ReachTypes /\ Reached
    BY SmallTypes DEF IInv
  <2> QED BY ZenonT(40), <2>1 DEF ReachTypes, Reached, ReachedAt, Closing, ReadsSpec
<1>5. Quiet'
  <2>1. QuietTypes /\ Quiet /\ Leased
    BY SmallTypes DEF IInv
  <2> QED BY <2>1 DEF QuietTypes, Quiet, Leased, LeaseTypes, LeaseHasRun, Afoot,
      ReadsSpec
<1>6. Reasoned'
  <2>1. ReasonTypes /\ Reasoned
    BY SmallTypes DEF IInv
  <2>2. /\ pc[r] = "spec"
        /\ UNCHANGED <<row, unsaved, verdict, settled, stop, finished>>
        /\ \/ pc' = [pc EXCEPT ![r] = "queue"] /\ UNCHANGED runErr
           \/ /\ pc' = [pc EXCEPT ![r] = "final"]
              /\ runErr' = [runErr EXCEPT ![r] = TRUE]
    BY DEF ReadsSpec
  <2>3. CASE pc' = [pc EXCEPT ![r] = "queue"] /\ UNCHANGED runErr
    BY <2>1, <2>2, <2>3 DEF ReasonTypes, Reasoned, ReasonedAt, Closing
  <2>4. CASE pc' = [pc EXCEPT ![r] = "final"] /\ runErr' = [runErr EXCEPT ![r] = TRUE]
    BY <2>1, <2>2, <2>4 DEF ReasonTypes, Reasoned, ReasonedAt, Closing
  <2> QED BY <2>2, <2>3, <2>4
<1>7. Seated'
  <2>1. SeatTypes /\ Seated
    BY SmallTypes DEF IInv
  <2> QED BY <2>1 DEF SeatTypes, Seated, SeatedAt, Live, ReadsSpec
<1> QED BY <1>1, <1>2, <1>3, <1>4, <1>5, <1>6, <1>7 DEF IInv

LEMMA AcquireGetsKeeps ==
  ASSUME IInv, NEW r \in Runs, NEW p \in Procs, AcquireGets(r, p)
  PROVE  IInv'
<1>1. TypeOK'
  BY DEF IInv, TypeOK, Stages, AcquireGets
<1>2. Leased'
  <2>1. LeaseTypes /\ Leased
    BY SmallTypes DEF IInv
  <2> QED BY <2>1 DEF LeaseTypes, Leased, LeaseHasRun, Afoot, AcquireGets
<1>3. Controlled'
  <2>1. ControlTypes /\ Controlled
    BY SmallTypes DEF IInv
  <2> QED BY <2>1 DEF ControlTypes, Controlled, ControlledAt, AcquireGets
<1>4. Reached'
  <2>1. ReachTypes /\ Reached /\ Leased
    BY SmallTypes DEF IInv
  <2> QED BY ZenonT(40), <2>1 DEF ReachTypes, Reached, Leased, ReachedAt, Closing,
      AcquireGets
<1>5. Quiet'
  <2>1. QuietTypes /\ Quiet /\ Leased
    BY SmallTypes DEF IInv
  <2> QED BY <2>1 DEF QuietTypes, Quiet, Leased, LeaseTypes, LeaseHasRun, Afoot,
      AcquireGets
<1>6. Reasoned'
  <2>1. ReasonTypes /\ Reasoned
    BY SmallTypes DEF IInv
  <2> QED BY <2>1 DEF ReasonTypes, Reasoned, ReasonedAt, Closing, Terminal,
      AcquireGets
<1>7. Seated'
  <2>1. SeatTypes /\ Seated
    BY SmallTypes DEF IInv
  <2> QED BY <2>1 DEF SeatTypes, Seated, SeatedAt, Live, AcquireGets
<1> QED BY <1>1, <1>2, <1>3, <1>4, <1>5, <1>6, <1>7 DEF IInv

LEMMA AcquireFailsKeeps ==
  ASSUME IInv, NEW r \in Runs, AcquireFails(r)
  PROVE  IInv'
<1>1. TypeOK'
  <2>1. TypeOK /\ pc' \in [Runs -> Stages]
    BY DEF IInv, TypeOK, AcquireFails, Stages
  <2>2. CASE queueOff[r]
    <3>1. StopWrites(r) /\ UNCHANGED runErr
      BY <2>1, <2>2, StopEffect DEF AcquireFails
    <3> QED BY <2>1, <3>1 DEF TypeOK, StopWrites, AcquireFails
  <2>3. CASE ~queueOff[r]
    BY ZenonT(40), <2>1, <2>3 DEF TypeOK, AcquireFails
  <2> QED BY <2>2, <2>3
<1>2. Leased'
  <2>1. LeaseTypes /\ Leased
    BY SmallTypes DEF IInv
  <2>2. /\ pc[r] = "queue" /\ pc' = [pc EXCEPT ![r] = "final"]
        /\ UNCHANGED <<client, owner>>
    BY DEF AcquireFails
  <2> QED BY <2>1, <2>2 DEF LeaseTypes, Leased, LeaseHasRun, Afoot
<1>3. Controlled'
  <2>1. TypeOK /\ ControlTypes /\ Controlled /\ Reached /\ Reasoned
    BY SmallTypes DEF IInv
  <2>2. /\ pc[r] = "queue" /\ pc' = [pc EXCEPT ![r] = "final"]
        /\ UNCHANGED <<shown, control, steerer>>
    BY DEF AcquireFails
  <2>3. \A q \in Runs : \/ stopper'[q] = stopper[q]
                        \/ stopper[q] = "none" /\ stopper'[q] = "waiting"
    <3>1. StopWrites(r) \/ UNCHANGED stopVars
      BY <2>1, StopEffect DEF AcquireFails
    <3> QED BY <2>1, <3>1, StopInTime
  <2> QED BY <2>1, <2>2, <2>3 DEF ControlTypes, Controlled, ControlledAt
<1>4. Reached'
  <2>1. TypeOK /\ ReachTypes /\ Reached
    BY SmallTypes DEF IInv
  <2>2. /\ pc[r] = "queue" /\ pc' = [pc EXCEPT ![r] = "final"]
        /\ UNCHANGED <<client, shown, finished>>
    BY DEF AcquireFails
  <2>3. \A q \in Runs :
          \/ stop'[q] = stop[q] /\ stopper'[q] = stopper[q]
          \/ /\ stop'[q] # ""
             /\ stopper'[q] = stopper[q] \/ (shown[q] /\ stopper'[q] = "waiting")
    BY <2>1, StopEffect DEF AcquireFails, StopWrites
  <2> QED BY ZenonT(40), <2>1, <2>2, <2>3 DEF ReachTypes, Reached, ReachedAt, Closing
<1>5. Quiet'
  <2>1. QuietTypes /\ Quiet /\ Leased
    BY SmallTypes DEF IInv
  <2>2. /\ pc[r] = "queue" /\ pc' = [pc EXCEPT ![r] = "final"]
        /\ UNCHANGED <<client, procVars>>
    BY DEF AcquireFails
  <2> QED BY <2>1, <2>2 DEF QuietTypes, Quiet, Leased, LeaseTypes, LeaseHasRun
<1>6. Reasoned'
  <2>1. TypeOK /\ ReasonTypes /\ Reasoned /\ Reached
    BY SmallTypes DEF IInv
  <2>2. /\ pc[r] = "queue" /\ pc' = [pc EXCEPT ![r] = "final"]
        /\ UNCHANGED <<row, unsaved, verdict, settled, finished>>
    BY DEF AcquireFails
  <2>3. \A q \in Runs : \/ stop'[q] = stop[q]
                        \/ verdict[q] = "" /\ stop'[q] # ""
    <3>1. StopWrites(r) \/ UNCHANGED stopVars
      BY <2>1, StopEffect DEF AcquireFails
    <3> QED BY <2>1, <3>1, StopInTime
  <2>4. ~finished[r]
    BY <2>1, <2>2 DEF Reached, ReachedAt, Closing
  <2>5. \/ runErr' = runErr /\ stop'[r] # ""
        \/ runErr' = [runErr EXCEPT ![r] = TRUE]
    BY <2>1, <2>4, StopEffect DEF AcquireFails, StopWrites
  <2> QED BY ZenonT(40), <2>1, <2>2, <2>3, <2>5 DEF ReasonTypes, Reasoned, ReasonedAt,
      Closing
<1>7. Seated'
  <2>1. SeatTypes /\ Seated
    BY SmallTypes DEF IInv
  <2> QED BY <2>1 DEF SeatTypes, Seated, SeatedAt, Live, AcquireFails, Stop,
      Stoppable
<1> QED BY <1>1, <1>2, <1>3, <1>4, <1>5, <1>6, <1>7 DEF IInv

LEMMA ShowsClientKeeps ==
  ASSUME IInv, NEW r \in Runs, ShowsClient(r)
  PROVE  IInv'
<1>1. TypeOK'
  BY DEF IInv, TypeOK, Stages, ShowsClient
<1>2. Leased'
  <2>1. LeaseTypes /\ Leased
    BY SmallTypes DEF IInv
  <2>2. /\ pc[r] = "got" /\ UNCHANGED <<client, owner>>
        /\ \E where \in {"final", "save"} : pc' = [pc EXCEPT ![r] = where]
    BY DEF ShowsClient
  <2> QED BY <2>1, <2>2 DEF LeaseTypes, Leased, LeaseHasRun, Afoot
<1>3. Controlled'
  <2>1. ControlTypes /\ Controlled
    BY SmallTypes DEF IInv
  <2>2. /\ pc[r] = "got" /\ shown' = [shown EXCEPT ![r] = TRUE]
        /\ UNCHANGED <<control, stopper, steerer>>
        /\ \E where \in {"final", "save"} : pc' = [pc EXCEPT ![r] = where]
    BY DEF ShowsClient
  <2> QED BY <2>1, <2>2 DEF ControlTypes, Controlled, ControlledAt
<1>4. Reached'
  <2>1. ReachTypes /\ Reached
    BY SmallTypes DEF IInv
  <2>2. /\ pc[r] = "got" /\ shown' = [shown EXCEPT ![r] = TRUE]
        /\ UNCHANGED <<client, finished, stop, stopper>>
        /\ \E where \in {"final", "save"} : pc' = [pc EXCEPT ![r] = where]
    BY DEF ShowsClient
  <2>3. Has(r)
    BY <2>2 DEF IInv, Leased, Afoot
  <2> QED BY ZenonT(40), <2>1, <2>2, <2>3 DEF ReachTypes, Reached, ReachedAt, Closing
<1>5. Quiet'
  <2>1. QuietTypes /\ Quiet /\ Leased
    BY SmallTypes DEF IInv
  <2>2. /\ pc[r] = "got" /\ UNCHANGED <<client, procVars>>
        /\ \E where \in {"final", "save"} : pc' = [pc EXCEPT ![r] = where]
    BY DEF ShowsClient
  <2> QED BY <2>1, <2>2 DEF QuietTypes, Quiet, Leased, LeaseTypes, LeaseHasRun
<1>6. Reasoned'
  <2>1. ReasonTypes /\ Reasoned
    BY SmallTypes DEF IInv
  <2> QED BY <2>1 DEF ReasonTypes, Reasoned, ReasonedAt, Closing, Terminal,
      ShowsClient
<1>7. Seated'
  <2>1. SeatTypes /\ Seated
    BY SmallTypes DEF IInv
  <2> QED BY <2>1 DEF SeatTypes, Seated, SeatedAt, Live, ShowsClient
<1> QED BY <1>1, <1>2, <1>3, <1>4, <1>5, <1>6, <1>7 DEF IInv

LEMMA SavesRunningKeeps ==
  ASSUME IInv, NEW r \in Runs, SavesRunning(r)
  PROVE  IInv'
<1>1. TypeOK'
  <2>1. /\ pc \in [Runs -> Stages] /\ runErr \in [Runs -> BOOLEAN]
        /\ row \in [Runs -> {"none", "queued", "running"} \cup Terminal] /\ TypeOK
    BY DEF IInv, TypeOK
  <2>2. /\ pc' \in [Runs -> Stages] /\ runErr' \in [Runs -> BOOLEAN]
        /\ row' \in [Runs -> {"none", "queued", "running"} \cup Terminal]
    BY <2>1 DEF SavesRunning, Stages
  <2> QED BY <2>1, <2>2 DEF TypeOK, SavesRunning
<1>2. Leased'
  <2>1. LeaseTypes /\ Leased
    BY SmallTypes DEF IInv
  <2> QED BY <2>1 DEF LeaseTypes, Leased, LeaseHasRun, Afoot, SavesRunning
<1>3. Controlled'
  <2>1. ControlTypes /\ Controlled
    BY SmallTypes DEF IInv
  <2> QED BY <2>1 DEF ControlTypes, Controlled, ControlledAt, SavesRunning
<1>4. Reached'
  <2>1. ReachTypes /\ Reached
    BY SmallTypes DEF IInv
  <2> QED BY ZenonT(40), <2>1 DEF ReachTypes, Reached, ReachedAt, Closing, SavesRunning
<1>5. Quiet'
  <2>1. QuietTypes /\ Quiet /\ Leased
    BY SmallTypes DEF IInv
  <2> QED BY <2>1 DEF QuietTypes, Quiet, Leased, LeaseTypes, LeaseHasRun, Afoot,
      SavesRunning
<1>6. Reasoned'
  <2>1. ReasonTypes /\ Reasoned
    BY SmallTypes DEF IInv
  <2>2. /\ pc[r] = "save" /\ UNCHANGED <<unsaved, verdict, settled, stop, finished>>
        /\ \/ /\ pc' = [pc EXCEPT ![r] = "prepare"] /\ UNCHANGED runErr
              /\ row' = [row EXCEPT ![r] = "running"]
           \/ /\ pc' = [pc EXCEPT ![r] = "final"] /\ UNCHANGED row
              /\ runErr' = [runErr EXCEPT ![r] = TRUE]
    BY DEF SavesRunning
  <2>3. CASE /\ pc' = [pc EXCEPT ![r] = "prepare"] /\ UNCHANGED runErr
             /\ row' = [row EXCEPT ![r] = "running"]
    BY <2>1, <2>2, <2>3 DEF ReasonTypes, Reasoned, ReasonedAt, Closing
  <2>4. CASE /\ pc' = [pc EXCEPT ![r] = "final"] /\ UNCHANGED row
             /\ runErr' = [runErr EXCEPT ![r] = TRUE]
    BY <2>1, <2>2, <2>4 DEF ReasonTypes, Reasoned, ReasonedAt, Closing
  <2> QED BY <2>2, <2>3, <2>4
<1>7. Seated'
  <2>1. SeatTypes /\ Seated
    BY SmallTypes DEF IInv
  <2> QED BY <2>1 DEF SeatTypes, Seated, SeatedAt, Live, SavesRunning
<1> QED BY <1>1, <1>2, <1>3, <1>4, <1>5, <1>6, <1>7 DEF IInv

LEMMA PreparesKeeps ==
  ASSUME IInv, NEW r \in Runs, Prepares(r)
  PROVE  IInv'
<1>1. TypeOK'
  <2>1. /\ pc \in [Runs -> Stages] /\ ready \in [Runs -> BOOLEAN]
        /\ runErr \in [Runs -> BOOLEAN] /\ TypeOK
    BY DEF IInv, TypeOK
  <2>2. /\ pc' \in [Runs -> Stages] /\ ready' \in [Runs -> BOOLEAN]
        /\ runErr' \in [Runs -> BOOLEAN]
    BY <2>1 DEF Prepares, Stages
  <2> QED BY <2>1, <2>2 DEF TypeOK, Prepares
<1>2. Leased'
  <2>1. LeaseTypes /\ Leased
    BY SmallTypes DEF IInv
  <2> QED BY <2>1 DEF LeaseTypes, Leased, LeaseHasRun, Afoot, Prepares, Alive
<1>3. Controlled'
  <2>1. ControlTypes /\ Controlled
    BY SmallTypes DEF IInv
  <2> QED BY <2>1 DEF ControlTypes, Controlled, ControlledAt, Prepares, Alive
<1>4. Reached'
  <2>1. ReachTypes /\ Reached
    BY SmallTypes DEF IInv
  <2>2. /\ pc[r] = "prepare" /\ UNCHANGED <<client, shown, finished, stop, stopper>>
        /\ \E where \in {"ready", "final"} : pc' = [pc EXCEPT ![r] = where]
    BY DEF Prepares
  <2> QED BY <2>1, <2>2 DEF ReachTypes, Reached, ReachedAt, Closing
<1>5. Quiet'
  <2>1. QuietTypes /\ Quiet /\ Leased
    BY SmallTypes DEF IInv
  <2> QED BY <2>1 DEF QuietTypes, Quiet, Leased, LeaseTypes, LeaseHasRun, Afoot,
      Prepares, Alive
<1>6. Reasoned'
  <2>1. ReasonTypes /\ Reasoned
    BY SmallTypes DEF IInv
  <2>2. /\ pc[r] = "prepare"
        /\ UNCHANGED <<row, unsaved, verdict, settled, stop, finished>>
        /\ \/ pc' = [pc EXCEPT ![r] = "ready"] /\ UNCHANGED runErr
           \/ /\ pc' = [pc EXCEPT ![r] = "final"]
              /\ runErr' = [runErr EXCEPT ![r] = TRUE]
    BY DEF Prepares
  <2>3. CASE pc' = [pc EXCEPT ![r] = "ready"] /\ UNCHANGED runErr
    BY <2>1, <2>2, <2>3 DEF ReasonTypes, Reasoned, ReasonedAt, Closing
  <2>4. CASE pc' = [pc EXCEPT ![r] = "final"] /\ runErr' = [runErr EXCEPT ![r] = TRUE]
    BY <2>1, <2>2, <2>4 DEF ReasonTypes, Reasoned, ReasonedAt, Closing
  <2> QED BY <2>2, <2>3, <2>4
<1>7. Seated'
  <2>1. SeatTypes /\ Seated
    BY SmallTypes DEF IInv
  <2> QED BY <2>1 DEF SeatTypes, Seated, SeatedAt, Live, Prepares, Alive
<1> QED BY <1>1, <1>2, <1>3, <1>4, <1>5, <1>6, <1>7 DEF IInv

LEMMA ChecksStopKeeps ==
  ASSUME IInv, NEW r \in Runs, ChecksStop(r)
  PROVE  IInv'
<1>1. TypeOK'
  BY ZenonT(40) DEF IInv, TypeOK, Stages, ChecksStop
<1>2. Leased'
  <2>1. LeaseTypes /\ Leased
    BY SmallTypes DEF IInv
  <2>2. /\ pc[r] = "ready" /\ UNCHANGED <<client, owner>>
        /\ \E where \in {"final", "prompt"} : pc' = [pc EXCEPT ![r] = where]
    BY DEF ChecksStop
  <2> QED BY <2>1, <2>2 DEF LeaseTypes, Leased, LeaseHasRun, Afoot
<1>3. Controlled'
  <2>1. ControlTypes /\ Controlled /\ UNCHANGED <<shown, stopVars, steerer>>
    BY SmallTypes DEF IInv, ChecksStop
  <2>2. /\ pc[r] = "ready" /\ control[r] = "nobody"
        /\ \/ pc' = [pc EXCEPT ![r] = "final"] /\ UNCHANGED control
           \/ /\ pc' = [pc EXCEPT ![r] = "prompt"]
              /\ control' = [control EXCEPT ![r] = "run"]
    BY DEF ChecksStop
  <2>3. CASE pc' = [pc EXCEPT ![r] = "final"] /\ UNCHANGED control
    BY <2>1, <2>2, <2>3 DEF ControlTypes, Controlled, ControlledAt
  <2>4. CASE /\ pc' = [pc EXCEPT ![r] = "prompt"]
             /\ control' = [control EXCEPT ![r] = "run"]
    BY <2>1, <2>2, <2>4 DEF ControlTypes, Controlled, ControlledAt
  <2> QED BY <2>2, <2>3, <2>4
<1>4. Reached'
  <2>1. ReachTypes /\ Reached
    BY SmallTypes DEF IInv
  <2>2. /\ pc[r] = "ready" /\ UNCHANGED <<client, shown, finished, stop, stopper>>
        /\ \E where \in {"final", "prompt"} : pc' = [pc EXCEPT ![r] = where]
    BY DEF ChecksStop
  <2> QED BY <2>1, <2>2 DEF ReachTypes, Reached, ReachedAt, Closing
<1>5. Quiet'
  <2>1. QuietTypes /\ Quiet /\ Leased
    BY SmallTypes DEF IInv
  <2>2. /\ pc[r] = "ready" /\ UNCHANGED <<client, procVars>>
        /\ \E where \in {"final", "prompt"} : pc' = [pc EXCEPT ![r] = where]
    BY DEF ChecksStop
  <2> QED BY <2>1, <2>2 DEF QuietTypes, Quiet, Leased, LeaseTypes, LeaseHasRun
<1>6. Reasoned'
  <2>1. ReasonTypes /\ Reasoned
    BY SmallTypes DEF IInv
  <2>2. /\ pc[r] = "ready"
        /\ UNCHANGED <<row, unsaved, verdict, settled, runErr, stop, finished>>
        /\ \/ pc' = [pc EXCEPT ![r] = "prompt"]
           \/ stop[r] # "" /\ pc' = [pc EXCEPT ![r] = "final"]
    BY DEF ChecksStop
  <2> QED BY ZenonT(40), <2>1, <2>2 DEF ReasonTypes, Reasoned, ReasonedAt, Closing
<1>7. Seated'
  <2>1. SeatTypes /\ Seated
    BY SmallTypes DEF IInv
  <2>2. /\ pc[r] = "ready" /\ UNCHANGED <<serverVars, dbVars>>
        /\ \E where \in {"final", "prompt"} : pc' = [pc EXCEPT ![r] = where]
    BY DEF ChecksStop
  <2> QED BY <2>1, <2>2 DEF SeatTypes, Seated, SeatedAt, Live
<1> QED BY <1>1, <1>2, <1>3, <1>4, <1>5, <1>6, <1>7 DEF IInv

LEMMA PromptAcceptedKeeps ==
  ASSUME IInv, NEW r \in Runs, PromptAccepted(r)
  PROVE  IInv'
<1>1. TypeOK'
  <2>1. TypeOK
    BY DEF IInv
  <2>2. pc \in [Runs -> Stages] /\ settled \in [Runs -> BOOLEAN]
    BY <2>1 DEF TypeOK
  <2>3. pc' \in [Runs -> Stages] /\ settled' \in [Runs -> BOOLEAN]
    BY <2>2 DEF PromptAccepted, Stages
  <2>4. work \in [Procs -> Runs \cup {None}]
    BY <2>1 DEF TypeOK
  <2>5. work' \in [Procs -> Runs \cup {None}]
    BY <2>4 DEF PromptAccepted
  <2>6. control' \in [Runs -> {"nobody", "run", "stopper", "steerer"}]
    BY <2>1 DEF TypeOK, PromptAccepted
  <2> QED BY <2>1, <2>3, <2>5, <2>6 DEF TypeOK, PromptAccepted
<1>2. Leased'
  <2>1. LeaseTypes /\ Leased
    BY SmallTypes DEF IInv
  <2> QED BY <2>1 DEF LeaseTypes, Leased, LeaseHasRun, Afoot, PromptAccepted,
      Alive
<1>3. Controlled'
  <2>1. ControlTypes /\ Controlled
    BY SmallTypes DEF IInv
  <2> QED BY <2>1 DEF ControlTypes, Controlled, ControlledAt, PromptAccepted,
      Alive
<1>4. Reached'
  <2>1. ReachTypes /\ Reached
    BY SmallTypes DEF IInv
  <2>2. /\ pc[r] = "prompt" /\ UNCHANGED <<client, shown, finished, stop, stopper>>
        /\ \E where \in {"loop", "wrap"} : pc' = [pc EXCEPT ![r] = where]
    BY DEF PromptAccepted
  <2> QED BY <2>1, <2>2 DEF ReachTypes, Reached, ReachedAt, Closing
<1>5. Quiet'
  <2>1. QuietTypes /\ Quiet /\ Leased
    BY SmallTypes DEF IInv
  <2> QED BY <2>1 DEF QuietTypes, Quiet, Leased, LeaseTypes, LeaseHasRun, Afoot,
      PromptAccepted, Alive
<1>6. Reasoned'
  <2>1. ReasonTypes /\ Reasoned
    BY SmallTypes DEF IInv
  <2>2. /\ pc[r] = "prompt"
        /\ UNCHANGED <<row, unsaved, verdict, runErr, stop, finished>>
        /\ \/ pc' = [pc EXCEPT ![r] = "loop"] /\ UNCHANGED settled
           \/ /\ pc' = [pc EXCEPT ![r] = "wrap"]
              /\ settled' = [settled EXCEPT ![r] = TRUE]
    BY DEF PromptAccepted
  <2>3. CASE pc' = [pc EXCEPT ![r] = "loop"] /\ UNCHANGED settled
    BY <2>1, <2>2, <2>3 DEF ReasonTypes, Reasoned, ReasonedAt, Closing
  <2>4. CASE pc' = [pc EXCEPT ![r] = "wrap"] /\ settled' = [settled EXCEPT ![r] = TRUE]
    BY <2>1, <2>2, <2>4 DEF ReasonTypes, Reasoned, ReasonedAt, Closing
  <2> QED BY <2>2, <2>3, <2>4
<1>7. Seated'
  <2>1. SeatTypes /\ Seated
    BY SmallTypes DEF IInv
  <2> QED BY <2>1 DEF SeatTypes, Seated, SeatedAt, Live, PromptAccepted, Alive
<1> QED BY <1>1, <1>2, <1>3, <1>4, <1>5, <1>6, <1>7 DEF IInv

LEMMA PromptFailsKeeps ==
  ASSUME IInv, NEW r \in Runs, PromptFails(r)
  PROVE  IInv'
<1>1. TypeOK'
  <2>1. TypeOK
    BY DEF IInv
  <2>2. pc' \in [Runs -> Stages] /\ runErr' \in [Runs -> BOOLEAN]
    BY <2>1 DEF TypeOK, PromptFails, Stages
  <2>3. work \in [Procs -> Runs \cup {None}] /\ healthy \in [Procs -> BOOLEAN]
    BY <2>1 DEF TypeOK
  <2>4. work' \in [Procs -> Runs \cup {None}] /\ healthy' \in [Procs -> BOOLEAN]
    BY <2>3 DEF PromptFails
  <2>5. control' \in [Runs -> {"nobody", "run", "stopper", "steerer"}]
    BY <2>1 DEF TypeOK, PromptFails
  <2> QED BY <2>1, <2>2, <2>4, <2>5 DEF TypeOK, PromptFails
<1>2. Leased'
  <2>1. LeaseTypes /\ Leased
    BY SmallTypes DEF IInv
  <2> QED BY <2>1 DEF LeaseTypes, Leased, LeaseHasRun, Afoot, PromptFails, Alive
<1>3. Controlled'
  <2>1. ControlTypes /\ Controlled
    BY SmallTypes DEF IInv
  <2> QED BY <2>1 DEF ControlTypes, Controlled, ControlledAt, PromptFails, Alive
<1>4. Reached'
  <2>1. ReachTypes /\ Reached
    BY SmallTypes DEF IInv
  <2> QED BY <2>1 DEF ReachTypes, Reached, ReachedAt, Closing, PromptFails,
      Alive
<1>5. Quiet'
  <2>1. QuietTypes /\ Quiet /\ Leased
    BY SmallTypes DEF IInv
  <2> QED BY <2>1 DEF QuietTypes, Quiet, Leased, LeaseTypes, LeaseHasRun, Afoot,
      PromptFails, Alive
<1>6. Reasoned'
  <2>1. ReasonTypes /\ Reasoned
    BY SmallTypes DEF IInv
  <2> QED BY <2>1 DEF ReasonTypes, Reasoned, ReasonedAt, Closing, Terminal,
      PromptFails, Alive
<1>7. Seated'
  <2>1. SeatTypes /\ Seated
    BY SmallTypes DEF IInv
  <2> QED BY <2>1 DEF SeatTypes, Seated, SeatedAt, Live, PromptFails, Alive
<1> QED BY <1>1, <1>2, <1>3, <1>4, <1>5, <1>6, <1>7 DEF IInv

-----------------------------------------------------------------------------
(* The event loop *)

LEMMA LoopTimesOutKeeps ==
  ASSUME IInv, NEW r \in Runs, LoopTimesOut(r)
  PROVE  IInv'
<1>1. TypeOK'
  <2>1. TypeOK /\ StopWrites(r) /\ pc' \in [Runs -> Stages]
    BY StopEffect DEF IInv, TypeOK, LoopTimesOut, Stages
  <2> QED BY <2>1 DEF TypeOK, StopWrites, LoopTimesOut
<1>2. Leased'
  <2>1. LeaseTypes /\ Leased
    BY SmallTypes DEF IInv
  <2>2. /\ pc[r] = "loop" /\ pc' = [pc EXCEPT ![r] = "grace"]
        /\ UNCHANGED <<client, owner>>
    BY DEF LoopTimesOut
  <2> QED BY <2>1, <2>2 DEF LeaseTypes, Leased, LeaseHasRun, Afoot
<1>3. Controlled'
  <2>1. TypeOK /\ ControlTypes /\ Controlled /\ Reached /\ Reasoned
    BY SmallTypes DEF IInv
  <2>2. /\ pc[r] = "loop" /\ pc' = [pc EXCEPT ![r] = "grace"]
        /\ UNCHANGED <<shown, control, steerer>>
    BY DEF LoopTimesOut
  <2>3. \A q \in Runs : \/ stopper'[q] = stopper[q]
                        \/ stopper[q] = "none" /\ stopper'[q] = "waiting"
    <3>1. StopWrites(r) \/ UNCHANGED stopVars
      BY <2>1, StopEffect DEF LoopTimesOut
    <3> QED BY <2>1, <3>1, StopInTime
  <2> QED BY <2>1, <2>2, <2>3 DEF ControlTypes, Controlled, ControlledAt
<1>4. Reached'
  <2>1. TypeOK /\ ReachTypes /\ Reached
    BY SmallTypes DEF IInv
  <2>2. /\ pc[r] = "loop" /\ pc' = [pc EXCEPT ![r] = "grace"]
        /\ UNCHANGED <<client, shown, finished>>
    BY DEF LoopTimesOut
  <2>3. \A q \in Runs :
          \/ stop'[q] = stop[q] /\ stopper'[q] = stopper[q]
          \/ /\ stop'[q] # ""
             /\ stopper'[q] = stopper[q] \/ (shown[q] /\ stopper'[q] = "waiting")
    BY <2>1, StopEffect DEF LoopTimesOut, StopWrites
  <2> QED BY ZenonT(40), <2>1, <2>2, <2>3 DEF ReachTypes, Reached, ReachedAt, Closing
<1>5. Quiet'
  <2>1. QuietTypes /\ Quiet /\ Leased
    BY SmallTypes DEF IInv
  <2>2. /\ pc[r] = "loop" /\ pc' = [pc EXCEPT ![r] = "grace"]
        /\ UNCHANGED <<client, procVars>>
    BY DEF LoopTimesOut
  <2> QED BY <2>1, <2>2 DEF QuietTypes, Quiet, Leased, LeaseTypes, LeaseHasRun
<1>6. Reasoned'
  <2>1. TypeOK /\ ReasonTypes /\ Reasoned /\ Reached
    BY SmallTypes DEF IInv
  <2>2. /\ pc[r] = "loop" /\ pc' = [pc EXCEPT ![r] = "grace"]
        /\ UNCHANGED <<row, unsaved, verdict, settled, runErr, finished>>
    BY DEF LoopTimesOut
  <2>3. \A q \in Runs : \/ stop'[q] = stop[q]
                        \/ verdict[q] = "" /\ stop'[q] # ""
    <3>1. StopWrites(r) \/ UNCHANGED stopVars
      BY <2>1, StopEffect DEF LoopTimesOut
    <3> QED BY <2>1, <3>1, StopInTime
  <2>4. stop'[r] # ""
    BY <2>1, <2>2, StopEffect DEF LoopTimesOut, StopWrites, Reached, ReachedAt,
        Closing
  <2> QED BY <2>1, <2>2, <2>3, <2>4 DEF ReasonTypes, Reasoned, ReasonedAt,
      Closing
<1>7. Seated'
  <2>1. SeatTypes /\ Seated
    BY SmallTypes DEF IInv
  <2> QED BY <2>1 DEF SeatTypes, Seated, SeatedAt, Live, LoopTimesOut, Stop,
      Stoppable
<1> QED BY <1>1, <1>2, <1>3, <1>4, <1>5, <1>6, <1>7 DEF IInv

LEMMA LoopGivesUpKeeps ==
  ASSUME IInv, NEW r \in Runs, LoopGivesUp(r)
  PROVE  IInv'
<1>1. TypeOK'
  BY DEF IInv, TypeOK, Stages, LoopGivesUp
<1>2. Leased'
  <2>1. LeaseTypes /\ Leased
    BY SmallTypes DEF IInv
  <2> QED BY <2>1 DEF LeaseTypes, Leased, LeaseHasRun, Afoot, LoopGivesUp
<1>3. Controlled'
  <2>1. ControlTypes /\ Controlled
    BY SmallTypes DEF IInv
  <2> QED BY <2>1 DEF ControlTypes, Controlled, ControlledAt, LoopGivesUp
<1>4. Reached'
  <2>1. ReachTypes /\ Reached
    BY SmallTypes DEF IInv
  <2> QED BY <2>1 DEF ReachTypes, Reached, ReachedAt, Closing, LoopGivesUp
<1>5. Quiet'
  <2>1. QuietTypes /\ Quiet /\ Leased
    BY SmallTypes DEF IInv
  <2> QED BY <2>1 DEF QuietTypes, Quiet, Leased, LeaseTypes, LeaseHasRun, Afoot,
      LoopGivesUp
<1>6. Reasoned'
  <2>1. ReasonTypes /\ Reasoned
    BY SmallTypes DEF IInv
  <2> QED BY <2>1 DEF ReasonTypes, Reasoned, ReasonedAt, Closing, Terminal,
      LoopGivesUp
<1>7. Seated'
  <2>1. SeatTypes /\ Seated
    BY SmallTypes DEF IInv
  <2> QED BY <2>1 DEF SeatTypes, Seated, SeatedAt, Live, LoopGivesUp
<1> QED BY <1>1, <1>2, <1>3, <1>4, <1>5, <1>6, <1>7 DEF IInv

LEMMA LoopSettlesKeeps ==
  ASSUME IInv, NEW r \in Runs, LoopSettles(r)
  PROVE  IInv'
<1>1. TypeOK'
  BY DEF IInv, TypeOK, Stages, LoopSettles
<1>2. Leased'
  <2>1. LeaseTypes /\ Leased
    BY SmallTypes DEF IInv
  <2> QED BY <2>1 DEF LeaseTypes, Leased, LeaseHasRun, Afoot, LoopSettles,
      InLoop
<1>3. Controlled'
  <2>1. ControlTypes /\ Controlled
    BY SmallTypes DEF IInv
  <2> QED BY <2>1 DEF ControlTypes, Controlled, ControlledAt, LoopSettles,
      InLoop
<1>4. Reached'
  <2>1. ReachTypes /\ Reached
    BY SmallTypes DEF IInv
  <2> QED BY ZenonT(40), <2>1 DEF ReachTypes, Reached, ReachedAt, Closing, LoopSettles,
      InLoop
<1>5. Quiet'
  <2>1. QuietTypes /\ Quiet /\ Leased
    BY SmallTypes DEF IInv
  <2> QED BY <2>1 DEF QuietTypes, Quiet, Leased, LeaseTypes, LeaseHasRun, Afoot,
      LoopSettles, InLoop
<1>6. Reasoned'
  <2>1. ReasonTypes /\ Reasoned
    BY SmallTypes DEF IInv
  <2> QED BY ZenonT(40), <2>1 DEF ReasonTypes, Reasoned, ReasonedAt, Closing, Terminal,
      LoopSettles, InLoop
<1>7. Seated'
  <2>1. SeatTypes /\ Seated
    BY SmallTypes DEF IInv
  <2> QED BY <2>1 DEF SeatTypes, Seated, SeatedAt, Live, LoopSettles, InLoop
<1> QED BY <1>1, <1>2, <1>3, <1>4, <1>5, <1>6, <1>7 DEF IInv

LEMMA ToolLimitKeeps ==
  ASSUME IInv, NEW r \in Runs, ToolLimit(r)
  PROVE  IInv'
<1>1. TypeOK'
  <2>1. TypeOK /\ StopWrites(r)
    BY StopEffect DEF IInv, ToolLimit
  <2> QED BY <2>1 DEF TypeOK, StopWrites, ToolLimit
<1>2. Controlled'
  <2>1. TypeOK /\ ControlTypes /\ Controlled /\ Reached /\ Reasoned
    BY SmallTypes DEF IInv
  <2>2. UNCHANGED <<pc, shown, control, steerer>>
    BY DEF ToolLimit
  <2>3. \A q \in Runs : \/ stopper'[q] = stopper[q]
                        \/ stopper[q] = "none" /\ stopper'[q] = "waiting"
    <3>1. StopWrites(r) \/ UNCHANGED stopVars
      BY <2>1, StopEffect DEF ToolLimit
    <3> QED BY <2>1, <3>1, StopInTime
  <2> QED BY <2>1, <2>2, <2>3 DEF ControlTypes, Controlled, ControlledAt
<1>3. Reached'
  <2>1. TypeOK /\ ReachTypes /\ Reached
    BY SmallTypes DEF IInv
  <2>2. UNCHANGED <<pc, client, shown, finished>>
    BY DEF ToolLimit
  <2>3. \A q \in Runs :
          \/ stop'[q] = stop[q] /\ stopper'[q] = stopper[q]
          \/ /\ stop'[q] # ""
             /\ stopper'[q] = stopper[q] \/ (shown[q] /\ stopper'[q] = "waiting")
    BY <2>1, StopEffect DEF ToolLimit, StopWrites
  <2> QED BY <2>1, <2>2, <2>3 DEF ReachTypes, Reached, ReachedAt, Closing
<1>4. Reasoned'
  <2>1. TypeOK /\ ReasonTypes /\ Reasoned /\ Reached
    BY SmallTypes DEF IInv
  <2>2. UNCHANGED <<pc, row, unsaved, verdict, settled, runErr, finished>>
    BY DEF ToolLimit
  <2>3. \A q \in Runs : \/ stop'[q] = stop[q]
                        \/ verdict[q] = "" /\ stop'[q] # ""
    <3>1. StopWrites(r) \/ UNCHANGED stopVars
      BY <2>1, StopEffect DEF ToolLimit
    <3> QED BY <2>1, <3>1, StopInTime
  <2> QED BY <2>1, <2>2, <2>3 DEF ReasonTypes, Reasoned, ReasonedAt
<1>5. Leased' /\ Quiet' /\ Seated'
  BY Same DEF ToolLimit
<1> QED BY <1>1, <1>2, <1>3, <1>4, <1>5 DEF IInv

LEMMA LoopDiesKeeps ==
  ASSUME IInv, NEW r \in Runs, LoopDies(r)
  PROVE  IInv'
<1>1. TypeOK'
  BY DEF IInv, TypeOK, Stages, LoopDies, Died
<1>2. Leased'
  <2>1. LeaseTypes /\ Leased
    BY SmallTypes DEF IInv
  <2> QED BY <2>1 DEF LeaseTypes, Leased, LeaseHasRun, Afoot, LoopDies, InLoop,
      Died
<1>3. Controlled'
  <2>1. ControlTypes /\ Controlled
    BY SmallTypes DEF IInv
  <2> QED BY <2>1 DEF ControlTypes, Controlled, ControlledAt, LoopDies, InLoop,
      Died
<1>4. Reached'
  <2>1. ReachTypes /\ Reached
    BY SmallTypes DEF IInv
  <2> QED BY <2>1 DEF ReachTypes, Reached, ReachedAt, Closing, LoopDies, InLoop,
      Died
<1>5. Quiet'
  <2>1. QuietTypes /\ Quiet /\ Leased
    BY SmallTypes DEF IInv
  <2> QED BY <2>1 DEF QuietTypes, Quiet, Leased, LeaseTypes, LeaseHasRun, Afoot,
      LoopDies, InLoop, Died
<1>6. Reasoned'
  <2>1. ReasonTypes /\ Reasoned
    BY SmallTypes DEF IInv
  <2> QED BY <2>1 DEF ReasonTypes, Reasoned, ReasonedAt, Closing, Terminal,
      LoopDies, InLoop, Died
<1>7. Seated'
  <2>1. SeatTypes /\ Seated
    BY SmallTypes DEF IInv
  <2> QED BY <2>1 DEF SeatTypes, Seated, SeatedAt, Live, LoopDies, InLoop, Died
<1> QED BY <1>1, <1>2, <1>3, <1>4, <1>5, <1>6, <1>7 DEF IInv

LEMMA WrapsKeeps ==
  ASSUME IInv, NEW r \in Runs, Wraps(r)
  PROVE  IInv'
<1>1. TypeOK'
  BY DEF IInv, TypeOK, Stages, Wraps
<1>2. Leased'
  <2>1. LeaseTypes /\ Leased
    BY SmallTypes DEF IInv
  <2> QED BY <2>1 DEF LeaseTypes, Leased, LeaseHasRun, Afoot, Wraps
<1>3. Controlled'
  <2>1. ControlTypes /\ Controlled
    BY SmallTypes DEF IInv
  <2> QED BY <2>1 DEF ControlTypes, Controlled, ControlledAt, Wraps
<1>4. Reached'
  <2>1. ReachTypes /\ Reached
    BY SmallTypes DEF IInv
  <2> QED BY <2>1 DEF ReachTypes, Reached, ReachedAt, Closing, Wraps
<1>5. Quiet'
  <2>1. QuietTypes /\ Quiet /\ Leased
    BY SmallTypes DEF IInv
  <2> QED BY <2>1 DEF QuietTypes, Quiet, Leased, LeaseTypes, LeaseHasRun, Afoot,
      Wraps
<1>6. Reasoned'
  <2>1. ReasonTypes /\ Reasoned
    BY SmallTypes DEF IInv
  <2> QED BY ZenonT(40), <2>1 DEF ReasonTypes, Reasoned, ReasonedAt, Closing, Terminal,
      Wraps
<1>7. Seated'
  <2>1. SeatTypes /\ Seated
    BY SmallTypes DEF IInv
  <2> QED BY <2>1 DEF SeatTypes, Seated, SeatedAt, Live, Wraps
<1> QED BY <1>1, <1>2, <1>3, <1>4, <1>5, <1>6, <1>7 DEF IInv

-----------------------------------------------------------------------------
(* The deferred functions *)

LEMMA FinishesKeeps ==
  ASSUME IInv, NEW r \in Runs, Finishes(r)
  PROVE  IInv'
<1>1. TypeOK'
  BY ZenonT(40) DEF IInv, TypeOK, Terminal, Stages, Finishes, Verdict
<1>2. Leased'
  <2>1. LeaseTypes /\ Leased
    BY SmallTypes DEF IInv
  <2>2. /\ pc[r] = "final" /\ pc' = [pc EXCEPT ![r] = "store"]
        /\ UNCHANGED <<client, owner>>
    BY DEF Finishes
  <2> QED BY <2>1, <2>2 DEF LeaseTypes, Leased, LeaseHasRun, Afoot
<1>3. Controlled'
  <2>1. ControlTypes /\ Controlled /\ UNCHANGED <<shown, stopper, steerer>>
    BY SmallTypes DEF IInv, Finishes
  <2>2. /\ pc[r] = "final" /\ pc' = [pc EXCEPT ![r] = "store"]
        /\ control[r] = "nobody" /\ control' = [control EXCEPT ![r] = "run"]
    BY DEF Finishes
  <2> QED BY <2>1, <2>2 DEF ControlTypes, Controlled, ControlledAt
<1>4. Reached'
  <2>1. ReachTypes /\ Reached /\ UNCHANGED <<client, shown, stop, stopper>>
    BY SmallTypes DEF IInv, Finishes
  <2>2. /\ pc[r] = "final" /\ pc' = [pc EXCEPT ![r] = "store"]
        /\ finished' = [finished EXCEPT ![r] = TRUE]
    BY DEF Finishes
  <2> QED BY <2>1, <2>2 DEF ReachTypes, Reached, ReachedAt, Closing
<1>5. Quiet'
  <2>1. QuietTypes /\ Quiet /\ Leased
    BY SmallTypes DEF IInv
  <2>2. /\ pc[r] = "final" /\ pc' = [pc EXCEPT ![r] = "store"]
        /\ UNCHANGED <<client, owner, work, steers, event>>
        /\ \A p \in Procs : healthy'[p] => healthy[p]
    BY <2>1 DEF Finishes, QuietTypes, LeaseTypes
  <2> QED BY <2>1, <2>2 DEF QuietTypes, Quiet, Leased, LeaseTypes, LeaseHasRun
<1>6. Reasoned'
  <2>1. ReasonTypes /\ Reasoned
    BY SmallTypes DEF IInv
  <2> QED BY ZenonT(40), <2>1 DEF ReasonTypes, Reasoned, ReasonedAt, Closing, Terminal,
      Finishes, Verdict, Unsettled
<1>7. Seated'
  <2>1. SeatTypes /\ Seated
    BY SmallTypes DEF IInv
  <2> QED BY <2>1 DEF SeatTypes, Seated, SeatedAt, Live, Finishes, Verdict,
      Unsettled
<1> QED BY <1>1, <1>2, <1>3, <1>4, <1>5, <1>6, <1>7 DEF IInv

LEMMA StoresKeeps ==
  ASSUME IInv, NEW r \in Runs, Stores(r)
  PROVE  IInv'
<1>1. TypeOK'
  <2>1. verdict[r] \in Terminal /\ TypeOK
    BY DEF IInv, TypeOK, Reasoned, ReasonedAt, Closing, Stores
  <2>2. row' \in [Runs -> {"none", "queued", "running"} \cup Terminal]
    BY <2>1 DEF TypeOK, Stores
  <2>3. unsaved' \in SUBSET Runs /\ verdict' \in [Runs -> {""} \cup Terminal]
    <3>1. unsaved \in SUBSET Runs /\ verdict \in [Runs -> {""} \cup Terminal]
      BY <2>1 DEF TypeOK
    <3> QED BY <3>1 DEF Stores, Terminal
  <2>4. pc' \in [Runs -> Stages]
    BY <2>1 DEF TypeOK, Stores, Stored, Stages
  <2> QED BY <2>1, <2>2, <2>3, <2>4 DEF TypeOK, Stores
<1>2. Leased'
  <2>1. LeaseTypes /\ Leased
    BY SmallTypes DEF IInv
  <2> QED BY <2>1 DEF LeaseTypes, Leased, LeaseHasRun, Afoot, Stores, Stored
<1>3. Controlled'
  <2>1. ControlTypes /\ Controlled
    BY SmallTypes DEF IInv
  <2> QED BY <2>1 DEF ControlTypes, Controlled, ControlledAt, Stores, Stored
<1>4. Reached'
  <2>1. ReachTypes /\ Reached
    BY SmallTypes DEF IInv
  <2> QED BY <2>1 DEF ReachTypes, Reached, ReachedAt, Closing, Stores, Stored
<1>5. Quiet'
  <2>1. QuietTypes /\ Quiet /\ Leased
    BY SmallTypes DEF IInv
  <2> QED BY <2>1 DEF QuietTypes, Quiet, Leased, LeaseTypes, LeaseHasRun, Afoot,
      Stores, Stored
<1>6. Reasoned'
  <2>1. ReasonTypes /\ Reasoned /\ UNCHANGED <<settled, runErr, stop, finished>>
    BY SmallTypes DEF IInv, Stores
  <2>2. /\ pc[r] = "store"
        /\ \E where \in {"clear", "unlock"} : pc' = [pc EXCEPT ![r] = where]
    BY DEF Stores, Stored
  <2>3. CASE row' = [row EXCEPT ![r] = verdict[r]] /\ UNCHANGED <<unsaved, verdict>>
    BY <2>1, <2>2, <2>3 DEF ReasonTypes, Reasoned, ReasonedAt, Closing
  <2>4. CASE /\ unsaved' = unsaved \cup {r} /\ UNCHANGED row
             /\ verdict' = [verdict EXCEPT ![r] = "failed"]
    BY ZenonT(40), <2>1, <2>2, <2>4 DEF ReasonTypes, Reasoned, ReasonedAt, Closing
  <2> QED BY <2>3, <2>4 DEF Stores
<1>7. Seated'
  <2>1. SeatTypes /\ Seated /\ UNCHANGED <<serverVars, session>>
    BY SmallTypes DEF IInv, Stores
  <2>2. /\ pc[r] = "store"
        /\ \E where \in {"clear", "unlock"} : pc' = [pc EXCEPT ![r] = where]
    BY DEF Stores, Stored
  <2>3. verdict[r] \in Terminal
    BY <2>2, SmallTypes DEF IInv, ReasonTypes, Reasoned, ReasonedAt, Closing
  <2>4. /\ unsaved \subseteq unsaved'
        /\ UNCHANGED row \/ row' = [row EXCEPT ![r] = verdict[r]]
    BY DEF Stores
  <2> QED BY <2>1, <2>2, <2>3, <2>4 DEF SeatTypes, Seated, SeatedAt, Live,
      Terminal
<1> QED BY <1>1, <1>2, <1>3, <1>4, <1>5, <1>6, <1>7 DEF IInv

LEMMA ClearsKeeps ==
  ASSUME IInv, NEW r \in Runs, Clears(r)
  PROVE  IInv'
<1>1. TypeOK'
  BY DEF IInv, TypeOK, Stages, Clears, Cleared
<1>2. Leased'
  <2>1. LeaseTypes /\ Leased
    BY SmallTypes DEF IInv
  <2> QED BY <2>1 DEF LeaseTypes, Leased, LeaseHasRun, Afoot, Clears, Alive,
      Cleared
<1>3. Controlled'
  <2>1. ControlTypes /\ Controlled
    BY SmallTypes DEF IInv
  <2> QED BY <2>1 DEF ControlTypes, Controlled, ControlledAt, Clears, Alive,
      Cleared
<1>4. Reached'
  <2>1. ReachTypes /\ Reached
    BY SmallTypes DEF IInv
  <2> QED BY <2>1 DEF ReachTypes, Reached, ReachedAt, Closing, Clears, Alive,
      Cleared
<1>5. Quiet'
  <2>1. QuietTypes /\ Quiet /\ Leased
    BY SmallTypes DEF IInv
  <2> QED BY <2>1 DEF QuietTypes, Quiet, Leased, LeaseTypes, LeaseHasRun, Afoot,
      Clears, Alive, Cleared
<1>6. Reasoned'
  <2>1. ReasonTypes /\ Reasoned
    BY SmallTypes DEF IInv
  <2> QED BY <2>1 DEF ReasonTypes, Reasoned, ReasonedAt, Closing, Terminal,
      Clears, Alive, Cleared
<1>7. Seated'
  <2>1. SeatTypes /\ Seated
    BY SmallTypes DEF IInv
  <2> QED BY <2>1 DEF SeatTypes, Seated, SeatedAt, Live, Clears, Alive, Cleared
<1> QED BY <1>1, <1>2, <1>3, <1>4, <1>5, <1>6, <1>7 DEF IInv

LEMMA ReleasesKeeps ==
  ASSUME IInv, NEW r \in Runs, Releases(r)
  PROVE  IInv'
<1>1. TypeOK'
  BY DEF IInv, TypeOK, Stages, Releases
<1>2. Leased'
  <2>1. LeaseTypes /\ Leased
    BY SmallTypes DEF IInv
  <2> QED BY <2>1 DEF LeaseTypes, Leased, LeaseHasRun, Afoot, Releases
<1>3. Controlled'
  <2>1. ControlTypes /\ Controlled
    BY SmallTypes DEF IInv
  <2> QED BY <2>1 DEF ControlTypes, Controlled, ControlledAt, Releases
<1>4. Reached'
  <2>1. ReachTypes /\ Reached
    BY SmallTypes DEF IInv
  <2>2. /\ pc[r] = "release" /\ pc' = [pc EXCEPT ![r] = "unlock"]
        /\ UNCHANGED <<client, shown, finished, stop, stopper>>
    BY DEF Releases
  <2> QED BY <2>1, <2>2 DEF ReachTypes, Reached, ReachedAt, Closing
<1>5. Quiet'
  <2>1. QuietTypes /\ Quiet /\ Leased
    BY SmallTypes DEF IInv
  <2> QED BY <2>1 DEF QuietTypes, Quiet, Leased, LeaseTypes, LeaseHasRun, Afoot,
      Releases
<1>6. Reasoned'
  <2>1. ReasonTypes /\ Reasoned
    BY SmallTypes DEF IInv
  <2> QED BY <2>1 DEF ReasonTypes, Reasoned, ReasonedAt, Closing, Terminal,
      Releases
<1>7. Seated'
  <2>1. SeatTypes /\ Seated
    BY SmallTypes DEF IInv
  <2> QED BY <2>1 DEF SeatTypes, Seated, SeatedAt, Live, Releases
<1> QED BY <1>1, <1>2, <1>3, <1>4, <1>5, <1>6, <1>7 DEF IInv

LEMMA UnlocksKeeps ==
  ASSUME IInv, NEW r \in Runs, Unlocks(r)
  PROVE  IInv'
<1>1. TypeOK'
  BY DEF IInv, TypeOK, Stages, Unlocks
<1>2. Leased'
  <2>1. LeaseTypes /\ Leased
    BY SmallTypes DEF IInv
  <2> QED BY <2>1 DEF LeaseTypes, Leased, LeaseHasRun, Afoot, Unlocks
<1>3. Controlled'
  <2>1. ControlTypes /\ Controlled
    BY SmallTypes DEF IInv
  <2> QED BY <2>1 DEF ControlTypes, Controlled, ControlledAt, Unlocks
<1>4. Reached'
  <2>1. ReachTypes /\ Reached
    BY SmallTypes DEF IInv
  <2> QED BY <2>1 DEF ReachTypes, Reached, ReachedAt, Closing, Unlocks
<1>5. Quiet'
  <2>1. QuietTypes /\ Quiet /\ Leased
    BY SmallTypes DEF IInv
  <2> QED BY <2>1 DEF QuietTypes, Quiet, Leased, LeaseTypes, LeaseHasRun, Afoot,
      Unlocks
<1>6. Reasoned'
  <2>1. ReasonTypes /\ Reasoned
    BY SmallTypes DEF IInv
  <2> QED BY <2>1 DEF ReasonTypes, Reasoned, ReasonedAt, Closing, Terminal,
      Unlocks
<1>7. Seated'
  <2>1. SeatTypes /\ Seated
    BY SmallTypes DEF IInv
  <2> QED BY <2>1 DEF SeatTypes, Seated, SeatedAt, Live, Unlocks
<1> QED BY <1>1, <1>2, <1>3, <1>4, <1>5, <1>6, <1>7 DEF IInv

LEMMA LeavesKeeps ==
  ASSUME IInv, NEW r \in Runs, Leaves(r)
  PROVE  IInv'
<1>1. TypeOK'
  BY DEF IInv, TypeOK, Terminal, Stages, Leaves, Forgets
<1>2. Leased'
  <2>1. LeaseTypes /\ Leased
    BY SmallTypes DEF IInv
  <2>2. /\ pc[r] = "leave" /\ pc' = [pc EXCEPT ![r] = "ended"] /\ UNCHANGED owner
        /\ client' = [q \in Runs |-> IF q = r THEN None ELSE client[q]]
    BY DEF Leaves, Forgets
  <2> QED BY <2>1, <2>2 DEF LeaseTypes, Leased, LeaseHasRun, Afoot
<1>3. Controlled'
  <2>1. ControlTypes /\ Controlled /\ Reached
    BY SmallTypes DEF IInv
  <2> QED BY <2>1 DEF ControlTypes, Controlled, Reached, ReachedAt, Closing,
      ControlledAt, Leaves, Forgets
<1>4. Reached'
  <2>1. ReachTypes /\ Reached
    BY SmallTypes DEF IInv
  <2>2. /\ pc[r] = "leave" /\ pc' = [pc EXCEPT ![r] = "ended"] /\ UNCHANGED stopper
        /\ finished' = [finished EXCEPT ![r] = TRUE]
    BY DEF Leaves
  <2>3. \A q \in Runs : IF q = r THEN ~shown'[q]
                     ELSE /\ client'[q] = client[q] /\ shown'[q] = shown[q]
                          /\ stop'[q] = stop[q]
    BY DEF Leaves, Forgets
  <2> QED BY ZenonT(40), <2>1, <2>2, <2>3 DEF ReachTypes, Reached, ReachedAt, Closing
<1>5. Quiet'
  <2>1. QuietTypes /\ Quiet /\ Leased
    BY SmallTypes DEF IInv
  <2>2. /\ pc[r] = "leave" /\ pc' = [pc EXCEPT ![r] = "ended"] /\ UNCHANGED procVars
    BY DEF Leaves
  <2> QED BY <2>1, <2>2 DEF QuietTypes, Quiet, Leased, LeaseTypes, LeaseHasRun
<1>6. Reasoned'
  <2>1. ReasonTypes /\ Reasoned
    BY SmallTypes DEF IInv
  <2> QED BY <2>1 DEF ReasonTypes, Reasoned, ReasonedAt, Closing, Terminal,
      Leaves, Forgets
<1>7. Seated'
  <2>1. SeatTypes /\ Seated
    BY SmallTypes DEF IInv
  <2>2. /\ pc[r] = "leave" /\ pc' = [pc EXCEPT ![r] = "ended"]
        /\ active' = [active EXCEPT ![session[r]] = None]
        /\ UNCHANGED <<server, dbVars>>
    BY DEF Leaves
  <2>3. r \in unsaved \/ row[r] \in Terminal
    BY <2>2, SmallTypes DEF IInv, ReasonTypes, Reasoned, ReasonedAt, Closing
  <2> QED BY <2>1, <2>2, <2>3, NoneAssumption DEF SeatTypes, Seated, SeatedAt,
      Live, Terminal
<1> QED BY <1>1, <1>2, <1>3, <1>4, <1>5, <1>6, <1>7 DEF IInv

-----------------------------------------------------------------------------
(* Time, pi, the pool and the server *)

LEMMA DeadlineKeeps ==
  ASSUME IInv, NEW r \in Runs, Deadline(r)
  PROVE  IInv'
<1>1. TypeOK'
  BY DEF IInv, TypeOK, Deadline
<1>2. Leased' /\ Controlled' /\ Reached' /\ Quiet' /\ Reasoned' /\ Seated'
  BY Same DEF Deadline
<1> QED BY <1>1, <1>2 DEF IInv

LEMMA PiSettlesKeeps ==
  ASSUME IInv, NEW p \in Procs, PiSettles(p)
  PROVE  IInv'
<1>1. TypeOK'
  BY DEF IInv, TypeOK, PiSettles
<1>2. Quiet'
  <2>1. QuietTypes /\ Quiet /\ Leased
    BY SmallTypes DEF IInv
  <2> QED BY <2>1 DEF QuietTypes, Quiet, Leased, LeaseTypes, LeaseHasRun, Afoot,
      PiSettles
<1>3. Leased' /\ Controlled' /\ Reached' /\ Reasoned' /\ Seated'
  BY Same DEF PiSettles
<1> QED BY <1>1, <1>2, <1>3 DEF IInv

LEMMA PiTakesSupplementsKeeps ==
  ASSUME IInv, NEW p \in Procs, PiTakesSupplements(p)
  PROVE  IInv'
<1>1. TypeOK'
  BY DEF IInv, TypeOK, PiTakesSupplements
<1>2. Quiet'
  <2>1. QuietTypes /\ Quiet /\ Leased
    BY SmallTypes DEF IInv
  <2> QED BY <2>1 DEF QuietTypes, Quiet, Leased, LeaseTypes, LeaseHasRun, Afoot,
      PiTakesSupplements
<1>3. Leased' /\ Controlled' /\ Reached' /\ Reasoned' /\ Seated'
  BY Same DEF PiTakesSupplements
<1> QED BY <1>1, <1>2, <1>3 DEF IInv

LEMMA PiDiesKeeps ==
  ASSUME IInv, NEW p \in Procs, PiDies(p)
  PROVE  IInv'
<1>1. TypeOK'
  BY DEF IInv, TypeOK, PiDies
<1>2. Quiet'
  <2>1. QuietTypes /\ Quiet /\ Leased
    BY SmallTypes DEF IInv
  <2> QED BY <2>1 DEF QuietTypes, Quiet, Leased, LeaseTypes, LeaseHasRun, Afoot,
      PiDies
<1>3. Leased' /\ Controlled' /\ Reached' /\ Reasoned' /\ Seated'
  BY Same DEF PiDies
<1> QED BY <1>1, <1>2, <1>3 DEF IInv

LEMMA PoolReplacesKeeps ==
  ASSUME IInv, NEW p \in Procs, PoolReplaces(p)
  PROVE  IInv'
<1>1. TypeOK'
  BY DEF IInv, TypeOK, PoolReplaces
<1>2. Quiet'
  <2>1. QuietTypes /\ Quiet /\ Leased
    BY SmallTypes DEF IInv
  <2> QED BY <2>1 DEF QuietTypes, Quiet, Leased, LeaseTypes, LeaseHasRun, Afoot,
      PoolReplaces
<1>3. Leased' /\ Controlled' /\ Reached' /\ Reasoned' /\ Seated'
  BY Same DEF PoolReplaces
<1> QED BY <1>1, <1>2, <1>3 DEF IInv

LEMMA ServerClosesKeeps ==
  ASSUME IInv, ServerCloses
  PROVE  IInv'
<1>1. TypeOK'
  BY DEF IInv, TypeOK, ServerCloses
<1>2. Seated'
  <2>1. SeatTypes /\ Seated
    BY SmallTypes DEF IInv
  <2> QED BY <2>1 DEF SeatTypes, Seated, SeatedAt, Live, ServerCloses
<1>3. Leased' /\ Controlled' /\ Reached' /\ Quiet' /\ Reasoned'
  BY Same DEF ServerCloses
<1> QED BY <1>1, <1>2, <1>3 DEF IInv

LEMMA PoolClosesKeeps ==
  ASSUME IInv, PoolCloses
  PROVE  IInv'
<1>1. TypeOK'
  BY DEF IInv, TypeOK, PoolCloses
<1>2. Quiet'
  <2>1. QuietTypes /\ Quiet /\ Leased
    BY SmallTypes DEF IInv
  <2> QED BY <2>1 DEF QuietTypes, Quiet, Leased, LeaseTypes, LeaseHasRun, Afoot,
      PoolCloses
<1>3. Leased' /\ Controlled' /\ Reached' /\ Reasoned' /\ Seated'
  BY Same DEF PoolCloses
<1> QED BY <1>1, <1>2, <1>3 DEF IInv

LEMMA CloseReturnsKeeps ==
  ASSUME IInv, CloseReturns
  PROVE  IInv'
<1>1. TypeOK'
  BY DEF IInv, TypeOK, CloseReturns
<1>2. Seated'
  <2>1. SeatTypes /\ Seated
    BY SmallTypes DEF IInv
  <2> QED BY <2>1 DEF SeatTypes, Seated, SeatedAt, Live, CloseReturns, RunsEnded
<1>3. Leased' /\ Controlled' /\ Reached' /\ Quiet' /\ Reasoned'
  BY Same DEF CloseReturns
<1> QED BY <1>1, <1>2, <1>3 DEF IInv

LEMMA RestartKeeps ==
  ASSUME IInv, Restart
  PROVE  IInv'
<1>1. TypeOK'
  <2>1. TypeOK
    BY DEF IInv
  <2>2. restarts' \in 0..MaxRestarts
    <3>1. /\ restarts \in 0..MaxRestarts /\ restarts < MaxRestarts
          /\ restarts' = restarts + 1
      BY <2>1 DEF TypeOK, Restart
    <3> QED BY <3>1, BoundsAssumption
  <2>3. /\ row' \in [Runs -> {"none", "queued", "running"} \cup Terminal]
        /\ pc' \in [Runs -> Stages] /\ finished' \in [Runs -> BOOLEAN]
    BY <2>1 DEF TypeOK, Restart, Marked, Terminal, Stages, Exists
  <2>4. /\ client' \in [Runs -> Procs \cup {None}]
        /\ stop' \in [Runs -> {"", "aborted", "timeout", "failed"}]
        /\ verdict' \in [Runs -> {""} \cup Terminal]
        /\ shown' \in [Runs -> BOOLEAN] /\ queueOff' \in [Runs -> BOOLEAN]
        /\ ready' \in [Runs -> BOOLEAN] /\ expired' \in [Runs -> BOOLEAN]
        /\ settled' \in [Runs -> BOOLEAN] /\ runErr' \in [Runs -> BOOLEAN]
    BY <2>1 DEF TypeOK, Restart, Forgets
  <2> QED BY <2>1, <2>2, <2>3, <2>4 DEF TypeOK, Restart
<1>2. Leased'
  <2>1. LeaseTypes /\ Leased
    BY SmallTypes DEF IInv
  <2> QED BY <2>1 DEF LeaseTypes, Leased, LeaseHasRun, Afoot, Restart, Forgets,
      Marked, Exists
<1>3. Controlled'
  <2>1. ControlTypes /\ Controlled
    BY SmallTypes DEF IInv
  <2> QED BY <2>1 DEF ControlTypes, Controlled, ControlledAt, Restart, Forgets,
      Marked, Exists
<1>4. Reached'
  <2>1. ReachTypes /\ Reached /\ Leased
    BY SmallTypes DEF IInv
  <2> QED BY <2>1 DEF ReachTypes, Reached, Leased, ReachedAt, Closing, Restart,
      Forgets, Marked, Exists
<1>5. Quiet'
  <2>1. QuietTypes /\ Quiet /\ Leased
    BY SmallTypes DEF IInv
  <2> QED BY <2>1 DEF QuietTypes, Quiet, Leased, LeaseTypes, LeaseHasRun, Afoot,
      Restart, Forgets, Marked, Exists
<1>6. Reasoned'
  <2>1. ReasonTypes /\ Reasoned
    BY SmallTypes DEF IInv
  <2> QED BY <2>1 DEF ReasonTypes, Reasoned, ReasonedAt, Closing, Terminal,
      Restart, Forgets, Marked, Exists
<1>7. Seated'
  <2>1. SeatTypes /\ Seated
    BY SmallTypes DEF IInv
  <2> QED BY <2>1 DEF SeatTypes, Seated, SeatedAt, Live, Restart, Forgets,
      Marked, Exists
<1> QED BY <1>1, <1>2, <1>3, <1>4, <1>5, <1>6, <1>7 DEF IInv

-----------------------------------------------------------------------------
(* The steps together *)

LEMMA RunStepKeeps ==
  ASSUME IInv, NEW r \in Runs, RunStep(r)
  PROVE  IInv'
<1>1. CASE ReadsSpec(r) \/ AcquireFails(r) \/ ShowsClient(r)
  BY <1>1, ReadsSpecKeeps, AcquireFailsKeeps, ShowsClientKeeps
<1>2. CASE \E p \in Procs : AcquireGets(r, p)
  BY <1>2, AcquireGetsKeeps
<1>3. CASE SavesRunning(r) \/ Prepares(r) \/ ChecksStop(r)
  BY <1>3, SavesRunningKeeps, PreparesKeeps, ChecksStopKeeps
<1>4. CASE PromptAccepted(r) \/ PromptFails(r)
  BY <1>4, PromptAcceptedKeeps, PromptFailsKeeps
<1>5. CASE LoopTimesOut(r) \/ LoopGivesUp(r) \/ LoopSettles(r) \/ LoopDies(r)
  BY <1>5, LoopTimesOutKeeps, LoopGivesUpKeeps, LoopSettlesKeeps, LoopDiesKeeps
<1>6. CASE Wraps(r) \/ Finishes(r) \/ Stores(r) \/ Clears(r)
  BY <1>6, WrapsKeeps, FinishesKeeps, StoresKeeps, ClearsKeeps
<1>7. CASE Releases(r) \/ Unlocks(r) \/ Leaves(r)
  BY <1>7, ReleasesKeeps, UnlocksKeeps, LeavesKeeps
<1> QED BY <1>1, <1>2, <1>3, <1>4, <1>5, <1>6, <1>7 DEF RunStep

LEMMA NextIInv == IInv /\ [Next]_vars => IInv'
<1> SUFFICES ASSUME IInv, [Next]_vars PROVE IInv'
  OBVIOUS
<1>1. CASE UNCHANGED vars
  <2>1. TypeOK'
    BY <1>1 DEF IInv, TypeOK, vars
  <2> QED BY <1>1, <2>1, Same DEF IInv, vars
<1>2. ASSUME NEW r \in Runs,
             \/ \E s \in Sessions : Post(s, r)
             \/ Disconnect(r) \/ Abort(r) \/ Steer(r)
             \/ RunStep(r) \/ ToolLimit(r) \/ Deadline(r) \/ ControlStep(r)
      PROVE  IInv'
  <2>1. CASE \E s \in Sessions : Post(s, r)
    BY <2>1, PostKeeps
  <2>2. CASE Disconnect(r) \/ Abort(r) \/ Steer(r)
    BY <2>2, DisconnectKeeps, AbortKeeps, SteerKeeps
  <2>3. CASE RunStep(r) \/ ToolLimit(r) \/ Deadline(r)
    BY <2>3, RunStepKeeps, ToolLimitKeeps, DeadlineKeeps
  <2>4. CASE ControlStep(r)
    BY <2>4, SteerLocksKeeps, SteerSendsKeeps, StopperLocksKeeps,
        StopperClearsKeeps, StopperAbortsKeeps DEF ControlStep
  <2> QED BY <1>2, <2>1, <2>2, <2>3, <2>4
<1>3. ASSUME NEW p \in Procs, ProcStep(p) PROVE IInv'
  BY <1>3, PiSettlesKeeps, PiTakesSupplementsKeeps, PiDiesKeeps,
      PoolReplacesKeeps DEF ProcStep
<1>4. CASE ServerCloses \/ PoolCloses \/ CloseReturns \/ Restart
  BY <1>4, ServerClosesKeeps, PoolClosesKeeps, CloseReturnsKeeps, RestartKeeps
<1>5. CASE Over
  BY <1>1, <1>5 DEF Over
<1> QED BY <1>1, <1>2, <1>3, <1>4, <1>5 DEF Next

LEMMA SpecIInv == Spec => []IInv
BY InitIInv, NextIInv, PTL DEF Spec

(***************************************************************************)
(* The variables of every run, session and process keep their types.       *)
(***************************************************************************)
THEOREM TypeCorrect == Spec => []TypeOK
<1>1. IInv => TypeOK
  BY DEF IInv
<1> QED BY <1>1, SpecIInv, PTL

(***************************************************************************)
(* A borrowed process has a run that still has it and is going to release  *)
(* it: no way through executePiRun leaks a lease.                          *)
(***************************************************************************)
THEOREM LeasesHaveRuns == Spec => []LeaseHasRun
<1>1. IInv => LeaseHasRun
  BY DEF IInv, Leased
<1> QED BY <1>1, SpecIInv, PTL

(***************************************************************************)
(* Neither a generation nor a supplement nor an event of a run is left for *)
(* the next borrower of its process, and every control command is sent     *)
(* under controlMu to a process that the run still has.                    *)
(***************************************************************************)
THEOREM NothingCrosses == Spec => []NoCrossTalk
<1>1. ASSUME IInv PROVE NoCrossTalk
  <2>1. LeaseTypes /\ QuietTypes /\ Leased /\ Quiet
    BY <1>1, SmallTypes DEF IInv
  <2>2. ASSUME NEW p \in Procs, healthy[p]
        PROVE  /\ work[p] \in {None, owner[p]} /\ steers[p] \subseteq {owner[p]}
               /\ event[p] => owner[p] # None
    BY <2>1, <2>2 DEF Quiet
  <2>3. ASSUME NEW r \in Runs
        PROVE  /\ stopper[r] \in {"clearing", "aborting"} => control[r] = "stopper"
               /\ steerer[r] = "sending" => control[r] = "steerer"
    BY <1>1, <2>3 DEF IInv, Controlled, ControlledAt
  <2>4. ASSUME NEW r \in Runs, control[r] \in {"stopper", "steerer"}
        PROVE  /\ pc[r] \notin {"none", "prompt", "leave", "ended"}
               /\ Has(r) /\ owner[client[r]] = r
    <3>1. shown[r] /\ pc[r] \notin {"leave", "prompt", "unlock"}
      BY <1>1, <2>4 DEF IInv, Controlled, ControlledAt
    <3>2. Has(r)
      BY <1>1, <3>1 DEF IInv, Reached, ReachedAt
    <3> QED BY <2>1, <3>1, <3>2 DEF Leased
  <2> QED BY <2>2, <2>3, <2>4 DEF NoCrossTalk
<1> QED BY <1>1, SpecIInv, PTL

(***************************************************************************)
(* The row says how the run ended: an accepted stop as what it was, and    *)
(* success only of what has settled without an error.                      *)
(***************************************************************************)
THEOREM EndsAreReported == Spec => []EndIsReported
<1>1. IInv => EndIsReported
  BY DEF IInv, Reasoned, ReasonedAt, EndIsReported
<1> QED BY <1>1, SpecIInv, PTL

(***************************************************************************)
(* A live row has its run at work and its session knows it, unless the     *)
(* terminal row could not be written; after a restart no row is live.      *)
(***************************************************************************)
THEOREM RowsHaveRunners == Spec => []LiveRowHasRunner
<1>1. ASSUME IInv PROVE LiveRowHasRunner
  <2> SUFFICES ASSUME NEW r \in Runs, Live(r), r \notin unsaved
               PROVE  /\ active[session[r]] = r /\ server # "closed"
                      /\ pc[r] \notin {"none", "ended"}
    BY DEF LiveRowHasRunner
  <2>1. SeatedAt(r)
    BY <1>1 DEF IInv, Seated
  <2>2. pc[r] \notin {"none", "ended"}
    BY <2>1 DEF SeatedAt, Live
  <2> QED BY <2>1, <2>2 DEF SeatedAt
<1> QED BY <1>1, SpecIInv, PTL

-----------------------------------------------------------------------------
(* What a step never does                                                   *)

\* A terminal row is there only once the run has stored its verdict.
WrittenAt(r) ==
  row[r] \in Terminal =>
    pc[r] \in {"clear", "release", "unlock", "leave", "ended"}

Written == \A r \in Runs : WrittenAt(r)

\* The stages of executePiRun in the order in which a run passes them.
Order == [none |-> 0, spec |-> 1, queue |-> 2, got |-> 3, save |-> 4,
          prepare |-> 5, ready |-> 6, prompt |-> 7, loop |-> 8, grace |-> 9,
          wrap |-> 10, final |-> 11, store |-> 12, clear |-> 13,
          release |-> 14, unlock |-> 15, leave |-> 16, ended |-> 17]

LEMMA WrittenKept ==
  ASSUME IInv, Written, Next
  PROVE  /\ Written'
         /\ \A r \in Runs : row[r] \in Terminal => row'[r] = row[r]
<1> DEFINE Kept == /\ Written'
                   /\ \A r \in Runs : row[r] \in Terminal => row'[r] = row[r]
           Past == {"clear", "release", "unlock", "leave", "ended"}
<1>1. SeatTypes /\ ReasonTypes
  BY SmallTypes DEF IInv
<1>2. \A r \in Runs : row[r] = "none" <=> pc[r] = "none"
  BY DEF IInv, Seated, SeatedAt
<1>3. ASSUME NEW r \in Runs, row' = row,
             pc' = [pc EXCEPT ![r] = pc'[r]],
             pc[r] \in Past => pc'[r] \in Past
      PROVE  Kept
  BY <1>1, <1>3 DEF SeatTypes, Written, WrittenAt
<1>4. ASSUME NEW r \in Runs, NEW s \in Sessions, Post(s, r) PROVE Kept
  BY <1>1, <1>4 DEF Post, SeatTypes, Written, WrittenAt, Terminal
<1>5. ASSUME NEW r \in Runs, SavesRunning(r) PROVE Kept
  BY <1>1, <1>5 DEF SavesRunning, SeatTypes, Written, WrittenAt, Terminal
<1>6. ASSUME NEW r \in Runs, Stores(r) PROVE Kept
  <2>1. pc' = [pc EXCEPT ![r] = pc'[r]] /\ pc'[r] \in Past
    BY <1>1, <1>6 DEF Stores, Stored, SeatTypes
  <2>2. row[r] \notin Terminal
    BY <1>6 DEF Stores, Written, WrittenAt
  <2>3. \A q \in Runs : q # r => row'[q] = row[q] /\ pc'[q] = pc[q]
    BY <1>1, <1>6 DEF Stores, SeatTypes
  <2> QED BY <2>1, <2>2, <2>3 DEF Written, WrittenAt
<1>7. CASE Restart
  BY <1>1, <1>2, <1>7 DEF Restart, Marked, Exists, Live, SeatTypes, Written,
     WrittenAt, Terminal
<1>8. ASSUME NEW r \in Runs, RunStep(r), ~SavesRunning(r), ~Stores(r)
      PROVE  Kept
  <2>1. /\ row' = row /\ pc' = [pc EXCEPT ![r] = pc'[r]]
        /\ pc[r] \in Past => pc'[r] \in Past
    BY <1>1, <1>8 DEF RunStep, SeatTypes, ReadsSpec, AcquireFails, ShowsClient,
       AcquireGets, Prepares, ChecksStop, PromptAccepted, PromptFails,
       LoopTimesOut, LoopGivesUp, LoopSettles, LoopDies, InLoop, Wraps,
       Finishes, Clears, Releases, Unlocks, Leaves
  <2> QED BY <1>3, <2>1
<1>9. CASE UNCHANGED <<row, pc>>
  BY <1>9 DEF Written, WrittenAt
<1>10. ASSUME NEW r \in Runs,
              Disconnect(r) \/ Abort(r) \/ Steer(r) \/ ToolLimit(r)
                \/ Deadline(r) \/ ControlStep(r)
       PROVE  UNCHANGED <<row, pc>>
  BY <1>10 DEF Disconnect, Abort, Steer, ToolLimit, Deadline, ControlStep,
     SteerLocks, SteerSends, StopperLocks, StopperClears, StopperAborts
<1>11. ASSUME NEW p \in Procs, ProcStep(p) PROVE UNCHANGED <<row, pc>>
  BY <1>11 DEF ProcStep, PiSettles, PiTakesSupplements, PiDies, PoolReplaces
<1>12. CASE ServerCloses \/ PoolCloses \/ CloseReturns \/ Over
  BY <1>9, <1>12 DEF ServerCloses, PoolCloses, CloseReturns, Over, vars
<1> QED
  BY <1>4, <1>5, <1>6, <1>7, <1>8, <1>9, <1>10, <1>11, <1>12 DEF Next

(***************************************************************************)
(* The end of a run is told once: no stop that comes late, no deadline and *)
(* no restart of the server rewrites a terminal row.                       *)
(***************************************************************************)
THEOREM EndIsFinal ==
  Spec => [][\A r \in Runs : row[r] \in Terminal => row'[r] = row[r]]_vars
<1> DEFINE Final == \A r \in Runs : row[r] \in Terminal => row'[r] = row[r]
<1>1. Init => Written
  <2> SUFFICES ASSUME Init, NEW r \in Runs PROVE row[r] \notin Terminal
    BY DEF Written, WrittenAt
  <2>1. row[r] = "none"
    BY DEF Init
  <2> QED BY <2>1 DEF Terminal
<1>2. IInv /\ Written /\ [Next]_vars => Written' /\ [Final]_vars
  <2>1. ASSUME UNCHANGED vars PROVE Written <=> Written'
    BY <2>1 DEF vars, Written, WrittenAt
  <2> QED BY <2>1, WrittenKept
<1> QED BY <1>1, <1>2, SpecIInv, PTL DEF Spec

(***************************************************************************)
(* A run only goes forward, and every step of executePiRun takes it        *)
(* further, so that a run is at most as many steps from its end as there   *)
(* are stages left: whatever pi, the users, the clock and the disk do, it  *)
(* cannot go round in circles. With fairness, which TLC checks, it ends    *)
(* (RunsEnd).                                                              *)
(***************************************************************************)
THEOREM RunAdvances ==
  Spec => [][\A r \in Runs : /\ Order[pc[r]] <= Order[pc'[r]]
                             /\ RunStep(r) => Order[pc[r]] < Order[pc'[r]]]_vars
<1> DEFINE Onward == \A r \in Runs :
                       /\ Order[pc[r]] <= Order[pc'[r]]
                       /\ RunStep(r) => Order[pc[r]] < Order[pc'[r]]
<1>1. \A s \in Stages : Order[s] \in 0..17
  BY DEF Order, Stages
<1>2. ASSUME TypeOK, NEW r \in Runs, RunStep(r)
      PROVE  /\ Order[pc[r]] < Order[pc'[r]]
             /\ \A q \in Runs : q # r => pc'[q] = pc[q]
  <2> pc \in [Runs -> Stages]
    BY <1>2 DEF TypeOK
  <2>1. CASE ReadsSpec(r) \/ AcquireFails(r)
    BY <2>1 DEF ReadsSpec, AcquireFails, Order
  <2>6. CASE ShowsClient(r)
    <3>1. /\ pc[r] = "got" /\ pc'[r] \in {"final", "save"}
          /\ \A q \in Runs : q # r => pc'[q] = pc[q]
      BY <2>6 DEF ShowsClient
    <3> QED BY <3>1 DEF Order
  <2>7. ASSUME NEW p \in Procs, AcquireGets(r, p)
        PROVE  /\ Order[pc[r]] < Order[pc'[r]]
               /\ \A q \in Runs : q # r => pc'[q] = pc[q]
    BY <2>7 DEF AcquireGets, Order
  <2>2. CASE SavesRunning(r) \/ Prepares(r)
    BY <2>2 DEF SavesRunning, Prepares, Order
  <2>8. CASE ChecksStop(r)
    <3>1. /\ pc[r] = "ready" /\ pc'[r] \in {"final", "prompt"}
          /\ \A q \in Runs : q # r => pc'[q] = pc[q]
      BY <2>8 DEF ChecksStop
    <3> QED BY <3>1 DEF Order
  <2>9. CASE PromptAccepted(r) \/ PromptFails(r)
    BY <2>9 DEF PromptAccepted, PromptFails, Order
  <2>3. CASE LoopTimesOut(r) \/ LoopGivesUp(r) \/ LoopSettles(r)
               \/ LoopDies(r) \/ Wraps(r)
    BY <2>3 DEF LoopTimesOut, LoopGivesUp, LoopSettles, LoopDies, InLoop,
       Wraps, Order
  <2>4. CASE Finishes(r) \/ Stores(r) \/ Clears(r)
    BY <2>4 DEF Finishes, Stores, Stored, Clears, Order
  <2>5. CASE Releases(r) \/ Unlocks(r) \/ Leaves(r)
    BY <2>5 DEF Releases, Unlocks, Leaves, Order
  <2> QED
    BY <1>2, <2>1, <2>2, <2>3, <2>4, <2>5, <2>6, <2>7, <2>8, <2>9 DEF RunStep
<1>3. ASSUME IInv, Next, \A r \in Runs : ~RunStep(r)
      PROVE  \A r \in Runs : Order[pc[r]] <= Order[pc'[r]]
  <2>1. pc \in [Runs -> Stages]
    BY <1>3 DEF IInv, TypeOK
  <2>2. CASE UNCHANGED pc
    BY <1>1, <2>1, <2>2
  <2>3. ASSUME NEW r \in Runs, NEW s \in Sessions, Post(s, r)
        PROVE  \A q \in Runs : Order[pc[q]] <= Order[pc'[q]]
    <3>1. pc[r] = "none" /\ pc' = [pc EXCEPT ![r] = "spec"]
      BY <1>3, <2>3 DEF Post, IInv, Seated, SeatedAt
    <3>2. Order["none"] <= Order["spec"]
      BY DEF Order
    <3> QED BY <1>1, <2>1, <3>1, <3>2
  <2>4. CASE Restart
    <3>1. \A r \in Runs : pc'[r] = "ended" \/ pc'[r] = pc[r]
      BY <2>4 DEF Restart, Exists
    <3>2. Order["ended"] = 17
      BY DEF Order
    <3> QED BY <1>1, <2>1, <3>1, <3>2
  <2>5. ASSUME NEW r \in Runs,
               Disconnect(r) \/ Abort(r) \/ Steer(r) \/ ToolLimit(r)
                 \/ Deadline(r) \/ ControlStep(r)
        PROVE  UNCHANGED pc
    BY <2>5 DEF Disconnect, Abort, Steer, ToolLimit, Deadline, ControlStep,
       SteerLocks, SteerSends, StopperLocks, StopperClears, StopperAborts
  <2>6. ASSUME NEW p \in Procs, ProcStep(p) PROVE UNCHANGED pc
    BY <2>6 DEF ProcStep, PiSettles, PiTakesSupplements, PiDies, PoolReplaces
  <2>7. CASE ServerCloses \/ PoolCloses \/ CloseReturns \/ Over
    BY <2>2, <2>7 DEF ServerCloses, PoolCloses, CloseReturns, Over, vars
  <2> QED
    BY <1>3, <2>2, <2>3, <2>4, <2>5, <2>6, <2>7 DEF Next
<1>4. IInv /\ [Next]_vars => [Onward]_vars
  <2> SUFFICES ASSUME IInv, Next PROVE Onward
    OBVIOUS
  <2>1. TypeOK /\ pc \in [Runs -> Stages]
    BY DEF IInv, TypeOK
  <2>2. (TypeOK /\ pc \in [Runs -> Stages])'
    BY NextIInv DEF IInv, TypeOK
  <2>3. ASSUME NEW r \in Runs, RunStep(r)
        PROVE  /\ Order[pc[r]] < Order[pc'[r]]
               /\ \A q \in Runs : Order[pc[q]] <= Order[pc'[q]]
    <3>1. /\ Order[pc[r]] < Order[pc'[r]]
          /\ \A q \in Runs : q # r => pc'[q] = pc[q]
      BY <1>2, <2>1, <2>3
    <3>2. \A q \in Runs : Order[pc[q]] <= Order[pc[q]]
      BY <1>1, <2>1
    <3>3. Order[pc[r]] <= Order[pc'[r]]
      BY <1>1, <2>1, <2>2, <3>1
    <3> QED BY <3>1, <3>2, <3>3
  <2> QED BY <1>3, <2>3
<1> QED BY <1>4, SpecIInv, PTL DEF Spec
=============================================================================
