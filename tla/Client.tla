------------------------------- MODULE Client -------------------------------
(***************************************************************************)
(* internal/pirpc/client.go: one pi process and the goroutines around it.  *)
(* Any number of Command calls run at once; one goroutine writes stdin     *)
(* (writeLoop), one reads stdout (readStdout, handleRecord), one stderr,   *)
(* and one waits for the process and ends everything (reap). terminate is  *)
(* called by all of them.                                                  *)
(*                                                                         *)
(* The pi process itself is external: it reads commands, answers each at   *)
(* most once and in any order, emits events, may stop reading, may write   *)
(* something terminate has to react to, and may exit at any time. A        *)
(* descendant of it may go on holding its pipes ("orphan").                *)
(*                                                                         *)
(* A command stands for its id. The contents of commands, responses and    *)
(* events are left out, and so is the stderr tail.                         *)
(***************************************************************************)
EXTENDS Naturals, Sequences, FiniteSets

CONSTANTS Commands,   \* the commands ever issued, by id
          Impatient,  \* bound: the commands whose context may be cancelled
          EventCap,   \* eventCapacity
          PipeCap,    \* lines that fit in a pipe
          MaxEvents,  \* bound: events and faulty records pi emits
          NoCommand

ASSUME CapAssumption == /\ EventCap \in Nat /\ MaxEvents \in Nat
                        /\ PipeCap \in Nat \ {0}
ASSUME CommandAssumption == NoCommand \notin Commands /\ Impatient \subseteq Commands

Event == "event"
Fault == "fault"   \* invalid JSON, or a notice that MCP has failed

VARIABLES
  cmd,        \* where each call of Command stands
  cancelled,  \* ctx.Err() # nil of its context
  pending,    \* c.pending
  mail,       \* the commands whose response channel holds the response
  watch,      \* context.AfterFunc of the write: "off", "armed", "fired"
  writer,     \* writeLoop: "select", "writing", "written", "ended"
  line,       \* the command writeLoop is busy with
  reader,     \* readStdout: "reading", "delivering", "ended"
  target,     \* the command whose response is about to be delivered
  errReader,  \* readStderr: "reading", "ended"
  events,     \* the number of records in c.events
  reap,       \* reap: "wait", "readers", "forced", "writer", "close", "ended"
  stopped,    \* c.stop is closed: c.reason is set
  eventsClosed, done,
  proc,       \* "alive" or "dead"
  orphan,     \* somebody else holds the dead process's pipes
  inbox,      \* lines in the stdin pipe
  working,    \* commands pi has read and not answered
  outbox,     \* records in the stdout pipe
  emitted     \* events and faults emitted so far

callVars == <<cmd, cancelled, pending, mail>>
writeVars == <<watch, writer, line>>
readVars == <<reader, target, errReader, events>>
endVars == <<reap, eventsClosed, done>>
piVars == <<inbox, working, outbox, emitted>>
stopVars == <<stopped, proc, orphan>>
vars == <<callVars, writeVars, readVars, endVars, piVars, stopVars>>

-----------------------------------------------------------------------------
Init == /\ cmd = [i \in Commands |-> "new"]
        /\ cancelled = [i \in Commands |-> FALSE]
        /\ pending = {}
        /\ mail = {}
        /\ watch = [i \in Commands |-> "off"]
        /\ writer = "select"
        /\ line = NoCommand
        /\ reader = "reading"
        /\ target = NoCommand
        /\ errReader = "reading"
        /\ events = 0
        /\ reap = "wait"
        /\ stopped = FALSE
        /\ eventsClosed = FALSE
        /\ done = FALSE
        /\ proc = "alive"
        /\ orphan = FALSE
        /\ inbox = <<>>
        /\ working = {}
        /\ outbox = <<>>
        /\ emitted = 0

UnderWay(i) == cmd[i] \in {"offering", "awaiting"}

\* The process dies; whether a descendant keeps its pipes open is up to it.
Dies == IF proc = "alive" THEN proc' = "dead" /\ orphan' \in BOOLEAN
        ELSE UNCHANGED <<proc, orphan>>

\* terminate: the first call counts. It kills, and waits for nothing.
Terminate == IF stopped THEN UNCHANGED stopVars
             ELSE stopped' = TRUE /\ Dies

-----------------------------------------------------------------------------
(* Command *)

\* Registers the id.
Begin(i) ==
  /\ cmd[i] = "new" /\ ~stopped
  /\ cmd' = [cmd EXCEPT ![i] = "offering"]
  /\ pending' = pending \cup {i}
  /\ UNCHANGED <<cancelled, mail, writeVars, readVars, endVars, piVars, stopVars>>

\* A client that is stopping takes no more: the caller waits for its end.
Refuse(i) ==
  /\ cmd[i] = "new" /\ done
  /\ cmd' = [cmd EXCEPT ![i] = "failed"]
  /\ UNCHANGED <<cancelled, pending, mail, writeVars, readVars, endVars, piVars,
                 stopVars>>

\* The context is cancelled: a timeout, the caller, or the deferred cancel of
\* a caller that has its response, which only an armed watch can notice.
Cancel(i) ==
  /\ i \in Impatient /\ ~cancelled[i]
  /\ UnderWay(i) \/ (cmd[i] = "answered" /\ watch[i] = "armed")
  /\ cancelled' = [cancelled EXCEPT ![i] = TRUE]
  /\ watch' = [watch EXCEPT ![i] = IF @ = "armed" THEN "fired" ELSE @]
  /\ UNCHANGED <<cmd, pending, mail, writer, line, readVars, endVars, piVars, stopVars>>

\* Mutant: the deferred delete is missing.
ReturnsUnclean(i, how) == cmd' = [cmd EXCEPT ![i] = how] /\ UNCHANGED pending
\* Command returns, and its deferred delete runs.
Returns(i, how) == /\ cmd' = [cmd EXCEPT ![i] = how]
                   /\ pending' = pending \ {i}

GiveUp(i) ==
  /\ UnderWay(i) /\ cancelled[i]
  /\ Returns(i, "failed")
  /\ UNCHANGED <<cancelled, mail, writeVars, readVars, endVars, piVars, stopVars>>

Answered(i) ==
  /\ cmd[i] = "awaiting" /\ i \in mail
  /\ Returns(i, "answered")
  /\ mail' = mail \ {i}
  /\ UNCHANGED <<cancelled, writeVars, readVars, endVars, piVars, stopVars>>

\* case <-c.stop, then <-c.done: who has seen the first only waits for the
\* second, and leaves its entry in pending until then.
SeesDone(i) ==
  /\ UnderWay(i) /\ done
  /\ Returns(i, "failed")
  /\ UNCHANGED <<cancelled, mail, writeVars, readVars, endVars, piVars, stopVars>>

-----------------------------------------------------------------------------
(* writeLoop *)

\* The rendezvous on c.writes. A command cancelled by now is not written.
TakeLine(i) ==
  /\ writer = "select" /\ cmd[i] = "offering"
  /\ cmd' = [cmd EXCEPT ![i] = "awaiting"]
  /\ IF cancelled[i] THEN UNCHANGED writeVars
     ELSE /\ writer' = "writing"
          /\ line' = i
          /\ watch' = [watch EXCEPT ![i] = "armed"]
  /\ UNCHANGED <<cancelled, pending, mail, readVars, endVars, piVars, stopVars>>

\* stopCancel(): too late for a function that has started already.
Disarm == watch' = [watch EXCEPT ![line] = IF @ = "armed" THEN "off" ELSE @]

\* stdin.Write returns: the whole line fits into the pipe ...
WriteLine ==
  /\ writer = "writing" /\ ~stopped /\ Len(inbox) < PipeCap
  /\ proc = "alive" \/ orphan
  /\ inbox' = Append(inbox, line)
  /\ writer' = "written"
  /\ UNCHANGED <<callVars, watch, line, readVars, endVars, working, outbox,
                 emitted, stopVars>>

\* ... or the pipe is closed, at either end.
WriteFails ==
  /\ writer = "writing"
  /\ stopped \/ (proc = "dead" /\ ~orphan)
  /\ Disarm
  /\ writer' = "ended"
  /\ line' = NoCommand
  /\ Terminate
  /\ UNCHANGED <<callVars, readVars, endVars, piVars>>

StopCancel ==
  /\ writer = "written"
  /\ Disarm
  /\ writer' = "select"
  /\ line' = NoCommand
  /\ UNCHANGED <<callVars, readVars, endVars, piVars, stopVars>>

\* The function of context.AfterFunc, in a goroutine of its own.
WriteCancelled(i) ==
  /\ watch[i] = "fired"
  /\ watch' = [watch EXCEPT ![i] = "off"]
  /\ Terminate
  /\ UNCHANGED <<callVars, writer, line, readVars, endVars, piVars>>

WriterStops ==
  /\ writer = "select" /\ stopped
  /\ writer' = "ended"
  /\ UNCHANGED <<callVars, watch, line, readVars, endVars, piVars, stopVars>>

-----------------------------------------------------------------------------
(* readStdout and readStderr *)

Readable == reader = "reading" /\ outbox # <<>> /\ reap # "forced"

\* The response of a command that is not waiting any more is dropped.
ReadResponse ==
  /\ Readable /\ Head(outbox) \in Commands
  /\ outbox' = Tail(outbox)
  /\ pending' = pending \ {Head(outbox)}
  /\ IF Head(outbox) \in pending
     THEN reader' = "delivering" /\ target' = Head(outbox)
     ELSE UNCHANGED <<reader, target>>
  /\ UNCHANGED <<cmd, cancelled, mail, writeVars, errReader, events, endVars,
                 inbox, working, emitted, stopVars>>

\* Mutant: the channel of the response has no buffer.
RoomForMailUnbuffered == cmd[target] = "awaiting"
RoomForMail == target \notin mail
\* response <- record, after the unlock: the channel has room for one.
Deliver ==
  /\ reader = "delivering" /\ RoomForMail
  /\ mail' = mail \cup {target}
  /\ reader' = "reading"
  /\ target' = NoCommand
  /\ UNCHANGED <<cmd, cancelled, pending, writeVars, errReader, events,
                 endVars, piVars, stopVars>>

\* Mutant: the reader waits for room in c.events.
OverflowBlocks == FALSE /\ UNCHANGED <<reader, stopVars>>
Overflow == reader' = "ended" /\ Terminate

\* Mutant: one event too many.
RoomForOneMore == events <= EventCap
RoomForEvent == events < EventCap

ReadEvent ==
  /\ Readable /\ Head(outbox) = Event
  /\ outbox' = Tail(outbox)
  /\ IF RoomForEvent
     THEN events' = events + 1 /\ UNCHANGED <<reader, stopVars>>
     ELSE Overflow /\ UNCHANGED events
  /\ UNCHANGED <<callVars, writeVars, target, errReader, endVars, inbox,
                 working, emitted>>

ReadFault ==
  /\ Readable /\ Head(outbox) = Fault
  /\ outbox' = Tail(outbox)
  /\ reader' = "ended"
  /\ Terminate
  /\ UNCHANGED <<callVars, writeVars, target, errReader, events, endVars,
                 inbox, working, emitted>>

\* End of file, or reap has closed the reading end.
PipeEnds == (proc = "dead" /\ ~orphan) \/ reap = "forced"

ReadEnds ==
  /\ reader = "reading" /\ PipeEnds
  /\ outbox = <<>> \/ reap = "forced"
  /\ reader' = "ended"
  /\ Terminate
  /\ UNCHANGED <<callVars, writeVars, target, errReader, events, endVars, piVars>>

StderrEnds ==
  /\ errReader = "reading" /\ PipeEnds
  /\ errReader' = "ended"
  /\ UNCHANGED <<callVars, writeVars, reader, target, events, endVars, piVars,
                 stopVars>>

-----------------------------------------------------------------------------
(* reap *)

ReadersEnded == reader = "ended" /\ errReader = "ended"

ReapWait ==
  /\ reap = "wait" /\ proc = "dead"
  /\ Terminate
  /\ reap' = "readers"
  /\ UNCHANGED <<callVars, writeVars, readVars, eventsClosed, done, piVars>>

\* The readers have not ended within a second: their pipes are closed.
ReapForces ==
  /\ reap = "readers" /\ ~ReadersEnded
  /\ reap' = "forced"
  /\ UNCHANGED <<callVars, writeVars, readVars, eventsClosed, done, piVars, stopVars>>

\* Mutant: once it has closed the pipes, reap does not wait again.
ReadersGone == ReadersEnded \/ reap = "forced"
ReadersWaited == ReadersEnded

ReapReaders ==
  /\ reap \in {"readers", "forced"} /\ ReadersWaited
  /\ reap' = "writer"
  /\ UNCHANGED <<callVars, writeVars, readVars, eventsClosed, done, piVars, stopVars>>

ReapCloses ==
  /\ reap = "writer" /\ writer = "ended"
  /\ reap' = "close"
  /\ eventsClosed' = TRUE
  /\ UNCHANGED <<callVars, writeVars, readVars, done, piVars, stopVars>>

ReapEnds ==
  /\ reap = "close"
  /\ reap' = "ended"
  /\ done' = TRUE
  /\ UNCHANGED <<callVars, writeVars, readVars, eventsClosed, piVars, stopVars>>

\* Close, and the pool's terminate; Close then waits for done.
Close ==
  /\ ~stopped
  /\ Terminate
  /\ UNCHANGED <<callVars, writeVars, readVars, endVars, piVars>>

\* The holder of the process consumes an event, or drainEvents drops it.
Consume ==
  /\ events > 0
  /\ events' = events - 1
  /\ UNCHANGED <<callVars, writeVars, reader, target, errReader, endVars,
                 piVars, stopVars>>

-----------------------------------------------------------------------------
(* The pi process *)

PiReads ==
  /\ proc = "alive" /\ inbox # <<>>
  /\ inbox' = Tail(inbox)
  /\ working' = working \cup {Head(inbox)}
  /\ UNCHANGED <<callVars, writeVars, readVars, endVars, outbox, emitted, stopVars>>

PiAnswers(i) ==
  /\ proc = "alive" /\ i \in working /\ Len(outbox) < PipeCap
  /\ working' = working \ {i}
  /\ outbox' = Append(outbox, i)
  /\ UNCHANGED <<callVars, writeVars, readVars, endVars, inbox, emitted, stopVars>>

PiEmits(record) ==
  /\ proc = "alive" /\ emitted < MaxEvents /\ Len(outbox) < PipeCap
  /\ emitted' = emitted + 1
  /\ outbox' = Append(outbox, record)
  /\ UNCHANGED <<callVars, writeVars, readVars, endVars, inbox, working, stopVars>>

PiExits ==
  /\ proc = "alive"
  /\ Dies
  /\ UNCHANGED <<callVars, writeVars, readVars, endVars, piVars, stopped>>

\* The only place the client may stop.
Ended == /\ done /\ events = 0
         /\ \A i \in Commands : cmd[i] \in {"answered", "failed"}
         /\ UNCHANGED vars

-----------------------------------------------------------------------------
CommandStep(i) == \/ Begin(i) \/ Refuse(i) \/ Cancel(i)
                  \/ GiveUp(i) \/ Answered(i) \/ SeesDone(i)
WriterStep == \/ \E i \in Commands : TakeLine(i)
              \/ WriteLine \/ WriteFails \/ StopCancel \/ WriterStops
ReaderStep == ReadResponse \/ Deliver \/ ReadEvent \/ ReadFault \/ ReadEnds
ReapStep == ReapWait \/ ReapForces \/ ReapReaders \/ ReapCloses \/ ReapEnds
PiStep == \/ PiReads \/ PiExits
          \/ \E i \in Commands : PiAnswers(i)
          \/ \E record \in {Event, Fault} : PiEmits(record)

Next == \/ \E i \in Commands : CommandStep(i) \/ WriteCancelled(i)
        \/ WriterStep \/ ReaderStep \/ StderrEnds \/ ReapStep
        \/ Close \/ Consume \/ PiStep \/ Ended

Spec == Init /\ [][Next]_vars

(***************************************************************************)
(* Fairness: the goroutines of the client are scheduled, and a call that   *)
(* may return does. Nothing is asked of pi, of the consumer of the events, *)
(* or of the contexts: pi may stop reading and nobody may ever consume.    *)
(***************************************************************************)
CommandReturns(i) == GiveUp(i) \/ Answered(i) \/ SeesDone(i)

Fairness == /\ WF_vars(WriterStep) /\ WF_vars(ReaderStep)
            /\ WF_vars(StderrEnds) /\ WF_vars(ReapStep)
            /\ WF_vars(\E i \in Commands : WriteCancelled(i))
            /\ \A i \in Commands : WF_vars(CommandReturns(i))

FairSpec == Spec /\ Fairness

-----------------------------------------------------------------------------
(* Properties *)

(***************************************************************************)
(* Type correctness.                                                       *)
(***************************************************************************)
TypeOK ==
  /\ cmd \in [Commands -> {"new", "offering", "awaiting", "answered", "failed"}]
  /\ cancelled \in [Commands -> BOOLEAN]
  /\ pending \in SUBSET Commands /\ mail \in SUBSET Commands
  /\ watch \in [Commands -> {"off", "armed", "fired"}]
  /\ writer \in {"select", "writing", "written", "ended"}
  /\ line \in Commands \cup {NoCommand}
  /\ reader \in {"reading", "delivering", "ended"}
  /\ target \in Commands \cup {NoCommand}
  /\ errReader \in {"reading", "ended"}
  /\ events \in 0..EventCap
  /\ reap \in {"wait", "readers", "forced", "writer", "close", "ended"}
  /\ stopped \in BOOLEAN /\ eventsClosed \in BOOLEAN /\ done \in BOOLEAN /\ orphan \in BOOLEAN
  /\ proc \in {"alive", "dead"}
  /\ inbox \in Seq(Commands) /\ Len(inbox) <= PipeCap
  /\ working \in SUBSET Commands
  /\ outbox \in Seq(Commands \cup {Event, Fault}) /\ Len(outbox) <= PipeCap
  /\ emitted \in 0..MaxEvents

(***************************************************************************)
(* Comment of Client: done means that the process and every I/O goroutine  *)
(* have ended. c.events is closed before, when nobody can send on it any   *)
(* more: a send on a closed channel would panic.                           *)
(***************************************************************************)
DoneIsLast ==
  /\ eventsClosed => /\ stopped /\ proc = "dead"
                     /\ ReadersEnded /\ writer = "ended"
  /\ done => eventsClosed

(***************************************************************************)
(* c.pending does not leak, and keeps what is needed: a command that has   *)
(* returned is not in it, and one that waits for its response is in it     *)
(* until the reader has taken its response out of the pipe.                *)
(***************************************************************************)
PendingIsExact ==
  \A i \in Commands :
    /\ i \in pending => UnderWay(i)
    /\ UnderWay(i) => i \in pending \/ i \in mail \/ target = i

(***************************************************************************)
(* A client that stops ends: done is closed, with a process that leaves    *)
(* descendants, a pi that does not read and events nobody consumes.        *)
(***************************************************************************)
StopEnds == stopped ~> done

(***************************************************************************)
(* Comment of handleRecord: events nobody consumes do not keep a response  *)
(* (of abort, of get_state) from the command that waits for it; at worst   *)
(* the client stops.                                                       *)
(***************************************************************************)
ResponsesArrive ==
  \A i \in Commands : (\E k \in DOMAIN outbox : outbox[k] = i)
                        ~> cmd[i] \in {"answered", "failed"}
=============================================================================
