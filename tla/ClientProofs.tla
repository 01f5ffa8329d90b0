---------------------------- MODULE ClientProofs ----------------------------
(***************************************************************************)
(* What the RPC client guarantees for any set of commands, any capacity of *)
(* channel and pipes and any number of events: reap closes the channel of  *)
(* the events and then done when everybody else has ended, and the table   *)
(* of pending commands is exact.                                           *)
(***************************************************************************)
EXTENDS Client, SequenceTheorems, TLAPS

(***************************************************************************)
(* The inductive invariant: where reap stands says who has ended, and who  *)
(* writes or delivers has a command to do it for.                          *)
(***************************************************************************)
ReapConsistent ==
  /\ reap # "wait" => stopped /\ proc = "dead"
  /\ reap \in {"writer", "close", "ended"} => ReadersEnded
  /\ reap \in {"close", "ended"} => writer = "ended"
  /\ eventsClosed <=> reap \in {"close", "ended"}
  /\ done <=> reap = "ended"

HandsConsistent ==
  /\ writer \in {"writing", "written"} <=> line # NoCommand
  /\ reader = "delivering" <=> target # NoCommand

IInv == TypeOK /\ ReapConsistent /\ HandsConsistent /\ PendingIsExact

\* terminate keeps the types of what it writes.
LEMMA TerminateTypes ==
  ASSUME TypeOK, Terminate
  PROVE  /\ stopped' \in BOOLEAN /\ orphan' \in BOOLEAN
         /\ proc' \in {"alive", "dead"}
<1>1. CASE stopped
  BY <1>1 DEF Terminate, stopVars, TypeOK
<1>2. CASE ~stopped
  BY <1>2 DEF Terminate, Dies, TypeOK
<1> QED BY <1>1, <1>2

LEMMA InitIInv == Init => IInv
<1> SUFFICES ASSUME Init PROVE IInv
  OBVIOUS
<1>1. TypeOK
  <2>1. /\ <<>> \in Seq(Commands) /\ <<>> \in Seq(Commands \cup {Event, Fault})
        /\ Len(<<>>) = 0
    BY EmptySeq
  <2>2. /\ cancelled \in [Commands -> BOOLEAN]
        /\ stopped \in BOOLEAN /\ eventsClosed \in BOOLEAN
        /\ done \in BOOLEAN /\ orphan \in BOOLEAN
    BY DEF Init
  <2>3. events \in 0..EventCap /\ emitted \in 0..MaxEvents /\ 0 <= PipeCap
    BY CapAssumption DEF Init
  <2> QED BY <2>1, <2>2, <2>3 DEF Init, TypeOK
<1>2. ReapConsistent /\ HandsConsistent /\ PendingIsExact
  BY CommandAssumption DEF Init, ReapConsistent, HandsConsistent,
      PendingIsExact, UnderWay
<1> QED BY <1>1, <1>2 DEF IInv

\* A call of Command, and the function that watches its write.
LEMMA CommandKeeps ==
  ASSUME IInv, NEW i \in Commands,
  CommandStep(i) \/ WriteCancelled(i) PROVE IInv'
<1> USE DEF callVars, writeVars, readVars, endVars, piVars, stopVars
<1>1. CASE Begin(i)
  <2>1. TypeOK'
    BY <1>1 DEF IInv, TypeOK, HandsConsistent, Begin
  <2>2. ReapConsistent'
    BY <1>1 DEF IInv, ReapConsistent, ReadersEnded, Begin
  <2>3. HandsConsistent'
    BY <1>1 DEF IInv, TypeOK, HandsConsistent, Begin
  <2>4. PendingIsExact'
    BY <1>1 DEF IInv, TypeOK, HandsConsistent, PendingIsExact, UnderWay, Begin
  <2> QED BY <2>1, <2>2, <2>3, <2>4 DEF IInv
<1>2. CASE Refuse(i)
  <2>1. TypeOK'
    BY <1>2 DEF IInv, TypeOK, HandsConsistent, Refuse
  <2>2. ReapConsistent'
    BY <1>2 DEF IInv, ReapConsistent, ReadersEnded, Refuse
  <2>3. HandsConsistent'
    BY <1>2 DEF IInv, TypeOK, HandsConsistent, Refuse
  <2>4. PendingIsExact'
    BY <1>2 DEF IInv, TypeOK, HandsConsistent, PendingIsExact, UnderWay, Refuse
  <2> QED BY <2>1, <2>2, <2>3, <2>4 DEF IInv
<1>3. CASE Cancel(i)
  <2>1. TypeOK'
    BY <1>3 DEF IInv, TypeOK, HandsConsistent, Cancel, UnderWay
  <2>2. ReapConsistent'
    BY <1>3 DEF IInv, ReapConsistent, ReadersEnded, Cancel, UnderWay
  <2>3. HandsConsistent'
    BY <1>3 DEF IInv, TypeOK, HandsConsistent, Cancel, UnderWay
  <2>4. PendingIsExact'
    BY <1>3 DEF IInv, TypeOK, HandsConsistent, PendingIsExact, UnderWay,
        Cancel, UnderWay
  <2> QED BY <2>1, <2>2, <2>3, <2>4 DEF IInv
<1>4. CASE GiveUp(i)
  <2>1. TypeOK'
    BY <1>4 DEF IInv, TypeOK, HandsConsistent, GiveUp, Returns, UnderWay
  <2>2. ReapConsistent'
    BY <1>4 DEF IInv, ReapConsistent, ReadersEnded, GiveUp, Returns, UnderWay
  <2>3. HandsConsistent'
    BY <1>4 DEF IInv, TypeOK, HandsConsistent, GiveUp, Returns, UnderWay
  <2>4. PendingIsExact'
    BY <1>4 DEF IInv, TypeOK, HandsConsistent, PendingIsExact, UnderWay,
        GiveUp, Returns, UnderWay
  <2> QED BY <2>1, <2>2, <2>3, <2>4 DEF IInv
<1>5. CASE Answered(i)
  <2>1. TypeOK'
    BY <1>5 DEF IInv, TypeOK, HandsConsistent, Answered, Returns
  <2>2. ReapConsistent'
    BY <1>5 DEF IInv, ReapConsistent, ReadersEnded, Answered, Returns
  <2>3. HandsConsistent'
    BY <1>5 DEF IInv, TypeOK, HandsConsistent, Answered, Returns
  <2>4. PendingIsExact'
    BY <1>5 DEF IInv, TypeOK, HandsConsistent, PendingIsExact, UnderWay,
        Answered, Returns
  <2> QED BY <2>1, <2>2, <2>3, <2>4 DEF IInv
<1>6. CASE SeesDone(i)
  <2>1. TypeOK'
    BY <1>6 DEF IInv, TypeOK, HandsConsistent, SeesDone, Returns, UnderWay
  <2>2. ReapConsistent'
    BY <1>6 DEF IInv, ReapConsistent, ReadersEnded, SeesDone, Returns, UnderWay
  <2>3. HandsConsistent'
    BY <1>6 DEF IInv, TypeOK, HandsConsistent, SeesDone, Returns, UnderWay
  <2>4. PendingIsExact'
    BY <1>6 DEF IInv, TypeOK, HandsConsistent, PendingIsExact, UnderWay,
        SeesDone, Returns, UnderWay
  <2> QED BY <2>1, <2>2, <2>3, <2>4 DEF IInv
<1>7. CASE WriteCancelled(i)
  <2>1. TypeOK'
    <3>1. /\ stopped' \in BOOLEAN /\ orphan' \in BOOLEAN
          /\ proc' \in {"alive", "dead"}
      BY <1>7, TerminateTypes DEF WriteCancelled, IInv
    <3> QED BY <1>7, <3>1 DEF IInv, TypeOK, WriteCancelled
  <2>2. ReapConsistent'
    BY <1>7 DEF IInv, ReapConsistent, ReadersEnded, WriteCancelled, Terminate,
        Dies
  <2>3. HandsConsistent'
    BY <1>7 DEF IInv, TypeOK, HandsConsistent, WriteCancelled, Terminate, Dies
  <2>4. PendingIsExact'
    BY <1>7 DEF IInv, TypeOK, HandsConsistent, PendingIsExact, UnderWay,
        WriteCancelled, Terminate, Dies
  <2> QED BY <2>1, <2>2, <2>3, <2>4 DEF IInv
<1> QED BY <1>1, <1>2, <1>3, <1>4, <1>5, <1>6, <1>7 DEF CommandStep

\* writeLoop.
LEMMA WriterKeeps ==
  ASSUME IInv, WriterStep PROVE IInv'
<1> USE DEF callVars, writeVars, readVars, endVars, piVars, stopVars
<1>1. CASE \E i \in Commands : TakeLine(i)
  <2>1. TypeOK'
    BY <1>1, CommandAssumption DEF IInv, TypeOK, HandsConsistent, TakeLine
  <2>2. ReapConsistent'
    BY <1>1 DEF IInv, ReapConsistent, ReadersEnded, TakeLine
  <2>3. HandsConsistent'
    BY <1>1, CommandAssumption DEF IInv, TypeOK, HandsConsistent, TakeLine
  <2>4. PendingIsExact'
    BY <1>1, CommandAssumption DEF IInv, TypeOK, HandsConsistent,
        PendingIsExact, UnderWay, TakeLine
  <2> QED BY <2>1, <2>2, <2>3, <2>4 DEF IInv
<1>2. CASE WriteLine
  <2>1. TypeOK'
    BY <1>2, CapAssumption DEF IInv, TypeOK, HandsConsistent, WriteLine
  <2>2. ReapConsistent'
    BY <1>2 DEF IInv, ReapConsistent, ReadersEnded, WriteLine
  <2>3. HandsConsistent'
    BY <1>2, CapAssumption DEF IInv, TypeOK, HandsConsistent, WriteLine
  <2>4. PendingIsExact'
    BY <1>2, CapAssumption DEF IInv, TypeOK, HandsConsistent, PendingIsExact,
        UnderWay, WriteLine
  <2> QED BY <2>1, <2>2, <2>3, <2>4 DEF IInv
<1>3. CASE WriteFails
  <2>1. TypeOK'
    BY <1>3 DEF IInv, TypeOK, HandsConsistent, WriteFails, Disarm, Terminate,
        Dies
  <2>2. ReapConsistent'
    BY <1>3 DEF IInv, ReapConsistent, ReadersEnded, WriteFails, Disarm,
        Terminate, Dies
  <2>3. HandsConsistent'
    BY <1>3 DEF IInv, TypeOK, HandsConsistent, WriteFails, Disarm, Terminate,
        Dies
  <2>4. PendingIsExact'
    BY <1>3 DEF IInv, TypeOK, HandsConsistent, PendingIsExact, UnderWay,
        WriteFails, Disarm, Terminate, Dies
  <2> QED BY <2>1, <2>2, <2>3, <2>4 DEF IInv
<1>4. CASE StopCancel
  <2>1. TypeOK'
    BY <1>4 DEF IInv, TypeOK, HandsConsistent, StopCancel, Disarm
  <2>2. ReapConsistent'
    BY <1>4 DEF IInv, ReapConsistent, ReadersEnded, StopCancel, Disarm
  <2>3. HandsConsistent'
    BY <1>4 DEF IInv, TypeOK, HandsConsistent, StopCancel, Disarm
  <2>4. PendingIsExact'
    BY <1>4 DEF IInv, TypeOK, HandsConsistent, PendingIsExact, UnderWay,
        StopCancel, Disarm
  <2> QED BY <2>1, <2>2, <2>3, <2>4 DEF IInv
<1>5. CASE WriterStops
  <2>1. TypeOK'
    BY <1>5 DEF IInv, TypeOK, HandsConsistent, WriterStops
  <2>2. ReapConsistent'
    BY <1>5 DEF IInv, ReapConsistent, ReadersEnded, WriterStops
  <2>3. HandsConsistent'
    BY <1>5 DEF IInv, TypeOK, HandsConsistent, WriterStops
  <2>4. PendingIsExact'
    BY <1>5 DEF IInv, TypeOK, HandsConsistent, PendingIsExact, UnderWay,
        WriterStops
  <2> QED BY <2>1, <2>2, <2>3, <2>4 DEF IInv
<1> QED BY <1>1, <1>2, <1>3, <1>4, <1>5 DEF WriterStep

\* The readers of stdout and stderr, and the consumer of the events.
LEMMA ReaderKeeps ==
  ASSUME IInv, ReaderStep \/ StderrEnds \/ Consume PROVE IInv'
<1> USE DEF callVars, writeVars, readVars, endVars, piVars, stopVars
<1>1. CASE ReadResponse
  <2>1. TypeOK'
    BY <1>1, CommandAssumption, CapAssumption DEF IInv, TypeOK,
        HandsConsistent, ReadResponse, Readable
  <2>2. ReapConsistent'
    BY <1>1 DEF IInv, ReapConsistent, ReadersEnded, ReadResponse, Readable
  <2>3. HandsConsistent'
    BY <1>1, CommandAssumption, CapAssumption DEF IInv, TypeOK,
        HandsConsistent, ReadResponse, Readable
  <2>4. PendingIsExact'
    BY <1>1, CommandAssumption, CapAssumption DEF IInv, TypeOK,
        HandsConsistent, PendingIsExact, UnderWay, ReadResponse, Readable
  <2> QED BY <2>1, <2>2, <2>3, <2>4 DEF IInv
<1>2. CASE Deliver
  <2>1. TypeOK'
    BY <1>2, CommandAssumption DEF IInv, TypeOK, HandsConsistent, Deliver,
        RoomForMail
  <2>2. ReapConsistent'
    BY <1>2 DEF IInv, ReapConsistent, ReadersEnded, Deliver, RoomForMail
  <2>3. HandsConsistent'
    BY <1>2, CommandAssumption DEF IInv, TypeOK, HandsConsistent, Deliver,
        RoomForMail
  <2>4. PendingIsExact'
    BY <1>2, CommandAssumption DEF IInv, TypeOK, HandsConsistent,
        PendingIsExact, UnderWay, Deliver, RoomForMail
  <2> QED BY <2>1, <2>2, <2>3, <2>4 DEF IInv
<1>3. CASE ReadEvent
  <2>1. TypeOK'
    <3>1. /\ outbox' \in Seq(Commands \cup {Event, Fault})
          /\ Len(outbox') <= PipeCap
      BY <1>3, CapAssumption DEF IInv, TypeOK, ReadEvent, Readable
    <3>2. CASE RoomForEvent
      <4>1. events' \in 0..EventCap
        BY <1>3, <3>2, CapAssumption DEF ReadEvent, RoomForEvent, IInv, TypeOK
      <4> QED BY <1>3, <3>1, <3>2, <4>1 DEF ReadEvent, IInv, TypeOK
    <3>3. CASE ~RoomForEvent
      <4>1. /\ stopped' \in BOOLEAN /\ orphan' \in BOOLEAN
            /\ proc' \in {"alive", "dead"}
        BY <1>3, <3>3, TerminateTypes DEF ReadEvent, Overflow, IInv
      <4> QED BY <1>3, <3>1, <3>3, <4>1 DEF ReadEvent, Overflow, IInv, TypeOK
    <3> QED BY <3>2, <3>3
  <2>2. ReapConsistent'
    BY <1>3 DEF IInv, ReapConsistent, ReadersEnded, ReadEvent, Readable,
        RoomForEvent, Overflow, Terminate, Dies
  <2>3. HandsConsistent'
    BY <1>3, CapAssumption DEF IInv, TypeOK, HandsConsistent, ReadEvent,
        Readable, RoomForEvent, Overflow, Terminate, Dies
  <2>4. PendingIsExact'
    BY <1>3, CapAssumption DEF IInv, TypeOK, HandsConsistent, PendingIsExact,
        UnderWay, ReadEvent, Readable, RoomForEvent, Overflow, Terminate, Dies
  <2> QED BY <2>1, <2>2, <2>3, <2>4 DEF IInv
<1>4. CASE ReadFault
  <2>1. TypeOK'
    <3>1. /\ outbox' \in Seq(Commands \cup {Event, Fault})
          /\ Len(outbox') <= PipeCap
      BY <1>4, CapAssumption DEF IInv, TypeOK, ReadFault, Readable
    <3>2. /\ stopped' \in BOOLEAN /\ orphan' \in BOOLEAN
          /\ proc' \in {"alive", "dead"}
      BY <1>4, TerminateTypes DEF ReadFault, IInv
    <3> QED BY <1>4, <3>1, <3>2 DEF IInv, TypeOK, ReadFault
  <2>2. ReapConsistent'
    BY <1>4 DEF IInv, ReapConsistent, ReadersEnded, ReadFault, Readable,
        Terminate, Dies
  <2>3. HandsConsistent'
    BY <1>4, CapAssumption DEF IInv, TypeOK, HandsConsistent, ReadFault,
        Readable, Terminate, Dies
  <2>4. PendingIsExact'
    BY <1>4, CapAssumption DEF IInv, TypeOK, HandsConsistent, PendingIsExact,
        UnderWay, ReadFault, Readable, Terminate, Dies
  <2> QED BY <2>1, <2>2, <2>3, <2>4 DEF IInv
<1>5. CASE ReadEnds
  <2>1. TypeOK'
    BY <1>5 DEF IInv, TypeOK, HandsConsistent, ReadEnds, PipeEnds, Terminate,
        Dies
  <2>2. ReapConsistent'
    BY <1>5 DEF IInv, ReapConsistent, ReadersEnded, ReadEnds, PipeEnds,
        Terminate, Dies
  <2>3. HandsConsistent'
    BY <1>5 DEF IInv, TypeOK, HandsConsistent, ReadEnds, PipeEnds, Terminate,
        Dies
  <2>4. PendingIsExact'
    BY <1>5 DEF IInv, TypeOK, HandsConsistent, PendingIsExact, UnderWay,
        ReadEnds, PipeEnds, Terminate, Dies
  <2> QED BY <2>1, <2>2, <2>3, <2>4 DEF IInv
<1>6. CASE StderrEnds
  <2>1. TypeOK'
    BY <1>6 DEF IInv, TypeOK, HandsConsistent, StderrEnds, PipeEnds
  <2>2. ReapConsistent'
    BY <1>6 DEF IInv, ReapConsistent, ReadersEnded, StderrEnds, PipeEnds
  <2>3. HandsConsistent'
    BY <1>6 DEF IInv, TypeOK, HandsConsistent, StderrEnds, PipeEnds
  <2>4. PendingIsExact'
    BY <1>6 DEF IInv, TypeOK, HandsConsistent, PendingIsExact, UnderWay,
        StderrEnds, PipeEnds
  <2> QED BY <2>1, <2>2, <2>3, <2>4 DEF IInv
<1>7. CASE Consume
  <2>1. TypeOK'
    BY <1>7, CapAssumption DEF IInv, TypeOK, HandsConsistent, Consume
  <2>2. ReapConsistent'
    BY <1>7 DEF IInv, ReapConsistent, ReadersEnded, Consume
  <2>3. HandsConsistent'
    BY <1>7, CapAssumption DEF IInv, TypeOK, HandsConsistent, Consume
  <2>4. PendingIsExact'
    BY <1>7, CapAssumption DEF IInv, TypeOK, HandsConsistent, PendingIsExact,
        UnderWay, Consume
  <2> QED BY <2>1, <2>2, <2>3, <2>4 DEF IInv
<1> QED BY <1>1, <1>2, <1>3, <1>4, <1>5, <1>6, <1>7 DEF ReaderStep

\* reap, and Close.
LEMMA ReapKeeps ==
  ASSUME IInv, ReapStep \/ Close PROVE IInv'
<1> USE DEF callVars, writeVars, readVars, endVars, piVars, stopVars
<1>1. CASE ReapWait
  <2>1. TypeOK'
    BY <1>1 DEF IInv, TypeOK, HandsConsistent, ReapWait, Terminate, Dies
  <2>2. ReapConsistent'
    BY <1>1 DEF IInv, ReapConsistent, ReadersEnded, ReapWait, Terminate, Dies
  <2>3. HandsConsistent'
    BY <1>1 DEF IInv, TypeOK, HandsConsistent, ReapWait, Terminate, Dies
  <2>4. PendingIsExact'
    BY <1>1 DEF IInv, TypeOK, HandsConsistent, PendingIsExact, UnderWay,
        ReapWait, Terminate, Dies
  <2> QED BY <2>1, <2>2, <2>3, <2>4 DEF IInv
<1>2. CASE ReapForces
  <2>1. TypeOK'
    BY <1>2 DEF IInv, TypeOK, HandsConsistent, ReapForces, ReadersEnded
  <2>2. ReapConsistent'
    BY <1>2 DEF IInv, ReapConsistent, ReadersEnded, ReapForces, ReadersEnded
  <2>3. HandsConsistent'
    BY <1>2 DEF IInv, TypeOK, HandsConsistent, ReapForces, ReadersEnded
  <2>4. PendingIsExact'
    BY <1>2 DEF IInv, TypeOK, HandsConsistent, PendingIsExact, UnderWay,
        ReapForces, ReadersEnded
  <2> QED BY <2>1, <2>2, <2>3, <2>4 DEF IInv
<1>3. CASE ReapReaders
  <2>1. TypeOK'
    BY <1>3 DEF IInv, TypeOK, HandsConsistent, ReapReaders, ReadersWaited,
        ReadersEnded
  <2>2. ReapConsistent'
    BY <1>3 DEF IInv, ReapConsistent, ReadersEnded, ReapReaders,
        ReadersWaited, ReadersEnded
  <2>3. HandsConsistent'
    BY <1>3 DEF IInv, TypeOK, HandsConsistent, ReapReaders, ReadersWaited,
        ReadersEnded
  <2>4. PendingIsExact'
    BY <1>3 DEF IInv, TypeOK, HandsConsistent, PendingIsExact, UnderWay,
        ReapReaders, ReadersWaited, ReadersEnded
  <2> QED BY <2>1, <2>2, <2>3, <2>4 DEF IInv
<1>4. CASE ReapCloses
  <2>1. TypeOK'
    BY <1>4 DEF IInv, TypeOK, HandsConsistent, ReapCloses
  <2>2. ReapConsistent'
    BY <1>4 DEF IInv, ReapConsistent, ReadersEnded, ReapCloses
  <2>3. HandsConsistent'
    BY <1>4 DEF IInv, TypeOK, HandsConsistent, ReapCloses
  <2>4. PendingIsExact'
    BY <1>4 DEF IInv, TypeOK, HandsConsistent, PendingIsExact, UnderWay,
        ReapCloses
  <2> QED BY <2>1, <2>2, <2>3, <2>4 DEF IInv
<1>5. CASE ReapEnds
  <2>1. TypeOK'
    BY <1>5 DEF IInv, TypeOK, HandsConsistent, ReapEnds
  <2>2. ReapConsistent'
    BY <1>5 DEF IInv, ReapConsistent, ReadersEnded, ReapEnds
  <2>3. HandsConsistent'
    BY <1>5 DEF IInv, TypeOK, HandsConsistent, ReapEnds
  <2>4. PendingIsExact'
    BY <1>5 DEF IInv, TypeOK, HandsConsistent, PendingIsExact, UnderWay,
        ReapEnds
  <2> QED BY <2>1, <2>2, <2>3, <2>4 DEF IInv
<1>6. CASE Close
  <2>1. TypeOK'
    BY <1>6 DEF IInv, TypeOK, HandsConsistent, Close, Terminate, Dies
  <2>2. ReapConsistent'
    BY <1>6 DEF IInv, ReapConsistent, ReadersEnded, Close, Terminate, Dies
  <2>3. HandsConsistent'
    BY <1>6 DEF IInv, TypeOK, HandsConsistent, Close, Terminate, Dies
  <2>4. PendingIsExact'
    BY <1>6 DEF IInv, TypeOK, HandsConsistent, PendingIsExact, UnderWay,
        Close, Terminate, Dies
  <2> QED BY <2>1, <2>2, <2>3, <2>4 DEF IInv
<1> QED BY <1>1, <1>2, <1>3, <1>4, <1>5, <1>6 DEF ReapStep

\* The pi process.
LEMMA PiKeeps ==
  ASSUME IInv, PiStep PROVE IInv'
<1> USE DEF callVars, writeVars, readVars, endVars, piVars, stopVars
<1>1. CASE PiReads
  <2>1. TypeOK'
    BY <1>1, CapAssumption DEF IInv, TypeOK, HandsConsistent, PiReads
  <2>2. ReapConsistent'
    BY <1>1 DEF IInv, ReapConsistent, ReadersEnded, PiReads
  <2>3. HandsConsistent'
    BY <1>1, CapAssumption DEF IInv, TypeOK, HandsConsistent, PiReads
  <2>4. PendingIsExact'
    BY <1>1, CapAssumption DEF IInv, TypeOK, HandsConsistent, PendingIsExact,
        UnderWay, PiReads
  <2> QED BY <2>1, <2>2, <2>3, <2>4 DEF IInv
<1>2. CASE PiExits
  <2>1. TypeOK'
    BY <1>2 DEF IInv, TypeOK, HandsConsistent, PiExits, Dies
  <2>2. ReapConsistent'
    BY <1>2 DEF IInv, ReapConsistent, ReadersEnded, PiExits, Dies
  <2>3. HandsConsistent'
    BY <1>2 DEF IInv, TypeOK, HandsConsistent, PiExits, Dies
  <2>4. PendingIsExact'
    BY <1>2 DEF IInv, TypeOK, HandsConsistent, PendingIsExact, UnderWay,
        PiExits, Dies
  <2> QED BY <2>1, <2>2, <2>3, <2>4 DEF IInv
<1>3. CASE \E i \in Commands : PiAnswers(i)
  <2>1. TypeOK'
    BY <1>3, CapAssumption DEF IInv, TypeOK, HandsConsistent, PiAnswers
  <2>2. ReapConsistent'
    BY <1>3 DEF IInv, ReapConsistent, ReadersEnded, PiAnswers
  <2>3. HandsConsistent'
    BY <1>3, CapAssumption DEF IInv, TypeOK, HandsConsistent, PiAnswers
  <2>4. PendingIsExact'
    BY <1>3, CapAssumption DEF IInv, TypeOK, HandsConsistent, PendingIsExact,
        UnderWay, PiAnswers
  <2> QED BY <2>1, <2>2, <2>3, <2>4 DEF IInv
<1>4. CASE \E record \in {Event, Fault} : PiEmits(record)
  <2>1. TypeOK'
    BY <1>4, CapAssumption DEF IInv, TypeOK, HandsConsistent, PiEmits
  <2>2. ReapConsistent'
    BY <1>4 DEF IInv, ReapConsistent, ReadersEnded, PiEmits
  <2>3. HandsConsistent'
    BY <1>4, CapAssumption DEF IInv, TypeOK, HandsConsistent, PiEmits
  <2>4. PendingIsExact'
    BY <1>4, CapAssumption DEF IInv, TypeOK, HandsConsistent, PendingIsExact,
        UnderWay, PiEmits
  <2> QED BY <2>1, <2>2, <2>3, <2>4 DEF IInv
<1> QED BY <1>1, <1>2, <1>3, <1>4 DEF PiStep

LEMMA NextIInv == IInv /\ [Next]_vars => IInv'
<1> SUFFICES ASSUME IInv, [Next]_vars PROVE IInv'
  OBVIOUS
<1>1. CASE UNCHANGED vars
  BY <1>1 DEF vars, callVars, writeVars, readVars, endVars, piVars, stopVars,
      IInv,
              TypeOK, ReapConsistent, ReadersEnded, HandsConsistent,
              PendingIsExact,
              UnderWay
<1>2. CASE Next
  BY <1>1, <1>2, CommandKeeps, WriterKeeps, ReaderKeeps, ReapKeeps,
      PiKeeps DEF Next, Ended
<1> QED BY <1>1, <1>2

LEMMA SpecIInv == Spec => []IInv
BY InitIInv, NextIInv, PTL DEF Spec

(***************************************************************************)
(* Every variable of the client keeps its type; the channel of the events  *)
(* and the pipes never hold more than they can.                            *)
(***************************************************************************)
THEOREM TypeCorrect == Spec => []TypeOK
<1>1. IInv => TypeOK
  BY DEF IInv
<1> QED BY <1>1, SpecIInv, PTL

(***************************************************************************)
(* c.events is closed when the process is dead and nobody can send on it,  *)
(* and done after that: no send on a closed channel, whatever blocks,      *)
(* fails or is cancelled before.                                           *)
(***************************************************************************)
THEOREM DoneComesLast == Spec => []DoneIsLast
<1>1. IInv => DoneIsLast
  BY DEF IInv, ReapConsistent, DoneIsLast
<1> QED BY <1>1, SpecIInv, PTL

(***************************************************************************)
(* The table of pending commands neither leaks nor loses one.              *)
(***************************************************************************)
THEOREM PendingStaysExact == Spec => []PendingIsExact
<1>1. IInv => PendingIsExact
  BY DEF IInv
<1> QED BY <1>1, SpecIInv, PTL
=============================================================================
