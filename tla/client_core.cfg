CONSTANTS
  NoCommand = NoCommand
  Commands = {k1, k2}
  Impatient = {k1}
  EventCap = 1
  PipeCap = 2
  MaxEvents = 2
SPECIFICATION FairSpec
INVARIANTS TypeOK DoneIsLast PendingIsExact
PROPERTIES StopEnds ResponsesArrive
