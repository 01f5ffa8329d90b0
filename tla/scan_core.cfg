CONSTANTS
  None = None
  NBranches = 2
  Docs = {d1, d2}
  Scanners = {timer, hook}
  Timer = timer
  MaxPushes = 2
  MaxEdits = 1
  MaxFaults = 1
SPECIFICATION FairSpec
INVARIANTS TypeOK IndexIsOneCommit SuccessIsComplete LatestIsBest
PROPERTIES IndexCatchesUp
