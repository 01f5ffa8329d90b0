CONSTANTS
  None = None
  Failed = Failed
  NoVersion = NoVersion
  Callers = {c1}
  Entries = {e1, e2}
  Versions = {v1, v2}
  Size = 1
  MaxRuns = 1
SPECIFICATION FairSpec
PROPERTIES EveryRequestAnswered CloseTerminates
