CONSTANTS
  None = None
  Sessions = {s1}
  Runs = {r1, r2}
  Procs = {p1}
  Steered = {}
  Closes = TRUE
  MaxRestarts = 1
SPECIFICATION FairSpec
INVARIANTS LiveRowHasRunner
PROPERTIES RunsEnd CloseEnds
