CONSTANTS
  None = None
  Sessions = {s1, s2}
  Runs = {r1, r2}
  Procs = {p1}
  Steered = {r1}
  Closes = FALSE
  MaxRestarts = 0
SPECIFICATION Spec
SYMMETRY SessionSymmetry
INVARIANTS TypeOK NoCrossTalk EndIsReported LeaseHasRun
