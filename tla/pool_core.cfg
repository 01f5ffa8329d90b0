CONSTANTS
  None = None
  Failed = Failed
  NoVersion = NoVersion
  Callers = {c1, c2}
  Entries = {e1, e2, e3}
  Versions = {v1, v2}
  Size = 1
  MaxRuns = 2
SPECIFICATION Spec
SYMMETRY CallerEntrySymmetry
INVARIANTS TypeOK CapacityRespected ExclusiveLease NoLeakedLease QueuedOrAnswered NoLostWakeup
PROPERTY LeaseSpec
