CONSTANTS
  None = None
  Branches = {main, dev}
  NPaths = 3
  Kinds = {"modify", "delete", "rename", "copy"}
  MaxCommits = 4
SPECIFICATION Spec
SYMMETRY BranchSymmetry
INVARIANTS TypeOK IndexIsExact HistoryKept
