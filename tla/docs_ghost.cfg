CONSTANTS
  None = None
  Branches = {main}
  NPaths = 2
  Kinds = {"modify", "delete", "rename"}
  MaxCommits = 4
SPECIFICATION Spec
INVARIANT DeletedIsMarked
