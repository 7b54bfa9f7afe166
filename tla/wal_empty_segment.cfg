SPECIFICATION Spec
CONSTANTS
  Committer = {c1, c2, c3, c4}
  MaxOps = 1
  SegSize = 2
  Crashes = {}
SYMMETRY CommitterSymmetry
INVARIANT EmptyOnlyAtTail
