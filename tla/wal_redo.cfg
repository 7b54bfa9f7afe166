SPECIFICATION Spec
CONSTANTS
  Committer = {c1, c2}
  MaxOps = 1
  SegSize = 2
  Crashes = {"kill"}
SYMMETRY CommitterSymmetry
INVARIANT RedoReached
