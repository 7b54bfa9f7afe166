SPECIFICATION Spec
CONSTANTS
  Bracket = {t1}
  Bounded = {t2}
  Implicit = {}
  Node = {n1}
  Label = {a}
  Dead = {}
  Labelled = {}
  MaxOps = 1
  MaxBoundedOps = 1
  NoTx = NoTx
  Life = Life
  Nothing = Nothing
INVARIANT SnapshotExistence
