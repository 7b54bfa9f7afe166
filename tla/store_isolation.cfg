SPECIFICATION Spec
CONSTANTS
  Bracket = {t1}
  Bounded = {t2}
  Implicit = {t3}
  Node = {n1}
  Label = {a}
  Dead = {}
  Labelled = {}
  MaxOps = 2
  MaxBoundedOps = 1
  NoTx = NoTx
  Life = Life
  Nothing = Nothing
INVARIANTS
  TypeOK
  LabelsAreHistory
  ExistenceIsHistory
  BracketsReadOwnWrites
  StoredIsHistory
  FirstCommitterWins
