SPECIFICATION Spec
CONSTANTS
  Reader = {r1}
  Writer = {w1}
  Vacuum = {v}
  Reclaimer = {c}
  Words = 2
  Bits = 1
  MaxTS = 2
INVARIANTS TypeOK ReachableKept Represented NoRegression
