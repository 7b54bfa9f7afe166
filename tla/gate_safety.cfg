SPECIFICATION Spec
CONSTANTS
  Proc = {p1, p2, p3, p4}
  GateSlots = 2
  Impatient = {p1, p2, p3, p4}
SYMMETRY ProcSymmetry
INVARIANTS TypeOK Exclusion ReleasesHeld SleepJustified
