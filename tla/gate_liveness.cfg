SPECIFICATION FairSpec
CONSTANTS
  Proc = {p1, p2, p3}
  GateSlots = 2
  Impatient = {}
PROPERTIES Acquires
