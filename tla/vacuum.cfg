SPECIFICATION FairSpec
CONSTANTS
  Reader = {r1}
  Bracket = {w1}
  Direct = {d1}
  Sweeper = {s1, s2}
  Slotless = {r1, w1}
  Units = 2
  Chained = {0}
  reclaimThreshold = 2
  vacuumRecordsPerPass = 2
INVARIANTS TypeOK NoLostWake ClosedStopped Accounted AnnouncedDone
CHECK_DEADLOCK FALSE
PROPERTY SelfTerminating
