SPECIFICATION FairSpec
CONSTANTS
  Committer = {c1, c2}
  MaxOps = 2
  SegSize = 2
  Crashes = {"kill", "power"}
INVARIANTS TypeOK AckedDurable FailedLost NonTailDurable SleepersHaveLeader ReplayedOnce
PROPERTY CommitReturns
