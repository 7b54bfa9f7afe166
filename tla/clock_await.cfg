SPECIFICATION FairSpec
CONSTANTS
  Tx = {t1, t2}
  Waiters = {w1}
  Kinds = {"split", "untracked"}
  RegistrySlots = 1
  MaxFloor = 1
  NoTx = NoTx
INVARIANT NoLostWakeup
PROPERTIES EventuallyVisible WaiterReturns
