SPECIFICATION Spec
CONSTANTS
  Tx = {t1, t2, t3}
  Waiters = {}
  Kinds = {"direct", "durable"}
  RegistrySlots = 1
  MaxFloor = 0
  NoTx = NoTx
SYMMETRY TxSymmetry
CONSTRAINT FewDirect
INVARIANTS TypeOK FrontierSafe OneOwner FrontierAllocated UnpassedFindable QuietSettled LinksDropped
PROPERTIES SnapshotStable ImplementsFrontier
