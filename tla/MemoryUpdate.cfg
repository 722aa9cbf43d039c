SPECIFICATION Spec
CONSTANTS
  Writers = {w1}
  MemKeys = {k1, k2}
  LongKeys = {}
  Labels = {l1, l2}
  CompactChanges = 2
  CompactLines = 5
  MemCapacity = 2
  MaxIds = 2
  MaxMemOps = 2
  MaxRecalls = 0
  MaxMemCuts = 0
INVARIANTS
  UpdatedIsKept
CHECK_DEADLOCK FALSE
