SPECIFICATION Spec
CONSTANTS
  k1 = k1
  k2 = k2
  w1 = w1
  w2 = w2
  Keys <- MCKeys
  Workers <- MCWorkers
  NoWorker = NoWorker
  NoKey = NoKey
  Cooldown = 1
  RetryTime = 1
  LeaseTime = 2
  RefreshTimes <- MCRefreshTimes
  MaxVersion = 2
INVARIANTS TypeOK LeasedRowsAreDue PriorityOnlyWhilePreparing FailedRowsRetrySoon
PROPERTIES LiveLeaseHolds MirrorsTmdb
SYMMETRY MCSymmetry
