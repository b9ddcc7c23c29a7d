SPECIFICATION FairSpec
CONSTANTS
  k1 = k1
  k2 = k2
  w1 = w1
  w2 = w2
  Keys <- MCKeys
  Workers = {w1}
  NoWorker = NoWorker
  NoKey = NoKey
  Cooldown = 1
  RetryTime = 1
  LeaseTime = 1
  RefreshTimes = {2}
  MaxVersion = 2
PROPERTIES CatchesUp AbandonedLeasesRecovered
