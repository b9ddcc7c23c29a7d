SPECIFICATION FairSpec
CONSTANTS
  t1 = t1  t2 = t2
  p1 = p1  p2 = p2
  x1 = x1  x2 = x2
  Source = "RADARR"
  Procs = {p1}
  Threads = {t1, t2}
  Host <- MCOneProcess
  Hooks = {h1}
  Items = {x1}
  MaxVersion = 2
  MaxToggles = 2
PROPERTIES CacheRecovers InterruptedRunsEnd
CHECK_DEADLOCK FALSE
