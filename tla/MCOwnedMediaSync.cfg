SPECIFICATION Spec
CONSTANTS
  t1 = t1  t2 = t2
  p1 = p1  p2 = p2
  x1 = x1  x2 = x2
  Source = "SONARR"
  Procs = {p1}
  Threads = {t1, t2}
  Host <- MCOneProcess
  Hooks = {h1}
  Items = {x1, x2}
  MaxVersion = 2
  MaxToggles = 1
SYMMETRY MCThreadSymmetry
INVARIANTS TypeOK OneSyncPerProcess
PROPERTIES SnapshotsMoveForward
CHECK_DEADLOCK FALSE
