SPECIFICATION Spec
CONSTANTS
  Users = {u1, u2}
  Lists = {l1, l2, l3, l4}
  Media = {m1}
  Tokens = {k1}
  Files = {f1, f2}
  Instants = {i1, i2}
  Workers = {w1, w2}
  Badges = {"watchlists_created", "watchlist_items"}
  Target <- MCTarget
  Traffic <- MCTraffic
  None = None
  Gone = Gone
  Link = Link
SYMMETRY MCSymmetry
INVARIANTS TypeOK NothingOutlivesItsAccount 
PROPERTIES MediaStayHome UnlocksArePermanent RevocationsHold
CHECK_DEADLOCK FALSE
