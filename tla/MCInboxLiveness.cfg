SPECIFICATION FairSpec
CONSTANTS
  s1 = s1  s2 = s2
  e1 = e1  e2 = e2
  Clients = {c1, c2}
  Workers = {w1}
  Shows = {s1, s2}
  Episodes = {e1, e2}
  Ids = {i1, i2}
  Bodies <- MCShortBodies
  Payloads <- MCPayloads
  ViewIds = {v1}
  InboxLimit = 1
  DrainLimit = 1
  MaxViews = 0
  MaxSeq = 2
  None = None
  NoReceipt = NoReceipt
  NoPayload = NoPayload
INVARIANTS InboxBounded
PROPERTIES AcceptedIntentsSettle
