SPECIFICATION Spec
CONSTANTS
  s1 = s1  s2 = s2
  e1 = e1  e2 = e2
  Clients = {c1, c2}
  Workers = {w1}
  Shows = {s1}
  Episodes = {e1, e2}
  Ids = {i1, i2}
  Bodies <- MCBodies
  Payloads <- MCPayloads
  ViewIds = {v1, v2}
  InboxLimit = 2
  DrainLimit = 1
  MaxViews = 1
  MaxSeq = 3
  None = None
  NoReceipt = NoReceipt
  NoPayload = NoPayload
SYMMETRY MCSymmetry
INVARIANTS TypeOK FinalBeforePending
PROPERTIES ReceiptsAreFinal ImplementsOrderedInbox
