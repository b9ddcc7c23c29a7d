------------------------ MODULE ProgressInboxProofs ------------------------
(***************************************************************************)
(* What the progress inbox guarantees for any number of sessions, shows,   *)
(* operations and intents, and for every limit.                            *)
(***************************************************************************)
EXTENDS ProgressInbox, FiniteSetTheorems, TLAPS

-----------------------------------------------------------------------------
(* The inductive invariant                                                 *)

\* Between SELECT ... FOR UPDATE and its commit a session holds the owner's row.
LockHeld ==
  \A p \in Sessions :
    txn[p].pc \in {"submit", "accepted", "ready", "drain", "add", "deleting"} => owner = p

ShowKnown ==
  \A p \in Sessions :
    txn[p].pc \in {"accepted", "ready", "drain", "add", "delete", "deleting"}
      => txn[p].show \in Shows

\* An uncommitted receipt is the draft of exactly the session that inserted it.
DraftsOwned ==
  /\ \A i \in Ids : HasStatus(i, {"uncommitted"}) => \E p \in Sessions : txn[p].id = i
  /\ \A p \in Sessions :
       txn[p].id # None =>
         /\ txn[p].pc \in {"accepted", "ready"}
         /\ HasStatus(txn[p].id, {"uncommitted"})
         /\ receipt[txn[p].id].body.show = txn[p].show

\* What apply_actions read stays the whole inbox of the show until it commits.
BatchFresh ==
  \A p \in Sessions :
    txn[p].pc = "ready" =>
      \/ txn[p].batch = {}
      \/ txn[p].batch = Pending(txn[p].show) \cup ({txn[p].id} \cap Ids)

Control == LockHeld /\ ShowKnown /\ DraftsOwned /\ BatchFresh

\* The identity column only grows, and a draft is younger than anything else.
SequenceGrows ==
  /\ \A i \in Ids : receipt[i] # NoReceipt => receipt[i].seq < nextSeq
  /\ \A i, j \in Ids :
       (HasStatus(i, {"uncommitted"}) /\ receipt[j] # NoReceipt /\ i # j)
         => receipt[j].seq < receipt[i].seq

\* A draft has already found room in the inbox.
Live == {i \in Ids : HasStatus(i, {"pending", "uncommitted"})}

RoomForDrafts == Cardinality(Live) <= InboxLimit

InboxInv == TypeOK /\ Control /\ SequenceGrows /\ FinalBeforePending /\ RoomForDrafts

-----------------------------------------------------------------------------
(* Operators                                                               *)

LEMMA MarkType ==
  ASSUME TypeOK, NEW s \in Shows, NEW R, NEW pl, Mark(s, R, pl)
  PROVE  /\ marks' \in [Shows -> [Episodes -> Marks \cup {"unset"}]]
         /\ views' \in [Shows -> SUBSET ViewIds]
         /\ baseline' \in [Shows -> {"untracked", "empty", "dated"}]
<1>1. MarksAfter(s, R, pl) \in [Episodes -> Marks \cup {"unset"}]
  BY DEF TypeOK, MarksAfter, LastMark, Marks
<1>2. ViewsAfter(s, R, pl) \subseteq SUBSET ViewIds
  BY DEF TypeOK, ViewsAfter, FreshViews
<1>3. QED
  BY <1>1, <1>2 DEF TypeOK, Mark

LEMMA OutcomeFinal ==
  ASSUME NEW i, NEW pl
  PROVE  Outcome(i, pl) \in {"applied", "failed"}
BY DEF Outcome

\* A receipt with a status is a whole receipt.
LEMMA StatusMeansReceipt ==
  ASSUME TypeOK, NEW i \in Ids, NEW S, HasStatus(i, S)
  PROVE  /\ receipt[i] \in Receipt /\ receipt[i] # NoReceipt
         /\ receipt[i].status \in S
         /\ receipt[i].body \in Bodies /\ receipt[i].body \in Body /\ receipt[i].seq \in Nat
BY InboxAssumption DEF TypeOK, HasStatus, Receipt

\* Rewriting the status of a receipt leaves a receipt.
LEMMA StatusChange ==
  ASSUME NEW r \in Receipt, NEW st \in Status
  PROVE  /\ [r EXCEPT !.status = st] \in Receipt
         /\ [r EXCEPT !.status = st] # NoReceipt
         /\ [r EXCEPT !.status = st].status = st
         /\ [r EXCEPT !.status = st].body = r.body
         /\ [r EXCEPT !.status = st].seq = r.seq
BY InboxAssumption DEF Receipt

LEMMA BatchLive ==
  ASSUME TypeOK, Control, NEW p \in Sessions, txn[p].pc = "ready"
  PROVE  /\ \A i \in txn[p].batch : HasStatus(i, {"pending", "uncommitted"})
         /\ \A i \in txn[p].batch \cup ({txn[p].id} \cap Ids) :
              receipt[i].body.show = txn[p].show
         /\ txn[p].id # None => HasStatus(txn[p].id, {"uncommitted"})
BY InboxAssumption DEF Control, DraftsOwned, BatchFresh, Pending, AllPending, HasStatus, TypeOK

-----------------------------------------------------------------------------
(* Type correctness                                                        *)

LEMMA TxnType ==
  /\ Idle \in Txn
  /\ \A s \in Shows, i \in Ids : [Idle EXCEPT !.pc = "accepted", !.show = s, !.id = i] \in Txn
  /\ \A s \in Shows, v \in ViewIds : [Idle EXCEPT !.pc = "delete", !.show = s, !.view = v] \in Txn
  /\ \A s \in Shows : [Idle EXCEPT !.pc = "add", !.show = s] \in Txn
  /\ \A T \in SUBSET Shows : [Idle EXCEPT !.pc = "scan", !.todo = T] \in Txn
  /\ [Idle EXCEPT !.pc = "submit"] \in Txn
BY DEF Idle, Txn

LEMMA TxnMoves ==
  ASSUME NEW t \in Txn
  PROVE  /\ [t EXCEPT !.pc = "deleting"] \in Txn
         /\ \A s \in Shows : [t EXCEPT !.pc = "drain", !.show = s] \in Txn
         /\ \A b \in SUBSET Ids, pl \in {NoPayload} \cup SUBSET Episodes :
              [t EXCEPT !.pc = "ready", !.pay = pl, !.batch = b] \in Txn
BY DEF Txn

LEMMA OwnerType ==
  ASSUME TypeOK, NEW p \in Sessions
  PROVE  (Acquire(p) \/ Release(p)) => owner' \in Sessions \cup {None}
BY DEF TypeOK, Acquire, Release

LEMMA CancelledType ==
  ASSUME TypeOK, NEW s \in Shows
  PROVE  Cancelled(s) \in [Ids -> Receipt \cup {NoReceipt}]
<1> SUFFICES ASSUME NEW i \in Ids, i \in Pending(s)
             PROVE  [receipt[i] EXCEPT !.status = "cancelled"] \in Receipt
  BY DEF Cancelled, TypeOK
<1>1. receipt[i] \in Receipt
  BY StatusMeansReceipt DEF Pending, AllPending
<1>2. QED
  BY <1>1, StatusChange DEF Status

LEMMA SettleType ==
  ASSUME TypeOK, Control, NEW p \in Sessions, Settle(p)
  PROVE  /\ receipt' \in [Ids -> Receipt \cup {NoReceipt}]
         /\ marks' \in [Shows -> [Episodes -> Marks \cup {"unset"}]]
         /\ views' \in [Shows -> SUBSET ViewIds]
         /\ baseline' \in [Shows -> {"untracked", "empty", "dated"}]
         /\ owner' \in Sessions \cup {None}
<1>1. txn[p].pc = "ready" /\ txn[p].show \in Shows
  BY DEF Settle, Control, ShowKnown
<1>2. receipt' \in [Ids -> Receipt \cup {NoReceipt}]
  <2> SUFFICES ASSUME NEW i \in Ids
               PROVE  receipt'[i] \in Receipt \cup {NoReceipt}
    BY DEF Settle
  <2>1. CASE i \in txn[p].batch
    <3>1. receipt[i] \in Receipt
      BY <2>1, <1>1, BatchLive, StatusMeansReceipt
    <3>2. receipt'[i] = [receipt[i] EXCEPT !.status = Outcome(i, txn[p].pay)]
      BY <2>1 DEF Settle
    <3>3. Outcome(i, txn[p].pay) \in Status
      BY OutcomeFinal DEF Status
    <3>4. QED
      BY <3>1, <3>2, <3>3, StatusChange
  <2>2. CASE i \notin txn[p].batch /\ i = txn[p].id
    <3>1. receipt[i] \in Receipt
      BY <2>2, <1>1, BatchLive, StatusMeansReceipt, InboxAssumption
    <3>2. receipt'[i] = [receipt[i] EXCEPT !.status = "pending"]
      BY <2>2 DEF Settle
    <3>3. QED
      BY <3>1, <3>2, StatusChange DEF Status
  <2>3. CASE i \notin txn[p].batch /\ i # txn[p].id
    BY <2>3 DEF Settle, TypeOK
  <2>4. QED
    BY <2>1, <2>2, <2>3
<1>3. owner' \in Sessions \cup {None}
  BY OwnerType DEF Settle
<1>4. CASE txn[p].batch = {}
  BY <1>2, <1>3, <1>4 DEF Settle, progress, TypeOK
<1>5. CASE txn[p].batch # {}
  BY <1>1, <1>2, <1>3, <1>5, MarkType DEF Settle
<1>6. QED
  BY <1>4, <1>5

LEMMA RestType ==
  ASSUME TypeOK, NEW p \in Sessions, NEW s
  PROVE  Rest(p, s) \in Txn
<1>1. txn[p] \in Txn
  BY DEF TypeOK
<1>2. txn[p].todo \ {s} \in SUBSET Shows
  BY <1>1 DEF Txn
<1>3. QED
  BY <1>2, TxnType DEF Rest

LEMMA StepType == ASSUME TypeOK, Control, [Next]_vars PROVE TypeOK'
<1> USE DEF Sessions
<1>1. ASSUME NEW p \in Clients, BeginSubmit(p) PROVE TypeOK'
  BY <1>1, TxnType, OwnerType DEF BeginSubmit, Goto, TypeOK, progress
<1>2. ASSUME NEW p \in Clients, SubmitWithoutEffect(p) PROVE TypeOK'
  BY <1>2, TxnType, OwnerType DEF SubmitWithoutEffect, Goto, TypeOK, progress
<1>3. ASSUME NEW p \in Clients, NEW i \in Ids, NEW body \in Bodies, Accept(p, i, body)
      PROVE  TypeOK'
  <2>1. [body |-> body, seq |-> nextSeq, status |-> "uncommitted"] \in Receipt
    BY DEF Receipt, Status, TypeOK
  <2>2. body.show \in Shows
    BY InboxAssumption DEF Body
  <2>3. receipt' \in [Ids -> Receipt \cup {NoReceipt}] /\ nextSeq' \in Nat \ {0}
    BY <1>3, <2>1 DEF Accept, TypeOK
  <2>4. txn' \in [Sessions -> Txn]
    <3>1. [Idle EXCEPT !.pc = "accepted", !.show = body.show, !.id = i] \in Txn
      BY <2>2, TxnType
    <3>2. QED
      BY <1>3, <3>1 DEF Accept, Goto, TypeOK
  <2>5. QED
    BY <1>3, <2>3, <2>4 DEF Accept, TypeOK, progress
<1>4. ASSUME NEW p \in Sessions, ReadInbox(p) PROVE TypeOK'
  <2>1. txn[p].show \in Shows
    BY <1>4 DEF ReadInbox, Control, ShowKnown
  <2>2. txn'[p] \in Txn
    BY <1>4, <2>1, TxnMoves DEF ReadInbox, Goto, TypeOK, Pending, AllPending
  <2>3. QED
    BY <1>4, <2>2 DEF ReadInbox, Goto, TypeOK, progress
<1>5. ASSUME NEW p \in Clients, CommitSubmit(p) PROVE TypeOK'
  <2>1. txn[p].show \in Shows
    BY <1>5 DEF CommitSubmit, Settle, Control, ShowKnown
  <2>2. QED
    BY <1>5, <2>1, SettleType, TxnType DEF CommitSubmit, Goto, TypeOK
<1>6. ASSUME NEW p \in Workers, ScanReady(p) PROVE TypeOK'
  <2>1. PICK T \in SUBSET Ready : Goto(p, [Idle EXCEPT !.pc = "scan", !.todo = T])
    BY <1>6 DEF ScanReady
  <2>2. [Idle EXCEPT !.pc = "scan", !.todo = T] \in Txn
    BY TxnType DEF Ready
  <2>3. QED
    BY <1>6, <2>1, <2>2 DEF ScanReady, Goto, TypeOK, progress
<1>7. ASSUME NEW p \in Workers, NEW s \in Shows, LockForDrain(p, s) PROVE TypeOK'
  BY <1>7, TxnMoves, OwnerType DEF LockForDrain, Goto, TypeOK, progress
<1>8. ASSUME NEW p \in Workers, NEW s \in Shows, SkipBusyOwner(p, s) PROVE TypeOK'
  BY <1>8, RestType DEF SkipBusyOwner, Goto, TypeOK, progress
<1>9. ASSUME NEW p \in Workers, CommitDrain(p) PROVE TypeOK'
  BY <1>9, RestType, SettleType DEF CommitDrain, Goto, TypeOK
<1>10. ASSUME NEW i \in Ids, ExpireReceipt(i) PROVE TypeOK'
  BY <1>10 DEF ExpireReceipt, TypeOK, progress
<1>11. ASSUME NEW p \in Clients, NEW s \in Shows, BeginAddView(p, s) PROVE TypeOK'
  BY <1>11, TxnType, OwnerType DEF BeginAddView, Goto, TypeOK, progress
<1>12. ASSUME NEW p \in Clients, CommitAddView(p) PROVE TypeOK'
  <2>1. txn[p].show \in Shows
    BY <1>12 DEF CommitAddView, Control, ShowKnown
  <2>2. receipt' \in [Ids -> Receipt \cup {NoReceipt}]
    BY <1>12, <2>1, CancelledType DEF CommitAddView
  <2>3. views' \in [Shows -> SUBSET ViewIds]
    BY <1>12, <2>1 DEF CommitAddView, FreshViews, TypeOK
  <2>4. baseline' \in [Shows -> {"untracked", "empty", "dated"}]
    BY <1>12, <2>1 DEF CommitAddView, TypeOK
  <2>5. owner' \in Sessions \cup {None} /\ txn' \in [Sessions -> Txn]
    BY <1>12, TxnType, OwnerType DEF CommitAddView, Goto, TypeOK
  <2>6. QED
    BY <1>12, <2>2, <2>3, <2>4, <2>5 DEF CommitAddView, TypeOK
<1>13. ASSUME NEW p \in Clients, NEW s \in Shows, NEW v \in ViewIds, ReadView(p, s, v)
       PROVE  TypeOK'
  BY <1>13, TxnType DEF ReadView, Goto, TypeOK, progress
<1>14. ASSUME NEW p \in Clients, LockForDelete(p) PROVE TypeOK'
  BY <1>14, TxnMoves, OwnerType DEF LockForDelete, Goto, TypeOK, progress
<1>15. ASSUME NEW p \in Clients, CommitDeleteView(p) PROVE TypeOK'
  <2>1. txn[p].show \in Shows
    BY <1>15 DEF CommitDeleteView, Control, ShowKnown
  <2>2. receipt' \in [Ids -> Receipt \cup {NoReceipt}]
    BY <1>15, <2>1, CancelledType DEF CommitDeleteView, TypeOK
  <2>3. views' \in [Shows -> SUBSET ViewIds]
    BY <1>15, <2>1 DEF CommitDeleteView, TypeOK
  <2>4. /\ baseline' \in [Shows -> {"untracked", "empty", "dated"}]
        /\ marks' \in [Shows -> [Episodes -> Marks \cup {"unset"}]]
    <3>1. CASE views[txn[p].show] \ {txn[p].view} = {}
      <4>1. [e \in Episodes |-> "unset"] \in [Episodes -> Marks \cup {"unset"}]
        OBVIOUS
      <4>2. marks' = [marks EXCEPT ![txn[p].show] = [e \in Episodes |-> "unset"]]
        BY <1>15, <3>1 DEF CommitDeleteView
      <4>3. marks' \in [Shows -> [Episodes -> Marks \cup {"unset"}]]
        BY <2>1, <4>1, <4>2 DEF TypeOK
      <4>4. baseline' \in [Shows -> {"untracked", "empty", "dated"}]
        BY <1>15, <2>1, <3>1 DEF CommitDeleteView, TypeOK
      <4>5. QED
        BY <4>3, <4>4
    <3>2. CASE views[txn[p].show] \ {txn[p].view} # {}
      BY <1>15, <3>2 DEF CommitDeleteView, TypeOK
    <3>3. QED
      BY <3>1, <3>2
  <2>5. owner' \in Sessions \cup {None} /\ txn' \in [Sessions -> Txn]
    BY <1>15, TxnType, OwnerType DEF CommitDeleteView, Goto, TypeOK
  <2>6. QED
    BY <1>15, <2>2, <2>3, <2>4, <2>5 DEF CommitDeleteView, TypeOK
<1>16. ASSUME NEW body \in Bodies, MarkDirectly(body) PROVE TypeOK'
  <2>1. body.show \in Shows
    BY InboxAssumption DEF Body
  <2>2. QED
    BY <1>16, <2>1, MarkType DEF MarkDirectly, TypeOK
<1>17. ASSUME NEW s \in Shows, StartTracking(s) PROVE TypeOK'
  BY <1>17 DEF StartTracking, TypeOK
<1>18. ASSUME NEW s \in Shows, VisitShow(s) PROVE TypeOK'
  BY <1>18 DEF VisitShow, TypeOK, progress
<1>19. ASSUME NEW s \in Shows, PublishCatalog(s) PROVE TypeOK'
  BY <1>19, InboxAssumption DEF PublishCatalog, TypeOK, progress
<1>20. ASSUME NEW p \in Sessions, Crash(p) PROVE TypeOK'
  BY <1>20, TxnType, OwnerType DEF Crash, Goto, TypeOK, progress
<1>21. CASE UNCHANGED vars
  BY <1>21 DEF vars, progress, TypeOK
<1>22. QED
  BY <1>1, <1>2, <1>3, <1>4, <1>5, <1>6, <1>7, <1>8, <1>9, <1>10, <1>11, <1>12,
     <1>13, <1>14, <1>15, <1>16, <1>17, <1>18, <1>19, <1>20, <1>21 DEF Next

-----------------------------------------------------------------------------
(* Transactions: the lock, the drafts and the batches                      *)

Inside == {"submit", "accepted", "ready", "drain", "add", "deleting"}

\* While a session is inside its transaction no other one is, or has a draft.
LEMMA OneInside ==
  ASSUME TypeOK, Control, NEW p \in Sessions, txn[p].pc \in Inside
  PROVE  /\ owner = p
         /\ \A q \in Sessions \ {p} : txn[q].pc \notin Inside /\ txn[q].id = None
         /\ \A i \in Ids : HasStatus(i, {"uncommitted"}) => i = txn[p].id
<1>1. owner = p
  BY DEF Control, LockHeld, Inside
<1>2. \A q \in Sessions \ {p} : txn[q].pc \notin Inside
  BY <1>1 DEF Control, LockHeld, Inside
<1>3. \A q \in Sessions \ {p} : txn[q].id = None
  BY <1>2 DEF Control, DraftsOwned, Inside
<1>4. ASSUME NEW i \in Ids, HasStatus(i, {"uncommitted"}) PROVE i = txn[p].id
  BY <1>3, <1>4, InboxAssumption DEF Control, DraftsOwned
<1>5. QED
  BY <1>1, <1>2, <1>3, <1>4

\* A session moves on, and touches no receipt.
LEMMA MoveKeepsControl ==
  ASSUME TypeOK, Control, NEW p \in Sessions, NEW t, Goto(p, t),
         UNCHANGED receipt,
         owner' = owner \/ Acquire(p) \/ Release(p),
         t.pc \in Inside => owner' = p,
         t.pc \in {"accepted", "ready", "drain", "add", "delete", "deleting"} => t.show \in Shows,
         t.id = txn[p].id,
         t.id # None => t.pc \in {"accepted", "ready"} /\ t.show = txn[p].show,
         t.pc = "ready" => \/ t.batch = {}
                           \/ t.batch = Pending(t.show) \cup ({t.id} \cap Ids)
  PROVE  Control'
<1>1. txn'[p] = t /\ \A q \in Sessions \ {p} : txn'[q] = txn[q]
  BY DEF Goto, TypeOK
<1>2. \A S, i : HasStatus(i, S)' <=> HasStatus(i, S)
  BY DEF HasStatus
<1>3. \A s : Pending(s)' = Pending(s)
  BY DEF Pending, AllPending, HasStatus
<1>4. LockHeld'
  <2>1. ASSUME NEW q \in Sessions \ {p}, txn'[q].pc \in Inside PROVE owner' = q
    <3>1. owner = q /\ owner # p /\ owner # None
      BY <1>1, <2>1, InboxAssumption DEF Control, LockHeld, Inside
    <3>2. QED
      BY <3>1 DEF Acquire, Release
  <2>2. QED
    BY <1>1, <2>1 DEF LockHeld, Inside
<1>5. ShowKnown'
  BY <1>1 DEF Control, ShowKnown
<1>6. DraftsOwned'
  <2>1. \A q \in Sessions : txn'[q].id = txn[q].id
    BY <1>1
  <2>2. \A q \in Sessions : txn'[q].id # None =>
          txn'[q].pc \in {"accepted", "ready"} /\ txn'[q].show = txn[q].show
    BY <1>1 DEF Control, DraftsOwned
  <2>3. \A i \in Ids : HasStatus(i, {"uncommitted"})' => \E q \in Sessions : txn'[q].id = i
    BY <1>2, <2>1 DEF Control, DraftsOwned
  <2>4. ASSUME NEW q \in Sessions, txn'[q].id # None
        PROVE  /\ HasStatus(txn[q].id, {"uncommitted"})'
               /\ receipt'[txn'[q].id].body.show = txn'[q].show
    <3>1. HasStatus(txn[q].id, {"uncommitted"}) /\ receipt[txn[q].id].body.show = txn[q].show
      BY <2>1, <2>4 DEF Control, DraftsOwned
    <3>2. HasStatus(txn[q].id, {"uncommitted"})'
      BY <2>1, <3>1 DEF HasStatus
    <3>3. receipt'[txn'[q].id].body.show = txn'[q].show
      BY <2>1, <2>2, <2>4, <3>1
    <3>4. QED
      BY <3>2, <3>3
  <2>5. QED
    BY <2>2, <2>3, <2>4 DEF DraftsOwned
<1>7. BatchFresh'
  BY <1>1, <1>3 DEF Control, BatchFresh
<1>8. QED
  BY <1>4, <1>5, <1>6, <1>7 DEF Control

\* A session ends its transaction, after which nothing is uncommitted.
LEMMA CommitKeepsControl ==
  ASSUME TypeOK, Control, NEW p \in Sessions, NEW t, Goto(p, t),
         txn[p].pc \in Inside, Release(p), t.pc \in {"idle", "scan"}, t.id = None,
         \A i \in Ids : ~ HasStatus(i, {"uncommitted"})'
  PROVE  Control'
<1>1. txn'[p] = t /\ \A q \in Sessions \ {p} : txn'[q] = txn[q]
  BY DEF Goto, TypeOK
<1>2. \A q \in Sessions : txn'[q].pc \notin Inside /\ txn'[q].id = None
  BY <1>1, OneInside DEF Inside
<1>3. LockHeld' /\ BatchFresh'
  BY <1>2 DEF LockHeld, BatchFresh, Inside
<1>4. ShowKnown'
  BY <1>1 DEF Control, ShowKnown
<1>5. DraftsOwned'
  BY <1>2 DEF DraftsOwned
<1>6. QED
  BY <1>3, <1>4, <1>5 DEF Control

\* What settling and cancelling leave of the statuses.
LEMMA SettleCommits ==
  ASSUME TypeOK, Control, NEW p \in Sessions, Settle(p)
  PROVE  \A i \in Ids : ~ HasStatus(i, {"uncommitted"})'
<1>1. txn[p].pc = "ready" /\ txn[p].pc \in Inside
  BY DEF Settle, Inside
<1> SUFFICES ASSUME NEW i \in Ids PROVE ~ HasStatus(i, {"uncommitted"})'
  OBVIOUS
<1>2. CASE i \in txn[p].batch
  <2>1. receipt[i] \in Receipt
    BY <1>1, <1>2, BatchLive, StatusMeansReceipt
  <2>2. Outcome(i, txn[p].pay) \in Status \ {"uncommitted"}
    BY OutcomeFinal DEF Status
  <2>3. receipt'[i].status = Outcome(i, txn[p].pay)
    BY <1>2, <2>1, <2>2, StatusChange DEF Settle
  <2>4. QED
    BY <2>2, <2>3 DEF HasStatus
<1>3. CASE i \notin txn[p].batch /\ i = txn[p].id
  <2>1. receipt[i] \in Receipt
    BY <1>1, <1>3, BatchLive, StatusMeansReceipt, InboxAssumption
  <2>2. receipt'[i].status = "pending"
    BY <1>3, <2>1, StatusChange DEF Settle, Status
  <2>3. QED
    BY <2>2 DEF HasStatus
<1>4. CASE i \notin txn[p].batch /\ i # txn[p].id
  <2>1. receipt'[i] = receipt[i]
    BY <1>4 DEF Settle
  <2>2. QED
    BY <1>1, <1>4, <2>1, OneInside DEF HasStatus
<1>5. QED
  BY <1>2, <1>3, <1>4

LEMMA CancelCommits ==
  ASSUME TypeOK, Control, NEW p \in Sessions, txn[p].pc \in {"add", "deleting"},
         NEW s \in Shows, receipt' = Cancelled(s) \/ receipt' = receipt
  PROVE  \A i \in Ids : ~ HasStatus(i, {"uncommitted"})'
<1> SUFFICES ASSUME NEW i \in Ids PROVE ~ HasStatus(i, {"uncommitted"})'
  OBVIOUS
<1>1. ~ HasStatus(i, {"uncommitted"})
  BY OneInside, InboxAssumption DEF Control, DraftsOwned, Inside
<1>2. CASE receipt' = Cancelled(s) /\ i \in Pending(s)
  <2>1. receipt[i] \in Receipt
    BY <1>2, StatusMeansReceipt DEF Pending, AllPending
  <2>2. receipt'[i].status = "cancelled"
    BY <1>2, <2>1, StatusChange DEF Cancelled, Status
  <2>3. QED
    BY <2>2 DEF HasStatus
<1>3. CASE receipt'[i] = receipt[i]
  BY <1>1, <1>3 DEF HasStatus
<1>4. QED
  BY <1>2, <1>3 DEF Cancelled

\* A new draft.
LEMMA AcceptKeepsControl ==
  ASSUME TypeOK, Control, NEW p \in Clients, NEW i \in Ids, NEW body \in Bodies,
         Accept(p, i, body)
  PROVE  Control'
<1>1. p \in Sessions /\ txn[p].pc \in Inside /\ txn[p].id = None /\ body.show \in Shows
  BY InboxAssumption DEF Accept, Inside, Control, DraftsOwned, Sessions, Body
<1>2. /\ txn'[p].pc = "accepted" /\ txn'[p].show = body.show /\ txn'[p].id = i
      /\ \A q \in Sessions \ {p} : txn'[q] = txn[q]
  BY <1>1 DEF Accept, Goto, TypeOK, Idle
<1>3. \A q \in Sessions \ {p} : txn'[q].pc \notin Inside /\ txn'[q].id = None
  BY <1>1, <1>2, OneInside
<1>4. /\ receipt'[i] = [body |-> body, seq |-> nextSeq, status |-> "uncommitted"]
      /\ receipt'[i] # NoReceipt
      /\ \A j \in Ids \ {i} : receipt'[j] = receipt[j]
  <2>1. [body |-> body, seq |-> nextSeq, status |-> "uncommitted"] \in Receipt
    BY DEF Receipt, Status, TypeOK
  <2>2. QED
    BY <2>1, InboxAssumption DEF Accept, TypeOK
<1>5. LockHeld'
  BY <1>1, <1>2, <1>3, OneInside DEF Accept, LockHeld, Inside
<1>6. ShowKnown'
  BY <1>1, <1>2 DEF Control, ShowKnown
<1>7. DraftsOwned'
  <2>1. \A j \in Ids \ {i} : ~ HasStatus(j, {"uncommitted"})'
    BY <1>1, <1>4, OneInside, InboxAssumption DEF HasStatus
  <2>2. i # None
    BY InboxAssumption
  <2>3. HasStatus(i, {"uncommitted"})' /\ receipt'[i].body.show = body.show
    BY <1>4 DEF HasStatus
  <2>4. QED
    BY <1>1, <1>2, <1>3, <2>1, <2>2, <2>3 DEF DraftsOwned
<1>8. BatchFresh'
  BY <1>2, <1>3 DEF BatchFresh, Inside
<1>9. QED
  BY <1>5, <1>6, <1>7, <1>8 DEF Control

\* A final receipt goes, and no pending one with it.
LEMMA ExpireKeepsControl ==
  ASSUME TypeOK, Control, NEW i \in Ids, ExpireReceipt(i)
  PROVE  Control'
<1>1. \A j \in Ids \ {i} : receipt'[j] = receipt[j]
  BY DEF ExpireReceipt, TypeOK
<1>2. \A j \in Ids, S \in {{"pending"}, {"uncommitted"}} : HasStatus(j, S)' <=> HasStatus(j, S)
  BY <1>1 DEF ExpireReceipt, TypeOK, HasStatus, FinalStatus
<1>3. \A s : Pending(s)' = Pending(s)
  BY <1>1, <1>2 DEF Pending, AllPending, ExpireReceipt, HasStatus, FinalStatus
<1>4. DraftsOwned'
  <2>1. ASSUME NEW p \in Sessions, txn[p].id # None
        PROVE  HasStatus(txn[p].id, {"uncommitted"})' /\ receipt'[txn[p].id] = receipt[txn[p].id]
    <3>1. HasStatus(txn[p].id, {"uncommitted"}) /\ txn[p].id \in Ids
      BY <2>1 DEF Control, DraftsOwned, TypeOK, Txn
    <3>2. txn[p].id # i
      BY <3>1 DEF ExpireReceipt, HasStatus, FinalStatus
    <3>3. QED
      BY <1>1, <3>1, <3>2 DEF HasStatus, ExpireReceipt
  <2>2. txn' = txn
    BY DEF ExpireReceipt
  <2>3. QED
    BY <1>2, <2>1, <2>2 DEF Control, DraftsOwned
<1>5. LockHeld' /\ ShowKnown' /\ BatchFresh'
  BY <1>3 DEF ExpireReceipt, Control, LockHeld, ShowKnown, BatchFresh
<1>6. QED
  BY <1>4, <1>5 DEF Control

\* A crash takes the draft of its session back, and nothing else.
LEMMA CrashKeepsControl ==
  ASSUME TypeOK, Control, NEW p \in Sessions, Crash(p)
  PROVE  Control'
<1>1. txn'[p] = Idle /\ \A q \in Sessions \ {p} : txn'[q] = txn[q]
  BY DEF Crash, Goto, TypeOK
<1>2. \A i \in Ids : receipt'[i] = IF i = txn[p].id THEN NoReceipt ELSE receipt[i]
  BY DEF Crash
<1>3. \A i \in Ids : i = txn[p].id => HasStatus(i, {"uncommitted"})
  BY InboxAssumption DEF Control, DraftsOwned
<1>4. \A i \in Ids : HasStatus(i, {"pending"})' <=> HasStatus(i, {"pending"})
  BY <1>2, <1>3 DEF HasStatus
<1>5. \A s : Pending(s)' = Pending(s)
  BY <1>2, <1>3, <1>4 DEF Pending, AllPending, HasStatus
<1>6. LockHeld'
  <2>1. ASSUME NEW q \in Sessions, txn'[q].pc \in Inside PROVE owner' = q
    <3>1. q # p /\ owner = q
      BY <1>1, <2>1 DEF Idle, Inside, Control, LockHeld
    <3>2. QED
      BY <3>1 DEF Crash, Release
  <2>2. QED
    BY <2>1 DEF LockHeld, Inside
<1>7. ShowKnown' /\ BatchFresh'
  BY <1>1, <1>5 DEF Idle, Control, ShowKnown, BatchFresh
<1>8. DraftsOwned'
  <2>1. ASSUME NEW i \in Ids, HasStatus(i, {"uncommitted"})'
        PROVE  \E q \in Sessions : txn'[q].id = i
    <3>1. i # txn[p].id /\ HasStatus(i, {"uncommitted"})
      BY <1>2, <2>1 DEF HasStatus
    <3>2. QED
      BY <1>1, <3>1 DEF Control, DraftsOwned
  <2>2. ASSUME NEW q \in Sessions, txn'[q].id # None
        PROVE  /\ q # p /\ txn[q].id \in Ids
               /\ HasStatus(txn[q].id, {"uncommitted"})'
               /\ receipt'[txn[q].id] = receipt[txn[q].id]
    <3>1. q # p /\ txn[q].id \in Ids /\ HasStatus(txn[q].id, {"uncommitted"})
      BY <1>1, <2>2 DEF Idle, Control, DraftsOwned, TypeOK, Txn
    <3>2. txn[q].pc \in Inside
      BY <1>1, <2>2, <3>1 DEF Control, DraftsOwned, Inside
    <3>3. txn[q].id # txn[p].id
      BY <3>1, <3>2, OneInside, InboxAssumption
    <3>4. QED
      BY <1>1, <1>2, <3>1, <3>3 DEF HasStatus
  <2>3. QED
    BY <1>1, <2>1, <2>2 DEF Control, DraftsOwned
<1>9. QED
  BY <1>6, <1>7, <1>8 DEF Control

LEMMA StepControl == ASSUME TypeOK, Control, [Next]_vars PROVE Control'
<1> USE DEF Sessions
<1>1. ASSUME NEW p \in Clients, BeginSubmit(p) PROVE Control'
  BY <1>1, MoveKeepsControl DEF BeginSubmit, Acquire, Idle
<1>2. ASSUME NEW p \in Clients, SubmitWithoutEffect(p) PROVE Control'
  <2>1. txn[p].id = None
    BY <1>2 DEF SubmitWithoutEffect, Control, DraftsOwned
  <2>2. QED
    BY <1>2, <2>1, MoveKeepsControl DEF SubmitWithoutEffect, Idle, Inside
<1>3. ASSUME NEW p \in Clients, NEW i \in Ids, NEW body \in Bodies, Accept(p, i, body)
      PROVE  Control'
  BY <1>3, AcceptKeepsControl
<1>4. ASSUME NEW p \in Sessions, ReadInbox(p) PROVE Control'
  <2> DEFINE s == txn[p].show
             b == IF payload[s] = NoPayload THEN {} ELSE Pending(s) \cup ({txn[p].id} \cap Ids)
             t == [txn[p] EXCEPT !.pc = "ready", !.pay = payload[s], !.batch = b]
  <2>1. Goto(p, t)
    BY <1>4 DEF ReadInbox
  <2>2. s \in Shows /\ owner = p
    BY <1>4 DEF ReadInbox, Control, LockHeld, ShowKnown
  <2>3. t.pc = "ready" /\ t.show = s /\ t.id = txn[p].id /\ t.batch = b
    <3>1. txn[p] \in Txn
      BY DEF TypeOK
    <3>2. QED
      BY <3>1 DEF Txn
  <2> HIDE DEF t
  <2>4. owner' = owner /\ receipt' = receipt
    BY <1>4 DEF ReadInbox
  <2>5. QED
    BY <2>1, <2>2, <2>3, <2>4, MoveKeepsControl
<1>5. ASSUME NEW p \in Clients, CommitSubmit(p) PROVE Control'
  BY <1>5, SettleCommits, CommitKeepsControl DEF CommitSubmit, Settle, Idle, Inside
<1>6. ASSUME NEW p \in Workers, ScanReady(p) PROVE Control'
  BY <1>6, MoveKeepsControl DEF ScanReady, Idle, Inside
<1>7. ASSUME NEW p \in Workers, NEW s \in Shows, LockForDrain(p, s) PROVE Control'
  <2> DEFINE t == [txn[p] EXCEPT !.pc = "drain", !.show = s]
  <2>1. t.pc = "drain" /\ t.show = s /\ t.id = txn[p].id
    BY DEF TypeOK, Txn
  <2>2. t.id = None
    BY <1>7, <2>1 DEF LockForDrain, Control, DraftsOwned
  <2>3. Goto(p, t)
    BY <1>7 DEF LockForDrain
  <2> HIDE DEF t
  <2>4. QED
    BY <1>7, <2>1, <2>2, <2>3, MoveKeepsControl DEF LockForDrain, Acquire
<1>8. ASSUME NEW p \in Workers, NEW s \in Shows, SkipBusyOwner(p, s) PROVE Control'
  <2>1. txn[p].id = None
    BY <1>8 DEF SkipBusyOwner, Control, DraftsOwned
  <2>2. Rest(p, s).pc \in {"idle", "scan"} /\ Rest(p, s).id = None
    BY DEF Rest, Idle
  <2>3. QED
    BY <1>8, <2>1, <2>2, MoveKeepsControl DEF SkipBusyOwner, Inside
<1>9. ASSUME NEW p \in Workers, CommitDrain(p) PROVE Control'
  <2>1. Rest(p, txn[p].show).pc \in {"idle", "scan"} /\ Rest(p, txn[p].show).id = None
    BY DEF Rest, Idle
  <2>2. QED
    BY <1>9, <2>1, SettleCommits, CommitKeepsControl DEF CommitDrain, Settle, Inside
<1>10. ASSUME NEW i \in Ids, ExpireReceipt(i) PROVE Control'
  BY <1>10, ExpireKeepsControl
<1>11. ASSUME NEW p \in Clients, NEW s \in Shows, BeginAddView(p, s) PROVE Control'
  BY <1>11, MoveKeepsControl DEF BeginAddView, Acquire, Idle
<1>12. ASSUME NEW p \in Clients, CommitAddView(p) PROVE Control'
  <2>1. txn[p].show \in Shows
    BY <1>12 DEF CommitAddView, Control, ShowKnown
  <2>2. \A i \in Ids : ~ HasStatus(i, {"uncommitted"})'
    BY <1>12, <2>1, CancelCommits DEF CommitAddView
  <2>3. QED
    BY <1>12, <2>2, CommitKeepsControl DEF CommitAddView, Idle, Inside
<1>13. ASSUME NEW p \in Clients, NEW s \in Shows, NEW v \in ViewIds, ReadView(p, s, v)
       PROVE  Control'
  BY <1>13, MoveKeepsControl DEF ReadView, Idle, Inside
<1>14. ASSUME NEW p \in Clients, LockForDelete(p) PROVE Control'
  <2> DEFINE t == [txn[p] EXCEPT !.pc = "deleting"]
  <2>1. t.pc = "deleting" /\ t.show = txn[p].show /\ t.id = txn[p].id
    BY DEF TypeOK, Txn
  <2>2. t.id = None /\ t.show \in Shows
    BY <1>14, <2>1 DEF LockForDelete, Control, DraftsOwned, ShowKnown
  <2>3. Goto(p, t)
    BY <1>14 DEF LockForDelete
  <2> HIDE DEF t
  <2>4. QED
    BY <1>14, <2>1, <2>2, <2>3, MoveKeepsControl DEF LockForDelete, Acquire
<1>15. ASSUME NEW p \in Clients, CommitDeleteView(p) PROVE Control'
  <2>1. txn[p].show \in Shows
    BY <1>15 DEF CommitDeleteView, Control, ShowKnown
  <2>2. \A i \in Ids : ~ HasStatus(i, {"uncommitted"})'
    BY <1>15, <2>1, CancelCommits DEF CommitDeleteView
  <2>3. QED
    BY <1>15, <2>2, CommitKeepsControl DEF CommitDeleteView, Idle, Inside
<1>16. CASE UNCHANGED <<receipt, owner, txn>>
  BY <1>16 DEF Control, LockHeld, ShowKnown, DraftsOwned, BatchFresh, Pending, AllPending,
               HasStatus
<1>17. ASSUME NEW p \in Sessions, Crash(p) PROVE Control'
  BY <1>17, CrashKeepsControl
<1>18. ASSUME NEW body \in Bodies, MarkDirectly(body) PROVE UNCHANGED <<receipt, owner, txn>>
  BY <1>18 DEF MarkDirectly
<1>19. ASSUME NEW s \in Shows, StartTracking(s) \/ VisitShow(s) \/ PublishCatalog(s)
       PROVE  UNCHANGED <<receipt, owner, txn>>
  BY <1>19 DEF StartTracking, VisitShow, PublishCatalog
<1>20. CASE UNCHANGED vars
  BY <1>16, <1>20 DEF vars
<1>21. QED
  BY <1>1, <1>2, <1>3, <1>4, <1>5, <1>6, <1>7, <1>8, <1>9, <1>10, <1>11, <1>12,
     <1>13, <1>14, <1>15, <1>16, <1>17, <1>18, <1>19, <1>20 DEF Next

-----------------------------------------------------------------------------
(* Receipts                                                                *)

\* Rows that go, without any other change.
Shrinks ==
  /\ \A i \in Ids : receipt'[i] \in {receipt[i], NoReceipt}
  /\ \A i \in Ids : HasStatus(i, {"pending"}) => receipt'[i] = receipt[i]
  /\ nextSeq' = nextSeq

\* All that a step can do to the receipts.
LEMMA ReceiptSteps ==
  ASSUME TypeOK, Control, [Next]_vars
  PROVE  \/ \E p \in Clients, i \in Ids, body \in Bodies : Accept(p, i, body)
         \/ \E p \in Sessions : Settle(p) /\ nextSeq' = nextSeq
         \/ \E p \in Sessions : /\ txn[p].pc \in {"add", "deleting"} /\ txn[p].show \in Shows
                                /\ receipt' = Cancelled(txn[p].show) /\ nextSeq' = nextSeq
         \/ Shrinks
<1> USE DEF Sessions
<1>1. CASE receipt' = receipt /\ nextSeq' = nextSeq
  BY <1>1 DEF Shrinks
<1>2. ASSUME NEW p \in Clients, CommitSubmit(p) PROVE Settle(p) /\ nextSeq' = nextSeq
  BY <1>2 DEF CommitSubmit
<1>3. ASSUME NEW p \in Workers, CommitDrain(p) PROVE Settle(p) /\ nextSeq' = nextSeq
  BY <1>3 DEF CommitDrain
<1>4. ASSUME NEW p \in Clients, CommitAddView(p)
      PROVE  /\ txn[p].pc \in {"add", "deleting"} /\ txn[p].show \in Shows
             /\ receipt' = Cancelled(txn[p].show) /\ nextSeq' = nextSeq
  BY <1>4 DEF CommitAddView, Control, ShowKnown
<1>5. ASSUME NEW p \in Clients, CommitDeleteView(p)
      PROVE  \/ receipt' = receipt /\ nextSeq' = nextSeq
             \/ /\ txn[p].pc \in {"add", "deleting"} /\ txn[p].show \in Shows
                /\ receipt' = Cancelled(txn[p].show) /\ nextSeq' = nextSeq
  BY <1>5 DEF CommitDeleteView, Control, ShowKnown
<1>6. ASSUME NEW i \in Ids, ExpireReceipt(i) PROVE Shrinks
  BY <1>6 DEF ExpireReceipt, Shrinks, HasStatus, FinalStatus, TypeOK
<1>7. ASSUME NEW p \in Sessions, Crash(p) PROVE Shrinks
  <2>1. \A i \in Ids : i = txn[p].id => HasStatus(i, {"uncommitted"})
    BY InboxAssumption DEF Control, DraftsOwned
  <2>2. QED
    BY <1>7, <2>1 DEF Crash, Shrinks, HasStatus
<1>8. ASSUME NEW p \in Clients,
             BeginSubmit(p) \/ SubmitWithoutEffect(p) \/ CommitAddView(p) \/ LockForDelete(p)
               \/ CommitDeleteView(p) \/ CommitSubmit(p)
               \/ \E s \in Shows : BeginAddView(p, s) \/ \E v \in ViewIds : ReadView(p, s, v)
      PROVE  \/ receipt' = receipt /\ nextSeq' = nextSeq
             \/ CommitAddView(p) \/ CommitDeleteView(p) \/ CommitSubmit(p)
  BY <1>8 DEF BeginSubmit, SubmitWithoutEffect, LockForDelete, BeginAddView, ReadView
<1>9. ASSUME NEW p \in Workers,
             ScanReady(p) \/ CommitDrain(p)
               \/ \E s \in Shows : LockForDrain(p, s) \/ SkipBusyOwner(p, s)
      PROVE  \/ receipt' = receipt /\ nextSeq' = nextSeq
             \/ CommitDrain(p)
  BY <1>9 DEF ScanReady, LockForDrain, SkipBusyOwner
<1>10. ASSUME NEW p \in Sessions, ReadInbox(p) PROVE receipt' = receipt /\ nextSeq' = nextSeq
  BY <1>10 DEF ReadInbox
<1>11. ASSUME \/ \E body \in Bodies : MarkDirectly(body)
              \/ \E s \in Shows : StartTracking(s) \/ VisitShow(s) \/ PublishCatalog(s)
       PROVE  receipt' = receipt /\ nextSeq' = nextSeq
  BY <1>11 DEF MarkDirectly, StartTracking, VisitShow, PublishCatalog
<1>12. CASE UNCHANGED vars
  BY <1>1, <1>12 DEF vars
<1>13. QED
  BY <1>1, <1>2, <1>3, <1>4, <1>5, <1>6, <1>7, <1>8, <1>9, <1>10, <1>11, <1>12 DEF Next

\* What settling does to each receipt.
LEMMA SettleEffect ==
  ASSUME TypeOK, Control, NEW p \in Sessions, Settle(p), NEW i \in Ids
  PROVE  /\ receipt[i] = NoReceipt => receipt'[i] = NoReceipt
         /\ receipt[i] # NoReceipt =>
              /\ receipt'[i] # NoReceipt
              /\ receipt'[i].seq = receipt[i].seq
              /\ receipt'[i].body = receipt[i].body
              /\ \E st \in Status : receipt'[i] = [receipt[i] EXCEPT !.status = st]
         /\ i \in txn[p].batch => HasStatus(i, FinalStatus)'
         /\ i \notin txn[p].batch /\ i = txn[p].id => HasStatus(i, {"pending"})'
         /\ i \notin txn[p].batch /\ i # txn[p].id => receipt'[i] = receipt[i]
<1>1. txn[p].pc = "ready"
  BY DEF Settle
<1>2. CASE i \in txn[p].batch
  <2>1. receipt[i] \in Receipt /\ receipt[i] # NoReceipt
    BY <1>1, <1>2, BatchLive, StatusMeansReceipt
  <2>2. Outcome(i, txn[p].pay) \in Status /\ Outcome(i, txn[p].pay) \in FinalStatus
    BY OutcomeFinal DEF Status, FinalStatus
  <2>3. receipt'[i] = [receipt[i] EXCEPT !.status = Outcome(i, txn[p].pay)]
    BY <1>2 DEF Settle
  <2>4. /\ receipt'[i] # NoReceipt
        /\ receipt'[i].seq = receipt[i].seq /\ receipt'[i].body = receipt[i].body
        /\ receipt'[i].status = Outcome(i, txn[p].pay)
    BY <2>1, <2>2, <2>3, StatusChange
  <2>5. HasStatus(i, FinalStatus)'
    BY <2>2, <2>4 DEF HasStatus
  <2>6. QED
    BY <1>2, <2>1, <2>2, <2>3, <2>4, <2>5
<1>3. CASE i \notin txn[p].batch /\ i = txn[p].id
  <2>1. receipt[i] \in Receipt /\ receipt[i] # NoReceipt
    BY <1>1, <1>3, BatchLive, StatusMeansReceipt, InboxAssumption
  <2>2. receipt'[i] = [receipt[i] EXCEPT !.status = "pending"]
    BY <1>3 DEF Settle
  <2>3. "pending" \in Status
    BY DEF Status
  <2>4. /\ receipt'[i] # NoReceipt
        /\ receipt'[i].seq = receipt[i].seq /\ receipt'[i].body = receipt[i].body
        /\ receipt'[i].status = "pending"
    BY <2>1, <2>2, <2>3, StatusChange
  <2>5. HasStatus(i, {"pending"})'
    BY <2>4 DEF HasStatus
  <2>6. QED
    BY <1>3, <2>1, <2>2, <2>3, <2>4, <2>5
<1>4. CASE i \notin txn[p].batch /\ i # txn[p].id
  <2>1. receipt'[i] = receipt[i]
    BY <1>4 DEF Settle
  <2>2. receipt[i] # NoReceipt => receipt[i] = [receipt[i] EXCEPT !.status = receipt[i].status]
                               /\ receipt[i].status \in Status
    BY DEF TypeOK, Receipt
  <2>3. QED
    BY <1>4, <2>1, <2>2
<1>5. QED
  BY <1>2, <1>3, <1>4

\* What cancelling does to each receipt.
LEMMA CancelEffect ==
  ASSUME TypeOK, NEW s \in Shows, receipt' = Cancelled(s), NEW i \in Ids
  PROVE  /\ i \in Pending(s) =>
              /\ HasStatus(i, FinalStatus)'
              /\ receipt'[i].seq = receipt[i].seq /\ receipt'[i].body = receipt[i].body
              /\ receipt'[i] = [receipt[i] EXCEPT !.status = "cancelled"]
         /\ i \notin Pending(s) => receipt'[i] = receipt[i]
<1>1. CASE i \in Pending(s)
  <2>1. receipt[i] \in Receipt
    BY <1>1, StatusMeansReceipt DEF Pending, AllPending
  <2>2. receipt'[i] = [receipt[i] EXCEPT !.status = "cancelled"]
    BY <1>1 DEF Cancelled
  <2>3. "cancelled" \in Status /\ "cancelled" \in FinalStatus
    BY DEF Status, FinalStatus
  <2>4. /\ receipt'[i] # NoReceipt /\ receipt'[i].status = "cancelled"
        /\ receipt'[i].seq = receipt[i].seq /\ receipt'[i].body = receipt[i].body
    BY <2>1, <2>2, <2>3, StatusChange
  <2>5. QED
    BY <1>1, <2>2, <2>3, <2>4 DEF HasStatus
<1>2. CASE i \notin Pending(s)
  BY <1>2 DEF Cancelled
<1>3. QED
  BY <1>1, <1>2

\* What accepting does to each receipt.
LEMMA AcceptEffect ==
  ASSUME TypeOK, Control, NEW p \in Clients, NEW i \in Ids, NEW body \in Bodies,
         Accept(p, i, body)
  PROVE  /\ receipt[i] = NoReceipt /\ nextSeq' = nextSeq + 1
         /\ HasStatus(i, {"uncommitted"})' /\ receipt'[i].seq = nextSeq
         /\ receipt'[i].status = "uncommitted"
         /\ \A j \in Ids \ {i} : receipt'[j] = receipt[j] /\ ~ HasStatus(j, {"uncommitted"})
<1>1. [body |-> body, seq |-> nextSeq, status |-> "uncommitted"] \in Receipt
  BY DEF Receipt, Status, TypeOK
<1>2. receipt'[i] = [body |-> body, seq |-> nextSeq, status |-> "uncommitted"]
  BY DEF Accept, TypeOK
<1>3. \A j \in Ids : ~ HasStatus(j, {"uncommitted"})
  <2>1. p \in Sessions /\ txn[p].pc \in Inside /\ txn[p].id = None
    BY DEF Accept, Inside, Control, DraftsOwned, Sessions
  <2>2. QED
    BY <2>1, OneInside, InboxAssumption
<1>4. QED
  BY <1>1, <1>2, <1>3, InboxAssumption DEF Accept, HasStatus, TypeOK

-----------------------------------------------------------------------------
(* Order of acceptance                                                     *)

Order == SequenceGrows /\ FinalBeforePending

LEMMA AcceptKeepsOrder ==
  ASSUME TypeOK, Control, Order, NEW p \in Clients, NEW i \in Ids, NEW body \in Bodies,
         Accept(p, i, body)
  PROVE  Order'
<1>1. \A j \in Ids \ {i} : receipt'[j] = receipt[j] /\ ~ HasStatus(j, {"uncommitted"})
  BY AcceptEffect
<1>2. receipt'[i].seq = nextSeq /\ nextSeq' = nextSeq + 1 /\ nextSeq \in Nat
  BY AcceptEffect DEF TypeOK
<1>3. \A j \in Ids \ {i} : receipt[j] # NoReceipt => receipt[j].seq \in Nat /\ receipt[j].seq < nextSeq
  BY DEF Order, SequenceGrows, TypeOK, Receipt
<1>4. SequenceGrows'
  BY <1>1, <1>2, <1>3 DEF SequenceGrows, HasStatus
<1>5. FinalBeforePending'
  <2>1. ~ HasStatus(i, FinalStatus)' /\ ~ HasStatus(i, {"pending"})'
    BY AcceptEffect DEF HasStatus, FinalStatus
  <2>2. QED
    BY <1>1, <2>1 DEF Order, FinalBeforePending, HasStatus
<1>6. QED
  BY <1>4, <1>5 DEF Order

LEMMA SettleKeepsOrder ==
  ASSUME TypeOK, Control, Order, NEW p \in Sessions, Settle(p), nextSeq' = nextSeq
  PROVE  Order'
<1>1. txn[p].pc = "ready"
  BY DEF Settle
<1>2. SequenceGrows'
  BY SettleEffect, SettleCommits DEF Order, SequenceGrows
<1>3. FinalBeforePending'
  <2> SUFFICES ASSUME NEW i \in Ids, NEW j \in Ids,
                      HasStatus(i, FinalStatus)', HasStatus(j, {"pending"})',
                      receipt'[i].body.show = receipt'[j].body.show
               PROVE  receipt'[i].seq < receipt'[j].seq
    BY DEF FinalBeforePending
  <2>1. receipt[i] # NoReceipt /\ receipt[j] # NoReceipt
    BY SettleEffect DEF HasStatus
  <2>2. /\ receipt'[i].seq = receipt[i].seq /\ receipt'[i].body = receipt[i].body
        /\ receipt'[j].seq = receipt[j].seq /\ receipt'[j].body = receipt[j].body
    BY <2>1, SettleEffect
  <2>3. j \notin txn[p].batch
    BY SettleEffect DEF HasStatus, FinalStatus
  <2>4. i # txn[p].id \/ i \in txn[p].batch
    BY SettleEffect DEF HasStatus, FinalStatus
  <2>5. CASE txn[p].batch = {}
    <3>1. HasStatus(i, FinalStatus)
      BY <2>4, <2>5, SettleEffect DEF HasStatus
    <3>2. CASE j = txn[p].id
      <4>1. HasStatus(j, {"uncommitted"}) /\ i # j
        BY <1>1, <2>4, <2>5, <3>2, BatchLive, InboxAssumption
      <4>2. QED
        BY <2>1, <2>2, <4>1 DEF Order, SequenceGrows
    <3>3. CASE j # txn[p].id
      <4>1. HasStatus(j, {"pending"})
        BY <2>3, <3>3, SettleEffect DEF HasStatus
      <4>2. QED
        BY <2>2, <3>1, <4>1 DEF Order, FinalBeforePending
    <3>4. QED
      BY <3>2, <3>3
  <2>6. CASE txn[p].batch = Pending(txn[p].show) \cup ({txn[p].id} \cap Ids)
    <3>1. HasStatus(j, {"pending"}) /\ receipt[j].body.show # txn[p].show
      <4>1. j # txn[p].id /\ j \notin Pending(txn[p].show)
        BY <2>3, <2>6
      <4>2. HasStatus(j, {"pending"})
        BY <2>3, <4>1, SettleEffect DEF HasStatus
      <4>3. QED
        BY <4>1, <4>2 DEF Pending, AllPending
    <3>2. i \notin txn[p].batch
      BY <1>1, <2>2, <3>1, BatchLive
    <3>3. HasStatus(i, FinalStatus)
      BY <2>4, <3>2, SettleEffect DEF HasStatus
    <3>4. QED
      BY <2>2, <3>1, <3>3 DEF Order, FinalBeforePending
  <2>7. QED
    BY <1>1, <2>5, <2>6 DEF Control, BatchFresh
<1>4. QED
  BY <1>2, <1>3 DEF Order

LEMMA CancelKeepsOrder ==
  ASSUME TypeOK, Control, Order, NEW p \in Sessions, txn[p].pc \in {"add", "deleting"},
         NEW s \in Shows, receipt' = Cancelled(s), nextSeq' = nextSeq
  PROVE  Order'
<1>1. \A i \in Ids : receipt'[i] # NoReceipt =>
        receipt[i] # NoReceipt /\ receipt'[i].seq = receipt[i].seq
  BY CancelEffect DEF Pending, AllPending, HasStatus
<1>2. SequenceGrows'
  BY <1>1, CancelCommits DEF Order, SequenceGrows
<1>3. FinalBeforePending'
  <2> SUFFICES ASSUME NEW i \in Ids, NEW j \in Ids,
                      HasStatus(i, FinalStatus)', HasStatus(j, {"pending"})',
                      receipt'[i].body.show = receipt'[j].body.show
               PROVE  receipt'[i].seq < receipt'[j].seq
    BY DEF FinalBeforePending
  <2>1. j \notin Pending(s) /\ receipt'[j] = receipt[j]
    BY CancelEffect DEF HasStatus, FinalStatus
  <2>2. HasStatus(j, {"pending"}) /\ receipt[j].body.show # s
    BY <2>1 DEF HasStatus, Pending, AllPending
  <2>3. i \notin Pending(s)
    BY <2>1, <2>2, CancelEffect DEF Pending
  <2>4. receipt'[i] = receipt[i] /\ HasStatus(i, FinalStatus)
    BY <2>3, CancelEffect DEF HasStatus
  <2>5. QED
    BY <2>1, <2>2, <2>4 DEF Order, FinalBeforePending
<1>4. QED
  BY <1>2, <1>3 DEF Order

LEMMA ShrinkKeepsOrder ==
  ASSUME Order, Shrinks
  PROVE  Order'
BY DEF Order, SequenceGrows, FinalBeforePending, Shrinks, HasStatus

LEMMA StepOrder == ASSUME TypeOK, Control, Order, [Next]_vars PROVE Order'
BY ReceiptSteps, AcceptKeepsOrder, SettleKeepsOrder, CancelKeepsOrder, ShrinkKeepsOrder

-----------------------------------------------------------------------------
(* Room in the inbox                                                       *)

LEMMA StepRoom == ASSUME TypeOK, Control, RoomForDrafts, [Next]_vars PROVE RoomForDrafts'
<1>1. IsFiniteSet(Live) /\ Cardinality(Live) \in Nat
  BY InboxAssumption, FS_Subset, FS_CardinalityType DEF Live
<1>2. CASE Live' \subseteq Live
  <2>1. Cardinality(Live') <= Cardinality(Live) /\ Cardinality(Live') \in Nat
    BY <1>1, <1>2, FS_Subset, FS_CardinalityType
  <2>2. QED
    BY <1>1, <2>1, InboxAssumption DEF RoomForDrafts
<1>3. ASSUME NEW p \in Clients, NEW i \in Ids, NEW body \in Bodies, Accept(p, i, body)
      PROVE  RoomForDrafts'
  <2>1. /\ i \notin AllPending
        /\ \A j \in Ids \ {i} : receipt'[j] = receipt[j] /\ ~ HasStatus(j, {"uncommitted"})
    BY <1>3, AcceptEffect DEF AllPending, HasStatus
  <2>2. Live' \subseteq AllPending \cup {i}
    BY <2>1 DEF Live, AllPending, HasStatus
  <2>3. IsFiniteSet(AllPending) /\ Cardinality(AllPending) \in Nat
    BY InboxAssumption, FS_Subset, FS_CardinalityType DEF AllPending
  <2>4. /\ IsFiniteSet(AllPending \cup {i})
        /\ Cardinality(AllPending \cup {i}) = Cardinality(AllPending) + 1
    BY <2>1, <2>3, FS_AddElement
  <2>5. Cardinality(Live') <= Cardinality(AllPending) + 1 /\ Cardinality(Live') \in Nat
    BY <2>2, <2>4, FS_Subset, FS_CardinalityType
  <2>6. Cardinality(AllPending) < InboxLimit
    BY <1>3 DEF Accept, HasRoom
  <2>7. QED
    BY <2>3, <2>5, <2>6, InboxAssumption DEF RoomForDrafts
<1>4. ASSUME NEW p \in Sessions, Settle(p) PROVE Live' \subseteq Live
  <2> SUFFICES ASSUME NEW i \in Ids, HasStatus(i, {"pending", "uncommitted"})'
               PROVE  HasStatus(i, {"pending", "uncommitted"})
    BY DEF Live
  <2>1. i \notin txn[p].batch
    BY <1>4, SettleEffect DEF HasStatus, FinalStatus
  <2>2. CASE i = txn[p].id
    BY <1>4, <2>2, BatchLive, InboxAssumption DEF Settle, HasStatus
  <2>3. CASE i # txn[p].id
    BY <1>4, <2>1, <2>3, SettleEffect DEF HasStatus
  <2>4. QED
    BY <2>2, <2>3
<1>5. ASSUME NEW s \in Shows, receipt' = Cancelled(s) PROVE Live' \subseteq Live
  BY <1>5, CancelEffect DEF Live, HasStatus, FinalStatus
<1>6. CASE Shrinks
  BY <1>2, <1>6 DEF Shrinks, Live, HasStatus
<1>7. QED
  BY <1>2, <1>3, <1>4, <1>5, <1>6, ReceiptSteps

-----------------------------------------------------------------------------
(* Theorems                                                                *)

LEMMA InitInv == Init => InboxInv
<1> SUFFICES ASSUME Init PROVE InboxInv
  OBVIOUS
<1>1. TypeOK
  <2>1. marks \in [Shows -> [Episodes -> Marks \cup {"unset"}]]
    <3>1. [e \in Episodes |-> "unset"] \in [Episodes -> Marks \cup {"unset"}]
      OBVIOUS
    <3>2. QED
      BY <3>1 DEF Init
  <2>2. txn \in [Sessions -> Txn] /\ owner \in Sessions \cup {None}
    BY TxnType DEF Init
  <2>3. QED
    BY <2>1, <2>2 DEF Init, TypeOK
<1>2. Control /\ SequenceGrows /\ FinalBeforePending
  BY DEF Init, Control, LockHeld, ShowKnown, DraftsOwned, BatchFresh, SequenceGrows,
         FinalBeforePending, HasStatus, Idle
<1>3. RoomForDrafts
  <2>1. Live = {}
    BY DEF Init, Live, HasStatus
  <2>2. QED
    BY <2>1, FS_EmptySet, InboxAssumption DEF RoomForDrafts
<1>4. QED
  BY <1>1, <1>2, <1>3 DEF InboxInv

LEMMA InboxInvariant == Spec => []InboxInv
<1>1. InboxInv /\ [Next]_vars => InboxInv'
  BY StepType, StepControl, StepOrder, StepRoom DEF InboxInv, Order
<1>2. QED
  BY InitInv, <1>1, PTL DEF Spec

\* Receipts, transactions and progress keep their types for any number of
\* sessions, shows and intents, and whatever the limits are.
THEOREM TypeCorrect == Spec => []TypeOK
<1>1. InboxInv => TypeOK
  BY DEF InboxInv
<1>2. QED
  BY InboxInvariant, <1>1, PTL

\* No intent is settled before an older one on the same show, however requests,
\* drains, history changes and crashes interleave.
THEOREM AcceptanceOrder == Spec => []FinalBeforePending
<1>1. InboxInv => FinalBeforePending
  BY DEF InboxInv
<1>2. QED
  BY InboxInvariant, <1>1, PTL

\* However many sessions submit at once, an owner never has more intents
\* pending than the limit.
THEOREM InboxNeverOverfull == Spec => []InboxBounded
<1>1. ASSUME InboxInv PROVE InboxBounded
  <2>1. AllPending \subseteq Live
    BY DEF AllPending, Live, HasStatus
  <2>2. IsFiniteSet(Live) /\ Cardinality(Live) \in Nat
    BY InboxAssumption, FS_Subset, FS_CardinalityType DEF Live
  <2>3. Cardinality(AllPending) <= Cardinality(Live) /\ Cardinality(AllPending) \in Nat
    BY <2>1, <2>2, FS_Subset, FS_CardinalityType
  <2>4. QED
    BY <1>1, <2>2, <2>3, InboxAssumption DEF InboxInv, RoomForDrafts, InboxBounded
<1>2. QED
  BY InboxInvariant, <1>1, PTL

LEMMA StepFinal ==
  ASSUME InboxInv, [Next]_vars, NEW i \in Ids
  PROVE  /\ HasStatus(i, FinalStatus) => receipt'[i] \in {receipt[i], NoReceipt}
         /\ HasStatus(i, {"pending"}) =>
              \E st \in Status \ {"uncommitted"} :
                receipt'[i] = [receipt[i] EXCEPT !.status = st]
<1> USE DEF InboxInv
<1>1. CASE \E p \in Clients, j \in Ids, body \in Bodies : Accept(p, j, body)
  <2>1. HasStatus(i, FinalStatus) \/ HasStatus(i, {"pending"}) => receipt'[i] = receipt[i]
    BY <1>1, AcceptEffect DEF HasStatus
  <2>2. HasStatus(i, {"pending"}) => receipt[i] = [receipt[i] EXCEPT !.status = "pending"]
    BY StatusMeansReceipt DEF Receipt
  <2>3. QED
    BY <2>1, <2>2 DEF Status
<1>2. CASE \E p \in Sessions : Settle(p)
  <2>1. PICK p \in Sessions : Settle(p)
    BY <1>2
  <2>2. HasStatus(i, FinalStatus) => receipt'[i] = receipt[i]
    <3>1. HasStatus(i, FinalStatus) => i \notin txn[p].batch /\ i # txn[p].id
      BY <2>1, BatchLive, InboxAssumption DEF Settle, HasStatus, FinalStatus
    <3>2. QED
      BY <2>1, <3>1, SettleEffect
  <2>3. ASSUME HasStatus(i, {"pending"})
        PROVE  \E st \in Status \ {"uncommitted"} :
                 receipt'[i] = [receipt[i] EXCEPT !.status = st]
    <3>1. receipt[i] \in Receipt /\ receipt[i] # NoReceipt
      BY <2>3, StatusMeansReceipt
    <3>2. PICK st \in Status : receipt'[i] = [receipt[i] EXCEPT !.status = st]
      BY <2>1, <3>1, SettleEffect
    <3>3. receipt'[i] # NoReceipt /\ receipt'[i].status = st
      BY <3>1, <3>2, StatusChange
    <3>4. st # "uncommitted"
      BY <2>1, <3>3, SettleCommits DEF HasStatus
    <3>5. QED
      BY <3>2, <3>4
  <2>4. QED
    BY <2>2, <2>3
<1>3. CASE \E s \in Shows : receipt' = Cancelled(s)
  <2>1. PICK s \in Shows : receipt' = Cancelled(s)
    BY <1>3
  <2>2. HasStatus(i, FinalStatus) => i \notin Pending(s)
    BY DEF HasStatus, FinalStatus, Pending, AllPending
  <2>3. HasStatus(i, {"pending"}) => receipt[i] = [receipt[i] EXCEPT !.status = "pending"]
    BY StatusMeansReceipt DEF Receipt
  <2>4. QED
    BY <2>1, <2>2, <2>3, CancelEffect DEF Status
<1>4. CASE Shrinks
  <2>1. HasStatus(i, {"pending"}) => receipt[i] = [receipt[i] EXCEPT !.status = "pending"]
    BY StatusMeansReceipt DEF Receipt
  <2>2. QED
    BY <1>4, <2>1 DEF Shrinks, Status
<1>5. QED
  BY <1>1, <1>2, <1>3, <1>4, ReceiptSteps

\* An accepted intent is never lost or rewritten, and an outcome never changes
\* once it has been reported.
THEOREM FinalReceiptsStay == Spec => ReceiptsAreFinal
<1>1. InboxInv /\ [Next]_vars =>
        [\A i \in Ids :
           /\ HasStatus(i, FinalStatus) => receipt'[i] \in {receipt[i], NoReceipt}
           /\ HasStatus(i, {"pending"}) =>
                \E st \in Status \ {"uncommitted"} :
                  receipt'[i] = [receipt[i] EXCEPT !.status = st]]_vars
  BY StepFinal
<1>2. QED
  BY InboxInvariant, <1>1, PTL DEF Spec, ReceiptsAreFinal

=============================================================================
