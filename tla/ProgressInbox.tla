--------------------------- MODULE ProgressInbox ---------------------------
(***************************************************************************)
(* The ordered inbox of watched intents of one owner, with every writer    *)
(* that meets it: the action endpoint, the worker's drain, the viewing     *)
(* history endpoints and the direct progress endpoints.                    *)
(*                                                                         *)
(* A transaction under the owner's row lock (SELECT ... FOR UPDATE) spans  *)
(* several steps, so that other sessions run between its reads and its     *)
(* commit; a row it has inserted has status "uncommitted" and is invisible *)
(* to the others until then.  Endpoints that do not take that lock are one *)
(* step each, at any moment.  Owners never share rows, so one is modelled. *)
(***************************************************************************)
EXTENDS Naturals, FiniteSets

CONSTANTS
  Clients,     \* sessions of API requests
  Workers,     \* sessions of catalogue workers
  Shows,
  Episodes,    \* regular episodes, the same names in every show
  Ids,         \* operation UUIDs chosen by clients
  Bodies,      \* what a request may carry
  Payloads,    \* catalogues TMDB may publish: the released episodes
  ViewIds,     \* identities of viewing records; enough of them
  InboxLimit,  \* 150 pending intents per owner
  DrainLimit,  \* 20 shows per drain
  MaxViews,    \* bound: viewing records a show may have when one is added
  MaxSeq,      \* bound: sequence numbers handed out
  None, NoReceipt, NoPayload

Sessions == Clients \cup Workers
Marks == {"watched", "unwatched"}
Status == {"uncommitted", "pending", "applied", "failed", "cancelled"}
FinalStatus == {"applied", "failed", "cancelled"}

\* A target is the set of episodes it names up to its cutoff date; whole marks
\* the intents on a show, which alone may touch the viewing history.
Body == [show : Shows, eps : SUBSET Episodes, whole : BOOLEAN, mark : Marks,
         history : BOOLEAN]

Receipt == [body : Bodies, seq : Nat, status : Status]

ASSUME InboxAssumption ==
  /\ Bodies \subseteq Body
  /\ Payloads \subseteq SUBSET Episodes
  /\ None \notin Sessions /\ None \notin Ids /\ None \notin Shows /\ None \notin ViewIds
  /\ NoReceipt \notin Receipt
  /\ Clients \cap Workers = {}
  /\ IsFiniteSet(Ids) /\ IsFiniteSet(Shows)
  /\ InboxLimit \in Nat /\ DrainLimit \in Nat /\ MaxViews \in Nat /\ MaxSeq \in Nat

VARIABLES
  payload,    \* published en-US catalogue of each show
  requested,  \* shows whose catalogue row exists
  receipt,    \* progress_action rows
  nextSeq,    \* the identity column's sequence
  baseline,   \* caught_up_through: no row, date.min, or a real date
  marks,      \* episode_progress overrides
  views,      \* viewing records of each show
  owner,      \* session that holds the owner's row lock
  txn         \* where each session is in its transaction

progress == <<baseline, marks, views>>
vars == <<payload, requested, receipt, nextSeq, baseline, marks, views, owner, txn>>

Idle == [pc |-> "idle", show |-> None, id |-> None, batch |-> {}, pay |-> NoPayload,
         todo |-> {}, view |-> None]

Txn == [pc : {"idle", "submit", "accepted", "ready", "scan", "drain", "add", "delete", "deleting"},
        show : Shows \cup {None}, id : Ids \cup {None}, batch : SUBSET Ids,
        pay : {NoPayload} \cup SUBSET Episodes, todo : SUBSET Shows,
        view : ViewIds \cup {None}]

TypeOK ==
  /\ payload \in [Shows -> {NoPayload} \cup SUBSET Episodes]
  /\ requested \in SUBSET Shows
  /\ receipt \in [Ids -> Receipt \cup {NoReceipt}]
  /\ nextSeq \in Nat \ {0}
  /\ baseline \in [Shows -> {"untracked", "empty", "dated"}]
  /\ marks \in [Shows -> [Episodes -> Marks \cup {"unset"}]]
  /\ views \in [Shows -> SUBSET ViewIds]
  /\ owner \in Sessions \cup {None}
  /\ txn \in [Sessions -> Txn]

Init ==
  /\ payload = [s \in Shows |-> NoPayload]
  /\ requested = {}
  /\ receipt = [i \in Ids |-> NoReceipt]
  /\ nextSeq = 1
  /\ baseline = [s \in Shows |-> "untracked"]
  /\ marks = [s \in Shows |-> [e \in Episodes |-> "unset"]]
  /\ views = [s \in Shows |-> {}]
  /\ owner = None
  /\ txn = [p \in Sessions |-> Idle]

-----------------------------------------------------------------------------
(* Rows                                                                    *)

HasStatus(i, S) == receipt[i] # NoReceipt /\ receipt[i].status \in S

AllPending == {i \in Ids : HasStatus(i, {"pending"})}

Pending(s) == {i \in AllPending : receipt[i].body.show = s}

\* What a catalogue validates of a target; nothing left is a 422.
Released(body, pl) == body.eps \cap pl

Valid(R, pl) == {r \in R : Released(r.body, pl) # {}}

\* Mutant of LastMark: the rows are read in the opposite order.
FirstMark(R) ==
  IF \E r \in R : r.body.mark = "watched" /\ \A other \in R : other.seq >= r.seq
  THEN "watched" ELSE "unwatched"

\* What the youngest of a set of intents asks for: it has the last word.
LastMark(R) ==
  IF \E r \in R : r.body.mark = "watched" /\ \A other \in R : other.seq <= r.seq
  THEN "watched" ELSE "unwatched"

\* A viewing record identity no session can confuse with an earlier one.
FreshViews(s) ==
  {v \in ViewIds : v \notin views[s] /\ \A p \in Sessions : txn[p].view # v}

-----------------------------------------------------------------------------
(* Marking, in order of sequence: every intent that survives validation    *)
(* starts tracking and overwrites its episodes; whole-show intents that    *)
(* record history delete every viewing record or make sure there is one.   *)

MarksAfter(s, R, pl) ==
  [e \in Episodes |->
     LET touching == {r \in Valid(R, pl) : e \in Released(r.body, pl)}
     IN  IF touching = {} THEN marks[s][e] ELSE LastMark(touching)]

ViewsAfter(s, R, pl) ==
  LET recorded == {r \in Valid(R, pl) : r.body.whole /\ r.body.history}
      removes  == \E r \in recorded : r.body.mark = "unwatched"
  IN  IF recorded = {} THEN {views[s]}
      ELSE IF LastMark(recorded) = "unwatched" THEN {{}}
      ELSE IF removes \/ views[s] = {} THEN {{v} : v \in FreshViews(s)}
      ELSE {views[s]}

Mark(s, R, pl) ==
  /\ marks' = [marks EXCEPT ![s] = MarksAfter(s, R, pl)]
  /\ \E V \in ViewsAfter(s, R, pl) : views' = [views EXCEPT ![s] = V]
  /\ baseline' = [baseline EXCEPT ![s] =
                    IF @ = "untracked" /\ Valid(R, pl) # {} THEN "empty" ELSE @]

\* Mutant of Outcome: an intent that fails validation is left for later.
OutcomeOrLater(i, pl) ==
  IF Released(receipt[i].body, pl) = {} THEN "pending" ELSE "applied"

Outcome(i, pl) == IF Released(receipt[i].body, pl) = {} THEN "failed" ELSE "applied"

-----------------------------------------------------------------------------
(* The owner's row lock                                                    *)

\* Mutant of Acquire: the row is read without FOR UPDATE.
AcquireUnlocked(p) == owner' = p

Acquire(p) == owner = None /\ owner' = p

Release(p) == owner' = IF owner = p THEN None ELSE owner

Goto(p, t) == txn' = [txn EXCEPT ![p] = t]

-----------------------------------------------------------------------------
(* PUT /shows/{id}/actions                                                 *)

BeginSubmit(p) ==
  /\ txn[p] = Idle
  /\ Acquire(p)
  /\ Goto(p, [Idle EXCEPT !.pc = "submit"])
  /\ UNCHANGED <<payload, requested, receipt, nextSeq, progress>>

\* A known operation is answered from its receipt (or with 409), a full inbox
\* with 429; neither writes.
SubmitWithoutEffect(p) ==
  /\ txn[p].pc = "submit"
  /\ \/ \E i \in Ids : receipt[i] # NoReceipt
     \/ Cardinality(AllPending) >= InboxLimit
  /\ Release(p)
  /\ Goto(p, Idle)
  /\ UNCHANGED <<payload, requested, receipt, nextSeq, progress>>

\* Mutant of HasRoom: one too many.
HasRoomForOneMore == Cardinality(AllPending) <= InboxLimit

HasRoom == Cardinality(AllPending) < InboxLimit

Accept(p, i, body) ==
  /\ txn[p].pc = "submit"
  /\ receipt[i] = NoReceipt
  /\ HasRoom
  /\ nextSeq <= MaxSeq
  /\ receipt' = [receipt EXCEPT ![i] = [body |-> body, seq |-> nextSeq,
                                        status |-> "uncommitted"]]
  /\ nextSeq' = nextSeq + 1
  /\ Goto(p, [Idle EXCEPT !.pc = "accepted", !.show = body.show, !.id = i])
  /\ UNCHANGED <<payload, requested, progress, owner>>

\* apply_actions reads the catalogue, then the pending rows it can see.
ReadInbox(p) ==
  /\ txn[p].pc \in {"accepted", "drain"}
  /\ LET s == txn[p].show
         own == {txn[p].id} \cap Ids
     IN  Goto(p, [txn[p] EXCEPT !.pc = "ready", !.pay = payload[s],
                    !.batch = IF payload[s] = NoPayload THEN {} ELSE Pending(s) \cup own])
  /\ UNCHANGED <<payload, requested, receipt, nextSeq, progress, owner>>

\* Receipts, progress and history are written and committed together.
Settle(p) ==
  LET t == txn[p]
  IN  /\ t.pc = "ready"
      /\ receipt' = [i \in Ids |->
                       IF i \in t.batch
                       THEN [receipt[i] EXCEPT !.status = Outcome(i, t.pay)]
                       ELSE IF i = t.id THEN [receipt[i] EXCEPT !.status = "pending"]
                       ELSE receipt[i]]
      /\ IF t.batch = {} THEN UNCHANGED progress
         ELSE Mark(t.show, {receipt[i] : i \in t.batch}, t.pay)
      /\ Release(p)

CommitSubmit(p) ==
  /\ txn[p].id # None
  /\ Settle(p)
  /\ requested' = requested \cup {txn[p].show}
  /\ Goto(p, Idle)
  /\ UNCHANGED <<payload, nextSeq>>

-----------------------------------------------------------------------------
(* The worker's drain                                                      *)

Ready == {s \in Shows : payload[s] # NoPayload /\ Pending(s) # {}}

\* The shows to drain are read before any lock is taken.
ScanReady(p) ==
  /\ txn[p] = Idle
  /\ \E T \in SUBSET Ready :
       /\ T # {}
       /\ T = Ready \/ Cardinality(T) = DrainLimit
       /\ Cardinality(T) <= DrainLimit
       /\ Goto(p, [Idle EXCEPT !.pc = "scan", !.todo = T])
  /\ UNCHANGED <<payload, requested, receipt, nextSeq, progress, owner>>

\* The next show of the scan, or the end of it.
Rest(p, s) ==
  IF txn[p].todo = {s} THEN Idle ELSE [Idle EXCEPT !.pc = "scan", !.todo = txn[p].todo \ {s}]

LockForDrain(p, s) ==
  /\ txn[p].pc = "scan" /\ s \in txn[p].todo
  /\ Acquire(p)
  /\ Goto(p, [txn[p] EXCEPT !.pc = "drain", !.show = s])
  /\ UNCHANGED <<payload, requested, receipt, nextSeq, progress>>

\* SKIP LOCKED: an owner busy with interactive work is left for the next drain.
SkipBusyOwner(p, s) ==
  /\ txn[p].pc = "scan" /\ s \in txn[p].todo
  /\ owner # None
  /\ Goto(p, Rest(p, s))
  /\ UNCHANGED <<payload, requested, receipt, nextSeq, progress, owner>>

CommitDrain(p) ==
  /\ txn[p].id = None
  /\ Settle(p)
  /\ Goto(p, Rest(p, txn[p].show))
  /\ UNCHANGED <<payload, requested, nextSeq>>

\* Receipts that have been final for seven days are deleted.
ExpireReceipt(i) ==
  /\ HasStatus(i, FinalStatus)
  /\ receipt' = [receipt EXCEPT ![i] = NoReceipt]
  /\ UNCHANGED <<payload, requested, nextSeq, progress, owner, txn>>

-----------------------------------------------------------------------------
(* POST /views and DELETE /views/{id} for shows                            *)

\* Mutants of Cancelled: no filter on the status; a status the column refuses.
CancelledWhateverStatus(s) ==
  [i \in Ids |-> IF receipt[i] # NoReceipt /\ receipt[i].body.show = s
                 THEN [receipt[i] EXCEPT !.status = "cancelled"] ELSE receipt[i]]

CancelledMisspelt(s) ==
  [i \in Ids |-> IF i \in Pending(s) THEN [receipt[i] EXCEPT !.status = "canceled"]
                 ELSE receipt[i]]

Cancelled(s) ==
  [i \in Ids |-> IF i \in Pending(s) THEN [receipt[i] EXCEPT !.status = "cancelled"]
                 ELSE receipt[i]]

BeginAddView(p, s) ==
  /\ txn[p] = Idle
  /\ Cardinality(views[s]) < MaxViews
  /\ Acquire(p)
  /\ Goto(p, [Idle EXCEPT !.pc = "add", !.show = s])
  /\ UNCHANGED <<payload, requested, receipt, nextSeq, progress>>

CommitAddView(p) ==
  LET s == txn[p].show
  IN  /\ txn[p].pc = "add"
      /\ receipt' = Cancelled(s)
      /\ \E v \in FreshViews(s) : views' = [views EXCEPT ![s] = @ \cup {v}]
      /\ baseline' = [baseline EXCEPT ![s] = "dated"]
      /\ Release(p)
      /\ Goto(p, Idle)
      /\ UNCHANGED <<payload, requested, nextSeq, marks>>

\* The record is read, and its owner compared, before the lock is requested.
ReadView(p, s, v) ==
  /\ txn[p] = Idle
  /\ v \in views[s]
  /\ Goto(p, [Idle EXCEPT !.pc = "delete", !.show = s, !.view = v])
  /\ UNCHANGED <<payload, requested, receipt, nextSeq, progress, owner>>

LockForDelete(p) ==
  /\ txn[p].pc = "delete"
  /\ Acquire(p)
  /\ Goto(p, [txn[p] EXCEPT !.pc = "deleting"])
  /\ UNCHANGED <<payload, requested, receipt, nextSeq, progress>>

CommitDeleteView(p) ==
  LET s == txn[p].show
      left == views[s] \ {txn[p].view}
  IN  /\ txn[p].pc = "deleting"
      /\ views' = [views EXCEPT ![s] = left]
      /\ \/ /\ left = {}
            /\ receipt' = Cancelled(s)
            /\ marks' = [marks EXCEPT ![s] = [e \in Episodes |-> "unset"]]
            /\ baseline' = [baseline EXCEPT ![s] = "untracked"]
         \/ /\ left # {}
            /\ UNCHANGED <<receipt, marks, baseline>>
      /\ Release(p)
      /\ Goto(p, Idle)
      /\ UNCHANGED <<payload, requested, nextSeq>>

-----------------------------------------------------------------------------
(* Endpoints that never take the owner's lock                              *)

\* PUT episodes, seasons/{n}, watched and caught-up: validated against the
\* published catalogue (503 without one, 422 with nothing released).
MarkDirectly(body) ==
  LET s == body.show
  IN  /\ payload[s] # NoPayload
      /\ Released(body, payload[s]) # {}
      /\ Mark(s, {[body |-> body, seq |-> 0, status |-> "applied"]}, payload[s])
      /\ UNCHANGED <<payload, requested, receipt, nextSeq, owner, txn>>

\* PUT tracking
StartTracking(s) ==
  /\ payload[s] # NoPayload
  /\ baseline[s] = "untracked"
  /\ baseline' = [baseline EXCEPT ![s] = "empty"]
  /\ UNCHANGED <<payload, requested, receipt, nextSeq, marks, views, owner, txn>>

-----------------------------------------------------------------------------
(* Environment                                                             *)

\* Any read of a show nobody asked for yet queues its catalogue.
VisitShow(s) ==
  /\ s \notin requested
  /\ requested' = requested \cup {s}
  /\ UNCHANGED <<payload, receipt, nextSeq, progress, owner, txn>>

\* The catalogue worker publishes a first or a newer snapshot.
PublishCatalog(s) ==
  /\ s \in requested
  /\ \E pl \in Payloads : payload' = [payload EXCEPT ![s] = pl]
  /\ UNCHANGED <<requested, receipt, nextSeq, progress, owner, txn>>

\* A request is aborted or a process dies: the open transaction rolls back and
\* its lock is released; the sequence number it took is lost.
Crash(p) ==
  /\ txn[p] # Idle
  /\ receipt' = [i \in Ids |-> IF i = txn[p].id THEN NoReceipt ELSE receipt[i]]
  /\ Release(p)
  /\ Goto(p, Idle)
  /\ UNCHANGED <<payload, requested, nextSeq, progress>>

Next ==
  \/ \E p \in Clients : BeginSubmit(p)
  \/ \E p \in Clients : SubmitWithoutEffect(p)
  \/ \E p \in Clients, i \in Ids, body \in Bodies : Accept(p, i, body)
  \/ \E p \in Sessions : ReadInbox(p)
  \/ \E p \in Clients : CommitSubmit(p)
  \/ \E p \in Workers : ScanReady(p)
  \/ \E p \in Workers, s \in Shows : LockForDrain(p, s)
  \/ \E p \in Workers, s \in Shows : SkipBusyOwner(p, s)
  \/ \E p \in Workers : CommitDrain(p)
  \/ \E i \in Ids : ExpireReceipt(i)
  \/ \E p \in Clients, s \in Shows : BeginAddView(p, s)
  \/ \E p \in Clients : CommitAddView(p)
  \/ \E p \in Clients, s \in Shows, v \in ViewIds : ReadView(p, s, v)
  \/ \E p \in Clients : LockForDelete(p)
  \/ \E p \in Clients : CommitDeleteView(p)
  \/ \E body \in Bodies : MarkDirectly(body)
  \/ \E s \in Shows : StartTracking(s)
  \/ \E s \in Shows : VisitShow(s)
  \/ \E s \in Shows : PublishCatalog(s)
  \/ \E p \in Sessions : Crash(p)

Spec == Init /\ [][Next]_vars

-----------------------------------------------------------------------------
(* Fairness.  A request that has begun goes on to its end.  The worker      *)
(* polls for ever: if the owner's lock is free again and again, some polls  *)
(* fall into such a moment, some of those take the lock before a request    *)
(* does, and some of the drains that took it are not cut short by a crash.  *)
(* The catalogue of a requested show is published sooner or later.          *)

PollWhileFree(p) == owner = None /\ ScanReady(p)

Fairness ==
  /\ \A p \in Clients :
       /\ WF_vars(SubmitWithoutEffect(p) \/ \E i \in Ids, body \in Bodies : Accept(p, i, body))
       /\ WF_vars(ReadInbox(p) \/ CommitSubmit(p))
       /\ WF_vars(CommitAddView(p) \/ CommitDeleteView(p))
  /\ \A p \in Workers :
       /\ SF_vars(PollWhileFree(p))
       /\ WF_vars(\E s \in Shows : SkipBusyOwner(p, s))
       /\ \A s \in Shows : SF_vars(LockForDrain(p, s))
       /\ SF_vars(ReadInbox(p))
       /\ SF_vars(CommitDrain(p))
  /\ \A s \in Shows : WF_vars(payload[s] = NoPayload /\ PublishCatalog(s))

FairSpec == Spec /\ Fairness

-----------------------------------------------------------------------------
(* Properties                                                              *)

\* Intents on a show take effect in the order they were accepted: none is final
\* while an older one is still pending, whoever drained or cancelled it.
FinalBeforePending ==
  \A i, j \in Ids :
    (/\ HasStatus(i, FinalStatus)
     /\ HasStatus(j, {"pending"})
     /\ receipt[i].body.show = receipt[j].body.show)
      => receipt[i].seq < receipt[j].seq

\* Concurrent submissions cannot overfill the inbox between them.
InboxBounded == Cardinality(AllPending) <= InboxLimit

\* What a client has been told stays true: a final receipt keeps its outcome
\* until it expires, and an accepted intent is never lost or altered, whatever
\* transactions crash around it.
ReceiptsAreFinal ==
  [][\A i \in Ids :
       /\ HasStatus(i, FinalStatus) => receipt'[i] \in {receipt[i], NoReceipt}
       /\ HasStatus(i, {"pending"}) =>
            \E st \in Status \ {"uncommitted"} :
              receipt'[i] = [receipt[i] EXCEPT !.status = st]]_vars

\* Every accepted intent is settled in the end: applied, failed or cancelled,
\* although its catalogue is not there yet, clients and workers crash, and the
\* drain never waits for the owner's lock.
AcceptedIntentsSettle ==
  \A i \in Ids : HasStatus(i, {"pending"}) ~> ~ HasStatus(i, {"pending"})

=============================================================================
