------------------------ MODULE InboxRefinementProofs ------------------------
(***************************************************************************)
(* The progress inbox implements the ordered inbox, for any number of      *)
(* sessions, shows, episodes, operations and intents.                      *)
(***************************************************************************)
EXTENDS InboxRefinement, ProgressInboxProofs, WellFoundedInduction

-----------------------------------------------------------------------------
(* The inductive invariant, beyond InboxInv                                *)

\* Sequence numbers tell receipts apart, and are places of a queue.
Numbered ==
  /\ \A i \in Ids : receipt[i] # NoReceipt => receipt[i].seq \in 1 .. MaxSeq
  /\ \A i, j \in Ids :
       receipt[i] # NoReceipt /\ receipt[j] # NoReceipt /\ i # j => receipt[i].seq # receipt[j].seq

\* A batch is validated against a catalogue that was published.
Validated ==
  /\ \A s \in Shows : payload[s] \in Payloads \cup {NoPayload}
  /\ \A p \in Sessions : txn[p].pc = "ready" /\ txn[p].batch # {} => txn[p].pay \in Payloads

RInv == InboxInv /\ Numbered /\ Validated

LEMMA NumberedStep == ASSUME InboxInv, Numbered, [Next]_vars PROVE Numbered'
<1> USE DEF InboxInv
<1>1. ASSUME NEW p \in Clients, NEW i \in Ids, NEW body \in Bodies, Accept(p, i, body)
      PROVE  Numbered'
  <2>1. /\ receipt'[i].seq = nextSeq
        /\ \A j \in Ids \ {i} : receipt'[j] = receipt[j]
    BY <1>1, AcceptEffect
  <2>2. nextSeq \in 1 .. MaxSeq
    BY <1>1, InboxAssumption DEF Accept, TypeOK
  <2>3. \A j \in Ids : receipt[j] # NoReceipt => receipt[j].seq # nextSeq
    BY <2>2 DEF SequenceGrows
  <2>4. QED
    BY <2>1, <2>2, <2>3 DEF Numbered
<1>2. ASSUME \A i \in Ids : receipt'[i] # NoReceipt =>
               receipt[i] # NoReceipt /\ receipt'[i].seq = receipt[i].seq
      PROVE  Numbered'
  BY <1>2 DEF Numbered
<1>3. ASSUME NEW p \in Sessions, Settle(p) PROVE Numbered'
  BY <1>2, <1>3, SettleEffect
<1>4. ASSUME NEW s \in Shows, receipt' = Cancelled(s) PROVE Numbered'
  BY <1>2, <1>4, CancelEffect, StatusMeansReceipt DEF Pending, AllPending
<1>5. CASE Shrinks
  BY <1>2, <1>5 DEF Shrinks
<1>6. QED
  BY <1>1, <1>3, <1>4, <1>5, ReceiptSteps

LEMMA ValidatedStep == ASSUME InboxInv, Validated, [Next]_vars PROVE Validated'
<1> USE DEF InboxInv
<1>1. \A s \in Shows : payload'[s] \in Payloads \cup {NoPayload}
  <2>1. CASE payload' = payload
    BY <2>1 DEF Validated
  <2>2. ASSUME NEW s \in Shows, PublishCatalog(s)
        PROVE  \A t \in Shows : payload'[t] \in Payloads \cup {NoPayload}
    BY <2>2 DEF PublishCatalog, Validated, TypeOK
  <2>3. QED
    BY <2>1, <2>2 DEF Next, BeginSubmit, SubmitWithoutEffect, Accept, ReadInbox, CommitSubmit,
       ScanReady, LockForDrain, SkipBusyOwner, CommitDrain, ExpireReceipt, BeginAddView,
       CommitAddView, ReadView, LockForDelete, CommitDeleteView, MarkDirectly, StartTracking,
       VisitShow, Crash, vars
<1>2. ASSUME NEW p \in Sessions, NEW t, Goto(p, t),
             t.pc = "ready" /\ t.batch # {} => t.pay \in Payloads
      PROVE  \A q \in Sessions :
               txn'[q].pc = "ready" /\ txn'[q].batch # {} => txn'[q].pay \in Payloads
  BY <1>2 DEF Goto, Validated, TypeOK
<1>3. ASSUME NEW p \in Sessions, ReadInbox(p)
      PROVE  \A q \in Sessions :
               txn'[q].pc = "ready" /\ txn'[q].batch # {} => txn'[q].pay \in Payloads
  <2> DEFINE s == txn[p].show
             b == IF payload[s] = NoPayload THEN {} ELSE Pending(s) \cup ({txn[p].id} \cap Ids)
             t == [txn[p] EXCEPT !.pc = "ready", !.pay = payload[s], !.batch = b]
  <2>1. Goto(p, t)
    BY <1>3 DEF ReadInbox
  <2>2. t.pay = payload[s] /\ t.batch = b
    BY DEF TypeOK, Txn
  <2>3. s \in Shows
    BY <1>3 DEF ReadInbox, Control, ShowKnown
  <2>4. b # {} => payload[s] \in Payloads
    BY <2>3 DEF Validated
  <2> HIDE DEF t, b, s
  <2>5. QED
    BY <1>2, <2>1, <2>2, <2>4
<1>4. ASSUME NEW p \in Sessions, \E t : Goto(p, t) /\ t.pc # "ready"
      PROVE  \A q \in Sessions :
               txn'[q].pc = "ready" /\ txn'[q].batch # {} => txn'[q].pay \in Payloads
  BY <1>2, <1>4
<1>5. Idle.pc = "idle" /\ \A p \in Sessions, s \in Shows : Rest(p, s).pc # "ready"
  BY DEF Idle, Rest
<1>6. ASSUME NEW p \in Clients,
             \/ BeginSubmit(p) \/ SubmitWithoutEffect(p) \/ CommitSubmit(p)
             \/ \E i \in Ids, body \in Bodies : Accept(p, i, body)
             \/ \E s \in Shows : BeginAddView(p, s) \/ \E v \in ViewIds : ReadView(p, s, v)
             \/ CommitAddView(p) \/ LockForDelete(p) \/ CommitDeleteView(p)
      PROVE  \E t : Goto(p, t) /\ t.pc # "ready"
  <2>1. txn[p] \in Txn
    BY DEF TypeOK, Sessions
  <2>2. /\ [Idle EXCEPT !.pc = "submit"].pc # "ready"
        /\ \A s, i : [Idle EXCEPT !.pc = "accepted", !.show = s, !.id = i].pc # "ready"
        /\ \A s : [Idle EXCEPT !.pc = "add", !.show = s].pc # "ready"
        /\ \A s, v : [Idle EXCEPT !.pc = "delete", !.show = s, !.view = v].pc # "ready"
        /\ [txn[p] EXCEPT !.pc = "deleting"].pc # "ready"
    BY <2>1 DEF Idle, Txn
  <2>3. CASE SubmitWithoutEffect(p) \/ CommitSubmit(p) \/ CommitAddView(p) \/ CommitDeleteView(p)
    BY <1>5, <2>3 DEF SubmitWithoutEffect, CommitSubmit, CommitAddView, CommitDeleteView
  <2>4. CASE BeginSubmit(p) \/ LockForDelete(p)
    BY <2>2, <2>4 DEF BeginSubmit, LockForDelete
  <2>5. ASSUME NEW i \in Ids, NEW body \in Bodies, Accept(p, i, body)
        PROVE  \E t : Goto(p, t) /\ t.pc # "ready"
    <3>1. Goto(p, [Idle EXCEPT !.pc = "accepted", !.show = body.show, !.id = i])
      BY <2>5 DEF Accept
    <3>2. QED
      BY <2>2, <3>1
  <2>6. ASSUME NEW s \in Shows, BeginAddView(p, s) PROVE \E t : Goto(p, t) /\ t.pc # "ready"
    BY <2>2, <2>6 DEF BeginAddView
  <2>7. ASSUME NEW s \in Shows, NEW v \in ViewIds, ReadView(p, s, v)
        PROVE  \E t : Goto(p, t) /\ t.pc # "ready"
    BY <2>2, <2>7 DEF ReadView
  <2>8. QED
    BY <1>6, <2>3, <2>4, <2>5, <2>6, <2>7
<1>7. ASSUME NEW p \in Workers,
             \/ ScanReady(p) \/ CommitDrain(p)
             \/ \E s \in Shows : LockForDrain(p, s) \/ SkipBusyOwner(p, s)
      PROVE  \E t : Goto(p, t) /\ t.pc # "ready"
  <2>1. txn[p] \in Txn
    BY DEF TypeOK, Sessions
  <2>2. /\ \A T : [Idle EXCEPT !.pc = "scan", !.todo = T].pc # "ready"
        /\ \A s : [txn[p] EXCEPT !.pc = "drain", !.show = s].pc # "ready"
    BY <2>1 DEF Idle, Txn
  <2>3. CommitDrain(p) => txn[p].show \in Shows
    BY DEF CommitDrain, Settle, Control, ShowKnown, Sessions
  <2>4. CASE CommitDrain(p)
    BY <1>5, <2>3, <2>4 DEF CommitDrain, Sessions
  <2>5. CASE ScanReady(p)
    BY <2>2, <2>5 DEF ScanReady
  <2>6. ASSUME NEW s \in Shows, LockForDrain(p, s) PROVE \E t : Goto(p, t) /\ t.pc # "ready"
    BY <2>2, <2>6 DEF LockForDrain
  <2>7. ASSUME NEW s \in Shows, SkipBusyOwner(p, s) PROVE \E t : Goto(p, t) /\ t.pc # "ready"
    BY <1>5, <2>7 DEF SkipBusyOwner, Sessions
  <2>8. QED
    BY <1>7, <2>4, <2>5, <2>6, <2>7
<1>8. ASSUME NEW p \in Sessions, Crash(p) PROVE \E t : Goto(p, t) /\ t.pc # "ready"
  BY <1>5, <1>8 DEF Crash
<1>9. CASE txn' = txn
  BY <1>1, <1>9 DEF Validated
<1>10. QED
  BY <1>1, <1>3, <1>4, <1>6, <1>7, <1>8, <1>9 DEF Next, Sessions, Validated, ExpireReceipt,
     MarkDirectly, StartTracking, VisitShow, PublishCatalog, vars

LEMMA RefinementInvariant == Spec => []RInv
<1>1. Init => RInv
  <2>1. Init => Numbered /\ Validated
    BY DEF Init, Idle, Numbered, Validated
  <2>2. QED
    BY <2>1, InitInv DEF RInv
<1>2. RInv /\ InboxInv' /\ [Next]_vars => RInv'
  BY NumberedStep, ValidatedStep DEF RInv
<1>3. QED
  BY <1>1, <1>2, InboxInvariant, PTL DEF Spec

-----------------------------------------------------------------------------
(* One intent after the other, and all at once                             *)

\* The state of a show once a set of intents has been applied, as the code computes
\* it for a whole batch.
Recording(Q, pl) == {r \in Valid(Q, pl) : r.body.whole /\ r.body.history}

After(s, Q, pl) ==
  [marks    |-> MarksAfter(s, Q, pl),
   tracked  |-> baseline[s] # "untracked" \/ Valid(Q, pl) # {},
   recorded |-> IF Recording(Q, pl) = {} THEN views[s] # {}
                ELSE LastMark(Recording(Q, pl)) = "watched"]

LEMMA LastMarkYoungest ==
  ASSUME NEW T, NEW r, r.body.mark \in Marks, r.seq \in Nat,
         \A t \in T : t.seq \in Nat /\ t.seq < r.seq
  PROVE  LastMark(T \cup {r}) = r.body.mark
<1>1. \A t \in T : ~ (r.seq <= t.seq)
  OBVIOUS
<1>2. \A t \in T \cup {r} : t.seq <= r.seq
  OBVIOUS
<1>3. QED
  BY <1>1, <1>2 DEF LastMark, Marks

\* The youngest intent is applied to what the others lead to.
LEMMA ApplyYoungest ==
  ASSUME NEW s, NEW pl, NEW Q, NEW r, r.body \in Body, r.seq \in Nat,
         \A q \in Q : q.seq \in Nat /\ q.seq < r.seq
  PROVE  After(s, Q \cup {r}, pl) = Inbox!Apply(After(s, Q, pl), r.body, pl)
<1> DEFINE all == Q \cup {r}
           touched == r.body.eps \cap pl
<1>1. r.body.mark \in Marks
  BY DEF Body
<1>2. Valid(all, pl) = IF touched = {} THEN Valid(Q, pl) ELSE Valid(Q, pl) \cup {r}
  BY DEF Valid, Released
<1>3. CASE touched = {}
  <2>1. Recording(all, pl) = Recording(Q, pl) /\ MarksAfter(s, all, pl) = MarksAfter(s, Q, pl)
    BY <1>2, <1>3 DEF Recording, MarksAfter
  <2>2. After(s, all, pl) = After(s, Q, pl)
    BY <1>2, <1>3, <2>1 DEF After
  <2>3. QED
    BY <1>3, <2>2 DEF Inbox!Apply
<1>4. CASE touched # {}
  <2>1. Valid(all, pl) = Valid(Q, pl) \cup {r}
    BY <1>2, <1>4
  <2>2. MarksAfter(s, all, pl) =
          [e \in Episodes |-> IF e \in touched THEN r.body.mark ELSE MarksAfter(s, Q, pl)[e]]
    <3>1. ASSUME NEW e \in Episodes
          PROVE  MarksAfter(s, all, pl)[e] =
                   IF e \in touched THEN r.body.mark ELSE MarksAfter(s, Q, pl)[e]
      <4> DEFINE before == {q \in Valid(Q, pl) : e \in Released(q.body, pl)}
      <4>1. CASE e \in touched
        <5>1. {q \in Valid(all, pl) : e \in Released(q.body, pl)} = before \cup {r}
          BY <2>1, <4>1 DEF Released
        <5>2. before \subseteq Q
          BY DEF Valid
        <5>3. LastMark(before \cup {r}) = r.body.mark
          BY <1>1, <5>2, LastMarkYoungest
        <5>4. QED
          BY <4>1, <5>1, <5>3 DEF MarksAfter
      <4>2. CASE e \notin touched
        <5>1. {q \in Valid(all, pl) : e \in Released(q.body, pl)} = before
          BY <2>1, <4>2 DEF Released
        <5>2. QED
          BY <4>2, <5>1 DEF MarksAfter
      <4>3. QED
        BY <4>1, <4>2
    <3>2. QED
      BY <3>1 DEF MarksAfter
  <2>3. Recording(all, pl) =
          IF r.body.whole /\ r.body.history THEN Recording(Q, pl) \cup {r} ELSE Recording(Q, pl)
    BY <2>1 DEF Recording
  <2>4. After(s, all, pl).recorded =
          IF r.body.whole /\ r.body.history THEN r.body.mark = "watched"
          ELSE After(s, Q, pl).recorded
    <3>1. CASE r.body.whole /\ r.body.history
      <4>1. Recording(Q, pl) \subseteq Q
        BY DEF Recording, Valid
      <4>2. LastMark(Recording(Q, pl) \cup {r}) = r.body.mark
        BY <1>1, <4>1, LastMarkYoungest
      <4>3. QED
        BY <2>3, <3>1, <4>2 DEF After
    <3>2. CASE ~ (r.body.whole /\ r.body.history)
      BY <2>3, <3>2 DEF After
    <3>3. QED
      BY <3>1, <3>2
  <2>5. QED
    BY <1>4, <2>1, <2>2, <2>4 DEF After, Inbox!Apply
<1>5. QED
  BY <1>3, <1>4


\* A path that takes one step at a time is the only one.
LEMMA OneWay ==
  ASSUME NEW n \in Nat, NEW f, NEW g, f[0] = g[0],
         \A k \in 1 .. n : f[k - 1] = g[k - 1] => f[k] = g[k]
  PROVE  \A k \in 0 .. n : f[k] = g[k]
<1> DEFINE apart == {k \in 0 .. n : f[k] # g[k]}
<1> SUFFICES ASSUME apart # {} PROVE FALSE
  OBVIOUS
<1>1. apart \subseteq Nat
  OBVIOUS
<1>2. PICK k \in apart : \A m \in apart : ~ (<<m, k>> \in OpToRel(<, Nat))
  BY <1>1, NatLessThanWellFounded, WFMin
<1>3. k \in 0 .. n /\ f[k] # g[k] /\ k # 0
  OBVIOUS
<1>4. k - 1 \in 0 .. n /\ k \in 1 .. n /\ k - 1 < k /\ k - 1 \in Nat /\ k \in Nat
  BY <1>3
<1>5. k - 1 \in apart
  BY <1>3, <1>4
<1>6. <<k - 1, k>> \in OpToRel(<, Nat)
  BY <1>4 DEF OpToRel
<1>7. QED
  BY <1>2, <1>5, <1>6

Entries(Q) == {[place |-> r.seq, body |-> r.body] : r \in Q}

\* Applying a whole queue at once, as the code does, is applying it one intent at a
\* time from its head.
LEMMA StagesAfter ==
  ASSUME TypeOK, NEW s \in Shows, NEW pl, NEW R,
         \A r \in R : r.seq \in 1 .. MaxSeq /\ r.body \in Body,
         \A q, r \in R : q # r => q.seq # r.seq
  PROVE  Inbox!Stages(Progress(s), Entries(R), pl)[MaxSeq] = After(s, R, pl)
<1> DEFINE st == Progress(s)
           q == Entries(R)
           upTo(n) == {r \in R : r.seq <= n}
           path == [n \in 0 .. MaxSeq |-> After(s, upTo(n), pl)]
           Move(f, n) == IF n = 0 THEN st
                         ELSE IF \E e \in q : e.place = n
                              THEN Inbox!Apply(f[n - 1], (CHOOSE e \in q : e.place = n).body, pl)
                              ELSE f[n - 1]
           stages == Inbox!Stages(st, q, pl)
<1>0. MaxSeq \in Nat
  BY InboxAssumption
<1> HIDE DEF st, upTo, q
<1>1. path[0] = st
  <2>1. upTo(0) = {}
    BY <1>0 DEF upTo
  <2>2. After(s, {}, pl) = st
    <3>1. Valid({}, pl) = {} /\ Recording({}, pl) = {}
      BY DEF Valid, Recording
    <3>2. MarksAfter(s, {}, pl) = marks[s]
      BY <3>1 DEF MarksAfter, TypeOK
    <3>3. QED
      BY <3>1, <3>2 DEF After, Progress, st
  <2>3. QED
    BY <1>0, <2>1, <2>2
<1>2. ASSUME NEW n \in 1 .. MaxSeq PROVE path[n] = Move(path, n)
  <2>1. n \in Nat /\ n - 1 \in 0 .. MaxSeq /\ n \in 0 .. MaxSeq /\ n # 0
    BY <1>0
  <2>2. path[n] = After(s, upTo(n), pl) /\ path[n - 1] = After(s, upTo(n - 1), pl)
    BY <2>1
  <2>3. ASSUME NEW r \in R, r.seq = n PROVE path[n] = Move(path, n)
    <3>1. upTo(n) = upTo(n - 1) \cup {r}
      BY <2>1, <2>3 DEF upTo
    <3>2. \A t \in upTo(n - 1) : t.seq \in Nat /\ t.seq < r.seq
      BY <2>1, <2>3 DEF upTo
    <3>3. After(s, upTo(n), pl) = Inbox!Apply(After(s, upTo(n - 1), pl), r.body, pl)
      BY <2>1, <2>3, <3>1, <3>2, ApplyYoungest
    <3>4. \A e \in q : e.place = n => e.body = r.body
      BY <2>3 DEF Entries, q
    <3>5. \E e \in q : e.place = n
      <4>1. [place |-> r.seq, body |-> r.body] \in q
        BY DEF Entries, q
      <4>2. QED
        BY <2>3, <4>1
    <3>6. (CHOOSE e \in q : e.place = n).body = r.body
      BY <3>4, <3>5
    <3>7. QED
      BY <2>1, <2>2, <3>3, <3>5, <3>6
  <2>4. ASSUME \A r \in R : r.seq # n PROVE path[n] = Move(path, n)
    <3>1. upTo(n) = upTo(n - 1)
      BY <2>1, <2>4 DEF upTo
    <3>2. ~ \E e \in q : e.place = n
      BY <2>4 DEF Entries, q
    <3>3. QED
      BY <2>1, <2>2, <3>1, <3>2
  <2>5. QED
    BY <2>3, <2>4
<1>3. path = [n \in 0 .. MaxSeq |-> Move(path, n)]
  <2>1. path = [n \in 0 .. MaxSeq |-> path[n]]
    OBVIOUS
  <2> HIDE DEF path
  <2>2. Move(path, 0) = st
    OBVIOUS
  <2> HIDE DEF Move
  <2>3. \A n \in 0 .. MaxSeq : path[n] = Move(path, n)
    BY <1>0, <1>1, <1>2, <2>2
  <2>4. QED
    BY <2>1, <2>3
<1>4. stages = CHOOSE f : f = [n \in 0 .. MaxSeq |-> Move(f, n)]
  BY DEF Inbox!Stages
<1>5. stages = [n \in 0 .. MaxSeq |-> Move(stages, n)]
  BY <1>3, <1>4
<1>6. \A n \in 0 .. MaxSeq : stages[n] = path[n]
  <2> HIDE DEF path, stages
  <2>1. stages[0] = path[0]
    BY <1>0, <1>1, <1>5
  <2>2. ASSUME NEW n \in 1 .. MaxSeq, stages[n - 1] = path[n - 1] PROVE stages[n] = path[n]
    BY <1>0, <1>2, <1>5, <2>2
  <2>3. QED
    BY <1>0, <2>1, <2>2, OneWay
<1>7. upTo(MaxSeq) = R
  BY <1>0 DEF upTo
<1>8. path[MaxSeq] = After(s, R, pl)
  BY <1>0, <1>7
<1>9. QED
  BY <1>0, <1>6, <1>8 DEF st, q

-----------------------------------------------------------------------------
(* What the steps do to the queues and to the progress of each show        *)

Queues == [s \in Shows |-> Queue(s)]
States == [s \in Shows |-> Progress(s)]

LEMMA Stutters ==
  ASSUME \A s \in Shows : Queue(s)' = Queue(s) /\ Progress(s)' = Progress(s)
  PROVE  UNCHANGED <<Queues, States>>
BY DEF Queues, States

LEMMA SameQueue ==
  ASSUME NEW s, Pending(s)' = Pending(s),
         \A i \in Pending(s) : receipt'[i].seq = receipt[i].seq /\ receipt'[i].body = receipt[i].body
  PROVE  Queue(s)' = Queue(s)
BY DEF Queue

LEMMA SameQueues ==
  ASSUME TypeOK,
         \A i \in Ids : HasStatus(i, {"pending"}) => receipt'[i] = receipt[i],
         \A i \in Ids : HasStatus(i, {"pending"})' => HasStatus(i, {"pending"})
  PROVE  \A s : Queue(s)' = Queue(s)
<1>1. \A s : Pending(s)' = Pending(s)
  BY DEF Pending, AllPending, HasStatus
<1>2. \A s : \A i \in Pending(s) : receipt'[i] = receipt[i]
  BY DEF Pending, AllPending
<1>3. QED
  BY <1>1, <1>2 DEF Queue

LEMMA SameProgress ==
  ASSUME NEW s, marks'[s] = marks[s], baseline'[s] = baseline[s], views'[s] = views[s]
  PROVE  Progress(s)' = Progress(s)
BY DEF Progress

\* Marking a show leads where its intents lead.
LEMMA Marked ==
  ASSUME TypeOK, NEW s \in Shows, NEW R, NEW pl, Mark(s, R, pl)
  PROVE  /\ Progress(s)' = After(s, R, pl)
         /\ \A t \in Shows \ {s} : Progress(t)' = Progress(t)
<1>1. PICK V \in ViewsAfter(s, R, pl) : views' = [views EXCEPT ![s] = V]
  BY DEF Mark
<1>2. /\ marks'[s] = MarksAfter(s, R, pl) /\ views'[s] = V
      /\ baseline'[s] = IF baseline[s] = "untracked" /\ Valid(R, pl) # {} THEN "empty" ELSE baseline[s]
      /\ \A t \in Shows \ {s} :
           marks'[t] = marks[t] /\ baseline'[t] = baseline[t] /\ views'[t] = views[t]
  BY <1>1 DEF Mark, TypeOK
<1>3. (V # {}) = (IF Recording(R, pl) = {} THEN views[s] # {}
                  ELSE LastMark(Recording(R, pl)) = "watched")
  <2>1. CASE Recording(R, pl) = {}
    <3>1. V = views[s]
      BY <2>1 DEF ViewsAfter, Recording
    <3>2. QED
      BY <2>1, <3>1
  <2>2. CASE Recording(R, pl) # {} /\ LastMark(Recording(R, pl)) = "unwatched"
    <3>1. V = {}
      BY <2>2 DEF ViewsAfter, Recording
    <3>2. QED
      BY <2>2, <3>1
  <2>3. CASE Recording(R, pl) # {} /\ LastMark(Recording(R, pl)) # "unwatched"
    <3>1. V # {}
      BY <2>3 DEF ViewsAfter, Recording
    <3>2. LastMark(Recording(R, pl)) = "watched"
      BY <2>3 DEF LastMark
    <3>3. QED
      BY <2>3, <3>1, <3>2
  <2>4. QED
    BY <2>1, <2>2, <2>3
<1>4. (baseline'[s] # "untracked") = (baseline[s] # "untracked" \/ Valid(R, pl) # {})
  BY <1>2
<1>5. Progress(s)' = After(s, R, pl)
  BY <1>2, <1>3, <1>4 DEF Progress, After
<1>6. QED
  BY <1>2, <1>5, SameProgress

\* A batch that settles empties the queue of its show, and no other.
LEMMA SettledQueue ==
  ASSUME RInv, NEW p \in Sessions, Settle(p), NEW s \in Shows, s = txn[p].show, txn[p].batch # {}
  PROVE  /\ Queue(s)' = {}
         /\ \A t \in Shows \ {s} : Queue(t)' = Queue(t) /\ Progress(t)' = Progress(t)
         /\ Progress(s)' = Inbox!Stages(Progress(s), Entries({receipt[i] : i \in txn[p].batch}),
                                        txn[p].pay)[MaxSeq]
<1> USE DEF RInv, InboxInv
<1> DEFINE R == {receipt[i] : i \in txn[p].batch}
<1>1. /\ txn[p].pc = "ready"
      /\ txn[p].batch = Pending(s) \cup ({txn[p].id} \cap Ids)
  BY DEF Settle, Control, BatchFresh
<1>2. txn[p].batch \subseteq Ids
  BY <1>1 DEF Pending, AllPending
<1>3. ASSUME NEW i \in txn[p].batch
      PROVE  /\ receipt[i] # NoReceipt /\ receipt[i].seq \in 1 .. MaxSeq /\ receipt[i].body \in Body
             /\ receipt[i].body.show = s
  BY <1>1, <1>2, BatchLive, StatusMeansReceipt DEF Numbered
<1>4. Progress(s)' = Inbox!Stages(Progress(s), Entries(R), txn[p].pay)[MaxSeq]
  <2>1. \A r \in R : r.seq \in 1 .. MaxSeq /\ r.body \in Body
    BY <1>3
  <2>2. \A q, r \in R : q # r => q.seq # r.seq
    BY <1>2, <1>3 DEF Numbered
  <2>3. Mark(s, R, txn[p].pay)
    BY DEF Settle
  <2> HIDE DEF R
  <2>4. Progress(s)' = After(s, R, txn[p].pay)
    BY <2>3, Marked
  <2>5. QED
    BY <2>1, <2>2, <2>4, StagesAfter
<1>5. \A t \in Shows \ {s} : Progress(t)' = Progress(t)
  <2>1. Mark(s, R, txn[p].pay)
    BY DEF Settle
  <2> HIDE DEF R
  <2>2. QED
    BY <2>1, Marked
<1>6. Queue(s)' = {}
  <2>1. ASSUME NEW i \in Ids, i \in Pending(s)' PROVE FALSE
    <3>1. receipt'[i] # NoReceipt /\ receipt'[i].status = "pending" /\ receipt'[i].body.show = s
      BY <2>1 DEF Pending, AllPending, HasStatus
    <3>2. i \notin txn[p].batch
      BY <3>1, SettleEffect DEF HasStatus, FinalStatus
    <3>3. receipt'[i] = receipt[i]
      BY <1>1, <3>2, SettleEffect
    <3>4. QED
      BY <1>1, <3>1, <3>2, <3>3 DEF Pending, AllPending, HasStatus
  <2>2. Pending(s)' = {}
    BY <2>1 DEF Pending, AllPending
  <2>3. QED
    BY <2>2 DEF Queue
<1>7. ASSUME NEW t \in Shows \ {s} PROVE Queue(t)' = Queue(t)
  <2>1. ASSUME NEW i \in txn[p].batch PROVE i \notin Pending(t) /\ i \notin Pending(t)'
    <3>1. i \in Ids /\ receipt'[i].body = receipt[i].body
      BY <1>2, <1>3, <2>1, SettleEffect
    <3>2. QED
      BY <1>3, <3>1 DEF Pending
  <2>2. ASSUME NEW i \in Ids \ txn[p].batch PROVE receipt'[i] = receipt[i]
    BY <1>1, <2>2, SettleEffect
  <2>3. Pending(t)' = Pending(t)
    BY <2>1, <2>2 DEF Pending, AllPending, HasStatus
  <2>4. \A i \in Pending(t) : receipt'[i] = receipt[i]
    BY <2>1, <2>2 DEF Pending, AllPending
  <2>5. QED
    BY <2>3, <2>4, SameQueue
<1>8. QED
  BY <1>4, <1>5, <1>6, <1>7

-----------------------------------------------------------------------------
(* Every step is a step of the ordered inbox, or none                      *)

LEMMA QueuesAt ==
  ASSUME NEW s \in Shows
  PROVE  Queues[s] = Queue(s) /\ States[s] = Progress(s)
BY DEF Queues, States

\* A step that changes one show.
LEMMA OneShow ==
  ASSUME NEW s \in Shows, NEW q, NEW st, Queue(s)' = q, Progress(s)' = st,
         \A t \in Shows \ {s} : Queue(t)' = Queue(t) /\ Progress(t)' = Progress(t)
  PROVE  Queues' = [Queues EXCEPT ![s] = q] /\ States' = [States EXCEPT ![s] = st]
BY DEF Queues, States

\* The draft of a submission: what the queue is about to take.
LEMMA DraftEntry ==
  ASSUME RInv, NEW p \in Sessions, txn[p].pc = "ready", NEW i \in Ids, i = txn[p].id,
         NEW s \in Shows, s = txn[p].show,
         NEW e, e = [place |-> receipt[i].seq, body |-> receipt[i].body]
  PROVE  e \in Inbox!Intent /\ e.body.show = s /\ Inbox!Last(e, Queue(s)) /\ i \notin Pending(s)
<1> USE DEF RInv, InboxInv
<1>1. HasStatus(i, {"uncommitted"}) /\ receipt[i].body.show = s
  BY InboxAssumption DEF Control, DraftsOwned
<1>2. receipt[i] # NoReceipt /\ receipt[i].body \in Bodies /\ receipt[i].seq \in 1 .. MaxSeq
  BY <1>1, StatusMeansReceipt DEF Numbered
<1>3. i \notin Pending(s)
  BY <1>1 DEF Pending, AllPending, HasStatus
<1>4. ASSUME NEW j \in Pending(s) PROVE receipt[j].seq < receipt[i].seq
  BY <1>1, <1>3 DEF SequenceGrows, Pending, AllPending, HasStatus
<1>5. QED
  BY <1>1, <1>2, <1>3, <1>4 DEF Inbox!Intent, Inbox!Last, Queue

LEMMA CommitSubmitMap ==
  ASSUME RInv, NEW p \in Sessions, CommitSubmit(p)
  PROVE  Inbox!Next
<1> USE DEF RInv, InboxInv
<1>1. Settle(p) /\ txn[p].pc = "ready" /\ txn[p].id \in Ids /\ txn[p].show \in Shows
  BY DEF CommitSubmit, Settle, Control, ShowKnown, TypeOK, Txn
<1>2. PICK i \in Ids, s \in Shows : i = txn[p].id /\ s = txn[p].show
  BY <1>1
<1>3. PICK e : e = [place |-> receipt[i].seq, body |-> receipt[i].body]
  OBVIOUS
<1>4. e \in Inbox!Intent /\ e.body.show = s /\ Inbox!Last(e, Queue(s)) /\ i \notin Pending(s)
  BY <1>1, <1>2, <1>3, DraftEntry
<1>5. CASE txn[p].batch = {}
  <2>1. UNCHANGED progress
    BY <1>1, <1>5 DEF Settle
  <2>2. \A t : Progress(t)' = Progress(t)
    BY <2>1 DEF progress, Progress
  <2>3. /\ HasStatus(i, {"pending"})' /\ receipt'[i].seq = receipt[i].seq
        /\ receipt'[i].body = receipt[i].body /\ receipt[i].body.show = s
        /\ \A j \in Ids \ {i} : receipt'[j] = receipt[j]
    <3>1. receipt[i] # NoReceipt
      BY <1>1, <1>2, BatchLive, InboxAssumption DEF HasStatus
    <3>2. QED
      BY <1>1, <1>2, <1>3, <1>4, <1>5, <3>1, SettleEffect
  <2>4. Pending(s)' = Pending(s) \cup {i}
    BY <1>4, <2>3 DEF Pending, AllPending, HasStatus
  <2>5. Queue(s)' = Queue(s) \cup {e}
    BY <1>3, <1>4, <2>3, <2>4 DEF Queue, Pending, AllPending
  <2>6. ASSUME NEW t \in Shows \ {s} PROVE Queue(t)' = Queue(t)
    <3>1. i \notin Pending(t) /\ i \notin Pending(t)'
      BY <2>3 DEF Pending
    <3>2. Pending(t)' = Pending(t)
      BY <2>3, <3>1 DEF Pending, AllPending, HasStatus
    <3>3. \A j \in Pending(t) : receipt'[j] = receipt[j]
      BY <2>3, <3>1 DEF Pending, AllPending
    <3>4. QED
      BY <3>2, <3>3, SameQueue
  <2>7. Queues' = [Queues EXCEPT ![s] = Queues[s] \cup {e}] /\ States' = States
    BY <2>2, <2>5, <2>6 DEF Queues, States
  <2>8. Inbox!Accept(e)
    BY <1>4, <2>7, QueuesAt DEF Inbox!Accept, Queues, States
  <2>9. QED
    BY <1>4, <2>8 DEF Inbox!Next
<1>6. CASE txn[p].batch # {}
  <2>1. txn[p].pay \in Payloads /\ txn[p].batch = Pending(s) \cup {i}
    BY <1>1, <1>2, <1>6 DEF Validated, Control, BatchFresh
  <2>2. Entries({receipt[j] : j \in txn[p].batch}) = Queue(s) \cup {e}
    BY <1>3, <2>1 DEF Entries, Queue
  <2>3. /\ Queue(s)' = {}
        /\ \A t \in Shows \ {s} : Queue(t)' = Queue(t) /\ Progress(t)' = Progress(t)
        /\ Progress(s)' = Inbox!Stages(Progress(s), Queue(s) \cup {e}, txn[p].pay)[MaxSeq]
    BY <1>1, <1>2, <1>6, <2>2, SettledQueue
  <2>4. /\ Queues' = [Queues EXCEPT ![s] = {}]
        /\ States' = [States EXCEPT ![s] =
                        Inbox!Stages(Progress(s), Queue(s) \cup {e}, txn[p].pay)[MaxSeq]]
    BY <2>3, OneShow
  <2>5. Inbox!AcceptAndDrain(e, txn[p].pay)
    BY <1>4, <2>4, QueuesAt DEF Inbox!AcceptAndDrain, Inbox!Empty, Queues, States
  <2>6. QED
    BY <1>4, <2>1, <2>5 DEF Inbox!Next
<1>7. QED
  BY <1>5, <1>6

LEMMA CommitDrainMap ==
  ASSUME RInv, NEW p \in Sessions, CommitDrain(p)
  PROVE  Inbox!Next \/ UNCHANGED <<Queues, States>>
<1> USE DEF RInv, InboxInv
<1>1. Settle(p) /\ txn[p].pc = "ready" /\ txn[p].id = None /\ txn[p].show \in Shows
  BY DEF CommitDrain, Settle, Control, ShowKnown
<1>2. PICK s \in Shows : s = txn[p].show
  BY <1>1
<1>3. CASE txn[p].batch = {}
  <2>1. UNCHANGED progress /\ \A i \in Ids : receipt'[i] = receipt[i]
    BY <1>1, <1>3, SettleEffect, InboxAssumption DEF Settle
  <2>2. \A t : Queue(t)' = Queue(t)
    BY <2>1, SameQueues DEF HasStatus
  <2>3. QED
    BY <2>1, <2>2, Stutters DEF progress, Progress
<1>4. CASE txn[p].batch # {}
  <2>1. txn[p].pay \in Payloads /\ txn[p].batch = Pending(s)
    <3>1. {txn[p].id} \cap Ids = {}
      BY <1>1, InboxAssumption
    <3>2. QED
      BY <1>1, <1>2, <1>4, <3>1 DEF Validated, Control, BatchFresh
  <2>2. Entries({receipt[j] : j \in txn[p].batch}) = Queue(s) /\ Queue(s) # {}
    BY <1>4, <2>1 DEF Entries, Queue
  <2>3. /\ Queue(s)' = {}
        /\ \A t \in Shows \ {s} : Queue(t)' = Queue(t) /\ Progress(t)' = Progress(t)
        /\ Progress(s)' = Inbox!Stages(Progress(s), Queue(s), txn[p].pay)[MaxSeq]
    BY <1>1, <1>2, <1>4, <2>2, SettledQueue
  <2>4. /\ Queues' = [Queues EXCEPT ![s] = {}]
        /\ States' = [States EXCEPT ![s] =
                        Inbox!Stages(Progress(s), Queue(s), txn[p].pay)[MaxSeq]]
    BY <2>3, OneShow
  <2>5. Inbox!Drain(s, txn[p].pay)
    BY <2>2, <2>4, QueuesAt DEF Inbox!Drain, Inbox!Empty, Queues, States
  <2>6. QED
    BY <2>1, <2>5 DEF Inbox!Next
<1>5. QED
  BY <1>3, <1>4

\* Cancelling empties the queue of the show.
LEMMA CancelledQueue ==
  ASSUME TypeOK, NEW s \in Shows, receipt' = Cancelled(s)
  PROVE  Queue(s)' = {} /\ \A t \in Shows \ {s} : Queue(t)' = Queue(t)
<1>1. ASSUME NEW i \in Pending(s)
      PROVE  /\ ~ HasStatus(i, {"pending"})' /\ receipt'[i].body = receipt[i].body
  BY <1>1, CancelEffect DEF Pending, AllPending, HasStatus, FinalStatus
<1>2. ASSUME NEW i \in Ids \ Pending(s) PROVE receipt'[i] = receipt[i]
  BY <1>2, CancelEffect
<1>3. Pending(s)' = {}
  BY <1>1, <1>2 DEF Pending, AllPending, HasStatus
<1>4. ASSUME NEW t \in Shows \ {s} PROVE Queue(t)' = Queue(t)
  <2>1. Pending(t) \cap Pending(s) = {}
    BY DEF Pending
  <2>2. Pending(t)' = Pending(t)
    BY <1>1, <1>2, <2>1 DEF Pending, AllPending, HasStatus
  <2>3. \A i \in Pending(t) : receipt'[i] = receipt[i]
    BY <1>2, <2>1 DEF Pending, AllPending
  <2>4. QED
    BY <2>2, <2>3, SameQueue
<1>5. QED
  BY <1>3, <1>4 DEF Queue

LEMMA CommitAddViewMap ==
  ASSUME RInv, NEW p \in Sessions, CommitAddView(p)
  PROVE  Inbox!Next
<1> USE DEF RInv, InboxInv
<1>1. PICK s \in Shows : s = txn[p].show
  BY DEF CommitAddView, Control, ShowKnown
<1>2. /\ marks' = marks /\ views'[s] # {} /\ baseline'[s] = "dated"
      /\ \A t \in Shows \ {s} : views'[t] = views[t] /\ baseline'[t] = baseline[t]
  BY <1>1 DEF CommitAddView, TypeOK
<1>3. Queue(s)' = {} /\ \A t \in Shows \ {s} : Queue(t)' = Queue(t)
  BY <1>1, CancelledQueue DEF CommitAddView
<1>4. /\ Progress(s)' = [marks |-> marks[s], tracked |-> TRUE, recorded |-> TRUE]
      /\ \A t \in Shows \ {s} : Progress(t)' = Progress(t)
  BY <1>2, SameProgress DEF Progress
<1>5. Progress(s)' = [marks |-> Progress(s).marks, tracked |-> TRUE, recorded |-> TRUE]
  BY <1>4 DEF Progress
<1>6. /\ Queues' = [Queues EXCEPT ![s] = {}]
      /\ States' = [States EXCEPT ![s] =
                      [marks |-> Progress(s).marks, tracked |-> TRUE, recorded |-> TRUE]]
  BY <1>3, <1>4, <1>5, OneShow
<1>7. Inbox!AddView(s)
  BY <1>6, QueuesAt DEF Inbox!AddView, Queues, States
<1>8. QED
  BY <1>7 DEF Inbox!Next

LEMMA CommitDeleteViewMap ==
  ASSUME RInv, NEW p \in Sessions, CommitDeleteView(p)
  PROVE  Inbox!Next \/ UNCHANGED <<Queues, States>>
<1> USE DEF RInv, InboxInv
<1>1. PICK s \in Shows : s = txn[p].show
  BY DEF CommitDeleteView, Control, ShowKnown
<1>2. PICK left : left = views[s] \ {txn[p].view}
  OBVIOUS
<1>3. /\ views'[s] = left /\ \A t \in Shows \ {s} : views'[t] = views[t]
      /\ \/ /\ left = {} /\ receipt' = Cancelled(s)
            /\ marks' = [marks EXCEPT ![s] = [e \in Episodes |-> "unset"]]
            /\ baseline' = [baseline EXCEPT ![s] = "untracked"]
         \/ left # {} /\ UNCHANGED <<receipt, marks, baseline>>
  BY <1>1, <1>2 DEF CommitDeleteView, TypeOK
<1>4. CASE left # {}
  <2>1. views[s] # {}
    BY <1>2, <1>4
  <2>2. \A t \in Shows : Progress(t)' = Progress(t)
    BY <1>3, <1>4, <2>1 DEF Progress
  <2>3. \A t \in Shows : Queue(t)' = Queue(t)
    BY <1>3, <1>4, SameQueues DEF HasStatus
  <2>4. QED
    BY <2>2, <2>3, Stutters
<1>5. CASE left = {}
  <2>1. Queue(s)' = {} /\ \A t \in Shows \ {s} : Queue(t)' = Queue(t)
    BY <1>3, <1>5, CancelledQueue
  <2>2. /\ Progress(s)' = [marks |-> Inbox!Unmarked, tracked |-> FALSE, recorded |-> FALSE]
        /\ \A t \in Shows \ {s} : Progress(t)' = Progress(t)
    <3>1. /\ marks'[s] = Inbox!Unmarked /\ baseline'[s] = "untracked"
          /\ \A t \in Shows \ {s} : marks'[t] = marks[t] /\ baseline'[t] = baseline[t]
      BY <1>3, <1>5 DEF TypeOK, Inbox!Unmarked
    <3>2. QED
      BY <1>3, <1>5, <3>1, SameProgress DEF Progress
  <2>3. /\ Queues' = [Queues EXCEPT ![s] = {}]
        /\ States' = [States EXCEPT ![s] =
                        [marks |-> Inbox!Unmarked, tracked |-> FALSE, recorded |-> FALSE]]
    BY <2>1, <2>2, OneShow
  <2>4. Inbox!RemoveLastView(s)
    BY <2>3 DEF Inbox!RemoveLastView, Queues, States
  <2>5. QED
    BY <2>4 DEF Inbox!Next
<1>6. QED
  BY <1>4, <1>5

LEMMA MarkDirectlyMap ==
  ASSUME RInv, NEW body \in Bodies, MarkDirectly(body)
  PROVE  Inbox!Next
<1> USE DEF RInv, InboxInv
<1> DEFINE r == [body |-> body, seq |-> 0, status |-> "applied"]
<1>1. PICK s \in Shows : s = body.show
  BY InboxAssumption DEF Body
<1>2. payload[s] \in Payloads /\ Mark(s, {r}, payload[s])
  BY <1>1 DEF MarkDirectly, Validated
<1>3. r.body = body /\ r.body \in Body /\ r.seq \in Nat
  BY InboxAssumption
<1> HIDE DEF r
<1>4. After(s, {} \cup {r}, payload[s]) = Inbox!Apply(After(s, {}, payload[s]), body, payload[s])
  <2>1. \A q \in {} : q.seq \in Nat /\ q.seq < r.seq
    OBVIOUS
  <2>2. QED
    BY <1>3, <2>1, ApplyYoungest
<1>5. After(s, {}, payload[s]) = Progress(s)
  <2>1. Valid({}, payload[s]) = {} /\ Recording({}, payload[s]) = {}
    BY DEF Valid, Recording
  <2>2. MarksAfter(s, {}, payload[s]) = marks[s]
    BY <2>1 DEF MarksAfter, TypeOK
  <2>3. QED
    BY <2>1, <2>2 DEF After, Progress
<1>6. {} \cup {r} = {r}
  OBVIOUS
<1>7. /\ Progress(s)' = Inbox!Apply(Progress(s), body, payload[s])
      /\ \A t \in Shows \ {s} : Progress(t)' = Progress(t)
  BY <1>2, <1>4, <1>5, <1>6, Marked
<1>8. \A t \in Shows : Queue(t)' = Queue(t)
  BY SameQueues DEF MarkDirectly, HasStatus
<1>9. /\ Queues' = Queues
      /\ States' = [States EXCEPT ![s] = Inbox!Apply(Progress(s), body, payload[s])]
  BY <1>7, <1>8 DEF Queues, States
<1>10. Inbox!MarkAtOnce(body, payload[s])
  BY <1>1, <1>9, QueuesAt DEF Inbox!MarkAtOnce, Queues, States
<1>11. QED
  BY <1>2, <1>10 DEF Inbox!Next

LEMMA StartTrackingMap ==
  ASSUME RInv, NEW s \in Shows, StartTracking(s)
  PROVE  Inbox!Next
<1> USE DEF RInv, InboxInv
<1>1. /\ Progress(s)' =
           [marks |-> Progress(s).marks, tracked |-> TRUE, recorded |-> Progress(s).recorded]
      /\ \A t \in Shows \ {s} : Progress(t)' = Progress(t)
  <2>1. /\ baseline'[s] = "empty" /\ UNCHANGED <<marks, views>>
        /\ \A t \in Shows \ {s} : baseline'[t] = baseline[t]
    BY DEF StartTracking, TypeOK
  <2>2. Progress(s)' = [marks |-> marks[s], tracked |-> TRUE, recorded |-> views[s] # {}]
    BY <2>1 DEF Progress
  <2>3. QED
    BY <2>1, <2>2, SameProgress DEF Progress
<1>2. \A t \in Shows : Queue(t)' = Queue(t)
  BY SameQueues DEF StartTracking, HasStatus
<1>3. /\ Queues' = Queues
      /\ States' = [States EXCEPT ![s] =
           [marks |-> Progress(s).marks, tracked |-> TRUE, recorded |-> Progress(s).recorded]]
  BY <1>1, <1>2 DEF Queues, States
<1>4. Inbox!StartTracking(s)
  BY <1>3, QueuesAt DEF Inbox!StartTracking, Queues, States
<1>5. QED
  BY <1>4 DEF Inbox!Next

\* The steps that an owner does not see.
LEMMA UnseenMap ==
  ASSUME RInv, UNCHANGED progress,
         receipt' = receipt \/ (\E p \in Clients, i \in Ids, body \in Bodies : Accept(p, i, body))
           \/ Shrinks
  PROVE  UNCHANGED <<Queues, States>>
<1> USE DEF RInv, InboxInv
<1>1. \A s : Progress(s)' = Progress(s)
  BY DEF progress, Progress
<1>2. CASE receipt' = receipt
  BY <1>1, <1>2, SameQueues, Stutters DEF HasStatus
<1>3. ASSUME NEW p \in Clients, NEW i \in Ids, NEW body \in Bodies, Accept(p, i, body)
      PROVE  \A s : Queue(s)' = Queue(s)
  <2>1. /\ ~ HasStatus(i, {"pending"}) /\ ~ HasStatus(i, {"pending"})'
        /\ \A j \in Ids \ {i} : receipt'[j] = receipt[j]
    BY <1>3, AcceptEffect DEF HasStatus
  <2>2. QED
    BY <2>1, SameQueues DEF HasStatus
<1>4. CASE Shrinks
  <2>1. \A i \in Ids : HasStatus(i, {"pending"})' => HasStatus(i, {"pending"})
    BY <1>4 DEF Shrinks, HasStatus
  <2>2. \A s : Queue(s)' = Queue(s)
    BY <1>4, <2>1, SameQueues DEF Shrinks
  <2>3. QED
    BY <1>1, <2>2, Stutters
<1>5. QED
  BY <1>1, <1>2, <1>3, <1>4, Stutters

LEMMA StepMap == RInv /\ [Next]_vars => Inbox!Next \/ UNCHANGED <<Queues, States>>
<1> SUFFICES ASSUME RInv, [Next]_vars PROVE Inbox!Next \/ UNCHANGED <<Queues, States>>
  OBVIOUS
<1>1. ASSUME NEW p \in Clients, CommitSubmit(p) \/ CommitAddView(p) \/ CommitDeleteView(p)
      PROVE  Inbox!Next \/ UNCHANGED <<Queues, States>>
  BY <1>1, CommitSubmitMap, CommitAddViewMap, CommitDeleteViewMap DEF Sessions
<1>2. ASSUME NEW p \in Workers, CommitDrain(p)
      PROVE  Inbox!Next \/ UNCHANGED <<Queues, States>>
  BY <1>2, CommitDrainMap DEF Sessions
<1>3. ASSUME UNCHANGED <<receipt, progress>> PROVE UNCHANGED <<Queues, States>>
  BY <1>3, UnseenMap
<1>4. ASSUME NEW p \in Clients,
             \/ BeginSubmit(p) \/ SubmitWithoutEffect(p) \/ LockForDelete(p)
             \/ \E s \in Shows : BeginAddView(p, s) \/ \E v \in ViewIds : ReadView(p, s, v)
      PROVE  UNCHANGED <<Queues, States>>
  BY <1>3, <1>4 DEF BeginSubmit, SubmitWithoutEffect, LockForDelete, BeginAddView, ReadView
<1>5. ASSUME NEW p \in Workers,
             ScanReady(p) \/ \E s \in Shows : LockForDrain(p, s) \/ SkipBusyOwner(p, s)
      PROVE  UNCHANGED <<Queues, States>>
  BY <1>3, <1>5 DEF ScanReady, LockForDrain, SkipBusyOwner
<1>6. ASSUME NEW p \in Sessions, ReadInbox(p) PROVE UNCHANGED <<Queues, States>>
  BY <1>3, <1>6 DEF ReadInbox
<1>7. ASSUME NEW s \in Shows, VisitShow(s) \/ PublishCatalog(s) PROVE UNCHANGED <<Queues, States>>
  BY <1>3, <1>7 DEF VisitShow, PublishCatalog
<1>8. ASSUME NEW p \in Clients, NEW i \in Ids, NEW body \in Bodies, Accept(p, i, body)
      PROVE  UNCHANGED <<Queues, States>>
  BY <1>8, UnseenMap DEF Accept
<1>9. ASSUME NEW i \in Ids, ExpireReceipt(i) PROVE UNCHANGED <<Queues, States>>
  <2>1. Shrinks
    BY <1>9 DEF ExpireReceipt, Shrinks, HasStatus, FinalStatus, RInv, InboxInv, TypeOK
  <2>2. QED
    BY <1>9, <2>1, UnseenMap DEF ExpireReceipt
<1>10. ASSUME NEW p \in Sessions, Crash(p) PROVE UNCHANGED <<Queues, States>>
  <2>1. \A i \in Ids : i = txn[p].id => HasStatus(i, {"uncommitted"})
    BY InboxAssumption DEF RInv, InboxInv, Control, DraftsOwned
  <2>2. Shrinks
    BY <1>10, <2>1 DEF Crash, Shrinks, HasStatus
  <2>3. QED
    BY <1>10, <2>2, UnseenMap DEF Crash
<1>11. CASE UNCHANGED vars
  BY <1>3, <1>11 DEF vars, progress
<1>12. QED
  BY <1>1, <1>2, <1>4, <1>5, <1>6, <1>7, <1>8, <1>9, <1>10, <1>11, MarkDirectlyMap,
     StartTrackingMap DEF Next

LEMMA InitMap == Init => Inbox!Init
<1> SUFFICES ASSUME Init PROVE Inbox!Init
  OBVIOUS
<1>1. \A s \in Shows : Queue(s) = {}
  BY DEF Init, Queue, Pending, AllPending, HasStatus
<1>2. \A s \in Shows :
        Progress(s) = [marks |-> Inbox!Unmarked, tracked |-> FALSE, recorded |-> FALSE]
  BY DEF Init, Progress, Inbox!Unmarked
<1>3. QED
  BY <1>1, <1>2 DEF Inbox!Init

\* apply_actions, submit_action and the viewing endpoints: to its owner the inbox is
\* a queue for each show that intents join in order and that is applied in one piece,
\* whatever sessions read, wait for the lock, crash or expire receipts in between.
THEOREM InboxIsOrdered == Spec => ImplementsOrderedInbox
<1>1. RInv /\ [Next]_vars => [Inbox!Next]_<<Queues, States>>
  BY StepMap
<1>2. QED
  BY <1>1, InitMap, RefinementInvariant, PTL
     DEF Spec, ImplementsOrderedInbox, Inbox!Spec, Queues, States

=============================================================================
