------------------------ MODULE ReleaseDigestsProofs ------------------------
(***************************************************************************)
(* What the owner's row lock guarantees about digests, for every number of *)
(* owners, devices and senders and every batch and retry limit.            *)
(***************************************************************************)
EXTENDS ReleaseDigests, TLAPS

Working(w) == At(w, "check") \/ At(w, "send")

\* A sender that works on a delivery holds its owner's row, and the delivery is
\* still pending; one that pushes does so with consent.
Held ==
  \A w \in Senders : Working(w) =>
    /\ OwnerOf(w) \in Owners
    /\ lock[OwnerOf(w)] = w
    /\ Job(w).status = "pending"
    /\ At(w, "send") => OwnerOf(w) \in enabled

\* A pending delivery has an attempt left.
AttemptsLeft ==
  \A d \in Devices, day \in Days :
    outbox[d][day].status = "pending" => outbox[d][day].attempts < MaxAttempts

IInv == TypeOK /\ OptOutHolds /\ Held /\ AttemptsLeft

\* Only a subscribed device has deliveries.
Subscribed ==
  \A d \in Devices, day \in Days : outbox[d][day].status # "none" => holder[d] \in Owners

-----------------------------------------------------------------------------
(* Helpers                                                                 *)

LEMMA RestingType == Resting \in Cycle
BY DigestAssumption DEF Resting, Cycle, Days

LEMMA NoDeliveryType == NoDelivery \in Delivery
BY DigestAssumption DEF NoDelivery, Delivery

LEMMA BecomeType ==
  ASSUME TypeOK, NEW w \in Senders, NEW s \in Cycle, Become(w, s)
  PROVE  /\ sender' \in [Senders -> Cycle]
         /\ sender'[w] = s
         /\ \A v \in Senders \ {w} : sender'[v] = sender[v]
BY DEF TypeOK, Become

LEMMA NextJobType ==
  ASSUME TypeOK, NEW w \in Senders, NextJob(w)
  PROVE  /\ sender' \in [Senders -> Cycle]
         /\ sender'[w].pc = "pick"
         /\ \A v \in Senders \ {w} : sender'[v] = sender[v]
<1> DEFINE s == [Resting EXCEPT !.pc = "pick", !.left = sender[w].left]
<1>1. s \in Cycle /\ s.pc = "pick"
  BY RestingType DEF TypeOK, Cycle
<1>2. Become(w, s)
  BY DEF NextJob
<1> HIDE DEF s
<1>3. QED
  BY <1>1, <1>2, BecomeType

\* A sender that moves on without having touched the outbox or a lock.
LEMMA MovingOn ==
  ASSUME IInv, NEW w \in Senders, NEW s \in Cycle,
         s.pc \notin {"check", "send"}, Become(w, s), found' \subseteq Senders,
         UNCHANGED <<clock, ownerVars, outboxVars, lock, news, crashes>>
  PROVE  IInv'
<1> USE DEF IInv
<1>1. /\ sender' \in [Senders -> Cycle]
      /\ sender'[w] = s
      /\ \A v \in Senders \ {w} : sender'[v] = sender[v]
  BY BecomeType
<1>2. TypeOK'
  BY <1>1 DEF TypeOK, ownerVars, outboxVars
<1>3. OptOutHolds' /\ Held' /\ AttemptsLeft'
  BY <1>1 DEF OptOutHolds, Held, AttemptsLeft, Working, At, OwnerOf, Job, ownerVars, outboxVars
<1>4. QED
  BY <1>2, <1>3

-----------------------------------------------------------------------------
(* Requests of owners                                                      *)

LEMMA InitInv == Init => IInv
<1> SUFFICES ASSUME Init PROVE IInv
  OBVIOUS
<1>1. TypeOK
  BY RestingType, DigestAssumption DEF Init, TypeOK, Delivery, NoDelivery
<1>2. \A w \in Senders : sender[w].pc = "idle"
  BY DEF Init, Resting
<1>3. OptOutHolds /\ Held /\ AttemptsLeft
  BY <1>2 DEF Init, OptOutHolds, Held, AttemptsLeft, Working, At, NoDelivery
<1>4. QED
  BY <1>1, <1>3 DEF IInv

\* A sender at work does not meet the request of an owner whose row is free.
LEMMA NotMine ==
  ASSUME IInv, NEW o \in Owners, Unlocked(o), NEW w \in Senders, Working(w)
  PROVE  OwnerOf(w) # o
BY DigestAssumption DEF IInv, Held, Unlocked

LEMMA SavePreferencesInv ==
  ASSUME IInv, NEW o \in Owners, NEW on \in BOOLEAN, NEW s \in Schedules, SavePreferences(o, on, s)
  PROVE  IInv'
<1> USE DEF IInv
<1>1. outbox' = outbox \/ outbox' = Withdrawn(o)
  BY DEF SavePreferences
<1>2. /\ outbox' \in [Devices -> [Days -> Delivery]]
      /\ \A d \in Devices, day \in Days :
           \/ outbox'[d][day] = outbox[d][day]
           \/ outbox'[d][day] = NoDelivery /\ holder[d] = o
  BY <1>1, NoDeliveryType DEF TypeOK, Withdrawn
<1>3. pushes' \in [Devices -> [Days -> Nat]]
  BY DEF SavePreferences, TypeOK
<1>4. schedule' \in [Owners -> Schedules] /\ enabled' \subseteq Owners
  BY DEF SavePreferences, TypeOK
<1>5. TypeOK'
  BY <1>2, <1>3, <1>4 DEF SavePreferences, Deletion, TypeOK
<1>6. \A w \in Senders : Working(w) => OwnerOf(w) # o
  BY NotMine DEF SavePreferences
<1>7. /\ UNCHANGED <<holder, sender, lock>>
      /\ \A p \in Owners \ {o} : p \in enabled' <=> p \in enabled
  BY DEF SavePreferences
<1>8. Held'
  <2> SUFFICES ASSUME NEW w \in Senders, Working(w)'
               PROVE  /\ OwnerOf(w)' \in Owners
                      /\ lock'[OwnerOf(w)'] = w
                      /\ Job(w)'.status = "pending"
                      /\ At(w, "send")' => OwnerOf(w)' \in enabled'
    BY DEF Held
  <2>1. Working(w) /\ OwnerOf(w) # o /\ OwnerOf(w)' = OwnerOf(w)
    BY <1>6, <1>7 DEF Working, At, OwnerOf
  <2>2. Job(w)' = Job(w)
    BY <1>2, <1>7, <2>1 DEF TypeOK, Cycle, Job, OwnerOf
  <2>3. QED
    BY <1>7, <2>1, <2>2 DEF Held, At
<1>9. AttemptsLeft'
  BY <1>2 DEF AttemptsLeft, NoDelivery
<1>10. OptOutHolds'
  <2> SUFFICES ASSUME NEW p \in Owners \ enabled'
               PROVE  /\ \A d \in Devices, day \in Days : holder'[d] = p => outbox'[d][day].status # "pending"
                      /\ \A w \in Senders : ~(At(w, "send")' /\ OwnerOf(w)' = p)
    BY DEF OptOutHolds
  <2>1. \A w \in Senders : ~(At(w, "send")' /\ OwnerOf(w)' = p)
    BY <1>8 DEF Held, Working
  <2>2. CASE p # o
    BY <1>2, <1>7, <2>1, <2>2 DEF OptOutHolds, NoDelivery
  <2>3. CASE p = o
    <3>1. outbox' = Withdrawn(o)
      BY <2>3 DEF SavePreferences
    <3>2. QED
      BY <1>7, <2>1, <2>3, <3>1 DEF Withdrawn, NoDelivery
  <2>4. QED
    BY <2>2, <2>3
<1>11. QED
  BY <1>5, <1>8, <1>9, <1>10

LEMMA SaveSubscriptionInv ==
  ASSUME IInv, NEW o \in Owners, NEW d \in Devices, SaveSubscription(o, d)
  PROVE  IInv'
<1> USE DEF IInv
<1>1. TypeOK'
  BY DigestAssumption DEF SaveSubscription, TypeOK, outboxVars
<1>2. \A w \in Senders : Working(w) => sender[w].device # d
  BY DigestAssumption DEF Held, OwnerOf, SaveSubscription
<1>3. Held'
  BY <1>2 DEF Held, SaveSubscription, TypeOK, Cycle, Working, At, OwnerOf, Job, outboxVars
<1>4. OptOutHolds'
  BY <1>2 DEF OptOutHolds, SaveSubscription, TypeOK, Cycle, Working, At, OwnerOf, outboxVars
<1>5. AttemptsLeft'
  BY DEF AttemptsLeft, SaveSubscription, outboxVars
<1>6. QED
  BY <1>1, <1>3, <1>4, <1>5

LEMMA ForgetType ==
  ASSUME TypeOK, NEW d \in Devices, Forget(d)
  PROVE  /\ holder' \in [Devices -> Owners \cup {NoOwner}]
         /\ outbox' \in [Devices -> [Days -> Delivery]]
         /\ pushes' \in [Devices -> [Days -> Nat]]
         /\ accepted' \in [Devices -> [Days -> Nat]]
         /\ holder'[d] = NoOwner
         /\ \A day \in Days : outbox'[d][day] = NoDelivery
         /\ \A e \in Devices \ {d} : holder'[e] = holder[e] /\ outbox'[e] = outbox[e]
BY NoDeliveryType DEF Forget, TypeOK

\* The device of an owner whose row is free is no sender's: it may go.
LEMMA ForgetInv ==
  ASSUME IInv, NEW o \in Owners, NEW d \in Devices, Unlocked(o), holder[d] = o, Forget(d),
         UNCHANGED <<clock, enabled, schedule, tested, lock, sender, news, crashes>>,
         testing' \subseteq Owners \X Devices
  PROVE  IInv'
<1> USE DEF IInv
<1>1. /\ \A day \in Days : outbox'[d][day] = NoDelivery
      /\ \A e \in Devices \ {d} : holder'[e] = holder[e] /\ outbox'[e] = outbox[e]
      /\ holder'[d] \notin Owners
  BY ForgetType, DigestAssumption
<1>2. TypeOK'
  BY ForgetType DEF TypeOK, Forget, Deletion
<1>3. \A w \in Senders : Working(w) => sender[w].device # d
  BY NotMine DEF OwnerOf
<1>4. Held'
  BY <1>1, <1>3 DEF Held, TypeOK, Cycle, Working, At, OwnerOf, Job
<1>5. OptOutHolds'
  <2> SUFFICES ASSUME NEW p \in Owners \ enabled
               PROVE  /\ \A e \in Devices, day \in Days : holder'[e] = p => outbox'[e][day].status # "pending"
                      /\ \A w \in Senders : ~(At(w, "send")' /\ OwnerOf(w)' = p)
    BY DEF OptOutHolds
  <2>1. QED
    BY <1>1, <1>4 DEF OptOutHolds, Held, Working
<1>6. AttemptsLeft'
  BY <1>1 DEF AttemptsLeft, NoDelivery
<1>7. QED
  BY <1>2, <1>4, <1>5, <1>6

LEMMA RequestInv == IInv /\ Request => IInv'
<1> SUFFICES ASSUME IInv, Request PROVE IInv'
  OBVIOUS
<1>1. ASSUME NEW o \in Owners, NEW on \in BOOLEAN, NEW s \in Schedules, SavePreferences(o, on, s)
      PROVE  IInv'
  BY <1>1, SavePreferencesInv
<1>2. ASSUME NEW o \in Owners, NEW d \in Devices, SaveSubscription(o, d) PROVE IInv'
  BY <1>2, SaveSubscriptionInv
<1>3. ASSUME NEW o \in Owners, NEW d \in Devices, RemoveSubscription(o, d) PROVE IInv'
  BY <1>3, ForgetInv DEF RemoveSubscription, IInv, TypeOK
<1>4. ASSUME NEW o \in Owners, NEW d \in Devices, BeginTest(o, d) PROVE IInv'
  BY <1>4 DEF BeginTest, IInv, TypeOK, OptOutHolds, Held, AttemptsLeft, Working, At, OwnerOf, Job,
              outboxVars
<1>5. ASSUME NEW o \in Owners, NEW d \in Devices, FinishTest(o, d) PROVE IInv'
  <2>1. testing' \subseteq Owners \X Devices
    BY <1>5 DEF FinishTest, IInv, TypeOK
  <2>2. CASE UNCHANGED <<holder, outboxVars, found>>
    BY <1>5, <2>1, <2>2 DEF FinishTest, IInv, TypeOK, OptOutHolds, Held, AttemptsLeft, Working, At,
                            OwnerOf, Job, outboxVars
  <2>3. CASE Unlocked(o) /\ holder[d] = o /\ Forget(d)
    BY <1>5, <2>1, <2>3, ForgetInv DEF FinishTest
  <2>4. QED
    BY <1>5, <2>2, <2>3 DEF FinishTest
<1>6. QED
  BY <1>1, <1>2, <1>3, <1>4, <1>5 DEF Request

-----------------------------------------------------------------------------
(* Senders                                                                 *)

LEMMA PassingOnInv ==
  ASSUME IInv, NEW w \in Senders, StartCycle(w) \/ StartBatch(w) \/ Pick(w) \/ SkipJob(w)
  PROVE  IInv'
<1> USE DEF Become
<1>1. ASSUME NEW s, s \in Cycle, s.pc \notin {"check", "send"}, Become(w, s), found' \subseteq Senders,
             UNCHANGED <<clock, ownerVars, outboxVars, lock, news, crashes>>
      PROVE  IInv'
  BY <1>1, MovingOn
<1>2. /\ sender[w] \in Cycle /\ clock \in 0 .. MaxClock /\ enabled \in SUBSET Owners
      /\ found \subseteq Senders
  BY DEF IInv, TypeOK
<1>3. CASE StartCycle(w)
  <2> DEFINE s == [sender[w] EXCEPT !.pc = "queue", !.now = clock, !.todo = enabled]
  <2>1. s \in Cycle /\ s.pc = "queue"
    BY <1>2 DEF Cycle
  <2>2. Become(w, s) /\ UNCHANGED <<clock, ownerVars, outboxVars, lock, found, news, crashes>>
    BY <1>3 DEF StartCycle
  <2> HIDE DEF s
  <2>3. QED
    BY <1>1, <1>2, <2>1, <2>2
<1>4. CASE StartBatch(w)
  <2> DEFINE s == [Resting EXCEPT !.pc = "pick", !.left = BatchSize]
  <2>0. BatchSize \in 0 .. BatchSize
    BY DigestAssumption
  <2>1. s \in Cycle /\ s.pc = "pick"
    BY <2>0, RestingType DEF Cycle
  <2>2. Become(w, s) /\ UNCHANGED <<clock, ownerVars, outboxVars, lock, found, news, crashes>>
    BY <1>4 DEF StartBatch
  <2> HIDE DEF s
  <2>3. QED
    BY <1>1, <1>2, <2>1, <2>2
<1>5. CASE Pick(w)
  <2>1. PICK c \in Devices \X Days :
          Become(w, [sender[w] EXCEPT !.pc = "lock", !.now = clock, !.left = @ - 1,
                       !.device = c[1], !.day = c[2]])
    BY <1>5 DEF Pick, Due
  <2> DEFINE s == [sender[w] EXCEPT !.pc = "lock", !.now = clock, !.left = @ - 1,
                     !.device = c[1], !.day = c[2]]
  <2>2. c[1] \in Devices /\ c[2] \in Days /\ sender[w].left > 0
    BY <1>5 DEF Pick
  <2> HIDE DEF s
  <2>6. sender[w].left - 1 \in 0 .. BatchSize
    BY <1>2, <2>2, DigestAssumption DEF Cycle
  <2>3. s \in Cycle /\ s.pc = "lock"
    BY <1>2, <2>2, <2>6 DEF Cycle, s
  <2>4. found' = found \cup {w} /\ UNCHANGED <<clock, ownerVars, outboxVars, lock, news, crashes>>
    BY <1>5 DEF Pick
  <2>5. QED
    BY <1>1, <1>2, <2>1, <2>3, <2>4 DEF s
<1>6. CASE SkipJob(w)
  <2> DEFINE s == [Resting EXCEPT !.pc = "pick", !.left = sender[w].left]
  <2>1. s \in Cycle /\ s.pc = "pick"
    BY <1>2, RestingType DEF Cycle
  <2>2. /\ Become(w, s) /\ found' \subseteq found
        /\ UNCHANGED <<clock, ownerVars, outboxVars, lock, news, crashes>>
    BY <1>6 DEF SkipJob, NextJob
  <2> HIDE DEF s
  <2>3. QED
    BY <1>1, <1>2, <2>1, <2>2
<1>7. QED
  BY <1>3, <1>4, <1>5, <1>6

LEMMA QueueOwnerInv ==
  ASSUME IInv, NEW w \in Senders, NEW o \in Owners, QueueOwner(w, o)
  PROVE  IInv'
<1> USE DEF IInv
<1> DEFINE now == sender[w].now
           s == [sender[w] EXCEPT !.todo = @ \ {o}]
           fresh == [status |-> "pending", attempts |-> 0, next |-> now]
<1>0. sender[w] \in Cycle /\ sender[w].pc = "queue"
  BY DEF QueueOwner, At, TypeOK
<1>1. s \in Cycle /\ s.pc = "queue" /\ now \in Nat
  <2>1. s \in Cycle /\ s.pc = "queue"
    BY <1>0 DEF Cycle
  <2>2. now \in Nat
    BY <1>0, DigestAssumption DEF Cycle
  <2>3. QED
    BY <2>1, <2>2
<1>2. Become(w, s)
  BY DEF QueueOwner
<1>3. /\ sender' \in [Senders -> Cycle]
      /\ sender'[w].pc = "queue"
      /\ \A v \in Senders \ {w} : sender'[v] = sender[v]
  BY <1>1, <1>2, BecomeType
<1>4. outbox' = outbox \/ \E day \in Days : outbox' = Queued(o, day, now) /\ o \in enabled
  BY DEF QueueOwner
<1>5. fresh \in Delivery /\ fresh.status = "pending" /\ fresh.attempts = 0
  BY <1>1, DigestAssumption DEF Delivery
<1>6. /\ outbox' \in [Devices -> [Days -> Delivery]]
      /\ \A d \in Devices, day \in Days :
           \/ outbox'[d][day] = outbox[d][day]
           \/ /\ outbox'[d][day] = fresh /\ outbox[d][day].status = "none"
              /\ holder[d] = o /\ o \in enabled
  <2>1. CASE outbox' = outbox
    BY <2>1 DEF TypeOK
  <2>2. ASSUME NEW day \in Days, outbox' = Queued(o, day, now), o \in enabled
        PROVE  <1>6!1
    <3>1. outbox' = [d \in Devices |-> IF holder[d] = o /\ outbox[d][day].status = "none"
                       THEN [outbox[d] EXCEPT ![day] = fresh] ELSE outbox[d]]
      BY <2>2 DEF Queued
    <3> HIDE DEF fresh
    <3>2. QED
      BY <1>5, <3>1 DEF TypeOK
  <2>3. ASSUME NEW day \in Days, outbox' = Queued(o, day, now), o \in enabled
        PROVE  <1>6!2
    <3>1. outbox' = [d \in Devices |-> IF holder[d] = o /\ outbox[d][day].status = "none"
                       THEN [outbox[d] EXCEPT ![day] = fresh] ELSE outbox[d]]
      BY <2>3 DEF Queued
    <3> HIDE DEF fresh
    <3>2. QED
      BY <2>3, <3>1 DEF TypeOK
  <2>4. QED
    BY <1>4, <2>1, <2>2, <2>3
<1> HIDE DEF fresh
<1>7. UNCHANGED <<clock, ownerVars, pushes, accepted, lock, found, news, crashes>>
  BY DEF QueueOwner
<1>8. TypeOK'
  BY <1>3, <1>6, <1>7 DEF TypeOK, ownerVars
<1>9. Held'
  <2> SUFFICES ASSUME NEW v \in Senders, Working(v)'
               PROVE  /\ OwnerOf(v)' \in Owners
                      /\ lock'[OwnerOf(v)'] = v
                      /\ Job(v)'.status = "pending"
                      /\ At(v, "send")' => OwnerOf(v)' \in enabled'
    BY DEF Held
  <2>1. sender'[v] = sender[v] /\ Working(v)
    BY <1>3 DEF Working, At
  <2>2. Job(v)'.status = "pending"
    <3>1. sender[v].device \in Devices /\ sender[v].day \in Days /\ Job(v).status = "pending"
      BY <2>1 DEF TypeOK, Cycle, Held
    <3>2. QED
      BY <1>5, <1>6, <2>1, <3>1 DEF Job
  <2>3. QED
    BY <1>7, <2>1, <2>2 DEF Held, At, OwnerOf, ownerVars
<1>10. AttemptsLeft'
  BY <1>5, <1>6, DigestAssumption DEF AttemptsLeft
<1>11. OptOutHolds'
  BY <1>3, <1>6, <1>7 DEF OptOutHolds, At, OwnerOf, ownerVars
<1>12. QED
  BY <1>8, <1>9, <1>10, <1>11

LEMMA PurgeInv ==
  ASSUME IInv, NEW w \in Senders, Purge(w)
  PROVE  IInv'
<1> USE DEF IInv
<1>1. /\ sender' \in [Senders -> Cycle]
      /\ sender'[w] = Resting
      /\ \A v \in Senders \ {w} : sender'[v] = sender[v]
  BY RestingType, BecomeType DEF Purge
<1>2. outbox' = [d \in Devices |-> [day \in Days |-> IF Old(day) THEN NoDelivery ELSE outbox[d][day]]]
  BY DEF Purge
<1>3. /\ outbox' \in [Devices -> [Days -> Delivery]]
      /\ \A d \in Devices, day \in Days :
           outbox'[d][day] = outbox[d][day] \/ (outbox'[d][day] = NoDelivery /\ Old(day))
  <2>1. outbox' \in [Devices -> [Days -> Delivery]]
    BY <1>2, NoDeliveryType DEF TypeOK
  <2>2. ASSUME NEW d \in Devices, NEW day \in Days
        PROVE  outbox'[d][day] = IF Old(day) THEN NoDelivery ELSE outbox[d][day]
    BY <1>2
  <2>3. QED
    BY <2>1, <2>2
<1>4. /\ UNCHANGED <<clock, ownerVars, pushes, accepted, lock, news, crashes>>
      /\ \A v \in Senders : Working(v) => ~ Old(sender[v].day)
  BY DEF Purge, Working
<1>5. TypeOK'
  BY <1>1, <1>3, <1>4 DEF TypeOK, Purge, Deletion, ownerVars
<1>6. Held'
  <2> SUFFICES ASSUME NEW v \in Senders, Working(v)'
               PROVE  /\ OwnerOf(v)' \in Owners
                      /\ lock'[OwnerOf(v)'] = v
                      /\ Job(v)'.status = "pending"
                      /\ At(v, "send")' => OwnerOf(v)' \in enabled'
    BY DEF Held
  <2>1. sender'[v] = sender[v] /\ Working(v)
    BY <1>1 DEF Working, At, Resting
  <2>2. Job(v)' = Job(v)
    BY <1>3, <1>4, <2>1 DEF TypeOK, Cycle, Job
  <2>3. QED
    BY <1>4, <2>1, <2>2 DEF Held, At, OwnerOf, ownerVars
<1>7. AttemptsLeft' /\ OptOutHolds'
  <2>1. \A d \in Devices, day \in Days :
          outbox'[d][day].status = "pending" => outbox'[d][day] = outbox[d][day]
    BY <1>3 DEF NoDelivery
  <2>2. AttemptsLeft'
    BY <2>1 DEF AttemptsLeft
  <2>3. OptOutHolds'
    BY <1>1, <1>4, <2>1 DEF OptOutHolds, At, OwnerOf, Resting, ownerVars
  <2>4. QED
    BY <2>2, <2>3
<1>8. QED
  BY <1>5, <1>6, <1>7

LEMMA LockJobInv ==
  ASSUME IInv, Subscribed, NEW w \in Senders, LockJob(w)
  PROVE  IInv'
<1> USE DEF IInv
<1> DEFINE s == [sender[w] EXCEPT !.pc = "check"]
<1>1. /\ s \in Cycle /\ s.pc = "check" /\ s.device = sender[w].device /\ s.day = sender[w].day
  BY DEF TypeOK, Cycle
<1>2. Become(w, s)
  BY DEF LockJob
<1> HIDE DEF s
<1>3. /\ sender' \in [Senders -> Cycle]
      /\ sender'[w] = s
      /\ \A v \in Senders \ {w} : sender'[v] = sender[v]
  BY <1>1, <1>2, BecomeType
<1>4. /\ OwnerOf(w) \in Owners /\ Job(w).status = "pending" /\ lock[OwnerOf(w)] = Free
      /\ lock' = [lock EXCEPT ![OwnerOf(w)] = w] /\ found' \subseteq Senders
      /\ UNCHANGED <<clock, ownerVars, outboxVars, news, crashes>>
  BY DEF LockJob, SameJob, Job, Unlocked, OwnerOf, Subscribed, TypeOK, Cycle
<1>5. TypeOK'
  BY <1>3, <1>4 DEF TypeOK, ownerVars, outboxVars
<1>6. \A v \in Senders : Working(v) => OwnerOf(v) # OwnerOf(w)
  BY <1>4, NotMine DEF Unlocked
<1>7. Held'
  BY <1>1, <1>3, <1>4, <1>6 DEF Held, Working, At, OwnerOf, Job, TypeOK, ownerVars, outboxVars
<1>8. AttemptsLeft' /\ OptOutHolds'
  BY <1>1, <1>3, <1>4 DEF AttemptsLeft, OptOutHolds, At, OwnerOf, ownerVars, outboxVars
<1>9. QED
  BY <1>5, <1>7, <1>8

LEMMA SendPushInv ==
  ASSUME IInv, NEW w \in Senders, SendPush(w)
  PROVE  IInv'
<1> USE DEF IInv
<1> DEFINE s == [sender[w] EXCEPT !.pc = "send"]
<1>1. /\ s \in Cycle /\ s.pc = "send" /\ s.device = sender[w].device /\ s.day = sender[w].day
  BY DEF TypeOK, Cycle
<1>2. Become(w, s)
  BY DEF SendPush
<1> HIDE DEF s
<1>3. /\ sender' \in [Senders -> Cycle]
      /\ sender'[w] = s
      /\ \A v \in Senders \ {w} : sender'[v] = sender[v]
  BY <1>1, <1>2, BecomeType
<1>4. /\ Working(w) /\ OwnerOf(w) \in enabled
      /\ pushes' \in [Devices -> [Days -> Nat]]
      /\ UNCHANGED <<clock, ownerVars, outbox, accepted, lock, found, news, crashes>>
  <2>1. sender[w].device \in Devices /\ sender[w].day \in Days
    BY DEF TypeOK, Cycle
  <2>2. pushes' \in [Devices -> [Days -> Nat]]
    BY <2>1 DEF SendPush, TypeOK
  <2>3. Working(w) /\ OwnerOf(w) \in enabled
    BY DEF SendPush, Working, Eligible
  <2>4. QED
    BY <2>2, <2>3 DEF SendPush
<1>5. TypeOK'
  BY <1>3, <1>4 DEF TypeOK, ownerVars
<1>6. Held'
  BY <1>1, <1>3, <1>4 DEF Held, Working, At, OwnerOf, Job, ownerVars
<1>7. AttemptsLeft' /\ OptOutHolds'
  BY <1>1, <1>3, <1>4 DEF AttemptsLeft, OptOutHolds, At, OwnerOf, ownerVars
<1>8. QED
  BY <1>5, <1>6, <1>7

\* Others at work hold other owners' rows, hence work on other devices.
LEMMA Apart ==
  ASSUME IInv, NEW w \in Senders, NEW v \in Senders, v # w, Working(w), Working(v)
  PROVE  OwnerOf(v) # OwnerOf(w) /\ sender[v].device # sender[w].device
BY DEF IInv, Held, OwnerOf

\* The lock is given back when the delivery is settled or put off.
LEMMA SettleInv ==
  ASSUME IInv, NEW w \in Senders, Working(w),
         NEW job \in Delivery, job.status = "pending" => job.attempts < MaxAttempts /\ At(w, "send"),
         Settle(w, job), Unlock(w), NextJob(w),
         pushes' = pushes, accepted' \in [Devices -> [Days -> Nat]],
         UNCHANGED <<clock, ownerVars, found, news, crashes>>
  PROVE  IInv'
<1> USE DEF IInv
<1>1. /\ sender' \in [Senders -> Cycle]
      /\ sender'[w].pc = "pick"
      /\ \A v \in Senders \ {w} : sender'[v] = sender[v]
  BY NextJobType
<1>2. /\ outbox' \in [Devices -> [Days -> Delivery]]
      /\ outbox'[sender[w].device][sender[w].day] = job
      /\ \A d \in Devices, day \in Days :
           d # sender[w].device \/ day # sender[w].day => outbox'[d][day] = outbox[d][day]
  BY DEF Settle, TypeOK, Cycle
<1>3. /\ lock' \in [Owners -> Senders \cup {Free, Other}]
      /\ \A o \in Owners : o # OwnerOf(w) => lock'[o] = lock[o]
  BY DEF Unlock, TypeOK
<1>4. TypeOK'
  BY <1>1, <1>2, <1>3 DEF TypeOK, ownerVars
<1>5. Held'
  <2> SUFFICES ASSUME NEW v \in Senders, Working(v)'
               PROVE  /\ OwnerOf(v)' \in Owners
                      /\ lock'[OwnerOf(v)'] = v
                      /\ Job(v)'.status = "pending"
                      /\ At(v, "send")' => OwnerOf(v)' \in enabled'
    BY DEF Held
  <2>1. v # w /\ sender'[v] = sender[v] /\ Working(v)
    BY <1>1 DEF Working, At
  <2>2. OwnerOf(v) # OwnerOf(w) /\ sender[v].device # sender[w].device
    BY <2>1, Apart
  <2>3. QED
    BY <1>2, <1>3, <2>1, <2>2 DEF Held, At, OwnerOf, Job, TypeOK, Cycle, ownerVars
<1>6. AttemptsLeft'
  BY <1>2 DEF AttemptsLeft
<1>7. OptOutHolds'
  <2>1. job.status = "pending" => OwnerOf(w) \in enabled
    BY DEF Held
  <2> SUFFICES ASSUME NEW p \in Owners \ enabled
               PROVE  /\ \A d \in Devices, day \in Days : holder[d] = p => outbox'[d][day].status # "pending"
                      /\ \A v \in Senders : ~(At(v, "send")' /\ OwnerOf(v)' = p)
    BY DEF OptOutHolds, ownerVars
  <2>2. \A v \in Senders : ~(At(v, "send")' /\ OwnerOf(v)' = p)
    BY <1>5 DEF Held, Working, ownerVars
  <2>3. ASSUME NEW d \in Devices, NEW day \in Days, holder[d] = p
        PROVE  outbox'[d][day].status # "pending"
    BY <1>2, <2>1, <2>3 DEF OptOutHolds, OwnerOf
  <2>4. QED
    BY <2>2, <2>3
<1>8. QED
  BY <1>4, <1>5, <1>6, <1>7

LEMMA AtWork ==
  ASSUME IInv, NEW w \in Senders, Working(w)
  PROVE  /\ sender[w].device \in Devices /\ sender[w].day \in Days
         /\ Job(w) \in Delivery /\ Job(w).status = "pending"
         /\ Job(w).attempts \in 0 .. MaxAttempts - 1 /\ Job(w).next \in Nat
         /\ sender[w].now \in Nat
<1>1. /\ sender[w].device \in Devices /\ sender[w].day \in Days
      /\ sender[w].now \in 0 .. MaxClock
  BY DEF IInv, TypeOK, Cycle
<1>2. Job(w) \in Delivery /\ Job(w).status = "pending"
  BY <1>1 DEF IInv, TypeOK, Held, Job
<1>3. Job(w).attempts < MaxAttempts /\ Job(w).attempts \in 0 .. MaxAttempts
  BY <1>1, <1>2 DEF IInv, AttemptsLeft, Job, Delivery
<1>4. QED
  BY <1>1, <1>2, <1>3, DigestAssumption DEF Delivery

LEMMA AcceptedType ==
  ASSUME IInv, NEW w \in Senders, Working(w), Accepted(w)
  PROVE  accepted' \in [Devices -> [Days -> Nat]]
BY AtWork DEF IInv, TypeOK, Accepted

LEMMA CancelJobInv ==
  ASSUME IInv, NEW w \in Senders, CancelJob(w)
  PROVE  IInv'
<1> DEFINE job == [Job(w) EXCEPT !.status = "cancelled"]
<1>1. Working(w) /\ Settle(w, job) /\ Unlock(w) /\ NextJob(w)
  BY DEF CancelJob, Working
<1>2. job \in Delivery /\ job.status = "cancelled"
  BY <1>1, AtWork DEF Delivery, Outcome
<1>3. pushes' = pushes /\ accepted' = accepted /\ UNCHANGED <<clock, ownerVars, found, news, crashes>>
  BY DEF CancelJob
<1>4. accepted' \in [Devices -> [Days -> Nat]]
  BY <1>3 DEF IInv, TypeOK
<1> HIDE DEF job
<1>5. QED
  BY <1>1, <1>2, <1>3, <1>4, SettleInv

LEMMA PushAcceptedInv ==
  ASSUME IInv, NEW w \in Senders, PushAccepted(w)
  PROVE  IInv'
<1> DEFINE job == [Job(w) EXCEPT !.status = "sent", !.attempts = @ + 1]
<1>1. Working(w) /\ Settle(w, job) /\ Unlock(w) /\ NextJob(w)
  BY DEF PushAccepted, Working
<1>2. job \in Delivery /\ job.status = "sent"
  <2>1. Job(w) \in Delivery /\ Job(w).attempts + 1 \in 0 .. MaxAttempts
    BY <1>1, AtWork, DigestAssumption
  <2>2. QED
    BY <2>1 DEF Delivery, Outcome
<1>3. /\ accepted' \in [Devices -> [Days -> Nat]]
      /\ pushes' = pushes /\ UNCHANGED <<clock, ownerVars, found, news, crashes>>
  BY <1>1, AcceptedType DEF PushAccepted
<1> HIDE DEF job
<1>4. QED
  BY <1>1, <1>2, <1>3, SettleInv

LEMMA AfterFailureType ==
  ASSUME NEW job \in Delivery, NEW now \in Nat, job.attempts < MaxAttempts, job.status = "pending"
  PROVE  /\ AfterFailure(job, now) \in Delivery
         /\ AfterFailure(job, now).status \in {"pending", "failed"}
         /\ AfterFailure(job, now).status = "pending" => AfterFailure(job, now).attempts < MaxAttempts
<1> DEFINE tried == job.attempts + 1
<1>1. /\ tried \in 0 .. MaxAttempts /\ now + tried \in Nat
      /\ ~ tried >= MaxAttempts => tried < MaxAttempts
  BY DigestAssumption DEF Delivery
<1> HIDE DEF tried
<1>2. AfterFailure(job, now) = IF tried >= MaxAttempts
        THEN [job EXCEPT !.attempts = tried, !.status = "failed"]
        ELSE [job EXCEPT !.attempts = tried, !.next = now + tried]
  BY DEF AfterFailure, tried
<1>3. CASE tried >= MaxAttempts
  BY <1>1, <1>2, <1>3 DEF Delivery, Outcome
<1>4. CASE ~ tried >= MaxAttempts
  BY <1>1, <1>2, <1>4 DEF Delivery, Outcome
<1>5. QED
  BY <1>3, <1>4

LEMMA PushRefusedInv ==
  ASSUME IInv, NEW w \in Senders, PushRefused(w)
  PROVE  IInv'
<1>1. At(w, "send") /\ Working(w) /\ Unlock(w) /\ NextJob(w)
  BY DEF PushRefused, Working
<1>2. /\ accepted' \in [Devices -> [Days -> Nat]]
      /\ pushes' = pushes /\ UNCHANGED <<clock, ownerVars, found, news, crashes>>
  BY DEF PushRefused, IInv, TypeOK
<1>3. ASSUME NEW job, Settle(w, job), job = [Job(w) EXCEPT !.status = "failed", !.attempts = @ + 1]
      PROVE  IInv'
  <2>1. Job(w) \in Delivery /\ Job(w).attempts + 1 \in 0 .. MaxAttempts
    BY <1>1, AtWork, DigestAssumption
  <2>2. job \in Delivery /\ job.status = "failed"
    BY <1>3, <2>1 DEF Delivery, Outcome
  <2>3. QED
    BY <1>1, <1>2, <1>3, <2>2, SettleInv
<1>4. CASE Settle(w, AfterFailure(Job(w), sender[w].now))
  <2>1. /\ Job(w) \in Delivery /\ sender[w].now \in Nat /\ Job(w).status = "pending"
        /\ Job(w).attempts < MaxAttempts
    BY <1>1, AtWork, DigestAssumption
  <2>2. PICK job \in Delivery : /\ job = AfterFailure(Job(w), sender[w].now)
                                /\ job.status = "pending" => job.attempts < MaxAttempts
    BY <2>1, AfterFailureType
  <2>3. QED
    BY <1>1, <1>2, <1>4, <2>2, SettleInv
<1>5. QED
  BY <1>3, <1>4 DEF PushRefused

LEMMA DeviceExpiredInv ==
  ASSUME IInv, NEW w \in Senders, DeviceExpired(w)
  PROVE  IInv'
<1> USE DEF IInv
<1> DEFINE d == sender[w].device
<1>1. Working(w) /\ d \in Devices /\ OwnerOf(w) \in Owners
  BY AtWork DEF DeviceExpired, Working, Held
<1>2. /\ sender' \in [Senders -> Cycle]
      /\ sender'[w].pc = "pick"
      /\ \A v \in Senders \ {w} : sender'[v] = sender[v]
  BY NextJobType DEF DeviceExpired
<1>3. /\ lock' \in [Owners -> Senders \cup {Free, Other}]
      /\ \A o \in Owners : o # OwnerOf(w) => lock'[o] = lock[o]
  BY DEF DeviceExpired, Unlock, TypeOK
<1>4. /\ holder' \in [Devices -> Owners \cup {NoOwner}]
      /\ outbox' \in [Devices -> [Days -> Delivery]]
      /\ pushes' \in [Devices -> [Days -> Nat]]
      /\ accepted' \in [Devices -> [Days -> Nat]]
      /\ holder'[d] \notin Owners
      /\ \A day \in Days : outbox'[d][day] = NoDelivery
      /\ \A e \in Devices \ {d} : holder'[e] = holder[e] /\ outbox'[e] = outbox[e]
  BY <1>1, ForgetType, DigestAssumption DEF DeviceExpired
<1>5. UNCHANGED <<clock, enabled, schedule, tested, testing, news, crashes>>
  BY DEF DeviceExpired
<1> HIDE DEF d
<1>6. TypeOK'
  BY <1>2, <1>3, <1>4, <1>5 DEF TypeOK, DeviceExpired, Forget, Deletion
<1>7. Held'
  <2> SUFFICES ASSUME NEW v \in Senders, Working(v)'
               PROVE  /\ OwnerOf(v)' \in Owners
                      /\ lock'[OwnerOf(v)'] = v
                      /\ Job(v)'.status = "pending"
                      /\ At(v, "send")' => OwnerOf(v)' \in enabled'
    BY DEF Held
  <2>1. v # w /\ sender'[v] = sender[v] /\ Working(v)
    BY <1>2 DEF Working, At
  <2>2. OwnerOf(v) # OwnerOf(w) /\ sender[v].device # d /\ sender[v].device \in Devices
    BY <1>1, <2>1, Apart, AtWork DEF d
  <2>3. QED
    BY <1>3, <1>4, <1>5, <2>1, <2>2 DEF Held, At, OwnerOf, Job
<1>8. AttemptsLeft'
  BY <1>4 DEF AttemptsLeft, NoDelivery
<1>9. OptOutHolds'
  <2> SUFFICES ASSUME NEW p \in Owners \ enabled
               PROVE  /\ \A e \in Devices, day \in Days : holder'[e] = p => outbox'[e][day].status # "pending"
                      /\ \A v \in Senders : ~(At(v, "send")' /\ OwnerOf(v)' = p)
    BY <1>5 DEF OptOutHolds
  <2>1. QED
    BY <1>4, <1>5, <1>7 DEF OptOutHolds, Held, Working
<1>10. QED
  BY <1>6, <1>7, <1>8, <1>9

LEMMA CrashInv ==
  ASSUME IInv, NEW w \in Senders, Crash(w)
  PROVE  IInv'
<1> USE DEF IInv
<1>1. /\ sender' \in [Senders -> Cycle]
      /\ sender'[w] = Resting
      /\ \A v \in Senders \ {w} : sender'[v] = sender[v]
  BY RestingType, BecomeType DEF Crash
<1>2. /\ lock' \in [Owners -> Senders \cup {Free, Other}]
      /\ \A o \in Owners : o # OwnerOf(w) => lock'[o] = lock[o]
  BY DEF Crash, Unlock, TypeOK
<1>3. Working(w)
  BY DEF Crash, Working
<1>4. accepted' \in [Devices -> [Days -> Nat]]
  BY <1>3, AcceptedType DEF Crash, TypeOK
<1>5. crashes' \in 0 .. MaxCrashes /\ UNCHANGED <<clock, ownerVars, outbox, pushes, found, news>>
  BY DigestAssumption DEF Crash, TypeOK
<1>6. TypeOK'
  BY <1>1, <1>2, <1>4, <1>5 DEF TypeOK, ownerVars
<1>7. Held'
  <2> SUFFICES ASSUME NEW v \in Senders, Working(v)'
               PROVE  /\ OwnerOf(v)' \in Owners
                      /\ lock'[OwnerOf(v)'] = v
                      /\ Job(v)'.status = "pending"
                      /\ At(v, "send")' => OwnerOf(v)' \in enabled'
    BY DEF Held
  <2>1. v # w /\ sender'[v] = sender[v] /\ Working(v)
    BY <1>1 DEF Working, At, Resting
  <2>2. OwnerOf(v) # OwnerOf(w)
    BY <1>3, <2>1, Apart
  <2>3. QED
    BY <1>2, <1>5, <2>1, <2>2 DEF Held, At, OwnerOf, Job, ownerVars
<1>8. AttemptsLeft' /\ OptOutHolds'
  BY <1>1, <1>5 DEF AttemptsLeft, OptOutHolds, At, OwnerOf, Resting, ownerVars
<1>9. QED
  BY <1>6, <1>7, <1>8

-----------------------------------------------------------------------------
(* The whole system                                                        *)

LEMMA WorldInv == IInv /\ World => IInv'
<1> SUFFICES ASSUME IInv, World PROVE IInv'
  OBVIOUS
<1> USE DEF IInv
<1>1. CASE Tick
  <2>1. TypeOK'
    BY <1>1, DigestAssumption DEF Tick, TypeOK, outboxVars
  <2>2. QED
    BY <1>1, <2>1 DEF Tick, OptOutHolds, Held, AttemptsLeft, Working, At, OwnerOf, Job, outboxVars
<1>2. CASE NewsChange
  <2>1. TypeOK'
    BY <1>2 DEF NewsChange, TypeOK, ownerVars, outboxVars
  <2>2. QED
    BY <1>2, <2>1 DEF NewsChange, OptOutHolds, Held, AttemptsLeft, Working, At, OwnerOf, Job,
                      ownerVars, outboxVars
<1>3. ASSUME NEW o \in Owners, OtherLock(o) \/ OtherUnlock(o) PROVE IInv'
  <2>1. /\ lock[o] \notin Senders
        /\ lock' = [lock EXCEPT ![o] = Other] \/ lock' = [lock EXCEPT ![o] = Free]
        /\ UNCHANGED <<clock, ownerVars, outboxVars, sender, found, news, crashes>>
    BY <1>3, DigestAssumption DEF OtherLock, OtherUnlock, Unlocked
  <2>2. TypeOK'
    BY <2>1 DEF TypeOK, ownerVars, outboxVars
  <2>3. Held'
    BY <2>1 DEF Held, TypeOK, Working, At, OwnerOf, Job, ownerVars, outboxVars
  <2>4. OptOutHolds' /\ AttemptsLeft'
    BY <2>1 DEF OptOutHolds, AttemptsLeft, At, OwnerOf, ownerVars, outboxVars
  <2>5. QED
    BY <2>2, <2>3, <2>4
<1>4. QED
  BY <1>1, <1>2, <1>3 DEF World

LEMMA StepInv == IInv /\ Subscribed /\ [Next]_vars => IInv'
<1> SUFFICES ASSUME IInv, Subscribed, [Next]_vars PROVE IInv'
  OBVIOUS
<1>1. ASSUME NEW w \in Senders, SenderStep(w) PROVE IInv'
  BY <1>1, PassingOnInv, PurgeInv, QueueOwnerInv, LockJobInv, CancelJobInv, SendPushInv,
     PushAcceptedInv, DeviceExpiredInv, PushRefusedInv DEF SenderStep
<1>2. CASE UNCHANGED vars
  BY <1>2 DEF IInv, TypeOK, OptOutHolds, Held, AttemptsLeft, Working, At, OwnerOf, Job, vars,
              ownerVars, outboxVars
<1>3. QED
  BY <1>1, <1>2, RequestInv, WorldInv, CrashInv DEF Next

LEMMA SettleSubscribed ==
  ASSUME IInv, Subscribed, NEW w \in Senders, Working(w), NEW job, Settle(w, job), holder' = holder
  PROVE  Subscribed'
<1>1. /\ sender[w].device \in Devices /\ sender[w].day \in Days
      /\ outbox[sender[w].device][sender[w].day].status # "none"
  BY AtWork DEF Job
<1>2. \A d \in Devices, day \in Days :
        d # sender[w].device \/ day # sender[w].day => outbox'[d][day] = outbox[d][day]
  BY <1>1 DEF Settle, IInv, TypeOK
<1>3. QED
  BY <1>1, <1>2 DEF Subscribed

LEMMA SubscribedStep == IInv /\ Subscribed /\ [Next]_vars => Subscribed'
<1> SUFFICES ASSUME IInv, Subscribed, [Next]_vars PROVE Subscribed'
  OBVIOUS
<1>1. CASE UNCHANGED <<outbox, holder>>
  BY <1>1 DEF Subscribed
<1>2. ASSUME NEW d \in Devices, Forget(d) PROVE Subscribed'
  <2>1. /\ \A day \in Days : outbox'[d][day].status = "none"
        /\ \A e \in Devices \ {d} : holder'[e] = holder[e] /\ outbox'[e] = outbox[e]
    BY <1>2, ForgetType DEF IInv, NoDelivery
  <2>2. QED
    BY <2>1 DEF Subscribed
<1>3. ASSUME NEW o \in Owners, NEW on \in BOOLEAN, NEW s \in Schedules, SavePreferences(o, on, s)
      PROVE  Subscribed'
  <2>1. holder' = holder /\ (outbox' = outbox \/ outbox' = Withdrawn(o))
    BY <1>3 DEF SavePreferences
  <2>2. QED
    BY <2>1 DEF Subscribed, Withdrawn, NoDelivery
<1>4. ASSUME NEW o \in Owners, NEW d \in Devices,
             \/ SaveSubscription(o, d) \/ RemoveSubscription(o, d)
             \/ BeginTest(o, d) \/ FinishTest(o, d)
      PROVE  Subscribed'
  <2>1. CASE SaveSubscription(o, d)
    <3>1. outbox' = outbox /\ \A e \in Devices : holder[e] \in Owners => holder'[e] \in Owners
      BY <2>1 DEF SaveSubscription, outboxVars, IInv, TypeOK
    <3>2. QED
      BY <3>1 DEF Subscribed
  <2>2. QED
    BY <1>1, <1>2, <1>4, <2>1 DEF RemoveSubscription, BeginTest, FinishTest, outboxVars
<1>5. CASE World
  BY <1>1, <1>5 DEF World, Tick, NewsChange, OtherLock, OtherUnlock, ownerVars, outboxVars
<1>6. ASSUME NEW w \in Senders, SenderStep(w) PROVE Subscribed'
  <2>1. CASE StartCycle(w) \/ StartBatch(w) \/ Pick(w) \/ SkipJob(w) \/ LockJob(w) \/ SendPush(w)
    BY <1>1, <2>1 DEF StartCycle, StartBatch, Pick, SkipJob, LockJob, SendPush, ownerVars, outboxVars
  <2>2. CASE Purge(w)
    BY <2>2 DEF Purge, Subscribed, NoDelivery, ownerVars
  <2>3. ASSUME NEW o \in Owners, QueueOwner(w, o) PROVE Subscribed'
    <3>1. holder' = holder /\ (outbox' = outbox \/ \E day \in Days : outbox' = Queued(o, day, sender[w].now))
      BY <2>3 DEF QueueOwner, ownerVars
    <3>2. CASE \E day \in Days : outbox' = Queued(o, day, sender[w].now)
      BY <3>1, <3>2 DEF Queued, Subscribed, IInv, TypeOK
    <3>3. QED
      BY <1>1, <3>1, <3>2
  <2>4. CASE CancelJob(w) \/ PushAccepted(w) \/ PushRefused(w)
    BY <2>4, SettleSubscribed DEF CancelJob, PushAccepted, PushRefused, Working, ownerVars
  <2>5. CASE DeviceExpired(w)
    BY <2>5, <1>2, AtWork DEF DeviceExpired, Working
  <2>6. QED
    BY <1>6, <2>1, <2>2, <2>3, <2>4, <2>5 DEF SenderStep
<1>7. ASSUME NEW w \in Senders, Crash(w) PROVE Subscribed'
  BY <1>1, <1>7 DEF Crash, ownerVars
<1>8. CASE UNCHANGED vars
  BY <1>1, <1>8 DEF vars, ownerVars, outboxVars
<1>9. CASE Request
  BY <1>3, <1>4, <1>9 DEF Request
<1>10. QED
  BY <1>5, <1>6, <1>7, <1>8, <1>9 DEF Next

LEMMA Invariance == Spec => [](IInv /\ Subscribed)
<1>1. Init => Subscribed
  BY DEF Init, Subscribed, NoDelivery
<1>2. QED
  BY <1>1, InitInv, StepInv, SubscribedStep, PTL DEF Spec

\* Preferences, devices, deliveries, locks and senders keep their types, whatever
\* the owners, senders and their number.
THEOREM TypeCorrect == Spec => []TypeOK
<1>1. IInv => TypeOK
  BY DEF IInv
<1>2. QED
  BY <1>1, Invariance, PTL

\* save_preferences and process_notifications meet on the owner's row: after an
\* opt-out nothing is pending and nothing is pushed.
THEOREM OptOutIsFinal == Spec => []OptOutHolds
<1>1. IInv => OptOutHolds
  BY DEF IInv
<1>2. QED
  BY <1>1, Invariance, PTL

-----------------------------------------------------------------------------
(* Settled deliveries                                                      *)

KeepsOutcomes ==
  \A d \in Devices, day \in Days :
    outbox[d][day].status \in Outcome =>
      outbox'[d][day].status \in {outbox[d][day].status, "none"}

LEMMA SettleKeeps ==
  ASSUME IInv, NEW w \in Senders, Working(w), NEW job, Settle(w, job)
  PROVE  KeepsOutcomes
<1>1. Job(w).status \notin Outcome
  BY AtWork DEF Outcome
<1>2. \A d \in Devices, day \in Days :
        d # sender[w].device \/ day # sender[w].day => outbox'[d][day] = outbox[d][day]
  BY AtWork DEF Settle, IInv, TypeOK
<1>3. QED
  BY <1>1, <1>2 DEF KeepsOutcomes, Job

LEMMA ForgetKeeps ==
  ASSUME IInv, NEW d \in Devices, Forget(d)
  PROVE  KeepsOutcomes
<1>1. /\ \A day \in Days : outbox'[d][day] = NoDelivery
      /\ \A e \in Devices \ {d} : outbox'[e] = outbox[e]
  BY ForgetType DEF IInv
<1>2. QED
  BY <1>1 DEF KeepsOutcomes, NoDelivery

LEMMA StepKeeps == IInv /\ [Next]_vars => KeepsOutcomes
<1> SUFFICES ASSUME IInv, [Next]_vars PROVE KeepsOutcomes
  OBVIOUS
<1>1. CASE outbox' = outbox
  BY <1>1 DEF KeepsOutcomes
<1>2. ASSUME NEW o \in Owners, NEW on \in BOOLEAN, NEW s \in Schedules, SavePreferences(o, on, s)
      PROVE  KeepsOutcomes
  <2>1. outbox' = outbox \/ outbox' = Withdrawn(o)
    BY <1>2 DEF SavePreferences
  <2>2. QED
    BY <2>1 DEF KeepsOutcomes, Withdrawn, Outcome
<1>3. ASSUME NEW d \in Devices, Forget(d) PROVE KeepsOutcomes
  BY <1>3, ForgetKeeps
<1>4. CASE Request
  <2>1. ASSUME NEW o \in Owners, NEW d \in Devices,
               SaveSubscription(o, d) \/ BeginTest(o, d)
        PROVE  KeepsOutcomes
    BY <1>1, <2>1 DEF SaveSubscription, BeginTest, outboxVars
  <2>2. ASSUME NEW o \in Owners, NEW d \in Devices,
               RemoveSubscription(o, d) \/ FinishTest(o, d)
        PROVE  KeepsOutcomes
    BY <1>1, <1>3, <2>2 DEF RemoveSubscription, FinishTest, outboxVars
  <2>3. QED
    BY <1>2, <1>4, <2>1, <2>2 DEF Request
<1>5. CASE World
  BY <1>1, <1>5 DEF World, Tick, NewsChange, OtherLock, OtherUnlock, outboxVars
<1>6. ASSUME NEW w \in Senders, SenderStep(w) PROVE KeepsOutcomes
  <2>1. CASE StartCycle(w) \/ StartBatch(w) \/ Pick(w) \/ SkipJob(w) \/ LockJob(w) \/ SendPush(w)
    BY <1>1, <2>1 DEF StartCycle, StartBatch, Pick, SkipJob, LockJob, SendPush, outboxVars
  <2>2. CASE Purge(w)
    BY <2>2 DEF Purge, KeepsOutcomes, NoDelivery
  <2>3. ASSUME NEW o \in Owners, QueueOwner(w, o) PROVE KeepsOutcomes
    <3>1. CASE \E day \in Days : outbox' = Queued(o, day, sender[w].now)
      BY <3>1 DEF Queued, KeepsOutcomes, IInv, TypeOK, Outcome
    <3>2. QED
      BY <1>1, <2>3, <3>1 DEF QueueOwner
  <2>4. CASE CancelJob(w) \/ PushAccepted(w) \/ PushRefused(w)
    BY <2>4, SettleKeeps DEF CancelJob, PushAccepted, PushRefused, Working
  <2>5. CASE DeviceExpired(w)
    BY <2>5, <1>3, AtWork DEF DeviceExpired, Working
  <2>6. QED
    BY <1>6, <2>1, <2>2, <2>3, <2>4, <2>5 DEF SenderStep
<1>7. ASSUME NEW w \in Senders, Crash(w) PROVE KeepsOutcomes
  BY <1>1, <1>7 DEF Crash
<1>8. CASE UNCHANGED vars
  BY <1>1, <1>8 DEF vars, outboxVars
<1>9. QED
  BY <1>4, <1>5, <1>6, <1>7, <1>8 DEF Next

\* on_conflict_do_nothing and the status test under the lock: what was sent,
\* failed or cancelled stays so until its receipt is purged or its device goes.
THEOREM OutcomesAreFinal == Spec => DeliveriesAreFinal
<1>1. IInv /\ [Next]_vars => [KeepsOutcomes]_vars
  BY StepKeeps
<1>2. QED
  BY <1>1, Invariance, PTL DEF Spec, DeliveriesAreFinal, KeepsOutcomes

-----------------------------------------------------------------------------
(* How often a device is pushed to                                         *)

Flying(d, day) == \E w \in Senders : At(w, "send") /\ sender[w].device = d /\ sender[w].day = day

UnderWay(d, day) == IF Flying(d, day) THEN 1 ELSE 0

\* What a delivery's row says of its pushes: all but one for each crash are counted
\* as attempts, but for the one under way; and none was accepted before it was sent.
Told(d, day) ==
  LET job == outbox[d][day] IN
  IF job.status = "none" THEN pushes[d][day] = 0 /\ accepted[d][day] <= crashes
  ELSE /\ pushes[d][day] <= job.attempts + UnderWay(d, day) + crashes
       /\ accepted[d][day] <= (IF job.status = "sent" THEN 1 ELSE 0) + crashes

\* A sender that has the row of a delivery before it.
LooksAt(w, d, day) ==
  /\ (At(w, "lock") /\ w \in found) \/ Working(w)
  /\ sender[w].device = d /\ sender[w].day = day

\* A sender at whose moment receipts of a day may be purged pushes nothing of that day.
Late(w, day) == ~ At(w, "send") /\ day < sender[w].now \div DayLength - KeepDays

\* Once a row may have been purged, a row of the same day says nothing; but the day
\* is over for every sender that finds it.
Forgotten(d, day) == Old(day) /\ \A w \in Senders : LooksAt(w, d, day) => Late(w, day)

Bounded(d, day) == accepted[d][day] <= 1 + crashes /\ pushes[d][day] <= MaxAttempts + crashes

Kept(d, day) == Bounded(d, day) /\ (Told(d, day) \/ Forgotten(d, day))

BInv == \A d \in Devices, day \in Days : Kept(d, day)

LEMMA InitBounds == Init => BInv
BY DigestAssumption DEF Init, BInv, Kept, Bounded, Told, NoDelivery

LEMMA UnderWayType ==
  ASSUME NEW d, NEW day
  PROVE  UnderWay(d, day) \in {0, 1} /\ UnderWay(d, day)' \in {0, 1}
BY DEF UnderWay

\* The numbers that a row is about.
LEMMA Counts ==
  ASSUME TypeOK, NEW d \in Devices, NEW day \in Days
  PROVE  /\ outbox[d][day] \in Delivery /\ outbox[d][day].attempts \in Nat
         /\ pushes[d][day] \in Nat /\ accepted[d][day] \in Nat /\ crashes \in Nat
         /\ MaxAttempts \in Nat
BY DigestAssumption DEF TypeOK, Delivery

\* While a sender works on a delivery it is alone with the device.
LEMMA Alone ==
  ASSUME IInv, NEW w \in Senders, Working(w)
  PROVE  Flying(sender[w].device, sender[w].day) <=> At(w, "send")
BY Apart DEF Flying, Working

\* A sender that stops working leaves nothing under way behind.
LEMMA Leaving ==
  ASSUME IInv, NEW w \in Senders, Working(w), sender'[w].pc # "send",
         \A v \in Senders \ {w} : sender'[v] = sender[v],
         NEW d \in Devices, NEW day \in Days
  PROVE  /\ d = sender[w].device => ~ Flying(d, day)'
         /\ d # sender[w].device \/ day # sender[w].day => (Flying(d, day)' <=> Flying(d, day))
<1>1. ASSUME NEW v \in Senders, At(v, "send")'
      PROVE  At(v, "send") /\ sender'[v] = sender[v] /\ sender[v].device # sender[w].device
  <2>1. v # w /\ sender'[v] = sender[v] /\ At(v, "send")
    BY <1>1 DEF At
  <2>2. QED
    BY <2>1, Apart DEF Working
<1>2. ASSUME NEW v \in Senders, At(v, "send")
      PROVE  v = w \/ (At(v, "send")' /\ sender'[v] = sender[v])
  BY <1>2 DEF At
<1>3. QED
  BY <1>1, <1>2 DEF Flying

-----------------------------------------------------------------------------

LEMMA Div ==
  ASSUME NEW a \in Nat, NEW b \in Nat, a <= b
  PROVE  a \div DayLength <= b \div DayLength /\ a \div DayLength \in Nat
BY DigestAssumption

LEMMA OldStays ==
  ASSUME TypeOK, TypeOK', NEW day \in Days, Old(day), clock <= clock'
  PROVE  Old(day)'
<1>1. clock \in Nat /\ clock' \in Nat /\ KeepDays \in Int /\ day \in Int
  BY DigestAssumption DEF TypeOK, Days
<1>2. /\ clock \div DayLength <= clock' \div DayLength
      /\ clock \div DayLength \in Int /\ clock' \div DayLength \in Int
  BY <1>1, Div
<1>3. QED
  BY <1>1, <1>2 DEF Old

\* No sender looks at a row it did not look at before.
LEMMA ForgottenStays ==
  ASSUME IInv, IInv', NEW d \in Devices, NEW day \in Days, Forgotten(d, day),
         clock <= clock', sender' = sender, found' \subseteq found
  PROVE  Forgotten(d, day)'
<1>1. Old(day)'
  BY OldStays DEF Forgotten, IInv
<1>2. ASSUME NEW w \in Senders, LooksAt(w, d, day)' PROVE Late(w, day)'
  <2>1. LooksAt(w, d, day)
    BY <1>2 DEF LooksAt, Working, At
  <2>2. QED
    BY <2>1 DEF Forgotten, Late, At
<1>3. QED
  BY <1>1, <1>2 DEF Forgotten

\* One sender moves on, and is late where it looks.
LEMMA ForgottenByAll ==
  ASSUME IInv, IInv', NEW d \in Devices, NEW day \in Days, Forgotten(d, day), NEW w \in Senders,
         clock' = clock, found' \subseteq found \cup {w},
         \A v \in Senders \ {w} : sender'[v] = sender[v],
         LooksAt(w, d, day)' => Late(w, day)'
  PROVE  Forgotten(d, day)'
<1>1. Old(day)'
  BY DEF Forgotten, Old
<1>2. ASSUME NEW v \in Senders \ {w}, LooksAt(v, d, day)' PROVE Late(v, day)'
  <2>1. LooksAt(v, d, day)
    BY <1>2 DEF LooksAt, Working, At
  <2>2. QED
    BY <2>1 DEF Forgotten, Late, At
<1>3. QED
  BY <1>1, <1>2 DEF Forgotten

-----------------------------------------------------------------------------

\* A delivery that a step leaves alone.
LEMMA SameBounds ==
  ASSUME NEW d \in Devices, NEW day \in Days, Kept(d, day),
         outbox'[d][day] = outbox[d][day], pushes'[d][day] = pushes[d][day],
         accepted'[d][day] = accepted[d][day], crashes' = crashes,
         Flying(d, day)' <=> Flying(d, day), Forgotten(d, day) => Forgotten(d, day)'
  PROVE  Kept(d, day)'
BY DEF Kept, Bounded, Told, UnderWay

\* A delivery that is removed with its history.
LEMMA ResetBounds ==
  ASSUME TypeOK', NEW d \in Devices, NEW day \in Days,
         outbox'[d][day] = NoDelivery, pushes'[d][day] = 0, accepted'[d][day] <= crashes'
  PROVE  Kept(d, day)'
<1>1. accepted'[d][day] \in Nat /\ crashes' \in Nat /\ MaxAttempts \in Nat
  BY DigestAssumption DEF TypeOK
<1>2. Bounded(d, day)'
  <2>1. 0 <= MaxAttempts + crashes' /\ accepted'[d][day] <= 1 + crashes'
    BY <1>1
  <2>2. QED
    BY <2>1 DEF Bounded
<1>3. outbox'[d][day].status = "none"
  BY DEF NoDelivery
<1>4. QED
  BY <1>2, <1>3 DEF Kept, Told

\* A step that touches no delivery and no sender.
LEMMA QuietBounds ==
  ASSUME IInv, IInv', BInv, UNCHANGED <<outboxVars, sender, found, crashes>>, clock <= clock'
  PROVE  BInv'
<1>1. ASSUME NEW d \in Devices, NEW day \in Days PROVE Kept(d, day)'
  <2>1. Flying(d, day)' <=> Flying(d, day)
    BY DEF Flying, At
  <2>2. Forgotten(d, day) => Forgotten(d, day)'
    BY ForgottenStays
  <2>3. QED
    BY <2>1, <2>2, SameBounds DEF BInv, outboxVars
<1>2. QED
  BY <1>1 DEF BInv

LEMMA ForgetBounds ==
  ASSUME IInv, IInv', BInv, NEW d \in Devices, Forget(d), crashes' = crashes,
         \A e \in Devices \ {d}, day \in Days :
           (Flying(e, day)' <=> Flying(e, day)) /\ (Forgotten(e, day) => Forgotten(e, day)')
  PROVE  BInv'
<1>1. /\ \A day \in Days : outbox'[d][day] = NoDelivery /\ pushes'[d][day] = 0 /\ accepted'[d][day] = 0
      /\ \A e \in Devices \ {d} : /\ outbox'[e] = outbox[e] /\ pushes'[e] = pushes[e]
                                  /\ accepted'[e] = accepted[e]
  BY DEF Forget, IInv, TypeOK
<1>2. ASSUME NEW day \in Days PROVE Kept(d, day)'
  BY <1>1, ResetBounds DEF IInv, TypeOK
<1>3. ASSUME NEW e \in Devices \ {d}, NEW day \in Days PROVE Kept(e, day)'
  BY <1>1, SameBounds DEF BInv
<1>4. QED
  BY <1>2, <1>3 DEF BInv

LEMMA SavePreferencesBounds ==
  ASSUME IInv, IInv', BInv, NEW o \in Owners, NEW on \in BOOLEAN, NEW s \in Schedules,
         SavePreferences(o, on, s)
  PROVE  BInv'
<1>1. UNCHANGED <<clock, accepted, sender, crashes>> /\ found' \subseteq found
  BY DEF SavePreferences, Deletion
<1>2. clock <= clock'
  BY <1>1, DigestAssumption DEF IInv, TypeOK
<1>3. ASSUME NEW d \in Devices, NEW day \in Days PROVE Kept(d, day)'
  <2>0. Forgotten(d, day) => Forgotten(d, day)'
    BY <1>1, <1>2, ForgottenStays
  <2>1. /\ pushes'[d][day] = IF outbox'[d][day] = outbox[d][day] THEN pushes[d][day] ELSE 0
        /\ outbox'[d][day] = outbox[d][day] \/
             (outbox[d][day].status = "pending" /\ outbox'[d][day] = NoDelivery)
    BY DEF SavePreferences, Withdrawn, IInv, TypeOK
  <2>2. CASE outbox'[d][day] = outbox[d][day]
    BY <1>1, <2>0, <2>1, <2>2, SameBounds DEF BInv, Flying, At
  <2>3. CASE outbox'[d][day] # outbox[d][day]
    <3>1. CASE Told(d, day)
      <4>1. accepted'[d][day] <= crashes'
        BY <1>1, <2>1, <2>3, <3>1, Counts DEF Told, IInv
      <4>2. QED
        BY <2>1, <2>3, <4>1, ResetBounds DEF IInv
    <3>2. CASE Forgotten(d, day)
      <4>1. pushes'[d][day] = 0 /\ MaxAttempts \in Nat /\ crashes \in Nat /\ crashes' = crashes
        BY <1>1, <2>1, <2>3, Counts DEF IInv
      <4>2. Bounded(d, day)'
        BY <1>1, <4>1 DEF Bounded, BInv, Kept
      <4>3. QED
        BY <2>0, <3>2, <4>2 DEF Kept
    <3>3. QED
      BY <3>1, <3>2 DEF BInv, Kept
  <2>4. QED
    BY <2>2, <2>3
<1>4. QED
  BY <1>3 DEF BInv

LEMMA RequestBounds ==
  ASSUME IInv, IInv', BInv, Request
  PROVE  BInv'
<1>0. ASSUME clock' = clock PROVE clock <= clock'
  BY <1>0, DigestAssumption DEF IInv, TypeOK
<1>1. ASSUME NEW o \in Owners, NEW on \in BOOLEAN, NEW s \in Schedules, SavePreferences(o, on, s)
      PROVE  BInv'
  BY <1>1, SavePreferencesBounds
<1>2. ASSUME NEW d \in Devices, Forget(d), UNCHANGED <<clock, sender, crashes>> PROVE BInv'
  <2>1. found' \subseteq found
    BY <1>2 DEF Forget, Deletion
  <2>2. \A e \in Devices, day \in Days :
          (Flying(e, day)' <=> Flying(e, day)) /\ (Forgotten(e, day) => Forgotten(e, day)')
    BY <1>0, <1>2, <2>1, ForgottenStays DEF Flying, At
  <2>3. QED
    BY <1>2, <2>2, ForgetBounds
<1>3. ASSUME UNCHANGED <<clock, outboxVars, sender, found, crashes>> PROVE BInv'
  BY <1>0, <1>3, QuietBounds
<1>4. ASSUME NEW o \in Owners, NEW d \in Devices,
             \/ SaveSubscription(o, d) \/ RemoveSubscription(o, d)
             \/ BeginTest(o, d) \/ FinishTest(o, d)
      PROVE  BInv'
  BY <1>2, <1>3, <1>4 DEF SaveSubscription, RemoveSubscription, BeginTest, FinishTest
<1>5. QED
  BY <1>1, <1>4 DEF Request

-----------------------------------------------------------------------------
(* Steps of a sender that has nothing under way                            *)

\* A sender with nothing under way before and after its step.
LEMMA NothingUnderWay ==
  ASSUME NEW w \in Senders, ~ At(w, "send"), ~ At(w, "send")',
         \A v \in Senders \ {w} : sender'[v] = sender[v], NEW d, NEW day
  PROVE  Flying(d, day)' <=> Flying(d, day)
BY DEF Flying, At

\* A candidate of an old day is found too late.
LEMMA PickIsLate ==
  ASSUME IInv, IInv', NEW w \in Senders, Pick(w), NEW day \in Days, Old(day)
  PROVE  Late(w, day)'
<1>1. sender'[w].pc = "lock" /\ sender'[w].now = clock
  BY DEF Pick, Become, IInv, TypeOK, Cycle
<1>2. QED
  BY <1>1 DEF Late, At, Old

LEMMA PassingOnBounds ==
  ASSUME IInv, IInv', BInv, NEW w \in Senders,
         StartCycle(w) \/ StartBatch(w) \/ Pick(w) \/ SkipJob(w) \/ LockJob(w)
  PROVE  BInv'
<1>1. UNCHANGED <<clock, outboxVars, crashes>> /\ found' \subseteq found \cup {w}
  BY DEF StartCycle, StartBatch, Pick, SkipJob, LockJob
<1>2. \A v \in Senders \ {w} : sender'[v] = sender[v]
  BY DEF StartCycle, StartBatch, Pick, SkipJob, LockJob, NextJob, Become, IInv, TypeOK
<1>3. ~ At(w, "send")
  BY DEF StartCycle, StartBatch, Pick, SkipJob, LockJob, At
<1>4. /\ StartCycle(w) => sender'[w].pc = "queue"
      /\ StartBatch(w) \/ SkipJob(w) => sender'[w].pc = "pick"
      /\ Pick(w) => sender'[w].pc = "lock"
      /\ LockJob(w) => sender'[w] = [sender[w] EXCEPT !.pc = "check"] /\ sender'[w].pc = "check"
  <2>1. SkipJob(w) => sender'[w].pc = "pick"
    BY NextJobType DEF SkipJob, IInv
  <2>2. StartCycle(w) => sender'[w].pc = "queue"
    BY DEF StartCycle, Become, IInv, TypeOK, Cycle
  <2>3. StartBatch(w) => sender'[w].pc = "pick"
    BY DEF StartBatch, Become, Resting, IInv, TypeOK
  <2>4. Pick(w) => sender'[w].pc = "lock"
    <3>1. SUFFICES ASSUME NEW c, Become(w, [sender[w] EXCEPT !.pc = "lock", !.now = clock,
                                              !.left = @ - 1, !.device = c[1], !.day = c[2]])
                   PROVE  sender'[w].pc = "lock"
      BY DEF Pick
    <3>2. QED
      BY <3>1 DEF Become, IInv, TypeOK, Cycle
  <2>5. LockJob(w) => sender'[w] = [sender[w] EXCEPT !.pc = "check"] /\ sender'[w].pc = "check"
    BY DEF LockJob, Become, IInv, TypeOK, Cycle
  <2>6. QED
    BY <2>1, <2>2, <2>3, <2>4, <2>5
<1>5. ~ At(w, "send")'
  BY <1>4 DEF At
<1>6. ASSUME NEW d \in Devices, NEW day \in Days, Forgotten(d, day) PROVE Forgotten(d, day)'
  <2>1. LooksAt(w, d, day)' => Late(w, day)'
    <3>1. CASE Pick(w)
      BY <1>6, <3>1, PickIsLate DEF Forgotten
    <3>2. CASE LockJob(w)
      <4>1. /\ sender'[w].device = sender[w].device /\ sender'[w].day = sender[w].day
            /\ sender'[w].now = sender[w].now
        BY <1>4, <3>2 DEF IInv, TypeOK, Cycle
      <4>2. LooksAt(w, d, day)' => LooksAt(w, d, day)
        BY <3>2, <4>1 DEF LockJob, SameJob, LooksAt
      <4>3. QED
        BY <1>5, <1>6, <4>1, <4>2 DEF Forgotten, Late
    <3>3. CASE StartCycle(w) \/ StartBatch(w) \/ SkipJob(w)
      BY <1>4, <3>3 DEF LooksAt, Working, At
    <3>4. QED
      BY <3>1, <3>2, <3>3
  <2>2. QED
    BY <1>1, <1>2, <1>6, <2>1, ForgottenByAll
<1>7. ASSUME NEW d \in Devices, NEW day \in Days PROVE Kept(d, day)'
  BY <1>1, <1>2, <1>3, <1>5, <1>6, NothingUnderWay, SameBounds DEF BInv, outboxVars
<1>8. QED
  BY <1>7 DEF BInv

LEMMA QueueOwnerBounds ==
  ASSUME IInv, IInv', BInv, NEW w \in Senders, NEW o \in Owners, QueueOwner(w, o)
  PROVE  BInv'
<1> DEFINE now == sender[w].now
           fresh == [status |-> "pending", attempts |-> 0, next |-> now]
<1>1. UNCHANGED <<clock, pushes, accepted, found, crashes>>
  BY DEF QueueOwner
<1>2. /\ sender[w].pc = "queue" /\ sender'[w].pc = "queue"
      /\ \A v \in Senders \ {w} : sender'[v] = sender[v]
  BY DEF QueueOwner, Become, At, IInv, TypeOK, Cycle
<1>3. ASSUME NEW d \in Devices, NEW day \in Days
      PROVE  /\ Flying(d, day)' <=> Flying(d, day)
             /\ Forgotten(d, day) => Forgotten(d, day)'
  <2>1. Flying(d, day)' <=> Flying(d, day)
    BY <1>2, NothingUnderWay DEF At
  <2>2. ~ LooksAt(w, d, day)'
    BY <1>2 DEF LooksAt, Working, At
  <2>3. QED
    BY <1>1, <1>2, <2>1, <2>2, ForgottenByAll
<1>4. ASSUME NEW d \in Devices, NEW day \in Days
      PROVE  \/ outbox'[d][day] = outbox[d][day]
             \/ outbox'[d][day] = fresh /\ outbox[d][day].status = "none"
  <2>1. CASE outbox' = outbox
    BY <2>1
  <2>2. CASE outbox' = Queued(o, LocalDay(o, now), now)
    BY <2>2 DEF Queued, IInv, TypeOK
  <2>3. QED
    BY <2>1, <2>2 DEF QueueOwner
<1>5. ASSUME NEW d \in Devices, NEW day \in Days PROVE Kept(d, day)'
  <2>1. CASE outbox'[d][day] = outbox[d][day]
    BY <1>1, <1>3, <2>1, SameBounds DEF BInv
  <2>2. CASE outbox'[d][day] = fresh /\ outbox[d][day].status = "none"
    <3>1. Bounded(d, day)'
      BY <1>1 DEF BInv, Kept, Bounded
    <3>2. CASE Forgotten(d, day)
      BY <1>3, <3>1, <3>2 DEF Kept
    <3>3. CASE Told(d, day)
      <4>1. pushes'[d][day] = 0 /\ accepted'[d][day] <= crashes'
        BY <1>1, <2>2, <3>3 DEF Told
      <4>2. outbox'[d][day].status = "pending" /\ outbox'[d][day].attempts = 0
        BY <2>2
      <4> HIDE DEF fresh
      <4>3. crashes' \in Nat /\ accepted'[d][day] \in Nat
        BY DigestAssumption DEF IInv, TypeOK
      <4>4. 0 <= 0 + UnderWay(d, day)' + crashes' /\ accepted'[d][day] <= 0 + crashes'
        BY <4>1, <4>3, UnderWayType
      <4>5. Told(d, day)'
        BY <4>1, <4>2, <4>4 DEF Told
      <4>6. QED
        BY <3>1, <4>5 DEF Kept
    <3>4. QED
      BY <3>2, <3>3 DEF BInv, Kept
  <2>3. QED
    BY <1>4, <2>1, <2>2
<1>6. QED
  BY <1>5 DEF BInv

\* Nobody is left looking at a row that is purged.
LEMMA PurgeBounds ==
  ASSUME IInv, IInv', BInv, NEW w \in Senders, Purge(w)
  PROVE  BInv'
<1>1. UNCHANGED <<clock, pushes, accepted, crashes>>
  BY DEF Purge
<1>2. /\ sender[w].pc = "pick" /\ sender'[w].pc = "idle"
      /\ \A v \in Senders \ {w} : sender'[v] = sender[v]
  BY DEF Purge, Become, Resting, At, IInv, TypeOK
<1>3. ASSUME NEW d \in Devices, NEW day \in Days PROVE Kept(d, day)'
  <2>0. Flying(d, day)' <=> Flying(d, day)
    BY <1>2, NothingUnderWay DEF At
  <2>1. CASE ~ Old(day)
    <3>1. outbox'[d][day] = outbox[d][day]
      BY <2>1 DEF Purge
    <3>2. QED
      BY <1>1, <2>0, <2>1, <3>1, SameBounds DEF BInv, Forgotten
  <2>2. CASE Old(day)
    <3>1. outbox'[d][day].status = "none" /\ Old(day)'
      BY <1>1, <2>2 DEF Purge, NoDelivery, Old
    <3>2. ASSUME NEW v \in Senders PROVE ~ LooksAt(v, d, day)'
      <4>1. CASE v = w
        BY <1>2, <4>1 DEF LooksAt, Working, At
      <4>2. CASE v # w
        <5>1. sender'[v] = sender[v]
          BY <1>2, <4>2
        <5>2. Working(v) => ~ Old(sender[v].day)
          BY DEF Purge, Working
        <5>3. v \in found' => outbox'[sender[v].device][sender[v].day].status # "none"
          BY DEF Purge, Deletion
        <5>4. QED
          BY <2>2, <3>1, <5>1, <5>2, <5>3 DEF LooksAt, Working, At
      <4>3. QED
        BY <4>1, <4>2
    <3>3. QED
      BY <1>1, <3>1, <3>2 DEF BInv, Kept, Bounded, Forgotten
  <2>3. QED
    BY <2>1, <2>2
<1>4. QED
  BY <1>3 DEF BInv

-----------------------------------------------------------------------------
(* Steps of a sender that works on a delivery                              *)

\* A crash in one place is a crash everywhere, as far as the bounds go.
LEMMA CrashedBounds ==
  ASSUME TypeOK, NEW d \in Devices, NEW day \in Days, Kept(d, day),
         outbox'[d][day] = outbox[d][day], pushes'[d][day] = pushes[d][day],
         accepted'[d][day] = accepted[d][day], crashes' = crashes + 1,
         Forgotten(d, day) => Forgotten(d, day)', Told(d, day) => UnderWay(d, day)' = UnderWay(d, day)
  PROVE  Kept(d, day)'
<1>1. /\ outbox[d][day].attempts \in Nat /\ pushes[d][day] \in Nat /\ accepted[d][day] \in Nat
      /\ crashes \in Nat /\ MaxAttempts \in Nat
  BY Counts
<1>2. UnderWay(d, day) \in Int
  BY UnderWayType
<1>3. Bounded(d, day)'
  BY <1>1 DEF Kept, Bounded
<1>4. Told(d, day) => Told(d, day)'
  BY <1>1, <1>2 DEF Told
<1>5. QED
  BY <1>3, <1>4 DEF Kept

\* The other deliveries, while a sender takes a step on its own.
LEMMA OthersKept ==
  ASSUME IInv, IInv', BInv, NEW w \in Senders, Working(w), clock' = clock, found' \subseteq found,
         crashes' \in {crashes, crashes + 1},
         \A v \in Senders \ {w} : sender'[v] = sender[v],
         NEW d \in Devices, NEW day \in Days, d # sender[w].device \/ day # sender[w].day,
         outbox'[d][day] = outbox[d][day], pushes'[d][day] = pushes[d][day],
         accepted'[d][day] = accepted[d][day],
         Working(w)' => sender'[w].device = sender[w].device /\ sender'[w].day = sender[w].day,
         ~ At(w, "lock")'
  PROVE  Kept(d, day)'
<1>1. Flying(d, day)' <=> Flying(d, day)
  <2>1. ASSUME NEW v \in Senders
        PROVE  (At(v, "send")' /\ sender'[v].device = d /\ sender'[v].day = day)
               <=> (At(v, "send") /\ sender[v].device = d /\ sender[v].day = day)
    <3>1. CASE v = w
      BY <3>1 DEF Working
    <3>2. CASE v # w
      BY <3>2 DEF At
    <3>3. QED
      BY <3>1, <3>2
  <2>2. QED
    BY <2>1 DEF Flying
<1>2. Forgotten(d, day) => Forgotten(d, day)'
  <2>1. ~ LooksAt(w, d, day)'
    BY DEF LooksAt
  <2>2. QED
    BY <2>1, ForgottenByAll
<1>3. QED
  BY <1>1, <1>2, SameBounds, CrashedBounds DEF BInv, IInv, UnderWay

\* A row that tells of every push keeps its delivery within the bounds.
LEMMA ToldIsKept ==
  ASSUME IInv', NEW d \in Devices, NEW day \in Days,
         outbox'[d][day].status # "none",
         pushes'[d][day] <= outbox'[d][day].attempts + UnderWay(d, day)' + crashes',
         Flying(d, day)' => outbox'[d][day].status = "pending",
         accepted'[d][day] <= (IF outbox'[d][day].status = "sent" THEN 1 ELSE 0) + crashes'
  PROVE  Kept(d, day)'
<1>1. /\ outbox'[d][day].attempts \in 0 .. MaxAttempts /\ pushes'[d][day] \in Nat
      /\ accepted'[d][day] \in Nat /\ crashes' \in Nat /\ MaxAttempts \in Nat
  BY DigestAssumption DEF IInv, TypeOK, Delivery
<1>2. outbox'[d][day].attempts + UnderWay(d, day)' <= MaxAttempts
  <2>1. CASE Flying(d, day)'
    <3>1. outbox'[d][day].attempts < MaxAttempts
      BY <2>1 DEF IInv, AttemptsLeft
    <3>2. QED
      BY <1>1, <3>1, UnderWayType
  <2>2. CASE ~ Flying(d, day)'
    BY <1>1, <2>2 DEF UnderWay
  <2>3. QED
    BY <2>1, <2>2
<1>3. Bounded(d, day)'
  <2>1. UnderWay(d, day)' \in Int
    BY UnderWayType
  <2>2. pushes'[d][day] <= MaxAttempts + crashes' /\ accepted'[d][day] <= 1 + crashes'
    BY <1>1, <1>2, <2>1
  <2>3. QED
    BY <2>2 DEF Bounded
<1>4. Told(d, day)'
  BY DEF Told
<1>5. QED
  BY <1>3, <1>4 DEF Kept

LEMMA SettleBounds ==
  ASSUME IInv, IInv', BInv, NEW w \in Senders, Working(w), NEW job, Settle(w, job), NextJob(w),
         UNCHANGED <<clock, pushes, found, crashes>>,
         job.status # "none",
         job.attempts = Job(w).attempts + 1 \/ (job.attempts = Job(w).attempts /\ At(w, "check")),
         accepted' = accepted \/ (At(w, "send") /\ job.status = "sent" /\ Accepted(w))
  PROVE  BInv'
<1>0. PICK d \in Devices, day \in Days : d = sender[w].device /\ day = sender[w].day
  BY AtWork
<1>1. Job(w).status = "pending" /\ Job(w).attempts \in Nat
  BY AtWork
<1>2. \A e \in Devices, da \in Days : e # d \/ da # day =>
        /\ outbox'[e][da] = outbox[e][da] /\ pushes'[e][da] = pushes[e][da]
        /\ accepted'[e][da] = accepted[e][da]
  BY <1>0 DEF Settle, Accepted, IInv, TypeOK
<1>3. sender'[w].pc = "pick" /\ \A v \in Senders \ {w} : sender'[v] = sender[v]
  BY NextJobType DEF IInv
<1>4. ~ Flying(d, day)'
  BY <1>0, <1>3, Leaving
<1>5. outbox'[d][day] = job /\ outbox[d][day] = Job(w)
  BY <1>0 DEF Settle, Job, IInv, TypeOK
<1>6. UnderWay(d, day) = IF At(w, "send") THEN 1 ELSE 0
  BY <1>0, Alone DEF UnderWay
<1>7. Kept(d, day)'
  <2>1. CASE Told(d, day)
    <3>1. /\ pushes[d][day] <= Job(w).attempts + UnderWay(d, day) + crashes
          /\ accepted[d][day] <= crashes
          /\ pushes[d][day] \in Nat /\ accepted[d][day] \in Nat /\ crashes \in Nat
      BY <1>1, <1>5, <2>1, Counts DEF Told, IInv
    <3>2. pushes'[d][day] <= job.attempts + UnderWay(d, day)' + crashes'
      BY <1>1, <1>4, <1>6, <3>1 DEF UnderWay, At
    <3>3. accepted'[d][day] <= (IF job.status = "sent" THEN 1 ELSE 0) + crashes'
      <4>1. CASE accepted' = accepted
        BY <3>1, <4>1
      <4>2. CASE job.status = "sent" /\ Accepted(w)
        <5>1. accepted'[d][day] = accepted[d][day] + 1
          BY <1>0, <4>2 DEF Accepted, IInv, TypeOK
        <5>2. QED
          BY <3>1, <4>2, <5>1
      <4>3. QED
        BY <4>1, <4>2
    <3>4. QED
      BY <1>4, <1>5, <3>2, <3>3, ToldIsKept
  <2>2. CASE Forgotten(d, day)
    <3>1. ~ At(w, "send")
      BY <1>0, <2>2 DEF Forgotten, LooksAt, Late
    <3>2. Bounded(d, day)'
      BY <3>1 DEF BInv, Kept, Bounded
    <3>3. ~ LooksAt(w, d, day)'
      BY <1>3 DEF LooksAt, Working, At
    <3>4. QED
      BY <1>3, <2>2, <3>2, <3>3, ForgottenByAll DEF Kept
  <2>3. QED
    BY <2>1, <2>2 DEF BInv, Kept
<1>8. ~ Working(w)' /\ ~ At(w, "lock")'
  BY <1>3 DEF Working, At
<1>9. ASSUME NEW e \in Devices, NEW da \in Days, e # d \/ da # day PROVE Kept(e, da)'
  BY <1>0, <1>2, <1>3, <1>8, <1>9, OthersKept
<1>10. QED
  BY <1>7, <1>9 DEF BInv

LEMMA SettlingBounds ==
  ASSUME IInv, IInv', BInv, NEW w \in Senders,
         CancelJob(w) \/ PushAccepted(w) \/ PushRefused(w)
  PROVE  BInv'
<1>1. /\ Working(w) /\ NextJob(w) /\ UNCHANGED <<clock, pushes, found, crashes>>
      /\ Job(w) \in Delivery /\ sender[w].now \in Nat
      /\ Job(w).status = "pending" /\ Job(w).attempts < MaxAttempts
  <2>1. Working(w) /\ NextJob(w) /\ UNCHANGED <<clock, pushes, found, crashes>>
    BY DEF CancelJob, PushAccepted, PushRefused, Working
  <2>2. QED
    BY <2>1, AtWork, DigestAssumption
<1>2. CASE CancelJob(w)
  <2> DEFINE job == [Job(w) EXCEPT !.status = "cancelled"]
  <2>1. job.status = "cancelled" /\ job.attempts = Job(w).attempts
    BY <1>1 DEF Delivery
  <2>2. Settle(w, job) /\ At(w, "check") /\ accepted' = accepted
    BY <1>2 DEF CancelJob
  <2> HIDE DEF job
  <2>3. QED
    BY <1>1, <2>1, <2>2, SettleBounds
<1>3. CASE PushAccepted(w)
  <2> DEFINE job == [Job(w) EXCEPT !.status = "sent", !.attempts = @ + 1]
  <2>1. job.status = "sent" /\ job.attempts = Job(w).attempts + 1
    BY <1>1 DEF Delivery
  <2>2. Settle(w, job) /\ Accepted(w) /\ At(w, "send")
    BY <1>3 DEF PushAccepted
  <2> HIDE DEF job
  <2>3. QED
    BY <1>1, <2>1, <2>2, SettleBounds
<1>4. CASE PushRefused(w)
  <2>1. PICK job : Settle(w, job) /\ \/ job = [Job(w) EXCEPT !.status = "failed", !.attempts = @ + 1]
                                     \/ job = AfterFailure(Job(w), sender[w].now)
    BY <1>4 DEF PushRefused
  <2>2. job.status # "none" /\ job.attempts = Job(w).attempts + 1
    BY <1>1, <2>1 DEF Delivery, AfterFailure
  <2>3. accepted' = accepted
    BY <1>4 DEF PushRefused
  <2>4. QED
    BY <1>1, <2>1, <2>2, <2>3, SettleBounds
<1>5. QED
  BY <1>2, <1>3, <1>4

\* A day that may be purged is over in every time zone.
LEMMA PurgedDaysAreOver ==
  ASSUME NEW now \in Nat, NEW zone \in 1 - DayLength .. DayLength - 1, zone >= 0 \/ KeepDays > 0
  PROVE  /\ now \div DayLength - KeepDays <= (now + zone) \div DayLength
         /\ now \div DayLength \in Int /\ (now + zone) \div DayLength \in Int
<1> DEFINE q == now \div DayLength
           r == (now + zone) \div DayLength
<1>1. DayLength \in Nat \ {0} /\ KeepDays \in Nat /\ zone \in Int
  BY DigestAssumption
<1>2. q \in Int /\ r \in Int
  BY <1>1
<1>3. CASE zone >= 0
  <2>1. now + zone \in Nat /\ now <= now + zone
    BY <1>1, <1>3
  <2>2. q <= r
    BY <2>1, Div
  <2> HIDE DEF q, r
  <2>3. q - KeepDays <= r
    BY <1>1, <1>2, <2>2
  <2>4. QED
    BY <1>2, <2>3 DEF q, r
<1>4. CASE KeepDays > 0
  <2>1. now + zone >= now - DayLength
    BY <1>1
  <2>2. (now - DayLength) \div DayLength = q - 1
    BY <1>1
  <2>3. (now - DayLength) \div DayLength <= r
    BY <1>1, <2>1
  <2> HIDE DEF q, r
  <2>4. q - KeepDays <= r
    BY <1>1, <1>2, <1>4, <2>2, <2>3
  <2>5. QED
    BY <1>2, <2>4 DEF q, r
<1>5. QED
  BY <1>3, <1>4

\* A sender that is late for a day does not find its owner eligible.
LEMMA LateIsIneligible ==
  ASSUME IInv, NEW w \in Senders, Working(w), Late(w, sender[w].day)
  PROVE  ~ Eligible(w)
<1> DEFINE now == sender[w].now
           o == OwnerOf(w)
<1>1. o \in Owners
  BY DEF IInv, Held
<1>2. now \in Nat /\ sender[w].day \in Int /\ KeepDays \in Int
  BY DigestAssumption DEF IInv, TypeOK, Cycle, Days
<1>3. schedule[o].zone \in 1 - DayLength .. DayLength - 1 /\ (schedule[o].zone >= 0 \/ KeepDays > 0)
  <2>1. schedule[o] \in Schedules
    BY <1>1 DEF IInv, TypeOK
  <2>2. schedule[o] \in [zone : 1 - DayLength .. DayLength - 1, time : 0 .. DayLength - 1]
    BY <2>1, DigestAssumption
  <2>3. QED
    BY <2>1, <2>2, DigestAssumption
<1>4. /\ now \div DayLength - KeepDays <= LocalDay(o, now)
      /\ now \div DayLength \in Int /\ LocalDay(o, now) \in Int
  BY <1>2, <1>3, PurgedDaysAreOver DEF LocalDay
<1>5. LocalDay(o, now) # sender[w].day
  BY <1>2, <1>4 DEF Late
<1>6. QED
  BY <1>5 DEF Eligible

LEMMA SendPushBounds ==
  ASSUME IInv, IInv', BInv, NEW w \in Senders, SendPush(w)
  PROVE  BInv'
<1>0. PICK d \in Devices, day \in Days : d = sender[w].device /\ day = sender[w].day
  BY AtWork DEF SendPush, Working
<1>1. /\ Working(w) /\ At(w, "check")
      /\ outbox[d][day].status = "pending" /\ outbox[d][day].attempts \in Nat
  BY <1>0, AtWork DEF SendPush, Working, Job
<1>2. UNCHANGED <<clock, outbox, accepted, found, crashes>>
  BY DEF SendPush
<1>3. /\ sender'[w] = [sender[w] EXCEPT !.pc = "send"]
      /\ \A v \in Senders \ {w} : sender'[v] = sender[v]
  BY DEF SendPush, Become, IInv, TypeOK
<1>4. /\ At(w, "send")' /\ ~ At(w, "send") /\ ~ At(w, "lock")'
      /\ sender'[w].device = sender[w].device /\ sender'[w].day = sender[w].day
  BY <1>1, <1>3 DEF At, IInv, TypeOK, Cycle
<1>5. Told(d, day)
  <2>1. ~ Forgotten(d, day)
    BY <1>0, <1>1, LateIsIneligible DEF SendPush, Forgotten, LooksAt
  <2>2. QED
    BY <2>1 DEF BInv, Kept
<1>6. Flying(d, day)' /\ ~ Flying(d, day)
  BY <1>0, <1>1, <1>4, Alone DEF Flying
<1>7. /\ pushes'[d][day] = pushes[d][day] + 1
      /\ \A e \in Devices, da \in Days : e # d \/ da # day => pushes'[e][da] = pushes[e][da]
  BY <1>0 DEF SendPush, IInv, TypeOK
<1>8. /\ pushes[d][day] <= outbox[d][day].attempts + 0 + crashes
      /\ accepted[d][day] <= 0 + crashes
      /\ pushes[d][day] \in Nat /\ crashes \in Nat
  BY <1>1, <1>5, <1>6, Counts DEF Told, UnderWay, IInv
<1>9. /\ pushes'[d][day] <= outbox'[d][day].attempts + UnderWay(d, day)' + crashes'
      /\ accepted'[d][day] <= (IF outbox'[d][day].status = "sent" THEN 1 ELSE 0) + crashes'
  BY <1>1, <1>2, <1>6, <1>7, <1>8 DEF UnderWay
<1>10. Kept(d, day)'
  BY <1>1, <1>2, <1>9, ToldIsKept
<1>11. ASSUME NEW e \in Devices, NEW da \in Days, e # d \/ da # day PROVE Kept(e, da)'
  BY <1>0, <1>1, <1>2, <1>3, <1>4, <1>7, <1>11, OthersKept
<1>12. QED
  BY <1>10, <1>11 DEF BInv

\* What a crash hides: a push that was under way, and perhaps was accepted.
LEMMA CrashBounds ==
  ASSUME IInv, IInv', BInv, NEW w \in Senders, Crash(w)
  PROVE  BInv'
<1>0. PICK d \in Devices, day \in Days : d = sender[w].device /\ day = sender[w].day
  BY AtWork DEF Crash, Working
<1>1. /\ Working(w)
      /\ outbox[d][day].status = "pending" /\ outbox[d][day].attempts \in Nat
  BY <1>0, AtWork DEF Crash, Working, Job
<1>2. UNCHANGED <<clock, outbox, pushes, found>> /\ crashes' = crashes + 1
  BY DEF Crash, ownerVars
<1>3. sender'[w].pc = "idle" /\ \A v \in Senders \ {w} : sender'[v] = sender[v]
  BY DEF Crash, Become, Resting, IInv, TypeOK
<1>4. ~ Flying(d, day)' /\ ~ Working(w)' /\ ~ At(w, "lock")'
  BY <1>0, <1>1, <1>3, Leaving DEF Working, At
<1>5. /\ accepted'[d][day] = accepted[d][day] \/
           (At(w, "send") /\ accepted'[d][day] = accepted[d][day] + 1)
      /\ \A e \in Devices, da \in Days : e # d \/ da # day => accepted'[e][da] = accepted[e][da]
  BY <1>0 DEF Crash, Accepted, IInv, TypeOK
<1>6. /\ pushes[d][day] \in Nat /\ accepted[d][day] \in Nat /\ crashes \in Nat /\ MaxAttempts \in Nat
  BY Counts DEF IInv
<1>7. UnderWay(d, day) \in {0, 1} /\ UnderWay(d, day)' = 0
  BY <1>4, UnderWayType DEF UnderWay
<1>8. Kept(d, day)'
  <2>1. CASE Told(d, day)
    <3>1. /\ pushes[d][day] <= outbox[d][day].attempts + UnderWay(d, day) + crashes
          /\ accepted[d][day] <= 0 + crashes
      BY <1>1, <2>1 DEF Told
    <3>2. /\ pushes'[d][day] <= outbox'[d][day].attempts + UnderWay(d, day)' + crashes'
          /\ accepted'[d][day] <= (IF outbox'[d][day].status = "sent" THEN 1 ELSE 0) + crashes'
      BY <1>1, <1>2, <1>5, <1>6, <1>7, <3>1
    <3>3. QED
      BY <1>1, <1>2, <1>4, <3>2, ToldIsKept
  <2>2. CASE Forgotten(d, day)
    <3>1. ~ At(w, "send")
      BY <1>0, <1>1, <2>2 DEF Forgotten, LooksAt, Late
    <3>2. Bounded(d, day)'
      BY <1>2, <1>5, <1>6, <3>1 DEF BInv, Kept, Bounded
    <3>3. ~ LooksAt(w, d, day)'
      BY <1>4 DEF LooksAt
    <3>4. QED
      BY <1>2, <1>3, <2>2, <3>2, <3>3, ForgottenByAll DEF Kept
  <2>3. QED
    BY <2>1, <2>2 DEF BInv, Kept
<1>9. ASSUME NEW e \in Devices, NEW da \in Days, e # d \/ da # day PROVE Kept(e, da)'
  BY <1>0, <1>1, <1>2, <1>3, <1>4, <1>5, <1>9, OthersKept
<1>10. QED
  BY <1>8, <1>9 DEF BInv

LEMMA DeviceExpiredBounds ==
  ASSUME IInv, IInv', BInv, NEW w \in Senders, DeviceExpired(w)
  PROVE  BInv'
<1>1. Working(w) /\ sender[w].device \in Devices
  BY AtWork DEF DeviceExpired, Working
<1>2. sender'[w].pc = "pick" /\ \A v \in Senders \ {w} : sender'[v] = sender[v]
  BY NextJobType DEF DeviceExpired, IInv
<1>3. UNCHANGED <<clock, crashes>> /\ found' \subseteq found /\ Forget(sender[w].device)
  BY DEF DeviceExpired, Forget, Deletion
<1>4. ASSUME NEW e \in Devices \ {sender[w].device}, NEW day \in Days
      PROVE  (Flying(e, day)' <=> Flying(e, day)) /\ (Forgotten(e, day) => Forgotten(e, day)')
  <2>1. Flying(e, day)' <=> Flying(e, day)
    BY <1>1, <1>2, Leaving
  <2>2. ~ LooksAt(w, e, day)'
    BY <1>2 DEF LooksAt, Working, At
  <2>3. QED
    BY <1>2, <1>3, <2>1, <2>2, ForgottenByAll
<1>5. QED
  BY <1>1, <1>3, <1>4, ForgetBounds

LEMMA SenderBounds ==
  ASSUME IInv, IInv', BInv, NEW w \in Senders, SenderStep(w) \/ Crash(w)
  PROVE  BInv'
<1>1. ASSUME NEW o \in Owners, QueueOwner(w, o) PROVE BInv'
  BY <1>1, QueueOwnerBounds
<1>2. QED
  BY <1>1, PassingOnBounds, PurgeBounds, SettlingBounds, SendPushBounds, DeviceExpiredBounds,
     CrashBounds DEF SenderStep

LEMMA StepBounds == IInv /\ IInv' /\ BInv /\ [Next]_vars => BInv'
<1> SUFFICES ASSUME IInv, IInv', BInv, [Next]_vars PROVE BInv'
  OBVIOUS
<1>0. clock \in Nat
  BY DigestAssumption DEF IInv, TypeOK
<1>1. ASSUME UNCHANGED <<outboxVars, sender, found, crashes>>, clock' \in {clock, clock + 1} PROVE BInv'
  <2>1. clock <= clock'
    BY <1>0, <1>1
  <2>2. QED
    BY <1>1, <2>1, QuietBounds
<1>2. CASE World
  BY <1>1, <1>2 DEF World, Tick, NewsChange, OtherLock, OtherUnlock
<1>3. CASE UNCHANGED vars
  BY <1>1, <1>3 DEF vars
<1>4. QED
  BY <1>2, <1>3, RequestBounds, SenderBounds DEF Next

\* process_notifications: a device is sent one digest of a day and tried MaxAttempts
\* times, but for one more after each crash, whatever senders race for it, and
\* though a row of a day that was purged is queued again.
THEOREM DigestsStayBounded == Spec => []DigestsAreBounded
<1>1. BInv => DigestsAreBounded
  BY DEF BInv, Kept, Bounded, DigestsAreBounded
<1>2. QED
  BY <1>1, InitBounds, StepBounds, Invariance, PTL DEF Spec

=============================================================================
