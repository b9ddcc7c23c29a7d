--------------------------- MODULE ReleaseDigests ---------------------------
(***************************************************************************)
(* Daily web-push digests of releases: opt-in preferences, subscribed      *)
(* devices, and a durable outbox with one delivery per device and local    *)
(* day, emptied by senders that run in every API process.                  *)
(* Source: services/notification_service.py, notification_scheduler.py.    *)
(* The clock counts retry steps of five minutes.                           *)
(***************************************************************************)
EXTENDS Integers, FiniteSets

CONSTANTS
  Owners,
  Devices,      \* browser endpoints
  Senders,      \* one per API process
  NoOwner,      \* holder of an endpoint nobody subscribed
  Free,         \* owner lock not taken
  Other,        \* owner lock taken by another part of the service
  Busy,         \* bound: owners whose row others lock too
  Testers,      \* bound: devices that tests are sent to
  Schedules,    \* the time zones and delivery times owners choose from
  DayLength,    \* clock steps in a day
  MaxAttempts,  \* four in the code
  BatchSize,    \* twenty in the code
  KeepDays,     \* thirty in the code
  MaxDay,       \* bound: last local day that is queued
  MaxClock,     \* bound: the last moment
  MaxCrashes    \* bound: processes lost while sending

ASSUME DigestAssumption ==
  /\ DayLength \in Nat \ {0} /\ MaxAttempts \in Nat \ {0} /\ BatchSize \in Nat \ {0}
  /\ KeepDays \in Nat /\ MaxDay \in Nat /\ MaxClock \in Nat /\ MaxCrashes \in Nat
  /\ Schedules \subseteq [zone : 1 - DayLength .. DayLength - 1, time : 0 .. DayLength - 1]
  /\ Schedules # {}
  /\ \A s \in Schedules : s.zone >= 0 \/ KeepDays > 0  \* a day that is purged is over everywhere
  /\ NoOwner \notin Owners /\ Devices # {}
  /\ Busy \subseteq Owners /\ Testers \subseteq Devices
  /\ Free \notin Senders /\ Other \notin Senders /\ Free # Other

Days == 0 .. MaxDay

Outcome == {"sent", "failed", "cancelled"}
Delivery == [status : Outcome \cup {"none", "pending"}, attempts : 0 .. MaxAttempts, next : Nat]
NoDelivery == [status |-> "none", attempts |-> 0, next |-> 0]

\* What a sender's cycle keeps: its moment, the owners to queue, the turns left of
\* the batch, and the candidate it works on.
Cycle == [pc : {"idle", "queue", "pick", "lock", "check", "send"}, now : 0 .. MaxClock,
          todo : SUBSET Owners, left : 0 .. BatchSize, device : Devices, day : Days]

VARIABLES
  clock,
  enabled,     \* owners that opted in
  schedule,    \* time zone and delivery time of each owner
  holder,      \* the owner of each subscribed endpoint
  tested,      \* devices a test was sent to within its cooldown
  testing,     \* tests under way
  outbox,      \* the delivery of each device and local day
  lock,        \* the row lock of each owner
  sender,      \* what each sender does
  found,       \* senders whose candidate has not been deleted since they read it
  news,        \* owners with an eligible release
  pushes,      \* auxiliary: pushes begun for each delivery
  accepted,    \* auxiliary: pushes of each delivery the provider accepted
  crashes      \* auxiliary: processes lost while sending

ownerVars == <<enabled, schedule, holder, tested, testing>>
outboxVars == <<outbox, pushes, accepted>>
vars == <<clock, ownerVars, outboxVars, lock, sender, found, news, crashes>>

Resting == [pc |-> "idle", now |-> 0, todo |-> {}, left |-> 0,
            device |-> CHOOSE d \in Devices : TRUE, day |-> 0]

LocalDay(o, now) == (now + schedule[o].zone) \div DayLength
LocalTime(o, now) == (now + schedule[o].zone) % DayLength

Init ==
  /\ clock = 0
  /\ enabled = {}
  /\ schedule \in [Owners -> Schedules]
  /\ holder = [d \in Devices |-> NoOwner]
  /\ tested = {} /\ testing = {}
  /\ outbox = [d \in Devices |-> [day \in Days |-> NoDelivery]]
  /\ pushes = [d \in Devices |-> [day \in Days |-> 0]]
  /\ accepted = [d \in Devices |-> [day \in Days |-> 0]]
  /\ lock = [o \in Owners |-> Free]
  /\ sender = [w \in Senders |-> Resting]
  /\ found = {}
  /\ news \in SUBSET Owners
  /\ crashes = 0

\* Mutant of Unlocked: the owner's row is read without FOR UPDATE.
UnlockedAlways(o) == o \in Owners

Unlocked(o) == lock[o] = Free

---------------------------------------------------------------------------
(* Requests of an owner, each in one transaction under the owner's lock.   *)

\* What is left in the outbox when an owner opts out.
Withdrawn(o) ==
  [d \in Devices |-> [day \in Days |->
     IF holder[d] = o /\ outbox[d][day].status = "pending" THEN NoDelivery ELSE outbox[d][day]]]

\* A row that is deleted is gone for a sender that has read it, though the same day
\* may be queued again: the new row has another identity.
Deletion == found' = {w \in found : outbox'[sender[w].device][sender[w].day].status # "none"}

SavePreferences(o, on, s) ==
  /\ Unlocked(o)
  /\ enabled' = IF on THEN enabled \cup {o} ELSE enabled \ {o}
  /\ schedule' = [schedule EXCEPT ![o] = s]
  /\ outbox' = IF on THEN outbox ELSE Withdrawn(o)
  /\ pushes' = [d \in Devices |-> [day \in Days |->
                  IF outbox'[d][day] = outbox[d][day] THEN pushes[d][day] ELSE 0]]
  /\ Deletion
  /\ UNCHANGED <<clock, holder, tested, testing, accepted, lock, sender, news, crashes>>

\* A new endpoint; one that is known only gets new credentials, another owner's
\* is refused. The limit of ten devices is left to the set of endpoints.
SaveSubscription(o, d) ==
  /\ Unlocked(o)
  /\ o \in enabled
  /\ holder[d] = NoOwner
  /\ holder' = [holder EXCEPT ![d] = o]
  /\ tested' = tested \ {d}
  /\ UNCHANGED <<clock, enabled, schedule, testing, outboxVars, lock, sender, found, news, crashes>>

\* The deliveries of a removed subscription go with it.
Forget(d) ==
  /\ holder' = [holder EXCEPT ![d] = NoOwner]
  /\ outbox' = [outbox EXCEPT ![d] = [day \in Days |-> NoDelivery]]
  /\ pushes' = [pushes EXCEPT ![d] = [day \in Days |-> 0]]
  /\ accepted' = [accepted EXCEPT ![d] = [day \in Days |-> 0]]
  /\ Deletion

RemoveSubscription(o, d) ==
  /\ Unlocked(o)
  /\ holder[d] = o
  /\ Forget(d)
  /\ UNCHANGED <<clock, enabled, schedule, tested, testing, lock, sender, news, crashes>>

\* The cooldown is committed before the test is sent.
BeginTest(o, d) ==
  /\ Unlocked(o)
  /\ holder[d] = o /\ o \in enabled
  /\ d \in Testers \ tested
  /\ tested' = tested \cup {d}
  /\ testing' = testing \cup {<<o, d>>}
  /\ UNCHANGED <<clock, enabled, schedule, holder, outboxVars, lock, sender, found, news, crashes>>

\* An expired device is removed, whatever row it has by now.
FinishTest(o, d) ==
  /\ <<o, d>> \in testing
  /\ testing' = testing \ {<<o, d>>}
  /\ \/ UNCHANGED <<holder, outboxVars, found>>
     \/ Unlocked(o) /\ holder[d] = o /\ Forget(d)
  /\ UNCHANGED <<clock, enabled, schedule, tested, lock, sender, news, crashes>>

---------------------------------------------------------------------------
(* A sender's cycle: queue today's deliveries owner by owner, then work    *)
(* off a bounded batch of due ones, then purge old receipts.               *)

At(w, pc) == sender[w].pc = pc
Become(w, s) == sender' = [sender EXCEPT ![w] = s]

StartCycle(w) ==
  /\ At(w, "idle")
  /\ Become(w, [sender[w] EXCEPT !.pc = "queue", !.now = clock, !.todo = enabled])
  /\ UNCHANGED <<clock, ownerVars, outboxVars, lock, found, news, crashes>>

\* Mutant of Queued: a conflicting row is overwritten.
QueuedAnew(o, day, now) ==
  [d \in Devices |-> IF holder[d] = o
     THEN [outbox[d] EXCEPT ![day] = [status |-> "pending", attempts |-> 0, next |-> now]]
     ELSE outbox[d]]

\* One pending delivery for each device of the owner that has none for the day.
Queued(o, day, now) ==
  [d \in Devices |-> IF holder[d] = o /\ outbox[d][day].status = "none"
     THEN [outbox[d] EXCEPT ![day] = [status |-> "pending", attempts |-> 0, next |-> now]]
     ELSE outbox[d]]

\* An owner whose row is locked, who opted out meanwhile, or whose hour has not
\* come, is passed over until the next cycle.
QueueOwner(w, o) ==
  LET now == sender[w].now
      day == LocalDay(o, now)
      due == Unlocked(o) /\ o \in enabled /\ LocalTime(o, now) >= schedule[o].time /\ o \in news
  IN
  /\ At(w, "queue") /\ o \in sender[w].todo
  /\ outbox' = IF due /\ day \in Days THEN Queued(o, day, now) ELSE outbox
  /\ Become(w, [sender[w] EXCEPT !.todo = @ \ {o}])
  /\ UNCHANGED <<clock, ownerVars, pushes, accepted, lock, found, news, crashes>>

StartBatch(w) ==
  /\ At(w, "queue") /\ sender[w].todo = {}
  /\ Become(w, [Resting EXCEPT !.pc = "pick", !.left = BatchSize])
  /\ UNCHANGED <<clock, ownerVars, outboxVars, lock, found, news, crashes>>

\* Mutant of Due: yesterday's deliveries are not looked at.
DueToday == {c \in Devices \X Days :
               /\ holder[c[1]] # NoOwner /\ LocalDay(holder[c[1]], clock) = c[2]
               /\ outbox[c[1]][c[2]].status = "pending" /\ outbox[c[1]][c[2]].next <= clock}

Due == {c \in Devices \X Days :
          outbox[c[1]][c[2]].status = "pending" /\ outbox[c[1]][c[2]].next <= clock}

\* Mutant of Pick: the batch is not bounded.
PickOn(w) ==
  /\ At(w, "pick")
  /\ \E c \in Due :
       /\ \A e \in Due : outbox[c[1]][c[2]].next <= outbox[e[1]][e[2]].next
       /\ Become(w, [sender[w] EXCEPT !.pc = "lock", !.now = clock, !.left = @ - 1,
                       !.device = c[1], !.day = c[2]])
  /\ found' = found \cup {w}
  /\ UNCHANGED <<clock, ownerVars, outboxVars, lock, news, crashes>>

\* The candidate is read without a lock, the most overdue first.
Pick(w) ==
  /\ At(w, "pick") /\ sender[w].left > 0
  /\ \E c \in Due :
       /\ \A e \in Due : outbox[c[1]][c[2]].next <= outbox[e[1]][e[2]].next
       /\ Become(w, [sender[w] EXCEPT !.pc = "lock", !.now = clock, !.left = @ - 1,
                       !.device = c[1], !.day = c[2]])
  /\ found' = found \cup {w}
  /\ UNCHANGED <<clock, ownerVars, outboxVars, lock, news, crashes>>

Old(day) == day < clock \div DayLength - KeepDays

\* Receipts older than KeepDays are deleted at the end of the cycle; the deletion
\* waits for rows that other senders have locked.
Purge(w) ==
  /\ At(w, "pick")
  /\ sender[w].left = 0 \/ Due = {}
  /\ \A v \in Senders : At(v, "check") \/ At(v, "send") => ~ Old(sender[v].day)
  /\ outbox' = [d \in Devices |->
                  [day \in Days |-> IF Old(day) THEN NoDelivery ELSE outbox[d][day]]]
  /\ Deletion
  /\ Become(w, Resting)
  /\ UNCHANGED <<clock, ownerVars, pushes, accepted, lock, news, crashes>>

\* The job as the sender finds it under the lock.
Job(w) == outbox[sender[w].device][sender[w].day]
SameJob(w) ==
  /\ w \in found
  /\ Job(w).status = "pending" /\ Job(w).next <= sender[w].now

\* The owner read with the candidate: a row keeps its owner.
OwnerOf(w) == holder[sender[w].device]

NextJob(w) == Become(w, [Resting EXCEPT !.pc = "pick", !.left = sender[w].left])

\* A locked owner, or a job that is gone or no longer due, uses up one turn.
SkipJob(w) ==
  /\ At(w, "lock")
  /\ SameJob(w) => ~Unlocked(OwnerOf(w))
  /\ NextJob(w)
  /\ found' = found \ {w}
  /\ UNCHANGED <<clock, ownerVars, outboxVars, lock, news, crashes>>

LockJob(w) ==
  /\ At(w, "lock")
  /\ SameJob(w) /\ Unlocked(OwnerOf(w))
  /\ lock' = [lock EXCEPT ![OwnerOf(w)] = w]
  /\ Become(w, [sender[w] EXCEPT !.pc = "check"])
  /\ found' = found \ {w}
  /\ UNCHANGED <<clock, ownerVars, outboxVars, news, crashes>>

Settle(w, job) == outbox' = [outbox EXCEPT ![sender[w].device][sender[w].day] = job]
Unlock(w) == lock' = [lock EXCEPT ![OwnerOf(w)] = Free]

\* Consent and eligibility are looked up again before every push.
Eligible(w) ==
  LET o == OwnerOf(w) IN
  o \in enabled /\ LocalDay(o, sender[w].now) = sender[w].day /\ o \in news

CancelJob(w) ==
  /\ At(w, "check")
  /\ ~Eligible(w)
  /\ Settle(w, [Job(w) EXCEPT !.status = "cancelled"])
  /\ Unlock(w)
  /\ NextJob(w)
  /\ UNCHANGED <<clock, ownerVars, pushes, accepted, found, news, crashes>>

SendPush(w) ==
  /\ At(w, "check")
  /\ Eligible(w)
  /\ pushes' = [pushes EXCEPT ![sender[w].device][sender[w].day] = @ + 1]
  /\ Become(w, [sender[w] EXCEPT !.pc = "send"])
  /\ UNCHANGED <<clock, ownerVars, outbox, accepted, lock, found, news, crashes>>

Accepted(w) == accepted' = [accepted EXCEPT ![sender[w].device][sender[w].day] = @ + 1]

PushAccepted(w) ==
  /\ At(w, "send")
  /\ Accepted(w)
  /\ Settle(w, [Job(w) EXCEPT !.status = "sent", !.attempts = @ + 1])
  /\ Unlock(w) /\ NextJob(w)
  /\ UNCHANGED <<clock, ownerVars, pushes, found, news, crashes>>

\* 404 and 410: the subscription is gone for good.
DeviceExpired(w) ==
  /\ At(w, "send")
  /\ Forget(sender[w].device)
  /\ Unlock(w) /\ NextJob(w)
  /\ UNCHANGED <<clock, enabled, schedule, tested, testing, news, crashes>>

\* Mutant of AfterFailure: the attempts are not counted.
AfterFailureUncounted(job, now) == [job EXCEPT !.next = now + 1]

\* Any other failure is tried again later and later, a few times.
AfterFailure(job, now) ==
  LET tried == job.attempts + 1 IN
  IF tried >= MaxAttempts THEN [job EXCEPT !.attempts = tried, !.status = "failed"]
  ELSE [job EXCEPT !.attempts = tried, !.next = now + tried]

\* Refusals other than 429 are final at once.
PushRefused(w) ==
  /\ At(w, "send")
  /\ \/ Settle(w, [Job(w) EXCEPT !.status = "failed", !.attempts = @ + 1])
     \/ Settle(w, AfterFailure(Job(w), sender[w].now))
  /\ Unlock(w) /\ NextJob(w)
  /\ UNCHANGED <<clock, ownerVars, pushes, accepted, found, news, crashes>>

\* The process ends while a push is under way: its transaction is rolled back,
\* whether or not the provider accepted the push.
Crash(w) ==
  /\ At(w, "check") \/ At(w, "send")
  /\ crashes < MaxCrashes
  /\ crashes' = crashes + 1
  /\ Unlock(w)
  /\ Become(w, Resting)
  /\ UNCHANGED accepted \/ (At(w, "send") /\ Accepted(w))
  /\ UNCHANGED <<clock, ownerVars, outbox, pushes, found, news>>

---------------------------------------------------------------------------
(* The world: time, releases, and other users of the owner's lock.         *)

Tick ==
  /\ clock < MaxClock
  /\ clock' = clock + 1
  /\ tested' = {}
  /\ UNCHANGED <<enabled, schedule, holder, testing, outboxVars, lock, sender, found, news,
                 crashes>>

\* A release is published, watched, excluded or withdrawn.
NewsChange ==
  /\ \E o \in Owners : news' = IF o \in news THEN news \ {o} ELSE news \cup {o}
  /\ UNCHANGED <<clock, ownerVars, outboxVars, lock, sender, found, crashes>>

\* Progress and history requests lock the owner's row too.
OtherLock(o) ==
  /\ o \in Busy /\ Unlocked(o)
  /\ lock' = [lock EXCEPT ![o] = Other]
  /\ UNCHANGED <<clock, ownerVars, outboxVars, sender, found, news, crashes>>

OtherUnlock(o) ==
  /\ lock[o] = Other
  /\ lock' = [lock EXCEPT ![o] = Free]
  /\ UNCHANGED <<clock, ownerVars, outboxVars, sender, found, news, crashes>>

SenderStep(w) ==
  \/ StartCycle(w) \/ StartBatch(w) \/ Pick(w) \/ Purge(w)
  \/ \E o \in Owners : QueueOwner(w, o)
  \/ SkipJob(w) \/ LockJob(w) \/ CancelJob(w) \/ SendPush(w)
  \/ PushAccepted(w) \/ DeviceExpired(w) \/ PushRefused(w)

Request ==
  \/ \E o \in Owners, on \in BOOLEAN, s \in Schedules : SavePreferences(o, on, s)
  \/ \E o \in Owners, d \in Devices :
       SaveSubscription(o, d) \/ RemoveSubscription(o, d) \/ BeginTest(o, d) \/ FinishTest(o, d)

World ==
  \/ Tick \/ NewsChange
  \/ \E o \in Owners : OtherLock(o) \/ OtherUnlock(o)

Next == Request \/ World \/ \E w \in Senders : SenderStep(w) \/ Crash(w)

Spec == Init /\ [][Next]_vars

---------------------------------------------------------------------------
(* Properties.                                                             *)

\* Preferences, devices, deliveries, locks and senders keep their types.
TypeOK ==
  /\ clock \in 0 .. MaxClock
  /\ enabled \subseteq Owners
  /\ schedule \in [Owners -> Schedules]
  /\ holder \in [Devices -> Owners \cup {NoOwner}]
  /\ tested \subseteq Devices
  /\ testing \subseteq Owners \X Devices
  /\ outbox \in [Devices -> [Days -> Delivery]]
  /\ pushes \in [Devices -> [Days -> Nat]]
  /\ accepted \in [Devices -> [Days -> Nat]]
  /\ lock \in [Owners -> Senders \cup {Free, Other}]
  /\ sender \in [Senders -> Cycle]
  /\ found \subseteq Senders
  /\ news \subseteq Owners
  /\ crashes \in 0 .. MaxCrashes

\* Opting out is final: once it is committed nothing of the owner's is pending and
\* no push is under way, and none starts before the next opt-in.
OptOutHolds ==
  \A o \in Owners \ enabled :
    /\ \A d \in Devices, day \in Days : holder[d] = o => outbox[d][day].status # "pending"
    /\ \A w \in Senders : ~(At(w, "send") /\ OwnerOf(w) = o)

\* A device is sent at most one digest of a day, and tried at most MaxAttempts
\* times, but for one more after each crash of a sender.
DigestsAreBounded ==
  \A d \in Devices, day \in Days :
    accepted[d][day] <= 1 + crashes /\ pushes[d][day] <= MaxAttempts + crashes

\* A delivery that was sent, failed or cancelled is never queued or tried again,
\* whatever other senders, later cycles and settings do.
DeliveriesAreFinal ==
  [][\A d \in Devices, day \in Days :
       outbox[d][day].status \in Outcome =>
         outbox'[d][day].status \in {outbox[d][day].status, "none"}]_vars

\* Every queued delivery is settled, though owners' rows are locked again and
\* again and busy owners use up the turns of a batch.
DeliveriesSettle ==
  \A d \in Devices, day \in Days :
    outbox[d][day].status = "pending" ~> outbox[d][day].status # "pending"

\* Another transaction on the owner's row ends while a sender looks at the row.
FreedInTime(w) == At(w, "lock") /\ \E o \in Owners : o = OwnerOf(w) /\ OtherUnlock(o)

\* Senders run (notification_scheduler polls every minute), time passes, and
\* other transactions end; an owner's row is not locked every time one looks.
Fairness ==
  /\ \A w \in Senders : WF_vars(SenderStep(w)) /\ SF_vars(LockJob(w)) /\ SF_vars(FreedInTime(w))
  /\ WF_vars(Tick)
  /\ \A o \in Owners : WF_vars(OtherUnlock(o))

FairSpec == Spec /\ Fairness

=============================================================================
