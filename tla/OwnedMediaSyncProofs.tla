------------------------ MODULE OwnedMediaSyncProofs ------------------------
(***************************************************************************)
(* What the locks of the owned-media synchronisation guarantee for every   *)
(* number of threads, processes, requests and items.                       *)
(***************************************************************************)
EXTENDS OwnedMediaSync, TLAPS

LEMMA WithoutType ==
  ASSUME TypeOK, NEW gone
  PROVE  /\ ThreadsWithout(gone) \in [Threads -> Thread]
         /\ HooksWithout(gone) \in [Hooks -> Hook]
<1>1. ThreadsWithout(gone) \in [Threads -> Thread]
  BY DEF TypeOK, ThreadsWithout, Thread
<1>2. HooksWithout(gone) \in [Hooks -> Hook]
  BY DEF TypeOK, HooksWithout, Hook
<1>3. QED
  BY <1>1, <1>2

-----------------------------------------------------------------------------
(* Type correctness                                                        *)

LEMMA RestType == Idle \in Thread /\ Free \in Hook
BY DEF Thread, Idle, Hook, Free

LEMMA InitType == Init => TypeOK
<1> SUFFICES ASSUME Init PROVE TypeOK
  OBVIOUS
<1>1. thread \in [Threads -> Thread] /\ hook \in [Hooks -> Hook]
  BY RestType DEF Init
<1>2. QED
  BY <1>1 DEF Init, TypeOK

LEMMA ThreadStepType ==
  ASSUME TypeOK, NEW t \in Threads,
         \/ \E kind \in {"manual", "scheduled"} : Reserve(t, kind)
         \/ ReadStatus(t) \/ RefuseOverlap(t) \/ MarkRunning(t)
         \/ LoadConfig(t) \/ LoseConfig(t)
         \/ \E got \in SUBSET Items : FetchItems(t, got)
         \/ ListSeries(t) \/ \E x \in Items, got \in SUBSET Items : ReadSeries(t, x, got)
         \/ FetchFails(t) \/ DeleteRows(t) \/ Replace(t) \/ ReplaceConflicts(t) \/ MarkFailed(t)
  PROVE  TypeOK'
<1> USE SyncAssumption DEF TypeOK, Thread, Goto
<1>1. ASSUME NEW kind \in {"manual", "scheduled"}, Reserve(t, kind) PROVE TypeOK'
  <2>1. thread' \in [Threads -> Thread]
    BY <1>1 DEF Reserve, Idle
  <2>2. QED
    BY <1>1, <2>1 DEF Reserve, TakeLock, shared
<1>2. CASE ReadStatus(t)
  BY <1>2 DEF ReadStatus, shared
<1>3. CASE RefuseOverlap(t)
  <2>1. thread' \in [Threads -> Thread]
    <3>1. thread' = [thread EXCEPT ![t].pc = "refused"] \/ thread' = [thread EXCEPT ![t] = Idle]
      BY <1>3 DEF RefuseOverlap, Finish
    <3>2. CASE thread' = [thread EXCEPT ![t].pc = "refused"]
      BY <3>2
    <3>3. CASE thread' = [thread EXCEPT ![t] = Idle]
      BY <3>3 DEF Idle
    <3>4. QED
      BY <3>1, <3>2, <3>3
  <2>2. QED
    BY <1>3, <2>1 DEF RefuseOverlap, Finish, ReleaseLock, shared
<1>4. CASE MarkRunning(t)
  <2>1. thread' \in [Threads -> Thread]
    BY <1>4 DEF MarkRunning
  <2>2. QED
    BY <1>4, <2>1 DEF MarkRunning
<1>5. CASE LoadConfig(t)
  BY <1>5 DEF LoadConfig, shared
<1>6. CASE LoseConfig(t)
  BY <1>6 DEF LoseConfig, Idle, shared
<1>7. ASSUME NEW got \in SUBSET Items, FetchItems(t, got) PROVE TypeOK'
  <2>1. thread' \in [Threads -> Thread]
    <3>1. thread' = [thread EXCEPT ![t] = [thread[t] EXCEPT !.pc = "fetched", !.got = got,
                                                            !.asOf = version]]
      BY <1>7, Zenon DEF FetchItems
    <3>2. [thread[t] EXCEPT !.pc = "fetched", !.got = got, !.asOf = version] \in Thread
      OBVIOUS
    <3>3. QED
      BY <3>1, <3>2
  <2>2. QED
    BY <1>7, <2>1 DEF FetchItems, shared
<1>8. CASE FetchFails(t)
  BY <1>8 DEF FetchFails, shared
<1>9. CASE DeleteRows(t)
  <2>1. thread' \in [Threads -> Thread]
    <3>1. thread' = [thread EXCEPT ![t] = [thread[t] EXCEPT !.pc = "replacing", !.seen = owned]]
      BY <1>9, Zenon DEF DeleteRows
    <3>2. [thread[t] EXCEPT !.pc = "replacing", !.seen = owned] \in Thread
      OBVIOUS
    <3>3. QED
      BY <3>1, <3>2
  <2>2. QED
    BY <1>9, <2>1 DEF DeleteRows, shared
<1>10. CASE Replace(t)
  <2>1. hook' \in [Hooks -> Hook]
    BY <1>10, WithoutType DEF Replace
  <2>2. thread' \in [Threads -> Thread]
    BY <1>10, WithoutType DEF Replace, Idle
  <2>3. owned' \in SUBSET Items /\ asOf' \in Nat
    BY <1>10 DEF Replace, Stored, Survivors
  <2>4. QED
    BY <1>10, <2>1, <2>2, <2>3 DEF Replace, ReleaseLock
<1>11. CASE ReplaceConflicts(t)
  BY <1>11 DEF ReplaceConflicts, shared
<1>12. CASE MarkFailed(t)
  BY <1>12 DEF MarkFailed, Finish, ReleaseLock, Idle
<1>13. CASE ListSeries(t)
  <2>1. thread' = [thread EXCEPT ![t] = [thread[t] EXCEPT !.pc = "reading", !.todo = Items,
                                                          !.asOf = version]]
    BY <1>13, Zenon DEF ListSeries
  <2>2. [thread[t] EXCEPT !.pc = "reading", !.todo = Items, !.asOf = version] \in Thread
    OBVIOUS
  <2>3. thread' \in [Threads -> Thread]
    BY <2>1, <2>2
  <2>4. QED
    BY <1>13, <2>3 DEF ListSeries, shared
<1>14. ASSUME NEW x \in Items, NEW got \in SUBSET Items, ReadSeries(t, x, got) PROVE TypeOK'
  <2>1. PICK pc \in {"reading", "fetched"} :
          thread' = [thread EXCEPT ![t].pc = pc, ![t].todo = @ \ {x}, ![t].got = @ \cup got]
    BY <1>14 DEF ReadSeries
  <2> DEFINE next == [thread[t] EXCEPT !.pc = pc, !.todo = @ \ {x}, !.got = @ \cup got]
  <2>2. thread' = [thread EXCEPT ![t] = next]
    BY <2>1, Zenon
  <2>3. next \in Thread
    OBVIOUS
  <2> HIDE DEF next
  <2>4. thread' \in [Threads -> Thread]
    BY <2>2, <2>3
  <2>5. QED
    BY <1>14, <2>4 DEF ReadSeries, shared
<1> HIDE DEF TypeOK
<1>15. QED
  BY <1>1, <1>2, <1>3, <1>4, <1>5, <1>6, <1>7, <1>8, <1>9, <1>10, <1>11, <1>12, <1>13, <1>14

LEMMA HookStepType ==
  ASSUME TypeOK, NEW h \in Hooks,
         \/ \E e \in events : WebhookReads(h, e)
         \/ WebhookCommits(h) \/ WebhookRaises(h) \/ WebhookMarksFailed(h)
         \/ \E x \in Items : DeleteOnServer(h, x)
         \/ DeleteLocally(h) \/ AbortHook(h) \/ ReadStaleRun(h) \/ CloseRun(h)
  PROVE  TypeOK'
<1> USE SyncAssumption DEF TypeOK, Hook, Free
<1>1. ASSUME NEW e \in events, WebhookReads(h, e) PROVE TypeOK'
  BY <1>1 DEF WebhookReads, Looks, Event
<1>2. CASE WebhookCommits(h)
  <2>1. PICK e \in hook[h].event :
             /\ owned' = WebhookOutcome(h, e)
             /\ thread' = ThreadsWithout(owned \ owned')
             /\ hook' = [HooksWithout(owned \ owned') EXCEPT ![h] = Free]
    BY <1>2 DEF WebhookCommits
  <2>2. e.item \in Items
    BY DEF Event
  <2>3. owned' \in SUBSET Items
    BY <2>1, <2>2 DEF WebhookOutcome
  <2>4. thread' \in [Threads -> Thread]
    BY <2>1, WithoutType
  <2>5. hook' \in [Hooks -> Hook]
    BY <2>1, WithoutType
  <2>6. QED
    BY <1>2, <2>3, <2>4, <2>5 DEF WebhookCommits
<1>3. CASE WebhookRaises(h)
  BY <1>3 DEF WebhookRaises, shared
<1>4. CASE WebhookMarksFailed(h)
  BY <1>4 DEF WebhookMarksFailed
<1>5. ASSUME NEW x \in Items, DeleteOnServer(h, x) PROVE TypeOK'
  <2> DEFINE e == [kind |-> "delete", item |-> x]
  <2>1. e \in Event
    BY DEF Event
  <2>2. hook' = [hook EXCEPT ![h] = [Free EXCEPT !.pc = "deleting", !.event = {e}]]
    BY <1>5 DEF DeleteOnServer
  <2>3. hook' \in [Hooks -> Hook]
    BY <2>1, <2>2
  <2>4. events' \in SUBSET Event
    BY <1>5, <2>1 DEF DeleteOnServer
  <2>5. library' \in SUBSET Items /\ version' \in Nat
    <3>1. library' = library \ {x} /\ version' = version + 1
      BY <1>5, Zenon DEF DeleteOnServer
    <3>2. QED
      BY <3>1
  <2> HIDE DEF Hook, Free
  <2>6. QED
    BY <1>5, <2>3, <2>4, <2>5 DEF DeleteOnServer
<1>6. CASE DeleteLocally(h)
  BY <1>6 DEF DeleteLocally, Looks, shared
<1>7. CASE AbortHook(h)
  BY <1>7 DEF AbortHook, shared
<1>8. CASE ReadStaleRun(h)
  BY <1>8 DEF ReadStaleRun, shared
<1>9. CASE CloseRun(h)
  BY <1>9 DEF CloseRun
<1> HIDE DEF TypeOK
<1>10. QED
  BY <1>1, <1>2, <1>3, <1>4, <1>5, <1>6, <1>7, <1>8, <1>9

LEMMA StepType == ASSUME TypeOK, [Next]_vars PROVE TypeOK'
<1>1. CASE TwoHoursPass
  BY <1>1 DEF TwoHoursPass, TypeOK, Thread
<1>2. CASE Toggle
  BY <1>2 DEF Toggle, TypeOK
<1>3. ASSUME NEW p \in Procs, Crash(p) PROVE TypeOK'
  BY <1>3 DEF Crash, TypeOK, Thread, Idle, shared
<1>4. ASSUME NEW x \in Items, LibraryChanges(x) PROVE TypeOK'
  BY <1>4 DEF LibraryChanges, TypeOK, Event
<1>5. CASE UNCHANGED vars
  BY <1>5 DEF vars, TypeOK
<1>6. QED
  BY <1>1, <1>2, <1>3, <1>4, <1>5, ThreadStepType, HookStepType DEF Next

\* The cache, the status row, the locks and every transaction have their types.
THEOREM TypeCorrect == Spec => []TypeOK
<1>1. TypeOK /\ [Next]_vars => TypeOK'
  BY StepType
<1>2. QED
  BY InitType, <1>1, PTL DEF Spec

-----------------------------------------------------------------------------
(* The lock of a process is held by the one thread that synchronises in it. *)

Busy(t) == thread[t] # Idle

LockInv ==
  /\ \A t \in Threads : Busy(t) => Host[t] \in locked
  /\ OneSyncPerProcess

(* A step that makes no thread busy keeps the locks of those that stay so.  *)
LEMMA LockKept ==
  ASSUME LockInv, \A u \in Threads : Busy(u)' => Busy(u) /\ Host[u] \in locked'
  PROVE  LockInv'
BY DEF LockInv, OneSyncPerProcess, Busy

LEMMA NotIdle ==
  ASSUME NEW t \in Threads, thread[t].pc # "idle"
  PROVE  Busy(t)
BY DEF Busy, Idle

(* A finished thread releases a lock that no other busy thread needs.       *)
LEMMA FinishKeeps ==
  ASSUME LockInv, NEW t \in Threads, Busy(t), locked' = locked \ {Host[t]}, ~ Busy(t)',
         \A u \in Threads : u # t /\ Busy(u)' => Busy(u)
  PROVE  LockInv'
<1>1. ASSUME NEW u \in Threads, Busy(u)' PROVE Busy(u) /\ Host[u] \in locked'
  <2>1. u # t /\ Busy(u)
    BY <1>1
  <2>2. Host[u] # Host[t] /\ Host[u] \in locked
    BY <2>1 DEF LockInv, OneSyncPerProcess, Busy
  <2>3. QED
    BY <2>1, <2>2
<1>2. QED
  BY <1>1, LockKept

LEMMA WithoutIdle ==
  ASSUME NEW gone, NEW u \in Threads, thread[u] = Idle
  PROVE  ThreadsWithout(gone)[u] = Idle
BY DEF ThreadsWithout, Idle

LEMMA ThreadStepLock ==
  ASSUME TypeOK, LockInv, NEW t \in Threads,
         \/ \E kind \in {"manual", "scheduled"} : Reserve(t, kind)
         \/ ReadStatus(t) \/ RefuseOverlap(t) \/ MarkRunning(t)
         \/ LoadConfig(t) \/ LoseConfig(t)
         \/ \E got \in SUBSET Items : FetchItems(t, got)
         \/ ListSeries(t) \/ \E x \in Items, got \in SUBSET Items : ReadSeries(t, x, got)
         \/ FetchFails(t) \/ DeleteRows(t) \/ Replace(t) \/ ReplaceConflicts(t) \/ MarkFailed(t)
  PROVE  LockInv'
<1> USE DEF TypeOK
<1>1. ASSUME NEW kind \in {"manual", "scheduled"}, Reserve(t, kind) PROVE LockInv'
  <2>1. thread[t] = Idle /\ Host[t] \notin locked /\ locked' = locked \cup {Host[t]}
    BY <1>1 DEF Reserve, TakeLock
  <2>2. \A u \in Threads : u # t => thread'[u] = thread[u]
    BY <1>1 DEF Reserve
  <2>3. \A u \in Threads : u # t /\ Busy(u)' => Host[u] \in locked /\ Host[u] # Host[t]
    BY <2>1, <2>2 DEF LockInv, Busy
  <2>4. QED
    BY <2>1, <2>2, <2>3 DEF LockInv, OneSyncPerProcess, Busy
<1>2. ASSUME locked' = locked, thread[t].pc # "idle",
             \A u \in Threads : u # t => thread'[u] = thread[u]
      PROVE  LockInv'
  <2>1. \A u \in Threads : Busy(u)' => Busy(u)
    BY <1>2, NotIdle DEF Busy
  <2>2. QED
    BY <1>2, <2>1, LockKept DEF LockInv
<1>3. ASSUME thread[t].pc # "idle", Finish(t) PROVE LockInv'
  <2>1. thread'[t] = Idle /\ \A u \in Threads : u # t => thread'[u] = thread[u]
    BY <1>3 DEF Finish
  <2>2. QED
    BY <1>3, <2>1, NotIdle, FinishKeeps DEF Finish, ReleaseLock, Busy
<1>4. CASE ReadStatus(t)
  BY <1>2, <1>4 DEF ReadStatus, Goto
<1>5. CASE RefuseOverlap(t)
  BY <1>2, <1>3, <1>5 DEF RefuseOverlap, Goto
<1>6. CASE MarkRunning(t)
  BY <1>2, <1>6 DEF MarkRunning, Goto
<1>7. CASE LoadConfig(t)
  BY <1>2, <1>7 DEF LoadConfig, Goto
<1>8. CASE LoseConfig(t)
  BY <1>2, <1>8 DEF LoseConfig
<1>9. ASSUME NEW got \in SUBSET Items, FetchItems(t, got) PROVE LockInv'
  BY <1>2, <1>9 DEF FetchItems
<1>10. CASE FetchFails(t)
  BY <1>2, <1>10 DEF FetchFails, Goto
<1>11. CASE DeleteRows(t)
  BY <1>2, <1>11 DEF DeleteRows
<1>12. CASE Replace(t)
  <2>1. thread'[t] = Idle /\ \A u \in Threads : u # t => thread'[u] = ThreadsWithout(thread[t].seen)[u]
    BY <1>12, WithoutType DEF Replace
  <2>2. \A u \in Threads : u # t /\ Busy(u)' => Busy(u)
    BY <2>1, WithoutIdle DEF Busy
  <2>3. Busy(t) /\ locked' = locked \ {Host[t]}
    BY <1>12, NotIdle DEF Replace, ReleaseLock
  <2>4. QED
    BY <2>1, <2>2, <2>3, FinishKeeps DEF Busy
<1>13. CASE ReplaceConflicts(t)
  BY <1>2, <1>13 DEF ReplaceConflicts, Goto
<1>14. CASE MarkFailed(t)
  BY <1>3, <1>14 DEF MarkFailed
<1>15. CASE ListSeries(t)
  BY <1>2, <1>15 DEF ListSeries
<1>16. ASSUME NEW x \in Items, NEW got \in SUBSET Items, ReadSeries(t, x, got) PROVE LockInv'
  BY <1>2, <1>16 DEF ReadSeries
<1>17. QED
  BY <1>1, <1>4, <1>5, <1>6, <1>7, <1>8, <1>9, <1>10, <1>11, <1>12, <1>13, <1>14, <1>15, <1>16

(* Requests and the rest of the world take no lock and start no thread.     *)
LEMMA OtherStepLock ==
  ASSUME LockInv, locked' = locked, \A u \in Threads : Busy(u)' => Busy(u)
  PROVE  LockInv'
BY LockKept DEF LockInv

LEMMA StepLock == ASSUME TypeOK, LockInv, [Next]_vars PROVE LockInv'
<1> USE DEF TypeOK
<1>1. ASSUME thread' = thread, locked' = locked PROVE LockInv'
  BY <1>1, OtherStepLock DEF Busy
<1>2. ASSUME NEW h \in Hooks, WebhookCommits(h) PROVE LockInv'
  <2>1. PICK gone : thread' = ThreadsWithout(gone)
    BY <1>2 DEF WebhookCommits
  <2>2. QED
    BY <1>2, <2>1, WithoutIdle, OtherStepLock DEF WebhookCommits, Busy
<1>3. ASSUME NEW h \in Hooks,
             \/ \E e \in events : WebhookReads(h, e)
             \/ WebhookRaises(h) \/ WebhookMarksFailed(h)
             \/ \E x \in Items : DeleteOnServer(h, x)
             \/ DeleteLocally(h) \/ AbortHook(h) \/ ReadStaleRun(h) \/ CloseRun(h)
      PROVE  LockInv'
  BY <1>1, <1>3 DEF WebhookReads, WebhookRaises, WebhookMarksFailed, DeleteOnServer,
                    DeleteLocally, AbortHook, ReadStaleRun, CloseRun
<1>4. CASE TwoHoursPass
  <2>1. \A u \in Threads : Busy(u)' => Busy(u)
    BY <1>4, NotIdle DEF TwoHoursPass, Working, Busy
  <2>2. QED
    BY <1>4, <2>1, OtherStepLock DEF TwoHoursPass
<1>5. CASE Toggle
  BY <1>1, <1>5 DEF Toggle
<1>6. ASSUME NEW p \in Procs, Crash(p) PROVE LockInv'
  <2>1. \A u \in Threads : Busy(u)' => Busy(u) /\ Host[u] # p
    BY <1>6 DEF Crash, Busy
  <2>2. QED
    BY <1>6, <2>1, LockKept DEF Crash, LockInv
<1>7. ASSUME NEW x \in Items, LibraryChanges(x) PROVE LockInv'
  BY <1>1, <1>7 DEF LibraryChanges
<1>8. CASE UNCHANGED vars
  BY <1>1, <1>8 DEF vars
<1>9. QED
  BY <1>2, <1>3, <1>4, <1>5, <1>6, <1>7, <1>8, ThreadStepLock DEF Next

LEMMA LockInvariant == Spec => []LockInv
<1>1. Init => LockInv
  BY DEF Init, LockInv, OneSyncPerProcess, Busy
<1>2. TypeOK /\ LockInv /\ [Next]_vars => LockInv'
  BY StepLock
<1>3. QED
  BY <1>1, <1>2, TypeCorrect, PTL DEF Spec

\* Any number of threads of a process, requests and restarts: one of them
\* synchronises at a time.
THEOREM SyncsTakeTurns == Spec => []OneSyncPerProcess
<1>1. LockInv => OneSyncPerProcess
  BY DEF LockInv
<1>2. QED
  BY <1>1, LockInvariant, PTL

-----------------------------------------------------------------------------
(* A snapshot on its way into the cache is as young as the one it replaces. *)

Loaded(t) == thread[t].pc \in {"reading", "fetched", "replacing"}

SnapshotInv ==
  /\ asOf <= version
  /\ \A t \in Threads : Loaded(t) => asOf <= thread[t].asOf /\ thread[t].asOf <= version

(* A step that stores nothing and loads nothing keeps that.                 *)
LEMMA SnapshotKept ==
  ASSUME TypeOK, SnapshotInv, asOf' = asOf, version' \in Nat, version' >= version,
         \A u \in Threads : Loaded(u)' => Loaded(u) /\ thread'[u].asOf = thread[u].asOf
  PROVE  SnapshotInv'
BY DEF SnapshotInv, TypeOK, Thread

LEMMA WithoutLoads ==
  ASSUME TypeOK, NEW gone, NEW u \in Threads
  PROVE  /\ ThreadsWithout(gone)[u].pc = thread[u].pc
         /\ ThreadsWithout(gone)[u].asOf = thread[u].asOf
BY DEF ThreadsWithout, TypeOK, Thread

LEMMA StepSnapshot ==
  ASSUME OneProcess, TypeOK, LockInv, SnapshotInv, [Next]_vars
  PROVE  SnapshotInv' /\ asOf' >= asOf
<1> DEFINE Goal == SnapshotInv' /\ asOf' >= asOf
<1> USE DEF TypeOK
<1>1. ASSUME asOf' = asOf, version' \in Nat, version' >= version,
             \A u \in Threads : Loaded(u)' => Loaded(u) /\ thread'[u].asOf = thread[u].asOf
      PROVE  Goal
  BY <1>1, SnapshotKept
<1>2. ASSUME NEW t \in Threads, asOf' = asOf, version' = version,
             thread' = [thread EXCEPT ![t] = Idle]
      PROVE  Goal
  BY <1>1, <1>2 DEF Loaded, Idle
<1>3. ASSUME NEW t \in Threads, NEW pc, asOf' = asOf, version' = version, Goto(t, pc),
             pc \notin {"reading", "fetched", "replacing"}
      PROVE  Goal
  <2>1. \A u \in Threads : Loaded(u)' => Loaded(u) /\ thread'[u].asOf = thread[u].asOf
    BY <1>3 DEF Goto, Loaded, Thread
  <2>2. QED
    BY <1>1, <1>3, <2>1
<1>4. ASSUME NEW t \in Threads, NEW kind \in {"manual", "scheduled"}, Reserve(t, kind) PROVE Goal
  <2>1. \A u \in Threads : Loaded(u)' => Loaded(u) /\ thread'[u].asOf = thread[u].asOf
    BY <1>4 DEF Reserve, Loaded, Idle
  <2>2. QED
    BY <1>1, <1>4, <2>1 DEF Reserve, shared
<1>5. ASSUME NEW t \in Threads,
             \/ ReadStatus(t) \/ RefuseOverlap(t) \/ MarkRunning(t) \/ LoadConfig(t)
             \/ LoseConfig(t) \/ FetchFails(t) \/ ReplaceConflicts(t) \/ MarkFailed(t)
      PROVE  Goal
  BY <1>2, <1>3, <1>5 DEF ReadStatus, RefuseOverlap, MarkRunning, LoadConfig, LoseConfig,
     FetchFails, ReplaceConflicts, MarkFailed, Finish, shared
<1>6. ASSUME NEW t \in Threads, NEW got \in SUBSET Items, FetchItems(t, got) PROVE Goal
  <2>1. thread' = [thread EXCEPT ![t] = [thread[t] EXCEPT !.pc = "fetched", !.got = got,
                                                          !.asOf = version]]
    BY <1>6, Zenon DEF FetchItems
  <2>2. asOf' = asOf /\ version' = version
    BY <1>6 DEF FetchItems, shared
  <2>3. thread'[t].asOf = version /\ \A u \in Threads : u # t => thread'[u] = thread[u]
    BY <2>1 DEF Thread
  <2>4. QED
    BY <2>2, <2>3 DEF SnapshotInv, Loaded
<1>7. ASSUME NEW t \in Threads, DeleteRows(t) PROVE Goal
  <2>1. thread' = [thread EXCEPT ![t] = [thread[t] EXCEPT !.pc = "replacing", !.seen = owned]]
    BY <1>7, Zenon DEF DeleteRows
  <2>2. thread'[t].asOf = thread[t].asOf /\ \A u \in Threads : u # t => thread'[u] = thread[u]
    BY <2>1 DEF Thread
  <2>3. Loaded(t) /\ asOf' = asOf /\ version' = version
    BY <1>7 DEF DeleteRows, Loaded, shared
  <2>4. QED
    BY <1>1, <2>2, <2>3 DEF Loaded
<1>8. ASSUME NEW t \in Threads, Replace(t) PROVE Goal
  <2>1. Loaded(t) /\ Busy(t)
    BY <1>8, NotIdle DEF Replace, Loaded
  <2>2. asOf' = thread[t].asOf /\ version' = version
    BY <1>8 DEF Replace
  <2>3. \A u \in Threads : u # t => thread[u] = Idle
    BY <2>1 DEF OneProcess, LockInv, OneSyncPerProcess, Busy
  <2>4. \A u \in Threads : thread'[u] = Idle
    BY <1>8, <2>3, WithoutIdle, WithoutType DEF Replace
  <2>5. \A u \in Threads : ~ Loaded(u)'
    BY <2>4 DEF Loaded, Idle
  <2>6. QED
    BY <2>1, <2>2, <2>5 DEF SnapshotInv
<1>9. ASSUME NEW h \in Hooks, WebhookCommits(h) PROVE Goal
  <2>1. PICK gone : thread' = ThreadsWithout(gone)
    BY <1>9 DEF WebhookCommits
  <2>2. asOf' = asOf /\ version' = version
    BY <1>9 DEF WebhookCommits
  <2>3. QED
    BY <1>1, <2>1, <2>2, WithoutLoads DEF Loaded
<1>10. ASSUME asOf' = asOf, thread' = thread, version' = version \/ version' = version + 1 PROVE Goal
  BY <1>1, <1>10 DEF Loaded
<1>11. ASSUME NEW h \in Hooks,
              \/ \E e \in events : WebhookReads(h, e)
              \/ WebhookRaises(h) \/ WebhookMarksFailed(h)
              \/ \E x \in Items : DeleteOnServer(h, x)
              \/ DeleteLocally(h) \/ AbortHook(h) \/ ReadStaleRun(h) \/ CloseRun(h)
       PROVE  Goal
  BY <1>10, <1>11 DEF WebhookReads, WebhookRaises, WebhookMarksFailed, DeleteOnServer,
                      DeleteLocally, AbortHook, ReadStaleRun, CloseRun, shared
<1>12. CASE TwoHoursPass
  <2>1. \A u \in Threads : thread'[u].pc = thread[u].pc /\ thread'[u].asOf = thread[u].asOf
    BY <1>12 DEF TwoHoursPass, Thread
  <2>2. QED
    BY <1>1, <1>12, <2>1 DEF TwoHoursPass, Loaded
<1>13. CASE Toggle
  BY <1>10, <1>13 DEF Toggle
<1>14. ASSUME NEW p \in Procs, Crash(p) PROVE Goal
  <2>1. \A u \in Threads : thread'[u] = thread[u] \/ thread'[u] = Idle
    BY <1>14 DEF Crash
  <2>2. QED
    BY <1>1, <1>14, <2>1 DEF Crash, Loaded, Idle, shared
<1>15. ASSUME NEW x \in Items, LibraryChanges(x) PROVE Goal
  BY <1>10, <1>15 DEF LibraryChanges
<1>16. CASE UNCHANGED vars
  BY <1>10, <1>16 DEF vars
<1>17. ASSUME NEW t \in Threads, ListSeries(t) PROVE Goal
  <2>1. thread' = [thread EXCEPT ![t] = [thread[t] EXCEPT !.pc = "reading", !.todo = Items,
                                                          !.asOf = version]]
    BY <1>17, Zenon DEF ListSeries
  <2>2. asOf' = asOf /\ version' = version
    BY <1>17 DEF ListSeries, shared
  <2>3. thread'[t].asOf = version /\ \A u \in Threads : u # t => thread'[u] = thread[u]
    BY <2>1 DEF Thread
  <2>4. QED
    BY <2>2, <2>3 DEF SnapshotInv, Loaded
<1>18. ASSUME NEW t \in Threads, NEW x \in Items, NEW got \in SUBSET Items, ReadSeries(t, x, got)
       PROVE  Goal
  <2>1. thread'[t].asOf = thread[t].asOf /\ \A u \in Threads : u # t => thread'[u] = thread[u]
    BY <1>18 DEF ReadSeries, Thread
  <2>2. Loaded(t) /\ asOf' = asOf /\ version' = version
    BY <1>18 DEF ReadSeries, Loaded, shared
  <2>3. QED
    BY <1>1, <2>1, <2>2 DEF Loaded
<1>19. QED
  BY <1>4, <1>5, <1>6, <1>7, <1>8, <1>9, <1>11, <1>12, <1>13, <1>14, <1>15, <1>16, <1>17, <1>18
     DEF Next

\* In one process, a synchronisation never stores a snapshot older than the one
\* it replaces, whatever fails, is restarted, or arrives meanwhile.
THEOREM SnapshotsAreFresh == ASSUME OneProcess PROVE Spec => SnapshotsMoveForward
<1>1. Init => SnapshotInv
  BY DEF Init, SnapshotInv, Loaded, Idle
<1>2. TypeOK /\ LockInv /\ SnapshotInv /\ [Next]_vars => SnapshotInv' /\ [asOf' >= asOf]_vars
  BY StepSnapshot
<1>3. QED
  BY <1>1, <1>2, TypeCorrect, LockInvariant, PTL DEF Spec, SnapshotsMoveForward

=============================================================================
