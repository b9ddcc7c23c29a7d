------------------------ MODULE ReleaseCatalogProofs ------------------------
(***************************************************************************)
(* What the release catalogue guarantees for every number of titles and    *)
(* workers and for every choice of its four delays.                        *)
(***************************************************************************)
EXTENDS ReleaseCatalog, FiniteSetTheorems, TLAPS

(* The number of due rows between two of them is a number.                 *)
LEMMA RowsCountable ==
  ASSUME TypeOK, NEW S \in SUBSET rows
  PROVE  Cardinality(S) \in Nat
BY CatalogAssumption, FS_Subset, FS_CardinalityType DEF TypeOK

-----------------------------------------------------------------------------
(* Type correctness                                                        *)

LEMMA InitType == Init => TypeOK
BY CatalogAssumption DEF Init, TypeOK, Priorities, Job, Idle

LEMMA TickType == ASSUME TypeOK, Tick PROVE TypeOK'
<1> DEFINE left(k) == nextRefresh[k] - 1
           between(k) == {j \in rows : left(k) < left(j) /\ left(j) < 0}
<1>1. \A k \in Keys : Cardinality(between(k)) \in Nat
  BY RowsCountable
<1>2. nextRefresh' = [k \in Keys |-> IF k \notin rows THEN 0
                                     ELSE IF left(k) >= 0 THEN left(k)
                                     ELSE - 1 - Cardinality(between(k))]
  BY DEF Tick
<1> HIDE DEF between
<1>3. nextRefresh' \in [Keys -> Int]
  BY <1>1, <1>2 DEF TypeOK
<1>4. leasedUntil' \in [Keys -> Nat] /\ cooling' \in [Keys -> Nat]
  BY DEF Tick, TypeOK, Less
<1>5. QED
  BY <1>3, <1>4 DEF Tick, TypeOK

LEMMA StepType == ASSUME TypeOK, [Next]_vars PROVE TypeOK'
<1> USE CatalogAssumption DEF TypeOK, Priorities
<1>1. ASSUME NEW k \in Keys, RequestCatalog(k) PROVE TypeOK'
  BY <1>1 DEF RequestCatalog, RaisePriority
<1>2. ASSUME NEW K \in SUBSET Keys, PreloadCatalogs(K) PROVE TypeOK'
  BY <1>2 DEF PreloadCatalogs, Insert
<1>3. ASSUME NEW K \in SUBSET Keys, SeedCatalogs(K) PROVE TypeOK'
  BY <1>3 DEF SeedCatalogs, Insert
<1>4. ASSUME NEW K \in SUBSET Keys, RefreshOwnerCatalogs(K) PROVE TypeOK'
  <2>1. rows' \in SUBSET Keys /\ priority' \in [Keys -> Priorities]
    BY <1>4 DEF RefreshOwnerCatalogs, Insert
  <2>2. nextRefresh' \in [Keys -> Int]
    BY <1>4 DEF RefreshOwnerCatalogs
  <2>3. failed' \in [Keys -> BOOLEAN]
    BY <1>4, Zenon DEF RefreshOwnerCatalogs
  <2>4. QED
    BY <1>4, <2>1, <2>2, <2>3 DEF RefreshOwnerCatalogs
<1>5. ASSUME NEW w \in Workers, NEW k \in Keys, ClaimCatalog(w, k) PROVE TypeOK'
  BY <1>5 DEF ClaimCatalog, Lease, Job
<1>6. ASSUME NEW w \in Workers, NEW k \in Keys, FetchCatalog(w, k) PROVE TypeOK'
  BY <1>6 DEF FetchCatalog, Job, row
<1>7. ASSUME NEW w \in Workers, FetchFails(w) PROVE TypeOK'
  BY <1>7 DEF FetchFails, row, Job, Idle
<1>8. ASSUME NEW w \in Workers, NEW k \in Keys, PublishSnapshot(w, k) PROVE TypeOK'
  <2>1. job[w].got \in Nat /\ Delays(job[w].got) \in SUBSET Nat
    BY <1>8 DEF PublishSnapshot, Job, Idle, Delays
  <2>2. QED
    BY <1>8, <2>1 DEF PublishSnapshot, Release, Job
<1>9. ASSUME NEW w \in Workers, NEW k \in Keys, PublishFailure(w, k) PROVE TypeOK'
  <2>1. Delays(job[w].got) \in SUBSET Nat
    BY DEF Delays
  <2>2. QED
    BY <1>9, <2>1 DEF PublishFailure, Release, Job
<1>10. ASSUME NEW w \in Workers, NEW k \in Keys, PublishFencedOut(w, k) PROVE TypeOK'
  BY <1>10 DEF PublishFencedOut, row, Job
<1>11. ASSUME NEW w \in Workers, Abandon(w) PROVE TypeOK'
  BY <1>11 DEF Abandon, row, Job
<1>12. CASE Tick
  BY <1>12, TickType
<1>13. ASSUME NEW k \in Keys, TmdbChanges(k) PROVE TypeOK'
  BY <1>13 DEF TmdbChanges, row
<1>14. CASE UNCHANGED vars
  BY <1>14 DEF vars
<1> HIDE DEF TypeOK, Priorities
<1>15. QED
  BY <1>1, <1>2, <1>3, <1>4, <1>5, <1>6, <1>7, <1>8, <1>9, <1>10, <1>11, <1>12,
     <1>13, <1>14 DEF Next

\* Every row and every job keeps its type, whatever the delays and however
\* many titles and workers there are.
THEOREM TypeCorrect == Spec => []TypeOK
<1>1. Init => TypeOK
  BY InitType
<1>2. TypeOK /\ [Next]_vars => TypeOK'
  BY StepType
<1>3. QED
  BY <1>1, <1>2, PTL DEF Spec

-----------------------------------------------------------------------------
(* Leases, priorities and back-off: three facts about single rows.  They   *)
(* are inductive once an identity that has no row yet carries no snapshot  *)
(* (an insertion sets its priority) and no failure.                        *)

AbsentRowsBlank == \A k \in Keys : k \notin rows => payload[k] = 0 /\ ~ failed[k]

RowInv ==
  /\ AbsentRowsBlank
  /\ LeasedRowsAreDue
  /\ PriorityOnlyWhilePreparing
  /\ FailedRowsRetrySoon

LEMMA InitRow == Init => RowInv
BY CatalogAssumption
DEF Init, RowInv, AbsentRowsBlank, LeasedRowsAreDue, PriorityOnlyWhilePreparing, FailedRowsRetrySoon

(* Waiting brings no due row back into the future.                         *)
LEMMA TickDeadlines ==
  ASSUME TypeOK, Tick, NEW k \in Keys
  PROVE  /\ nextRefresh[k] <= 0 => nextRefresh'[k] <= 0
         /\ nextRefresh[k] <= RetryTime => nextRefresh'[k] <= RetryTime
<1> DEFINE left(j) == nextRefresh[j] - 1
           between(j) == {i \in rows : left(j) < left(i) /\ left(i) < 0}
<1>1. Cardinality(between(k)) \in Nat
  BY RowsCountable
<1>2. nextRefresh' = [j \in Keys |-> IF j \notin rows THEN 0
                                     ELSE IF left(j) >= 0 THEN left(j)
                                     ELSE - 1 - Cardinality(between(j))]
  BY DEF Tick
<1> HIDE DEF between
<1>3. QED
  BY <1>1, <1>2, CatalogAssumption DEF TypeOK


LEMMA StepRow == ASSUME TypeOK, RowInv, [Next]_vars PROVE RowInv'
<1> USE CatalogAssumption
    DEF RowInv, AbsentRowsBlank, LeasedRowsAreDue, PriorityOnlyWhilePreparing,
        FailedRowsRetrySoon
<1>1. ASSUME NEW k \in Keys, RequestCatalog(k) PROVE RowInv'
  BY <1>1 DEF TypeOK, RequestCatalog, RaisePriority
<1>2. ASSUME NEW K \in SUBSET Keys, PreloadCatalogs(K) PROVE RowInv'
  BY <1>2 DEF TypeOK, PreloadCatalogs, Insert
<1>3. ASSUME NEW K \in SUBSET Keys, SeedCatalogs(K) PROVE RowInv'
  BY <1>3 DEF TypeOK, SeedCatalogs, Insert
<1>4. ASSUME NEW K \in SUBSET Keys, RefreshOwnerCatalogs(K) PROVE RowInv'
  BY <1>4 DEF TypeOK, RefreshOwnerCatalogs, Insert, Refreshable
<1>5. ASSUME NEW w \in Workers, NEW k \in Keys, ClaimCatalog(w, k) PROVE RowInv'
  BY <1>5 DEF TypeOK, ClaimCatalog, Lease, Due
<1>6. ASSUME NEW w \in Workers, NEW k \in Keys, FetchCatalog(w, k) PROVE RowInv'
  BY <1>6 DEF FetchCatalog, row
<1>7. ASSUME NEW w \in Workers, FetchFails(w) PROVE RowInv'
  BY <1>7 DEF FetchFails, row
<1>8. ASSUME NEW w \in Workers, NEW k \in Keys, PublishSnapshot(w, k) PROVE RowInv'
  BY <1>8 DEF TypeOK, PublishSnapshot, Release, Fenced
<1>9. ASSUME NEW w \in Workers, NEW k \in Keys, PublishFailure(w, k) PROVE RowInv'
  BY <1>9 DEF TypeOK, PublishFailure, Release, Fenced, Delays
<1>10. ASSUME NEW w \in Workers, NEW k \in Keys, PublishFencedOut(w, k) PROVE RowInv'
  BY <1>10 DEF PublishFencedOut, row
<1>11. ASSUME NEW w \in Workers, Abandon(w) PROVE RowInv'
  BY <1>11 DEF Abandon, row
<1>12. CASE Tick
  BY <1>12, TickDeadlines DEF Tick, TypeOK
<1>13. ASSUME NEW k \in Keys, TmdbChanges(k) PROVE RowInv'
  BY <1>13 DEF TmdbChanges, row
<1>14. CASE UNCHANGED vars
  BY <1>14 DEF vars
<1> HIDE DEF RowInv
<1>15. QED
  BY <1>1, <1>2, <1>3, <1>4, <1>5, <1>6, <1>7, <1>8, <1>9, <1>10, <1>11, <1>12,
     <1>13, <1>14 DEF Next

LEMMA RowInvariant == Spec => []RowInv
<1>1. TypeOK /\ RowInv /\ [Next]_vars => RowInv'
  BY StepRow
<1>2. QED
  BY InitRow, <1>1, TypeCorrect, PTL DEF Spec

\* An abandoned lease is claimable the moment it expires, however refreshes,
\* failures and other workers interleave.
THEOREM LeasesRecoverable == Spec => []LeasedRowsAreDue
<1>1. RowInv => LeasedRowsAreDue
  BY DEF RowInv
<1>2. QED
  BY <1>1, RowInvariant, PTL

\* An interactive priority ends with the first snapshot.
THEOREM PriorityEnds == Spec => []PriorityOnlyWhilePreparing
<1>1. RowInv => PriorityOnlyWhilePreparing
  BY DEF RowInv
<1>2. QED
  BY <1>1, RowInvariant, PTL

\* A failed title waits for its back-off at most.
THEOREM FailuresRetried == Spec => []FailedRowsRetrySoon
<1>1. RowInv => FailedRowsRetrySoon
  BY DEF RowInv
<1>2. QED
  BY <1>1, RowInvariant, PTL

-----------------------------------------------------------------------------
(* The fence                                                               *)

\* No step takes a running lease from a worker that still carries its job.
THEOREM LiveLeasesHold == Spec => LiveLeaseHolds
<1> DEFINE Holds == \A w \in Workers, k \in Keys :
                      claimant[k] = w /\ leasedUntil[k] > 0 /\ job'[w] = job[w]
                        => claimant'[k] = w
<1>1. ASSUME TypeOK, [Next]_vars PROVE Holds
  <2> SUFFICES ASSUME NEW w \in Workers, NEW k \in Keys,
                      claimant[k] = w, leasedUntil[k] > 0, job'[w] = job[w]
               PROVE  claimant'[k] = w
    OBVIOUS
  <2> USE CatalogAssumption DEF TypeOK
  <2>1. ASSUME NEW v \in Workers, NEW j \in Keys, ClaimCatalog(v, j) PROVE claimant'[k] = w
    BY <2>1 DEF ClaimCatalog, Lease, Due
  <2>2. ASSUME NEW v \in Workers, NEW j \in Keys, PublishSnapshot(v, j) \/ PublishFailure(v, j)
        PROVE  claimant'[k] = w
    <3>1. job[v].stage = "fetched" /\ Fenced(v, j) /\ Release(v, j)
      BY <2>2 DEF PublishSnapshot, PublishFailure
    <3>2. job'[v] = Idle
      BY <1>1, <3>1 DEF Release
    <3>3. v # w
      BY <3>1, <3>2 DEF Idle
    <3>4. QED
      BY <1>1, <3>1, <3>3 DEF Release, Fenced
  <2>3. CASE UNCHANGED claimant
    BY <2>3
  <2>4. QED
    BY <1>1, <2>1, <2>2, <2>3
    DEF Next, vars, row, RequestCatalog, PreloadCatalogs, SeedCatalogs, RefreshOwnerCatalogs,
        FetchCatalog, FetchFails, PublishFencedOut, Abandon, Tick, TmdbChanges
<1>2. QED
  BY <1>1, TypeCorrect, PTL DEF Spec, LiveLeaseHolds

(* Nothing published or fetched is ahead of TMDB, and whoever holds the    *)
(* lease of a title has fetched no older version than the published one:   *)
(* it fetched after every earlier publication, and later ones are fenced.  *)
FenceInv ==
  /\ \A k \in Keys : payload[k] <= tmdb[k]
  /\ \A w \in Workers, k \in Keys :
       job[w].stage = "fetched" /\ job[w].key = k =>
         /\ job[w].got <= tmdb[k]
         /\ job[w].got # 0 /\ claimant[k] = w => payload[k] <= job[w].got

LEMMA InitFence == Init => FenceInv
BY CatalogAssumption DEF Init, FenceInv, Idle

LEMMA StepFence == ASSUME TypeOK, FenceInv, [Next]_vars PROVE FenceInv'
<1> USE CatalogAssumption DEF FenceInv
<1>1. ASSUME NEW k \in Keys, RequestCatalog(k) PROVE FenceInv'
  BY <1>1 DEF RequestCatalog
<1>2. ASSUME NEW K \in SUBSET Keys,
             PreloadCatalogs(K) \/ SeedCatalogs(K) \/ RefreshOwnerCatalogs(K)
      PROVE  FenceInv'
  BY <1>2 DEF PreloadCatalogs, SeedCatalogs, RefreshOwnerCatalogs
<1>3. ASSUME NEW w \in Workers, NEW k \in Keys, ClaimCatalog(w, k) PROVE FenceInv'
  BY <1>3 DEF TypeOK, ClaimCatalog, Lease, Idle
<1>4. ASSUME NEW w \in Workers, NEW k \in Keys, FetchCatalog(w, k) PROVE FenceInv'
  BY <1>4 DEF TypeOK, FetchCatalog, row
<1>5. ASSUME NEW w \in Workers, FetchFails(w) PROVE FenceInv'
  BY <1>5 DEF TypeOK, FetchFails, row, Job, Idle
<1>6. ASSUME NEW w \in Workers, NEW k \in Keys, PublishSnapshot(w, k) PROVE FenceInv'
  BY <1>6 DEF TypeOK, PublishSnapshot, Release, Fenced, Idle
<1>7. ASSUME NEW w \in Workers, NEW k \in Keys, PublishFailure(w, k) PROVE FenceInv'
  BY <1>7 DEF TypeOK, PublishFailure, Release, Fenced, Idle
<1>8. ASSUME NEW w \in Workers, NEW k \in Keys, PublishFencedOut(w, k) PROVE FenceInv'
  BY <1>8 DEF TypeOK, PublishFencedOut, row, Idle
<1>9. ASSUME NEW w \in Workers, Abandon(w) PROVE FenceInv'
  BY <1>9 DEF TypeOK, Abandon, row, Idle
<1>10. CASE Tick
  BY <1>10 DEF Tick
<1>11. ASSUME NEW k \in Keys, TmdbChanges(k) PROVE FenceInv'
  BY <1>11 DEF TypeOK, TmdbChanges, row, Job, Idle
<1>12. CASE UNCHANGED vars
  BY <1>12 DEF vars
<1> HIDE DEF FenceInv
<1>13. QED
  BY <1>1, <1>2, <1>3, <1>4, <1>5, <1>6, <1>7, <1>8, <1>9, <1>10, <1>11, <1>12 DEF Next

LEMMA FenceInvariant == Spec => []FenceInv
<1>1. TypeOK /\ FenceInv /\ [Next]_vars => FenceInv'
  BY StepFence
<1>2. QED
  BY InitFence, <1>1, TypeCorrect, PTL DEF Spec

(* Every step of the queue is a step of the mirror, or leaves it alone.    *)
LEMMA StepMirrors ==
  ASSUME TypeOK, FenceInv, [Next]_vars
  PROVE  [Mirror!Next]_<<tmdb, payload>>
<1>1. ASSUME NEW w \in Workers, NEW k \in Keys, PublishSnapshot(w, k)
      PROVE  Mirror!Publish(k)
  <2>1. job[w].got \in payload[k] .. tmdb[k]
    <3>1. payload[k] <= job[w].got /\ job[w].got <= tmdb[k]
      BY <1>1 DEF PublishSnapshot, Fenced, FenceInv
    <3>2. job[w].got \in Nat /\ payload[k] \in Nat /\ tmdb[k] \in Nat
      BY <1>1 DEF TypeOK, Job, Idle
    <3>3. QED
      BY <3>1, <3>2
  <2>2. QED
    BY <1>1, <2>1 DEF PublishSnapshot, Mirror!Publish
<1>2. ASSUME NEW k \in Keys, TmdbChanges(k) PROVE Mirror!SourceChanges(k)
  BY <1>2 DEF TmdbChanges, row, Mirror!SourceChanges
<1>3. CASE UNCHANGED <<tmdb, payload>>
  BY <1>3
<1>4. QED
  BY <1>1, <1>2, <1>3
  DEF Next, vars, row, Mirror!Next, RequestCatalog, PreloadCatalogs, SeedCatalogs,
      RefreshOwnerCatalogs, ClaimCatalog, FetchCatalog, FetchFails, PublishFailure,
      PublishFencedOut, Abandon, Tick

\* The queue with its leases, crashes and late workers implements a mirror
\* that only moves forward: no published snapshot is ever replaced by an older
\* one or lost.
THEOREM ImplementsMirror == Spec => MirrorsTmdb
<1>1. Init => Mirror!Init
  BY DEF Init, Mirror!Init
<1>2. TypeOK /\ FenceInv /\ [Next]_vars => [Mirror!Next]_<<tmdb, payload>>
  BY StepMirrors
<1>3. QED
  BY <1>1, <1>2, TypeCorrect, FenceInvariant, PTL DEF Spec, MirrorsTmdb, Mirror!Spec

=============================================================================
