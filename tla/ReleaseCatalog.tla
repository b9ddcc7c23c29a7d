--------------------------- MODULE ReleaseCatalog ---------------------------
(***************************************************************************)
(* The durable queue of public release catalogues: one row per title and   *)
(* language, leased to a background worker that fetches TMDB without       *)
(* holding a database connection and publishes behind a fence.             *)
(*                                                                         *)
(* Every database transaction of release_catalog_service.py is one step;   *)
(* what a worker does between its two transactions is not.  Instants are   *)
(* kept relative to the present: Tick moves every deadline one unit nearer *)
(* instead of advancing a clock, so 0 is "now" and no clock needs a bound. *)
(***************************************************************************)
EXTENDS Integers, FiniteSets

CONSTANTS
  Keys,          \* identities (media_type, tmdb_id, language)
  Workers,       \* consumers of all API processes
  NoWorker,      \* a row whose leased_until is NULL
  NoKey,         \* the key of a worker without a job
  Cooldown,      \* one minute
  RetryTime,     \* five minutes
  LeaseTime,     \* fifteen minutes
  RefreshTimes,  \* six hours, or a week for an ended title
  MaxVersion     \* bound: how often TMDB's own data changes

ASSUME CatalogAssumption ==
  /\ NoWorker \notin Workers
  /\ NoKey \notin Keys
  /\ IsFiniteSet(Keys)
  /\ Cooldown \in Nat \ {0} /\ RetryTime \in Nat \ {0} /\ LeaseTime \in Nat \ {0}
  /\ RefreshTimes \in SUBSET (Nat \ {0})
  /\ MaxVersion \in Nat \ {0}

VARIABLES
  rows,          \* identities that have a row
  priority,      \* priority of each row
  nextRefresh,   \* next_refresh_at - now; among due rows only the order counts
  leasedUntil,   \* time left of the lease, 0 once it has expired
  claimant,      \* whose claim wrote leased_until, NoWorker when it is NULL
  payload,       \* version of the published snapshot, 0 for NULL
  cooling,       \* time until updated_at is a minute old
  failed,        \* failed_at is set
  job,           \* what each worker carries between its transactions
  tmdb           \* version of each title in TMDB (external)

row == <<rows, priority, nextRefresh, leasedUntil, claimant, payload, cooling, failed>>
vars == <<rows, priority, nextRefresh, leasedUntil, claimant, payload, cooling, failed,
          job, tmdb>>

Idle == [stage |-> "idle", key |-> NoKey, got |-> 0]

Job == {Idle} \cup [stage : {"fetching", "fetched"}, key : Keys, got : Nat]

Priorities == {0, 5, 10}

TypeOK ==
  /\ rows \in SUBSET Keys
  /\ priority \in [Keys -> Priorities]
  /\ nextRefresh \in [Keys -> Int]
  /\ leasedUntil \in [Keys -> Nat]
  /\ claimant \in [Keys -> Workers \cup {NoWorker}]
  /\ payload \in [Keys -> Nat]
  /\ cooling \in [Keys -> Nat]
  /\ failed \in [Keys -> BOOLEAN]
  /\ job \in [Workers -> Job]
  /\ tmdb \in [Keys -> Nat \ {0}]

Init ==
  /\ rows = {}
  /\ priority = [k \in Keys |-> 0]
  /\ nextRefresh = [k \in Keys |-> 0]
  /\ leasedUntil = [k \in Keys |-> 0]
  /\ claimant = [k \in Keys |-> NoWorker]
  /\ payload = [k \in Keys |-> 0]
  /\ cooling = [k \in Keys |-> 0]
  /\ failed = [k \in Keys |-> FALSE]
  /\ job = [w \in Workers |-> Idle]
  /\ tmdb = [k \in Keys |-> 1]

-----------------------------------------------------------------------------
(* Requests                                                                *)

\* INSERT ... ON CONFLICT DO NOTHING for a set of identities: a new row is due.
Insert(K, p) ==
  /\ rows' = rows \cup K
  /\ priority' = [k \in Keys |-> IF k \in K \ rows THEN p ELSE priority[k]]

\* Mutants of RaisePriority: priorities add up; healthy titles are moved up too.
AddPriority(k) == IF payload[k] = 0 THEN priority[k] + 10 ELSE priority[k]
RaiseAnyPriority(k) == 10

\* An interactive miss, or a submitted intent: a row without a snapshot is
\* moved up the queue, a row that has one is left alone.
RaisePriority(k) == IF payload[k] = 0 THEN 10 ELSE priority[k]

RequestCatalog(k) ==
  /\ rows' = rows \cup {k}
  /\ priority' = [priority EXCEPT ![k] = RaisePriority(k)]
  /\ UNCHANGED <<nextRefresh, leasedUntil, claimant, payload, cooling, failed, job, tmdb>>

\* A feed that meets titles nobody asked for yet.
PreloadCatalogs(K) ==
  /\ ~ (K \subseteq rows)
  /\ Insert(K, 5)
  /\ UNCHANGED <<nextRefresh, leasedUntil, claimant, payload, cooling, failed, job, tmdb>>

\* The hourly discovery of tracked and bookmarked titles.
SeedCatalogs(K) ==
  /\ ~ (K \subseteq rows)
  /\ Insert(K, 0)
  /\ UNCHANGED <<nextRefresh, leasedUntil, claimant, payload, cooling, failed, job, tmdb>>

\* What an owner's refresh may bring forward: nothing leased, nothing due
\* already, nothing completed within the last minute.
Refreshable(k) ==
  /\ claimant[k] = NoWorker \/ leasedUntil[k] = 0
  /\ nextRefresh[k] > 0
  /\ payload[k] = 0 \/ cooling[k] = 0

RefreshOwnerCatalogs(K) ==
  LET forward == {k \in K \cap rows : Refreshable(k)}
  IN  /\ Insert(K, 0)
      /\ nextRefresh' = [k \in Keys |-> IF k \in forward THEN 0 ELSE nextRefresh[k]]
      /\ failed' = [k \in Keys |-> IF k \in forward THEN FALSE ELSE failed[k]]
      /\ UNCHANGED <<leasedUntil, claimant, payload, cooling, job, tmdb>>

-----------------------------------------------------------------------------
(* Workers                                                                 *)

\* Mutants of Due: leases are ignored; an expired lease is never taken over.
DueEvenIfLeased(k) == k \in rows /\ nextRefresh[k] <= 0
DueIfUnleased(k) == k \in rows /\ nextRefresh[k] <= 0 /\ claimant[k] = NoWorker

Due(k) ==
  /\ k \in rows
  /\ nextRefresh[k] <= 0
  /\ claimant[k] = NoWorker \/ leasedUntil[k] = 0

\* Mutant of Precedes: the most recently queued row goes first.
PrecedesNewest(k, other) ==
  \/ priority[k] > priority[other]
  \/ priority[k] = priority[other] /\ nextRefresh[k] >= nextRefresh[other]

\* ORDER BY priority DESC, next_refresh_at
Precedes(k, other) ==
  \/ priority[k] > priority[other]
  \/ priority[k] = priority[other] /\ nextRefresh[k] <= nextRefresh[other]

\* The lease a claim writes; its instant is the claim's identity.
Lease(w, k) ==
  /\ claimant' = [claimant EXCEPT ![k] = w]
  /\ leasedUntil' = [leasedUntil EXCEPT ![k] = LeaseTime]

\* First of the due rows that no other transaction holds (SKIP LOCKED).
FirstInLine(k, held) == \A other \in Keys \ held : Due(other) => Precedes(k, other)

ClaimCatalog(w, k) ==
  /\ job[w] = Idle
  /\ Due(k)
  /\ \E held \in SUBSET (Keys \ {k}) : FirstInLine(k, held)
  /\ Lease(w, k)
  /\ job' = [job EXCEPT ![w] = [stage |-> "fetching", key |-> k, got |-> 0]]
  /\ UNCHANGED <<rows, priority, nextRefresh, payload, cooling, failed, tmdb>>

\* TMDB answered with a complete catalogue, however long that took.
FetchCatalog(w, k) ==
  /\ job[w].stage = "fetching" /\ job[w].key = k
  /\ job' = [job EXCEPT ![w] = [stage |-> "fetched", key |-> k, got |-> tmdb[k]]]
  /\ UNCHANGED <<row, tmdb>>

\* Any exception of the fetch leaves the payload None.
FetchFails(w) ==
  /\ job[w].stage = "fetching"
  /\ job' = [job EXCEPT ![w] = [stage |-> "fetched", key |-> job[w].key, got |-> 0]]
  /\ UNCHANGED <<row, tmdb>>

\* Mutant of Fenced: any lease will do.
FencedByAnyLease(w, k) == claimant[k] # NoWorker

\* The fence: the row's leased_until is still the one this job's claim wrote.
Fenced(w, k) == claimant[k] = w

\* Mutant of Release: the lease stays in the row.
KeepLease(w, k) ==
  /\ UNCHANGED <<claimant, leasedUntil>>
  /\ job' = [job EXCEPT ![w] = Idle]

Release(w, k) ==
  /\ claimant' = [claimant EXCEPT ![k] = NoWorker]
  /\ leasedUntil' = [leasedUntil EXCEPT ![k] = 0]
  /\ job' = [job EXCEPT ![w] = Idle]

\* Mutant of Delays: a failure waits for the regular schedule.
RegularDelays(got) == RefreshTimes

\* How long after publishing a snapshot, or a failure, the next attempt is due.
Delays(got) == IF got # 0 THEN RefreshTimes ELSE {RetryTime}

PublishSnapshot(w, k) ==
  /\ job[w].stage = "fetched" /\ job[w].key = k
  /\ job[w].got # 0
  /\ Fenced(w, k)
  /\ payload' = [payload EXCEPT ![k] = job[w].got]
  /\ cooling' = [cooling EXCEPT ![k] = Cooldown]
  /\ failed' = [failed EXCEPT ![k] = FALSE]
  /\ priority' = [priority EXCEPT ![k] = 0]
  /\ \E delay \in Delays(job[w].got) : nextRefresh' = [nextRefresh EXCEPT ![k] = delay]
  /\ Release(w, k)
  /\ UNCHANGED <<rows, tmdb>>

PublishFailure(w, k) ==
  /\ job[w].stage = "fetched" /\ job[w].key = k
  /\ job[w].got = 0
  /\ Fenced(w, k)
  /\ failed' = [failed EXCEPT ![k] = TRUE]
  /\ \E delay \in Delays(job[w].got) : nextRefresh' = [nextRefresh EXCEPT ![k] = delay]
  /\ Release(w, k)
  /\ UNCHANGED <<rows, priority, payload, cooling, tmdb>>

\* Another worker has leased the row since: the result is dropped.
PublishFencedOut(w, k) ==
  /\ job[w].stage = "fetched" /\ job[w].key = k
  /\ ~ Fenced(w, k)
  /\ job' = [job EXCEPT ![w] = Idle]
  /\ UNCHANGED <<row, tmdb>>

\* The process dies, or the publishing transaction raises: the job is lost and
\* the lease stays in the row.
Abandon(w) ==
  /\ job[w] # Idle
  /\ job' = [job EXCEPT ![w] = Idle]
  /\ UNCHANGED <<row, tmdb>>

-----------------------------------------------------------------------------
(* Environment                                                             *)

Less(n) == IF n > 0 THEN n - 1 ELSE 0

\* One unit of time.  A row that was due before keeps only its place among
\* those rows, all of them ahead of what becomes due now.
Tick ==
  LET left(k) == nextRefresh[k] - 1
      between(k) == {j \in rows : left(k) < left(j) /\ left(j) < 0}
  IN  /\ nextRefresh' = [k \in Keys |-> IF k \notin rows THEN 0
                                        ELSE IF left(k) >= 0 THEN left(k)
                                        ELSE - 1 - Cardinality(between(k))]
      /\ leasedUntil' = [k \in Keys |-> Less(leasedUntil[k])]
      /\ cooling' = [k \in Keys |-> Less(cooling[k])]
      /\ UNCHANGED <<rows, priority, claimant, payload, failed, job, tmdb>>

TmdbChanges(k) ==
  /\ tmdb[k] < MaxVersion
  /\ tmdb' = [tmdb EXCEPT ![k] = @ + 1]
  /\ UNCHANGED <<row, job>>

Next ==
  \/ \E k \in Keys : RequestCatalog(k)
  \/ \E K \in SUBSET Keys : PreloadCatalogs(K)
  \/ \E K \in SUBSET Keys : SeedCatalogs(K)
  \/ \E K \in SUBSET Keys : RefreshOwnerCatalogs(K)
  \/ \E w \in Workers, k \in Keys : ClaimCatalog(w, k)
  \/ \E w \in Workers, k \in Keys : FetchCatalog(w, k)
  \/ \E w \in Workers : FetchFails(w)
  \/ \E w \in Workers, k \in Keys : PublishSnapshot(w, k)
  \/ \E w \in Workers, k \in Keys : PublishFailure(w, k)
  \/ \E w \in Workers, k \in Keys : PublishFencedOut(w, k)
  \/ \E w \in Workers : Abandon(w)
  \/ Tick
  \/ \E k \in Keys : TmdbChanges(k)

Spec == Init /\ [][Next]_vars

-----------------------------------------------------------------------------
(* Fairness.  Time passes, idle workers poll, no row is held by others at  *)
(* every single poll, and a worker with a job finishes it one way or       *)
(* another.  TMDB answers, and the worker survives to publish, within the  *)
(* lease infinitely often if it is tried infinitely often; a single        *)
(* attempt may always fail, hang or die.                                   *)

ClaimUnhindered(w, k) == ClaimCatalog(w, k) /\ FirstInLine(k, {})

FetchInTime(w, k) == FetchCatalog(w, k) /\ Fenced(w, k)

\* The ends of a job that do not publish a snapshot.
EndsEmptyHanded(w) ==
  \/ FetchFails(w)
  \/ \E k \in Keys : PublishFailure(w, k) \/ PublishFencedOut(w, k)

Fairness ==
  /\ WF_vars(Tick)
  /\ \A w \in Workers :
       /\ SF_vars(\E k \in Keys : ClaimUnhindered(w, k))
       /\ WF_vars(EndsEmptyHanded(w))
       /\ \A k \in Keys :
            /\ SF_vars(FetchInTime(w, k))
            /\ SF_vars(PublishSnapshot(w, k))

FairSpec == Spec /\ Fairness

-----------------------------------------------------------------------------
(* Properties                                                              *)

\* A leased row is still due, so the lease of a worker that died is claimed
\* again the moment it expires: neither an owner's refresh nor a late failure
\* may leave a lease on a row whose next refresh lies in the future.
LeasedRowsAreDue ==
  \A k \in Keys : claimant[k] # NoWorker => k \in rows /\ nextRefresh[k] <= 0

\* Only a title that has never been published keeps an interactive priority:
\* visits to healthy titles, failures and refreshes never push one ahead of
\* the titles somebody is waiting for.
PriorityOnlyWhilePreparing ==
  \A k \in Keys : priority[k] > 0 => payload[k] = 0

\* A title whose last attempt failed is retried after the back-off, never on
\* the schedule of a healthy snapshot.
FailedRowsRetrySoon ==
  \A k \in Keys : failed[k] => nextRefresh[k] <= RetryTime

\* While its lease runs, a worker keeps the row until it publishes or loses
\* its job: claims, visits and refreshes by others cannot take it away.
LiveLeaseHolds ==
  [][\A w \in Workers, k \in Keys :
       claimant[k] = w /\ leasedUntil[k] > 0 /\ job'[w] = job[w]
         => claimant'[k] = w]_vars

\* What readers are promised: the published catalogue of a title only moves
\* forward through the versions TMDB has had, and never disappears.  A slow
\* worker whose lease was taken over cannot bring an older one back.
Mirror == INSTANCE SnapshotMirror WITH Titles <- Keys, source <- tmdb, mirror <- payload

MirrorsTmdb == Mirror!Spec

\* Every requested title catches up: once TMDB's data of a title has settled, its
\* snapshot becomes current, however workers crash, hang or fail along the way,
\* and whatever else is queued.
CatchesUp ==
  \A k \in Keys :
    (k \in rows /\ tmdb[k] = MaxVersion) ~> (payload[k] = MaxVersion)

\* A lease nobody works for any more does not stay in the row.
Abandoned(k) == \E w \in Workers : claimant[k] = w /\ job[w].key # k

AbandonedLeasesRecovered ==
  \A k \in Keys : Abandoned(k) ~> ~ Abandoned(k)

=============================================================================
