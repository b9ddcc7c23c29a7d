--------------------------- MODULE OwnedMediaSync ---------------------------
(***************************************************************************)
(* The owned-media cache of one user and one integration (Radarr's movies  *)
(* or Sonarr's episodes): full synchronisations started by hand or by the  *)
(* scheduler, the webhooks and the deletions that meet them, the lock that *)
(* each process keeps in memory and the status row all processes share.    *)
(*                                                                         *)
(* Threads run in processes that may die; the lock dies with the process,  *)
(* the status row does not.  A status row that does not exist yet reads as *)
(* "idle".                                                                 *)
(***************************************************************************)
EXTENDS Naturals

CONSTANTS
  Source,      \* "RADARR" or "SONARR"
  Procs,       \* API processes
  Threads,     \* request, background and scheduler threads that run a sync
  Host,        \* the process of each thread
  Hooks,       \* requests that handle a webhook, a deletion or a status read
  Items,       \* movies or episodes
  MaxVersion,  \* bound: how often the library changes
  MaxToggles   \* bound: how often the user switches the integration off or on

Event == [kind : {"import", "delete"}, item : Items]

ASSUME SyncAssumption ==
  /\ Source \in {"RADARR", "SONARR"}
  /\ Host \in [Threads -> Procs]
  /\ MaxVersion \in Nat /\ MaxToggles \in Nat

VARIABLES
  library,   \* what the server holds (external)
  version,   \* counts the library's changes
  events,    \* webhooks on their way
  owned,     \* rows of owned_media_model
  asOf,      \* library version of the last snapshot stored (auxiliary)
  status,    \* integration_sync_status.status
  stale,     \* a "running" status was written more than two hours ago
  enabled,   \* the integration is configured and switched on
  toggles,
  locked,    \* processes whose in-memory lock is taken
  thread,
  hook

shared == <<library, version, events, owned, asOf, status, stale, enabled, toggles>>
vars == <<library, version, events, owned, asOf, status, stale, enabled, toggles,
          locked, thread, hook>>

Idle == [pc |-> "idle", kind |-> "manual", got |-> {}, todo |-> {}, asOf |-> 0,
         seen |-> {}, old |-> FALSE]

Thread == [pc : {"idle", "reserved", "marking", "overtaking", "queued", "fetching",
                 "reading", "fetched", "replacing", "failing", "refused"},
           kind : {"manual", "scheduled"}, got : SUBSET Items, todo : SUBSET Items, asOf : Nat,
           seen : SUBSET Items, old : BOOLEAN]

Free == [pc |-> "free", event |-> {}, row |-> "none"]

\* "row" is the row that the request's statement found: none, one that is still
\* there, or one that somebody else deleted since.
Hook == [pc : {"free", "read", "failing", "deleting", "closing"}, event : SUBSET Event,
         row : {"none", "found", "gone"}]

TypeOK ==
  /\ library \in SUBSET Items
  /\ version \in Nat
  /\ events \in SUBSET Event
  /\ owned \in SUBSET Items
  /\ asOf \in Nat
  /\ status \in {"idle", "running", "success", "failed"}
  /\ stale \in BOOLEAN
  /\ enabled \in BOOLEAN
  /\ toggles \in Nat
  /\ locked \in SUBSET Procs
  /\ thread \in [Threads -> Thread]
  /\ hook \in [Hooks -> Hook]

Init ==
  /\ library = {}
  /\ version = 0
  /\ events = {}
  /\ owned = {}
  /\ asOf = 0
  /\ status = "idle"
  /\ stale = FALSE
  /\ enabled = TRUE
  /\ toggles = 0
  /\ locked = {}
  /\ thread = [t \in Threads |-> Idle]
  /\ hook = [h \in Hooks |-> Free]

-----------------------------------------------------------------------------
(* Starting                                                                *)

\* A synchronisation is at work between the commit of "running" and that of its
\* outcome.
Working(t) == thread[t].pc \in {"queued", "fetching", "reading", "fetched", "replacing"}

\* Mutant of Stale: the comparison is the wrong way round.
StaleUnlessRunning == status # "running" /\ stale

Stale == status = "running" /\ stale

RunningFresh == status = "running" /\ ~ Stale

\* Mutant of TakeLock: the result of acquire(blocking=False) is not looked at.
TakeLockAnyway(p) == locked' = locked \cup {p}

TakeLock(p) == p \notin locked /\ locked' = locked \cup {p}

ReleaseLock(t) == locked' = locked \ {Host[t]}

\* POST /sync, or the scheduler's next user.
Reserve(t, kind) ==
  /\ thread[t] = Idle
  /\ enabled
  /\ TakeLock(Host[t])
  /\ thread' = [thread EXCEPT ![t] = [Idle EXCEPT !.pc = "reserved", !.kind = kind]]
  /\ UNCHANGED <<shared, hook>>

\* A thread is done, whatever it has to report.
Finish(t) ==
  /\ ReleaseLock(t)
  /\ thread' = [thread EXCEPT ![t] = Idle]

Goto(t, pc) == thread' = [thread EXCEPT ![t].pc = pc]

ReadStatus(t) ==
  /\ thread[t].pc = "reserved"
  /\ ~ RunningFresh
  /\ Goto(t, IF status = "running" THEN "overtaking" ELSE "marking")
  /\ UNCHANGED <<shared, locked, hook>>

\* SyncAlreadyRunningError, a 409 or a skipped turn of the scheduler.  The
\* Sonarr sync handles it like any other exception.
RefuseOverlap(t) ==
  /\ thread[t].pc = "reserved"
  /\ RunningFresh
  /\ \/ Source = "SONARR" /\ thread[t].kind = "scheduled" /\ Goto(t, "refused") /\ UNCHANGED locked
     \/ (Source = "RADARR" \/ thread[t].kind = "manual") /\ Finish(t)
  /\ UNCHANGED <<shared, hook>>

\* The request answers 202 and leaves the lock to its background task.  Only
\* changed columns are written: a status that was read as "running" is not.
MarkRunning(t) ==
  /\ thread[t].pc \in {"marking", "overtaking"}
  /\ status' = IF thread[t].pc = "overtaking" THEN status ELSE "running"
  /\ stale' = FALSE
  /\ Goto(t, IF thread[t].kind = "manual" THEN "queued" ELSE "fetching")
  /\ UNCHANGED <<library, version, events, owned, asOf, enabled, toggles, locked, hook>>

-----------------------------------------------------------------------------
(* The synchronisation itself                                              *)

LoadConfig(t) ==
  /\ thread[t].pc = "queued"
  /\ enabled
  /\ Goto(t, "fetching")
  /\ UNCHANGED <<shared, locked, hook>>

\* The background task raises before it enters the function that releases the lock.
LoseConfig(t) ==
  /\ thread[t].pc = "queued"
  /\ ~ enabled
  /\ thread' = [thread EXCEPT ![t] = Idle]
  /\ UNCHANGED <<shared, locked, hook>>

\* Radarr's movies come in one answer, less those whose metadata TMDB refused.
FetchItems(t, got) ==
  /\ Source = "RADARR"
  /\ thread[t].pc = "fetching"
  /\ got \subseteq library
  /\ thread' = [thread EXCEPT ![t].pc = "fetched", ![t].got = got, ![t].asOf = version]
  /\ UNCHANGED <<shared, locked, hook>>

\* Sonarr's episodes are asked for series by series while the library may change.
ListSeries(t) ==
  /\ Source = "SONARR"
  /\ thread[t].pc = "fetching"
  /\ thread' = [thread EXCEPT ![t].pc = "reading", ![t].todo = Items, ![t].asOf = version]
  /\ UNCHANGED <<shared, locked, hook>>

ReadSeries(t, x, got) ==
  /\ thread[t].pc = "reading"
  /\ x \in thread[t].todo
  /\ got \subseteq library \cap {x}
  /\ thread' = [thread EXCEPT ![t].pc = IF thread[t].todo = {x} THEN "fetched" ELSE "reading",
                              ![t].todo = @ \ {x}, ![t].got = @ \cup got]
  /\ UNCHANGED <<shared, locked, hook>>

FetchFails(t) ==
  /\ thread[t].pc \in {"fetching", "reading"}
  /\ Goto(t, "failing")
  /\ UNCHANGED <<shared, locked, hook>>

\* DELETE of the rows visible to the statement.  The rows of another uncommitted
\* DELETE make it wait, and are no longer its own when the other has committed.
DeleteRows(t) ==
  /\ thread[t].pc = "fetched"
  /\ thread' = [thread EXCEPT ![t].pc = "replacing", ![t].seen = owned]
  /\ UNCHANGED <<shared, locked, hook>>

\* What the transactions under way still hold when the rows of "gone" are deleted.
ThreadsWithout(gone) == [u \in Threads |-> [thread[u] EXCEPT !.seen = @ \ gone]]

HooksWithout(gone) ==
  [h \in Hooks |-> IF hook[h].row = "found" /\ \E e \in hook[h].event : e.item \in gone
                   THEN [hook[h] EXCEPT !.row = "gone"] ELSE hook[h]]

\* Rows committed by others since the DELETE survive it.
Survivors(t) == owned \ thread[t].seen

\* Mutant of Stored: the old rows stay.
StoredOnTop(t) == owned \cup thread[t].got

Stored(t) == Survivors(t) \cup thread[t].got

Replace(t) ==
  /\ thread[t].pc = "replacing"
  /\ Survivors(t) \cap thread[t].got = {}
  /\ owned' = Stored(t)
  /\ asOf' = thread[t].asOf
  /\ status' = "success"
  /\ stale' = FALSE
  /\ ReleaseLock(t)
  /\ thread' = [ThreadsWithout(thread[t].seen) EXCEPT ![t] = Idle]
  /\ hook' = HooksWithout(thread[t].seen)
  /\ UNCHANGED <<library, version, events, enabled, toggles>>

\* The INSERT meets a row a webhook has just committed: unique index violated.
ReplaceConflicts(t) ==
  /\ thread[t].pc = "replacing"
  /\ Survivors(t) \cap thread[t].got # {}
  /\ Goto(t, "failing")
  /\ UNCHANGED <<shared, locked, hook>>

\* After the rollback, the outcome is stored in a transaction of its own.
MarkFailed(t) ==
  /\ thread[t].pc \in {"failing", "refused"}
  /\ status' = "failed"
  /\ stale' = FALSE
  /\ Finish(t)
  /\ UNCHANGED <<library, version, events, owned, asOf, enabled, toggles, hook>>

-----------------------------------------------------------------------------
(* Webhooks and deletions                                                  *)

Looks(h, e) ==
  hook' = [hook EXCEPT ![h] = [pc |-> "read", event |-> {e},
                               row |-> IF e.item \in owned THEN "found" ELSE "none"]]

\* An import looks for the item's row; a delete is one statement, which deletes
\* the row it finds unless it has to wait for another that deletes it first.
WebhookReads(h, e) ==
  /\ hook[h] = Free
  /\ e \in events
  /\ events' = events \ {e}
  /\ Looks(h, e)
  /\ UNCHANGED <<library, version, owned, asOf, status, stale, enabled, toggles, locked, thread>>

\* Mutant of WebhookOutcome: the payload is stored where its item belongs.
WebhookOutcomePayload(h, e) == IF e.kind = "import" THEN owned \cup {e} ELSE owned \ {e.item}

WebhookOutcome(h, e) ==
  IF e.kind = "import" THEN owned \cup {e.item}
  ELSE IF hook[h].row = "found" THEN owned \ {e.item} ELSE owned

\* The row an import updates is still there, or the one it inserts is not there yet.
Undisturbed(h, e) ==
  \/ e.kind = "delete"
  \/ hook[h].row = "found"
  \/ hook[h].row = "none" /\ e.item \notin owned

WebhookCommits(h) ==
  /\ hook[h].pc = "read"
  /\ \E e \in hook[h].event :
       /\ Undisturbed(h, e)
       /\ owned' = WebhookOutcome(h, e)
       /\ thread' = ThreadsWithout(owned \ owned')
       /\ hook' = [HooksWithout(owned \ owned') EXCEPT ![h] = Free]
  /\ status' = "success"
  /\ stale' = FALSE
  /\ UNCHANGED <<library, version, events, asOf, enabled, toggles, locked>>

\* TMDB gave no metadata, or the row came or went since it was looked for.
WebhookRaises(h) ==
  /\ hook[h].pc = "read"
  /\ \E e \in hook[h].event : e.kind = "import"
  /\ hook' = [hook EXCEPT ![h] = [Free EXCEPT !.pc = "failing"]]
  /\ UNCHANGED <<shared, locked, thread>>

WebhookMarksFailed(h) ==
  /\ hook[h].pc = "failing"
  /\ status' = "failed"
  /\ stale' = FALSE
  /\ hook' = [hook EXCEPT ![h] = Free]
  /\ UNCHANGED <<library, version, events, owned, asOf, enabled, toggles, locked, thread>>

\* DELETE /owned-media/...: first on the server, which sends its own webhook.
\* Sonarr's identity of a series is read from the rows.
DeleteOnServer(h, x) ==
  /\ hook[h] = Free
  /\ enabled
  /\ x \in library
  /\ Source = "RADARR" \/ x \in owned
  /\ version < MaxVersion
  /\ library' = library \ {x}
  /\ version' = version + 1
  /\ events' = events \cup {[kind |-> "delete", item |-> x]}
  /\ hook' = [hook EXCEPT ![h] = [Free EXCEPT !.pc = "deleting",
                                             !.event = {[kind |-> "delete", item |-> x]}]]
  /\ UNCHANGED <<owned, asOf, status, stale, enabled, toggles, locked, thread>>

\* The row goes as it would by the webhook.
DeleteLocally(h) ==
  /\ hook[h].pc = "deleting"
  /\ \E e \in hook[h].event : Looks(h, e)
  /\ UNCHANGED <<shared, locked, thread>>

\* The request is lost on its way, or its transaction rolls back.
AbortHook(h) ==
  /\ hook[h] # Free
  /\ hook' = [hook EXCEPT ![h] = Free]
  /\ UNCHANGED <<shared, locked, thread>>

-----------------------------------------------------------------------------
(* Status reads, time, the user and the server                             *)

\* GET status looks at the row, and closes a run that is two hours old in a
\* second transaction.
ReadStaleRun(h) ==
  /\ hook[h] = Free
  /\ Stale
  /\ hook' = [hook EXCEPT ![h] = [Free EXCEPT !.pc = "closing"]]
  /\ UNCHANGED <<shared, locked, thread>>

CloseRun(h) ==
  /\ hook[h].pc = "closing"
  /\ status' = "failed"
  /\ stale' = FALSE
  /\ hook' = [hook EXCEPT ![h] = Free]
  /\ UNCHANGED <<library, version, events, owned, asOf, enabled, toggles, locked, thread>>

TwoHoursPass ==
  /\ RunningFresh
  /\ stale' = TRUE
  /\ thread' = [t \in Threads |-> IF Working(t) THEN [thread[t] EXCEPT !.old = TRUE]
                                  ELSE thread[t]]
  /\ UNCHANGED <<library, version, events, owned, asOf, status, enabled, toggles, locked, hook>>

Toggle ==
  /\ toggles < MaxToggles
  /\ toggles' = toggles + 1
  /\ enabled' = ~ enabled
  /\ UNCHANGED <<library, version, events, owned, asOf, status, stale, locked, thread, hook>>

Crash(p) ==
  /\ \E t \in Threads : Host[t] = p /\ thread[t] # Idle
  /\ thread' = [t \in Threads |-> IF Host[t] = p THEN Idle ELSE thread[t]]
  /\ locked' = locked \ {p}
  /\ UNCHANGED <<shared, hook>>

LibraryChanges(x) ==
  LET kind == IF x \in library THEN "delete" ELSE "import"
  IN  /\ version < MaxVersion
      /\ library' = IF x \in library THEN library \ {x} ELSE library \cup {x}
      /\ version' = version + 1
      /\ events' = events \cup {[kind |-> kind, item |-> x]}
      /\ UNCHANGED <<owned, asOf, status, stale, enabled, toggles, locked, thread, hook>>

Next ==
  \/ \E t \in Threads, kind \in {"manual", "scheduled"} : Reserve(t, kind)
  \/ \E t \in Threads : ReadStatus(t)
  \/ \E t \in Threads : RefuseOverlap(t)
  \/ \E t \in Threads : MarkRunning(t)
  \/ \E t \in Threads : LoadConfig(t)
  \/ \E t \in Threads : LoseConfig(t)
  \/ \E t \in Threads, got \in SUBSET Items : FetchItems(t, got)
  \/ \E t \in Threads : ListSeries(t)
  \/ \E t \in Threads, x \in Items, got \in SUBSET Items : ReadSeries(t, x, got)
  \/ \E t \in Threads : FetchFails(t)
  \/ \E t \in Threads : DeleteRows(t)
  \/ \E t \in Threads : Replace(t)
  \/ \E t \in Threads : ReplaceConflicts(t)
  \/ \E t \in Threads : MarkFailed(t)
  \/ \E h \in Hooks : \E e \in events : WebhookReads(h, e)
  \/ \E h \in Hooks : WebhookCommits(h)
  \/ \E h \in Hooks : WebhookRaises(h)
  \/ \E h \in Hooks : WebhookMarksFailed(h)
  \/ \E h \in Hooks, x \in Items : DeleteOnServer(h, x)
  \/ \E h \in Hooks : DeleteLocally(h)
  \/ \E h \in Hooks : AbortHook(h)
  \/ \E h \in Hooks : ReadStaleRun(h)
  \/ \E h \in Hooks : CloseRun(h)
  \/ TwoHoursPass
  \/ Toggle
  \/ \E p \in Procs : Crash(p)
  \/ \E x \in Items : LibraryChanges(x)

Spec == Init /\ [][Next]_vars

-----------------------------------------------------------------------------
(* Fairness.  The scheduler starts a synchronisation every few hours and a *)
(* running one goes on; the server and TMDB answer completely in some of    *)
(* infinitely many tries; two hours pass, and somebody looks at the status  *)
(* now and then, whose request gets through in some of infinitely many     *)
(* tries.  Any number of crashes may happen, but not for ever.             *)

GoesOn(t) ==
  \/ ReadStatus(t) \/ RefuseOverlap(t) \/ MarkRunning(t) \/ LoadConfig(t) \/ LoseConfig(t)
  \/ ListSeries(t) \/ DeleteRows(t) \/ Replace(t) \/ ReplaceConflicts(t) \/ MarkFailed(t)

AnswersRequest(h) ==
  WebhookCommits(h) \/ WebhookRaises(h) \/ WebhookMarksFailed(h) \/ DeleteLocally(h) \/ CloseRun(h)

FetchAll(t) ==
  \/ FetchItems(t, library)
  \/ \E x \in Items : ReadSeries(t, x, library \cap {x})

Fairness ==
  /\ <>[][\A p \in Procs : ~ Crash(p)]_vars
  /\ WF_vars(TwoHoursPass)
  /\ \A t \in Threads :
       /\ SF_vars(Reserve(t, "scheduled"))
       /\ SF_vars(FetchAll(t))
       /\ WF_vars(GoesOn(t))
  /\ \A h \in Hooks :
       /\ WF_vars(AnswersRequest(h))
       /\ SF_vars(ReadStaleRun(h))
       /\ SF_vars(CloseRun(h))

FairSpec == Spec /\ Fairness

-----------------------------------------------------------------------------
(* Properties                                                              *)

\* However requests, background tasks and the scheduler hand the lock on, one
\* process runs one synchronisation at a time.
OneSyncPerProcess ==
  \A t, u \in Threads : Host[t] = Host[u] /\ thread[t] # Idle /\ thread[u] # Idle => t = u

\* The API runs as one process.
OneProcess == \A t, u \in Threads : Host[t] = Host[u]

\* In one process, a slow synchronisation cannot store a snapshot older than the
\* one it would replace, webhooks, failures and restarts notwithstanding.
SnapshotsMoveForward == [][asOf' >= asOf]_vars

\* A "running" status left behind by a process that died, or by a background
\* task that never started, does not stay: it is taken over or closed.
InterruptedRunsEnd ==
  (status = "running" /\ \A t \in Threads : ~ Working(t))
    ~> (status # "running" \/ \E t \in Threads : Working(t))

\* SyncAlreadyRunningError is raised "if the same source/media type is already
\* syncing": a process whose lock is taken has a thread at it.  The background
\* task that loses its configuration leaves one taken (LoseConfig).
LockMeansSyncing ==
  \A p \in locked : \E t \in Threads : Host[t] = p /\ thread[t] # Idle

\* However many webhooks are lost, late or out of order, the scheduler brings
\* the cache back to what the server holds again and again, provided that the
\* integration stays enabled in the end and no lock has leaked.
CacheRecovers == <>[](enabled /\ LockMeansSyncing) => []<>(owned = library)

=============================================================================
