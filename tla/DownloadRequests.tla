------------------------- MODULE DownloadRequests -------------------------
(***************************************************************************)
(* One user's download requests for one title: a movie known to Radarr, or *)
(* a show known to Sonarr whose seasons can be requested one by one.       *)
(* Requests, background tasks, listings, cancellations and webhooks share  *)
(* the rows of download_request_model without locking them.                *)
(* Source: services/download_request_service.py.                           *)
(***************************************************************************)
EXTENDS Naturals, Sequences, FiniteSets

CONSTANTS
  Sources,      \* the integrations to consider, a subset of {"RADARR", "SONARR"}
  Film,         \* the one unit of a movie
  Episodes,     \* the units of a show
  SeasonOf,     \* the season of each episode
  Sessions,     \* request handlers and their background tasks
  Duties,       \* what each session is asked to do, a subset of Operations
  Requested,    \* bound: the scopes of a show that are requested
  None,         \* no owned rows read
  MaxRequests,  \* bound: rows created
  MaxCommands,  \* bound: searches started
  MaxEntries,   \* bound: times the title is added to the server
  MaxMoves,     \* bound: what happens to downloads and files on the server
  MaxCalls,     \* bound: requests, retries, cancellations and cleanings begun
  MaxEvents     \* bound: webhooks under way

Operations == {"request", "retry", "cancel", "clean", "list"}

ASSUME DownloadAssumption ==
  /\ Duties \in [Sessions -> SUBSET Operations]
  /\ Sources \subseteq {"RADARR", "SONARR"}
  /\ MaxRequests \in Nat /\ MaxCommands \in Nat /\ MaxEntries \in Nat
  /\ MaxMoves \in [Sources -> Nat] /\ MaxCalls \in [Sources -> Nat] /\ MaxEvents \in Nat
  /\ \A own \in SUBSET (Episodes \cup {Film}) : own # None
  /\ \A e \in Episodes : SeasonOf[e] \notin {"movie", "series"}
  /\ Requested \subseteq {"series"} \cup {SeasonOf[e] : e \in Episodes}

Requests == 1 .. MaxRequests

Active == {"requested", "searching", "downloading"}
Retryable == {"failed", "not_found", "cancelled"}
Settled == Retryable \cup {"available"}
Status == Active \cup Settled \cup {"absent"}

Scopes == {"movie", "series"} \cup {SeasonOf[e] : e \in Episodes}
Row == [status : Status, scope : Scopes, entry : Nat, command : Nat, fresh : BOOLEAN]
NoRow == [status |-> "absent", scope |-> "series", entry |-> 0, command |-> 0,
          fresh |-> FALSE]

VARIABLES
  source,    \* the integration of the title, never changed
  aired,     \* units that have aired, never changed
  row,       \* the rows of download_request_model
  created,   \* how many rows were inserted
  owned,     \* the units with a row in owned_media_model
  session,   \* what each session does and has read
  entry,     \* the server's entry of the title, 0 when it has none
  entries,   \* how many entries the server has had
  files,     \* units with an imported file
  queue,     \* the state of each unit's download
  history,   \* what happened to downloads and files, newest last
  commands,  \* the searches started, each running or finished
  events,    \* webhooks under way
  imported,  \* auxiliary: units that ever were imported
  moves,     \* auxiliary: what happened on the server, for the bound
  calls      \* auxiliary: what the user began, for the bound

requestVars == <<row, created, owned, session, calls>>
serverVars == <<entry, entries, files, queue, history, commands, events, imported, moves>>
vars == <<source, aired, requestVars, serverVars>>

Units == IF source = "RADARR" THEN {Film} ELSE Episodes
ScopeUnits(s) == IF s \in {"movie", "series"} THEN Units ELSE {e \in Episodes : SeasonOf[e] = s}
RequestScopes == IF source = "RADARR" THEN {"movie"} ELSE Requested

\* Mutant of ScopeAvailable: one owned unit is enough.
ScopeAvailableByOne(s, own) == ScopeUnits(s) \cap aired \cap own # {}

\* Every aired unit of the scope, and at least one, is among the owned.
ScopeAvailable(s, own) ==
  LET wanted == ScopeUnits(s) \cap aired IN wanted # {} /\ wanted \subseteq own

IdleSession ==
  [pc |-> "idle", req |-> 0, scope |-> "series", todo |-> {}, seen |-> <<>>,
   outcome |-> <<>>, own |-> None, entry |-> 0, command |-> 0]

Exists(r) == r \in Requests /\ row[r].status # "absent"
ActiveRequests == {r \in Requests : row[r].status \in Active}

\* The newest request of a scope, 0 when there is none.
Latest(s) ==
  LET of == {r \in Requests : Exists(r) /\ row[r].scope = s}
  IN  IF of = {} THEN 0 ELSE CHOOSE r \in of : \A o \in of : o <= r

Init ==
  /\ source \in Sources
  /\ aired \in SUBSET Units \ {{}}
  /\ row = [r \in Requests |-> NoRow]
  /\ created = 0
  /\ owned = {}
  /\ session = [p \in Sessions |-> IdleSession]
  /\ entry = 0 /\ entries = 0
  /\ files = {}
  /\ queue = [u \in Units |-> "none"]
  /\ history = <<>>
  /\ commands = <<>>
  /\ events = {}
  /\ imported = {}
  /\ moves = 0
  /\ calls = 0

At(p, pc) == session[p].pc = pc
Become(p, s) == session' = [session EXCEPT ![p] = s]
Goto(p, pc) == Become(p, [session[p] EXCEPT !.pc = pc])
Rest(p) == Become(p, IdleSession)
Called(p, op) == At(p, "idle") /\ op \in Duties[p] /\ calls < MaxCalls[source] /\ calls' = calls + 1
SetStatus(r, s) == row' = [row EXCEPT ![r].status = s]

---------------------------------------------------------------------------
(* A request: find the newest one of the scope, reuse or insert it, and    *)
(* carry on in the background.                                             *)

BeginRequest(p, s) ==
  /\ Called(p, "request")
  /\ Latest(s) \notin ActiveRequests
  /\ Latest(s) = 0 => created < MaxRequests
  /\ Become(p, [IdleSession EXCEPT !.pc = "create", !.req = Latest(s), !.scope = s])
  /\ UNCHANGED <<source, aired, row, created, owned, serverVars>>

\* A request waits in background for its data, fresh for the grace period that
\* only Sonarr's requests have.
Inserted(s) == [NoRow EXCEPT !.status = "requested", !.scope = s, !.fresh = source = "SONARR"]

MovieOwned == source = "RADARR" /\ Film \in owned

\* An owned movie needs no search; a row cleaned meanwhile makes the commit fail.
CommitRequest(p) ==
  LET s == session[p].scope
      old == session[p].req
      r == IF old = 0 THEN created + 1 ELSE old
      done == MovieOwned
  IN
  /\ At(p, "create")
  /\ \/ /\ old # 0 /\ ~Exists(old)
        /\ Rest(p)
        /\ UNCHANGED <<row, created>>
     \/ /\ old # 0 => Exists(old)
        /\ r \in Requests
        /\ row' = [row EXCEPT ![r] =
             [(IF old = 0 THEN Inserted(s) ELSE row[r])
                EXCEPT !.status = IF done THEN "available" ELSE "requested"]]
        /\ created' = IF old = 0 THEN created + 1 ELSE created
        /\ Become(p, IF done THEN IdleSession
                     ELSE [session[p] EXCEPT !.pc = "hydrate", !.req = r])
  /\ UNCHANGED <<source, aired, calls, owned, serverVars>>

\* The background task reloads the row. TMDB's failure is caught for shows only.
Hydrate(p) ==
  LET r == session[p].req IN
  /\ At(p, "hydrate")
  /\ \/ Exists(r) /\ SetStatus(r, "requested") /\ Goto(p, "search")
     \/ Exists(r) /\ source = "SONARR" /\ SetStatus(r, "failed") /\ Rest(p)
     \/ (Exists(r) => source = "RADARR") /\ Rest(p) /\ UNCHANGED row
  /\ UNCHANGED <<source, aired, calls, created, owned, serverVars>>

\* Seasons to search: a movie or a season is one search, a whole series one for
\* each season with an aired unit that has no file.
Wanted(s) == IF s = "series" THEN {SeasonOf[e] : e \in aired \ files} ELSE {s}

\* Adds the title if the server lacks it, then starts the searches, of which
\* only the first is tracked. Any call may fail, which leaves the earlier ones
\* done; a new series may not know its episodes when the wait is over.
AddAndSearch(p) ==
  LET new == entry = 0
      known == IF new THEN entries + 1 ELSE entry
      me == session[p]
      wanted == Wanted(me.scope)
  IN
  /\ At(p, "search")
  /\ \/ Goto(p, "failing") /\ UNCHANGED <<entry, entries, commands>>
     \/ /\ known <= MaxEntries
        /\ entry' = known
        /\ entries' = IF new THEN known ELSE entries
        /\ \/ Goto(p, "failing") /\ UNCHANGED commands
           \/ /\ wanted # {} /\ Len(commands) < MaxCommands
              /\ commands' = Append(commands, "running")
              /\ \/ Goto(p, "failing") /\ Cardinality(wanted) > 1
                 \/ \E own \in IF source = "SONARR" THEN {None, files} ELSE {None} :
                      Become(p, [me EXCEPT !.pc = "found", !.entry = known, !.own = own,
                                           !.command = Len(commands) + 1])
           \/ /\ me.scope = "series" /\ (wanted = {} \/ new)
              /\ \E own \in {None, files} :
                   Become(p, [me EXCEPT !.pc = "found", !.entry = known, !.own = own])
              /\ UNCHANGED commands
  /\ UNCHANGED <<source, aired, calls, row, created, owned, files, queue, history, events, imported,
                 moves>>

\* What the task's own query sees of the owned rows: it has deleted them and
\* not yet flushed the new ones (autoflush is off).
VisibleOwned(own) == IF own = None THEN owned ELSE {}

\* Mutant of OwnedAfter: a reading that failed is stored as well.
OwnedAfterAny(own) == own

OwnedAfter(own) == IF own = None THEN owned ELSE own

\* Rows somebody else stored since the task deleted its own make it fail.
Collides(own) == own # None /\ own \cap owned # {}

CommitSearch(p) ==
  LET r == session[p].req
      me == session[p]
  IN
  /\ At(p, "found")
  /\ \/ Collides(me.own) /\ Goto(p, "failing") /\ UNCHANGED <<row, owned>>
     \/ ~Exists(r) /\ Rest(p) /\ UNCHANGED <<row, owned>>
     \/ /\ Exists(r)
        /\ row' = [row EXCEPT ![r].entry = me.entry, ![r].command = me.command,
              ![r].status = IF me.scope # "series" \/ me.command # 0 THEN "searching"
                            ELSE IF ScopeAvailable("series", VisibleOwned(me.own))
                            THEN "available" ELSE "not_found"]
        /\ owned' = OwnedAfter(me.own)
        /\ Rest(p)
  /\ UNCHANGED <<source, aired, calls, created, serverVars>>

MarkRequestFailed(p) ==
  /\ At(p, "failing")
  /\ IF Exists(session[p].req) THEN SetStatus(session[p].req, "failed") ELSE UNCHANGED row
  /\ Rest(p)
  /\ UNCHANGED <<source, aired, calls, created, owned, serverVars>>

\* A movie's retry keeps its row in hand; a show's becomes a request again.
BeginRetry(p, r) ==
  /\ Called(p, "retry")
  /\ row[r].status \in Retryable
  /\ \/ /\ source = "RADARR"
        /\ Become(p, [IdleSession EXCEPT !.pc = "retry", !.req = r, !.scope = "movie"])
     \/ /\ source = "SONARR"
        /\ Latest(row[r].scope) \notin ActiveRequests
        /\ Become(p, [IdleSession EXCEPT !.pc = "create", !.req = Latest(row[r].scope),
                                         !.scope = row[r].scope])
  /\ UNCHANGED <<source, aired, row, created, owned, serverVars>>

CommitRetry(p) ==
  LET r == session[p].req IN
  /\ At(p, "retry")
  /\ \/ Exists(r) /\ SetStatus(r, "requested") /\ Goto(p, "search")
     \/ ~Exists(r) /\ Rest(p) /\ UNCHANGED row
  /\ UNCHANGED <<source, aired, calls, created, owned, serverVars>>

---------------------------------------------------------------------------
(* Cancellation, of one request or of all active ones, and cleaning.       *)

BeginCancel(p, todo) ==
  /\ Called(p, "cancel")
  /\ Become(p, [IdleSession EXCEPT !.pc = "next", !.todo = todo])
  /\ UNCHANGED <<source, aired, row, created, owned, serverVars>>

NextCancel(p) ==
  LET todo == session[p].todo IN
  /\ At(p, "next")
  /\ \/ todo = {} /\ Rest(p)
     \/ \E r \in todo :
          Become(p, [session[p] EXCEPT !.todo = todo \ {r}, !.req = r,
                       !.seen = row[r], !.pc = IF Exists(r) THEN "cancel" ELSE "next"])
  /\ UNCHANGED <<source, aired, calls, row, created, owned, serverVars>>

\* Records of Radarr's queue and history are found by the title, Sonarr's only
\* once the request knows the series.
Recognised(r) == source = "SONARR" => r.entry # 0

\* Mutant of Matching: the season of a queue record is not looked at.
MatchingAnySeason(r) == {u \in Units : queue[u] # "none" /\ Recognised(r)}

\* The downloads the server's queue holds for a request.
Matching(r) == {u \in ScopeUnits(r.scope) : queue[u] # "none" /\ Recognised(r)}

\* What an error of the server's leads to: Radarr's is raised, Sonarr's ignored.
Rejected == IF source = "RADARR" THEN "next" ELSE "cancelled"

\* Removes the matching downloads, some of them when the server fails.
RemoveDownloads(p) ==
  LET r == session[p].seen IN
  /\ At(p, "cancel")
  /\ \/ \* the integration is disabled
        Goto(p, "cancelled") /\ UNCHANGED queue
     \/ \E gone \in SUBSET Matching(r) :
          /\ queue' = [u \in Units |-> IF u \in gone THEN "none" ELSE queue[u]]
          /\ \/ Goto(p, Rejected)
             \/ gone = Matching(r) /\ Goto(p, IF r.entry = 0 THEN "cancelled" ELSE "entry")
  /\ UNCHANGED <<source, aired, calls, row, created, owned, entry, entries, files, history, commands,
                 events, imported, moves>>

\* The title stays on the server when it has a file; a stale entry is an error.
CheckEntry(p) ==
  LET held == session[p].seen.entry = entry IN
  /\ At(p, "entry")
  /\ \/ Goto(p, Rejected)
     \/ held /\ Goto(p, IF files = {} THEN "drop" ELSE "cancelled")
  /\ UNCHANGED <<source, aired, calls, row, created, owned, serverVars>>

DropEntry(p) ==
  /\ At(p, "drop")
  /\ \/ /\ Goto(p, Rejected)
        /\ UNCHANGED <<entry, files, queue>>
     \/ /\ session[p].seen.entry = entry
        /\ Goto(p, "cancelled")
        /\ entry' = 0
        /\ files' = {}
        /\ queue' = [u \in Units |-> "none"]
  /\ UNCHANGED <<source, aired, calls, row, created, owned, entries, history, commands, events,
                 imported, moves>>

\* Only a changed status is written; a cleaned row ends the whole operation.
CommitCancel(p) ==
  LET r == session[p].req IN
  /\ At(p, "cancelled")
  /\ \/ /\ Exists(r)
        /\ IF session[p].seen.status = "cancelled" THEN UNCHANGED row
           ELSE SetStatus(r, "cancelled")
        /\ Become(p, [IdleSession EXCEPT !.pc = "next", !.todo = session[p].todo])
     \/ ~Exists(r) /\ Rest(p) /\ UNCHANGED row
  /\ UNCHANGED <<source, aired, calls, created, owned, serverVars>>

Clean(p) ==
  /\ Called(p, "clean")
  /\ \E r \in Requests : row[r].status \in Settled
  /\ row' = [r \in Requests |-> IF row[r].status \in Settled THEN NoRow ELSE row[r]]
  /\ UNCHANGED <<source, aired, created, owned, session, serverVars>>

---------------------------------------------------------------------------
(* Listing and status: every active request is refreshed from the owned    *)
(* rows, the queue, the history and the tracked search, then committed.    *)

\* Mutant of AlreadyOwned: the owned rows are not looked at.
NoneOwned == {}

AlreadyOwned == {r \in ActiveRequests : ScopeAvailable(row[r].scope, owned)}

BeginReconcile(p) ==
  /\ At(p, "idle") /\ "list" \in Duties[p]
  /\ ActiveRequests # {}
  /\ Become(p, [IdleSession EXCEPT !.pc = "read", !.seen = [r \in ActiveRequests |-> row[r]],
                                     !.todo = AlreadyOwned])
  /\ UNCHANGED <<source, aired, calls, row, created, owned, serverVars>>

\* What a download says: Sonarr's first of several counts, whichever that is.
Verdict(state) == IF state = "good" THEN "downloading" ELSE "failed"
QueueOutcomes(r) == {Verdict(queue[u]) : u \in Matching(r)}

\* What the newest event of the scope says, if there is one.
HistoryOutcome(r) ==
  LET of == {i \in 1 .. Len(history) : history[i].unit \in ScopeUnits(r.scope)} IN
  IF of = {} \/ ~Recognised(r) THEN "none"
  ELSE history[CHOOSE i \in of : \A j \in of : j <= i].says

SearchOver(r) == r.command # 0 /\ commands[r.command] = "finished"

\* Mutant of CommandOutcome: the grace period starts again with every listing.
CommandOutcomeStillFresh(r) ==
  IF ~SearchOver(r) THEN r.status
  ELSE IF source = "SONARR" THEN "searching" ELSE "not_found"

\* A search that is over found nothing; a fresh show request is given more time.
CommandOutcome(r) ==
  IF ~SearchOver(r) THEN r.status
  ELSE IF r.fresh THEN "searching" ELSE "not_found"

\* The queue is asked first, then the history, then the search; a history that
\* cannot be read counts as empty.
Outcomes(r) ==
  IF Matching(r) # {} THEN QueueOutcomes(r)
  ELSE {CommandOutcome(r),
        IF HistoryOutcome(r) = "none" THEN CommandOutcome(r) ELSE HistoryOutcome(r)}

\* Pending requests of a known series, each of which rewrites the owned rows.
Linked(seen, pending) ==
  {r \in pending : source = "SONARR" /\ entry # 0 /\ seen[r].entry = entry}

Writes(p, seen, new, own) ==
  LET changed == {r \in DOMAIN new : new[r] # seen[r].status} IN
  IF changed = {} /\ own = None THEN Rest(p)
  ELSE Become(p, [IdleSession EXCEPT !.pc = "commit", !.own = own,
                                     !.outcome = [r \in changed |-> new[r]]])

\* The listing ends in an error when a Sonarr search cannot be read, and when
\* two requests of one show rewrite the same owned rows; a server that does not
\* answer leaves what the owned rows alone say.
ReadServer(p) ==
  LET seen == session[p].seen
      pending == DOMAIN seen \ session[p].todo
      linked == Linked(seen, pending)
      settled == [r \in session[p].todo |-> "available"]
  IN
  /\ At(p, "read")
  /\ \/ Writes(p, seen, settled, None)
     \/ /\ \/ Cardinality(linked) > 1 /\ files # {}
           \/ source = "SONARR" /\ \E r \in pending : seen[r].command # 0 /\ Matching(seen[r]) = {}
        /\ Rest(p)
     \/ \E own \in {None} \cup (IF linked = {} THEN {} ELSE {files}) :
        \E new \in [pending -> Status] :
          /\ own # None => Cardinality(linked) = 1 \/ files = {}
          /\ \A r \in pending : new[r] \in Outcomes(seen[r])
          /\ Writes(p, seen, [r \in DOMAIN seen |-> IF r \in pending THEN new[r] ELSE "available"],
                     own)
  /\ UNCHANGED <<source, aired, calls, row, created, owned, serverVars>>

\* One commit for all changed statuses, which a cleaned row or a collision of
\* the owned rows makes fail.
StoreReading(p) ==
  LET new == session[p].outcome IN
  /\ At(p, "commit")
  /\ \A r \in DOMAIN new : Exists(r)
  /\ Rest(p)
  /\ row' = [r \in Requests |->
               IF r \in DOMAIN new THEN [row[r] EXCEPT !.status = new[r]] ELSE row[r]]
  /\ owned' = OwnedAfter(session[p].own)
  /\ UNCHANGED <<source, aired, calls, created, serverVars>>

CommitReconcile(p) ==
  \/ StoreReading(p)
  \/ /\ At(p, "commit")
     /\ Collides(session[p].own) \/ \E r \in DOMAIN session[p].outcome : ~Exists(r)
     /\ Rest(p)
     /\ UNCHANGED <<source, aired, calls, row, created, owned, serverVars>>

---------------------------------------------------------------------------
(* Webhooks, each in one transaction.                                      *)

Deliver(e, status) ==
  /\ e \in events
  /\ events' = events \ {e}
  /\ row' = [r \in Requests |-> IF status[r] = "same" THEN row[r]
                                ELSE [row[r] EXCEPT !.status = status[r]]]
  /\ UNCHANGED <<source, aired, calls, created, session, entry, entries, files, queue, history,
                 commands, imported, moves>>

\* Mutant of Grabbed: the status of the request is not looked at.
GrabbedAnyStatus(e) ==
  /\ e.event = "grabbed"
  /\ Deliver(e, [r \in Requests |->
       IF Exists(r) /\ e.unit \in ScopeUnits(row[r].scope) THEN "downloading" ELSE "same"])
  /\ UNCHANGED owned

Grabbed(e) ==
  /\ e.event = "grabbed"
  /\ Deliver(e, [r \in Requests |->
       IF row[r].status \in Active /\ e.unit \in ScopeUnits(row[r].scope)
       THEN "downloading" ELSE "same"])
  /\ UNCHANGED owned

\* Radarr's import settles every request of the movie. Sonarr's looks at the
\* rows before its own are flushed.
Completes(r) == Exists(r) /\ (source = "RADARR" \/ ScopeAvailable(row[r].scope, owned))

Imported(e) ==
  /\ e.event = "imported"
  /\ Deliver(e, [r \in Requests |-> IF Completes(r) THEN "available" ELSE "same"])
  /\ owned' = owned \cup {e.unit}

Deleted(e) ==
  /\ e.event = "deleted"
  /\ Deliver(e, [r \in Requests |-> "same"])
  /\ owned' = owned \ {e.unit}

LoseEvent ==
  /\ \E e \in events : events' = events \ {e}
  /\ UNCHANGED <<source, aired, requestVars, entry, entries, files, queue, history, commands,
                 imported, moves>>

\* External to this module: a sync of the library (OwnedMediaSync).
SyncOwned ==
  /\ owned' = files
  /\ UNCHANGED <<source, aired, calls, row, created, session, serverVars>>

---------------------------------------------------------------------------
(* The server, as far as the requests can tell.                            *)

Moves == moves < MaxMoves[source] /\ moves' = moves + 1
Record(u, says) == Append(history, [unit |-> u, says |-> says])
Emit(u, event) ==
  /\ Cardinality(events) < MaxEvents
  /\ events' = events \cup {[unit |-> u, event |-> event]}

Grab(u) ==
  /\ entry # 0 /\ u \notin files /\ queue[u] = "none"
  /\ queue' = [queue EXCEPT ![u] = "good"]
  /\ history' = Record(u, "downloading")
  /\ Moves
  /\ Emit(u, "grabbed")
  /\ UNCHANGED <<source, aired, requestVars, entry, entries, files, commands, imported>>

\* A warning on the download for Radarr, an error for Sonarr, which ignores the
\* warnings of a download that goes on.
Trouble(u) ==
  /\ Moves
  /\ queue[u] = "good"
  /\ queue' = [queue EXCEPT ![u] = "bad"]
  /\ UNCHANGED <<source, aired, requestVars, entry, entries, files, history, commands, events,
                 imported>>

FailDownload(u) ==
  /\ Moves
  /\ queue[u] # "none"
  /\ queue' = [queue EXCEPT ![u] = "none"]
  /\ history' = Record(u, "failed")
  /\ UNCHANGED <<source, aired, requestVars, entry, entries, files, commands, events, imported>>

Import(u) ==
  /\ Moves
  /\ queue[u] # "none"
  /\ queue' = [queue EXCEPT ![u] = "none"]
  /\ files' = files \cup {u}
  /\ imported' = imported \cup {u}
  /\ history' = Record(u, "downloading")
  /\ Emit(u, "imported")
  /\ UNCHANGED <<source, aired, requestVars, entry, entries, commands>>

DeleteFile(u) ==
  /\ Moves
  /\ u \in files
  /\ files' = files \ {u}
  /\ history' = Record(u, "failed")
  /\ Emit(u, "deleted")
  /\ UNCHANGED <<source, aired, requestVars, entry, entries, queue, commands, imported>>

FinishCommand(c) ==
  /\ commands[c] = "running"
  /\ commands' = [commands EXCEPT ![c] = "finished"]
  /\ UNCHANGED <<source, aired, requestVars, entry, entries, files, queue, history, events,
                 imported, moves>>

\* Five minutes after the insertion of the row.
GracePasses(r) ==
  /\ row[r].fresh /\ row[r].command # 0
  /\ row' = [row EXCEPT ![r].fresh = FALSE]
  /\ UNCHANGED <<source, aired, calls, created, owned, session, serverVars>>

\* A handler or background task dies, or raises where nothing catches it.
Die(p) ==
  /\ ~At(p, "idle")
  /\ Rest(p)
  /\ UNCHANGED <<source, aired, calls, row, created, owned, serverVars>>

SessionStep(p) ==
  \/ CommitRequest(p) \/ Hydrate(p) \/ AddAndSearch(p) \/ CommitSearch(p)
  \/ MarkRequestFailed(p) \/ CommitRetry(p)
  \/ NextCancel(p) \/ RemoveDownloads(p) \/ CheckEntry(p) \/ DropEntry(p) \/ CommitCancel(p)
  \/ ReadServer(p) \/ CommitReconcile(p)

Client(p) ==
  \/ \E s \in RequestScopes : BeginRequest(p, s)
  \/ \E r \in Requests : BeginRetry(p, r)
  \/ \E r \in Requests : Exists(r) /\ BeginCancel(p, {r})
  \/ ActiveRequests # {} /\ BeginCancel(p, ActiveRequests)
  \/ Clean(p)
  \/ BeginReconcile(p)

Webhook == \E e \in events : Grabbed(e) \/ Imported(e) \/ Deleted(e)

Server ==
  \/ \E u \in Units : Grab(u) \/ Trouble(u) \/ FailDownload(u) \/ Import(u) \/ DeleteFile(u)
  \/ \E c \in 1 .. Len(commands) : FinishCommand(c)

Next ==
  \/ \E p \in Sessions : Client(p) \/ SessionStep(p) \/ Die(p)
  \/ Webhook \/ LoseEvent \/ SyncOwned
  \/ Server
  \/ \E r \in Requests : GracePasses(r)

Spec == Init /\ [][Next]_vars

---------------------------------------------------------------------------
(* Properties.                                                             *)

SessionType(me) ==
  /\ me.pc \in {"idle", "create", "hydrate", "search", "found", "failing", "retry", "next",
                "cancel", "entry", "drop", "cancelled", "read", "commit"}
  /\ me.req \in 0 .. MaxRequests /\ me.scope \in Scopes /\ me.todo \subseteq Requests
  /\ me.own = None \/ me.own \subseteq Units
  /\ me.entry \in 0 .. MaxEntries /\ me.command \in 0 .. Len(commands)

\* Rows, sessions and the server keep their types.
TypeOK ==
  /\ source \in Sources
  /\ aired \subseteq Units
  /\ row \in [Requests -> Row]
  /\ created \in 0 .. MaxRequests
  /\ owned # None /\ owned \subseteq Units
  /\ \A p \in Sessions : SessionType(session[p])
  /\ entry \in 0 .. MaxEntries /\ entries \in 0 .. MaxEntries
  /\ files \subseteq Units
  /\ queue \in [Units -> {"none", "good", "bad"}]
  /\ \A i \in 1 .. Len(history) : history[i] \in [unit : Units, says : {"downloading", "failed"}]
  /\ \A i \in 1 .. Len(commands) : commands[i] \in {"running", "finished"}
  /\ events \subseteq [unit : Units, event : {"grabbed", "imported", "deleted"}]
  /\ imported \subseteq Units

\* A request is only called available when every aired unit of its scope was
\* imported, whatever webhooks, listings and syncs raced.
AvailableMeansImported ==
  \A r \in Requests : row[r].status = "available" =>
    ScopeUnits(row[r].scope) \cap aired \subseteq imported

\* A request says it is downloading only if the server once grabbed a release of
\* its scope.
DownloadingMeansGrabbed ==
  \A r \in Requests : row[r].status = "downloading" =>
    \E i \in 1 .. Len(history) : history[i].unit \in ScopeUnits(row[r].scope)

\* Sessions that may write a request because they loaded it, or were asked for it.
Holds(p, r) == session[p].req = r \/ (At(p, "commit") /\ r \in DOMAIN session[p].outcome)

\* A cancelled request nobody else has in hand stays cancelled until it is asked
\* for again: a late webhook, or a listing that starts afterwards, leaves it.
CancellationsHold ==
  [][\A r \in Requests :
       /\ row[r].status = "cancelled"
       /\ \A p \in Sessions : ~Holds(p, r)
       => row'[r].status \in {"cancelled", "available", "absent"}]_vars

\* A title in the library, and nothing of it being deleted, is not searched or
\* downloaded for ever: the listing settles its request even when every webhook
\* is lost.
OwnedRequestsSettle ==
  \A r \in Requests :
    row[r].status \in Active /\ ScopeAvailable(row[r].scope, files) ~>
      (row[r].status \notin Active \/ ~ScopeAvailable(row[r].scope, files))

\* A search the server knows of ends in some verdict.
SearchesSettle ==
  \A r \in Requests :
    row[r].status = "searching" /\ row[r].command # 0 ~> row[r].status # "searching"

\* The server answers.
ReadsAll(p) == ReadServer(p) /\ session'[p].pc = "commit"

\* Handlers run, clients list their requests again and again, the library is
\* synchronised (owned_media_scheduler), searches end and time passes; a reading
\* or its commit may fail, but not every time.
Fairness ==
  /\ \A p \in Sessions :
       /\ WF_vars(SessionStep(p))
       /\ WF_vars(BeginReconcile(p))
       /\ SF_vars(ReadsAll(p))
       /\ SF_vars(StoreReading(p))
  /\ WF_vars(SyncOwned)
  /\ \A c \in 1 .. MaxCommands : WF_vars(c <= Len(commands) /\ FinishCommand(c))
  /\ \A r \in Requests : WF_vars(GracePasses(r))

FairSpec == Spec /\ Fairness

=============================================================================
