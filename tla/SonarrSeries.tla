---------------------------- MODULE SonarrSeries ----------------------------
(***************************************************************************)
(* One TV series in Sonarr as Scenario changes it: requests that route the *)
(* series to a profile, monitor and search its seasons, season and show    *)
(* deletions, cancellations, and edits of the profiles in the settings.    *)
(* Each HTTP call is a step; the series is read, changed and put back      *)
(* whole, while other requests, Sonarr and its own users change it.        *)
(* Source: services/{sonarr,download_request,user_integration_settings,    *)
(* owned_media}_service.py.                                                *)
(***************************************************************************)
EXTENDS Integers, FiniteSets

CONSTANTS
  Workers,      \* requests and background tasks at once
  Seasons,      \* 0 is the specials
  Episodes,
  SeasonOf,     \* the season of each episode
  Aired,        \* the episodes that have aired
  Versions,     \* the values a profile is given
  None,
  Own,          \* a value or tag that the user of Sonarr set
  All,          \* the scope of a request for the whole series
  Mixes,        \* bound: how often each operation starts in a behaviour
  MaxSeries,    \* bound: times the series is added
  MaxEdits      \* bound: changes by hand, of profiles or in Sonarr

Kinds == {"tv_on_air", "tv_complete", "anime"}
Operations == {"request", "delete_season", "delete_show", "cancel", "edit_profile"}

ASSUME SonarrAssumption ==
  /\ Seasons \subseteq Nat /\ SeasonOf \in [Episodes -> Seasons] /\ Aired \subseteq Episodes
  /\ Mixes \subseteq [Operations -> Nat] /\ MaxSeries \in Nat /\ MaxEdits \in Nat
  /\ All \notin Seasons /\ Own \notin Kinds /\ None # Own /\ Versions # {}

\* A profile saved in the settings: its root folder, quality and language.
Profile == [kind : Kinds, version : Versions]
Settings == [Kinds -> Profile \cup {None}]
Value == Profile \cup {Own}
Series == [id : 1 .. MaxSeries, quality : Value, root : Value, type : {"standard", "anime", Own},
           tags : SUBSET (Kinds \cup {Own}), seasons : SUBSET Seasons]

ASSUME NoneAssumption == None \notin Series

\* What a worker does, with the settings and the record it has read.
Steps == {"idle", "find", "add", "ensure", "search", "monitor", "command", "delete", "unmonitor",
          "done", "drop", "remove", "save"}
Job == [op : Operations, pc : Steps, kind : Kinds, season : Seasons \cup {All}, config : Settings,
        series : Series \cup {None}, empty : BOOLEAN, todo : SUBSET (Episodes \cup Seasons)]

VARIABLES
  settings,   \* the profiles in user_integration_settings_model.config
  series,     \* the record in Sonarr, or None
  added,      \* how often the series was added
  files,      \* the episodes with an imported file
  asked,      \* the season searches queued in Sonarr
  jobs,       \* what each worker does
  left,       \* the operations that may still start
  edits       \* auxiliary: changes by hand

sonarr == <<series, added, files, asked>>
vars == <<settings, sonarr, jobs, left, edits>>

Idle == [op |-> "request", pc |-> "idle", kind |-> "anime", season |-> All,
         config |-> [k \in Kinds |-> None], series |-> None, empty |-> FALSE, todo |-> {}]

Init ==
  /\ settings \in {[k \in Kinds |-> None], [k \in Kinds |-> [kind |-> k, version |-> CHOOSE v \in Versions : TRUE]]}
  /\ series = None /\ added = 0 /\ files = {} /\ asked = {}
  /\ jobs = [w \in Workers |-> Idle]
  /\ left \in Mixes
  /\ edits = 0

-----------------------------------------------------------------------------
(* Routing: the values a request gives the series *)

Configured(config) == \A k \in Kinds : config[k] # None

\* The profile of a TV series of no kind in particular.
TvDefault(config) == IF config["tv_on_air"] # None THEN config["tv_on_air"] ELSE config["tv_complete"]

QualityFor(config, kind) == IF config[kind] # None THEN config[kind] ELSE TvDefault(config)

\* The root folder of tv_complete is not used while tv_on_air has one.
RootFor(config, kind) ==
  IF kind = "anime" /\ config[kind] # None THEN config[kind] ELSE TvDefault(config)

TypeFor(kind) == IF kind = "anime" THEN "anime" ELSE "standard"

\* Mutant of NextTags: tags are only ever added.
NextTagsUnion(tags, kind) == tags \cup {kind}

\* Scenario's own tags are replaced by the one of the request.
NextTags(tags, kind) == (tags \ Kinds) \cup {kind}

\* The record as _ensure_existing_series_config leaves the copy it was given.
Routed(job) ==
  [job.series EXCEPT
     !.quality = QualityFor(job.config, job.kind),
     !.root = IF job.empty THEN RootFor(job.config, job.kind) ELSE @,
     !.type = TypeFor(job.kind),
     !.tags = NextTags(@, job.kind),
     !.seasons = IF job.season = All THEN @ ELSE @ \cup {job.season}]

\* Mutant of NewId: the identifier of the series before.
OldId == added

NewId == added + 1

\* A new series monitors the season asked for, or what Sonarr proposes, but no specials.
NewSeries(job, proposed) ==
  [id |-> NewId, quality |-> QualityFor(job.config, job.kind), root |-> RootFor(job.config, job.kind),
   type |-> TypeFor(job.kind), tags |-> {job.kind},
   seasons |-> IF job.season = All THEN proposed \ {0} ELSE {job.season} \ {0}]

-----------------------------------------------------------------------------
(* Steps of a worker. Any of them may fail: the operation then ends where it is. *)

At(w, pc) == jobs[w].pc = pc
Become(w, job) == jobs' = [jobs EXCEPT ![w] = job]
Goto(w, pc) == Become(w, [jobs[w] EXCEPT !.pc = pc])
End(w) == Become(w, Idle)

Start(w, op, job) ==
  /\ At(w, "idle") /\ left[op] > 0
  /\ left' = [left EXCEPT ![op] = @ - 1]
  /\ Become(w, [job EXCEPT !.op = op])
  /\ UNCHANGED <<settings, sonarr, edits>>

Break(w) ==
  /\ ~ At(w, "idle") /\ End(w)
  /\ UNCHANGED <<settings, sonarr, left, edits>>

Known(w) == series # None /\ series.id = jobs[w].series.id

\* PUT /series: the whole record, if the series is still there.
Put(w, record, pc) ==
  /\ IF Known(w) THEN series' = record /\ Become(w, [jobs[w] EXCEPT !.series = record, !.pc = pc])
                 ELSE End(w) /\ UNCHANGED series
  /\ UNCHANGED <<settings, added, files, asked, left, edits>>

\* The settings are decrypted before Sonarr is contacted, and kept.
StartRequest(w, season, kind) ==
  /\ Configured(settings)
  /\ Start(w, "request", [Idle EXCEPT !.pc = "find", !.kind = kind, !.season = season, !.config = settings])

FindSeries(w) ==
  /\ At(w, "find")
  /\ Become(w, [jobs[w] EXCEPT !.series = series, !.empty = (files = {}),
                               !.pc = IF series = None THEN "add" ELSE "ensure"])
  /\ UNCHANGED <<settings, sonarr, left, edits>>

\* POST /series: refused by Sonarr when the series was added meanwhile.
AddSeries(w) ==
  /\ At(w, "add")
  /\ series = None /\ added < MaxSeries
  /\ \E proposed \in {Seasons, Seasons \ {0}} :
       LET new == NewSeries(jobs[w], proposed) IN
       series' = new /\ Become(w, [jobs[w] EXCEPT !.series = new, !.pc = "search"])
  /\ added' = added + 1
  /\ UNCHANGED <<settings, files, asked, left, edits>>

EnsureSeries(w) ==
  /\ At(w, "ensure")
  /\ LET record == Routed(jobs[w]) IN
     IF record = jobs[w].series THEN Goto(w, "search") /\ UNCHANGED <<settings, sonarr, left, edits>>
                                ELSE Put(w, record, "search")

SearchSeason(w) ==
  /\ At(w, "search") /\ jobs[w].season # All
  /\ asked' = asked \cup {[id |-> jobs[w].series.id, season |-> jobs[w].season]}
  /\ End(w)
  /\ UNCHANGED <<settings, series, added, files, left, edits>>

\* Mutant of MissingSeasons: the specials are searched too.
MissingWithSpecials == {SeasonOf[e] : e \in Aired \ files}

MissingSeasons == {SeasonOf[e] : e \in Aired \ files} \ {0}

ListMissing(w) ==
  /\ At(w, "search") /\ jobs[w].season = All /\ Known(w)
  /\ IF MissingSeasons = {} THEN End(w) ELSE Become(w, [jobs[w] EXCEPT !.todo = MissingSeasons, !.pc = "monitor"])
  /\ UNCHANGED <<settings, sonarr, left, edits>>

\* With the copy that was put before the episodes were listed.
MonitorMissing(w) ==
  /\ At(w, "monitor")
  /\ LET record == [jobs[w].series EXCEPT !.seasons = @ \cup jobs[w].todo] IN
     IF record = jobs[w].series THEN Goto(w, "command") /\ UNCHANGED <<settings, sonarr, left, edits>>
                                ELSE Put(w, record, "command")

SearchMissing(w) ==
  /\ At(w, "command")
  /\ \E s \in jobs[w].todo :
       /\ \A other \in jobs[w].todo : s <= other
       /\ asked' = asked \cup {[id |-> jobs[w].series.id, season |-> s]}
       /\ IF jobs[w].todo = {s} THEN End(w) ELSE Become(w, [jobs[w] EXCEPT !.todo = @ \ {s}])
  /\ UNCHANGED <<settings, series, added, files, left, edits>>

\* The episodes to delete are listed once, then deleted one by one.
StartSeasonDeletion(w, season) ==
  /\ series # None
  /\ Start(w, "delete_season",
       [Idle EXCEPT !.pc = "delete", !.season = season, !.series = series,
                    !.todo = {e \in files : SeasonOf[e] = season}])

DeleteEpisodeFile(w) ==
  /\ At(w, "delete")
  /\ \E e \in jobs[w].todo \cap files :
       files' = files \ {e} /\ Become(w, [jobs[w] EXCEPT !.todo = @ \ {e}])
  /\ UNCHANGED <<settings, series, added, asked, left, edits>>

ReadSeries(w) ==
  /\ At(w, "delete") /\ jobs[w].todo = {} /\ Known(w)
  /\ IF jobs[w].season \in series.seasons
     THEN Become(w, [jobs[w] EXCEPT !.series = series, !.pc = "unmonitor"]) ELSE End(w)
  /\ UNCHANGED <<settings, sonarr, left, edits>>

UnmonitorSeason(w) ==
  /\ At(w, "unmonitor")
  /\ Put(w, [jobs[w].series EXCEPT !.seasons = @ \ {jobs[w].season}], "done")

FinishDeletion(w) ==
  /\ At(w, "done") /\ End(w)
  /\ UNCHANGED <<settings, sonarr, left, edits>>

\* Mutant of Kept: a cancellation deletes the files too.
KeptNothing == {}

\* deleteFiles is false: a file imported since the listing stays on disk.
Kept == files

\* A cancellation goes on only when the episodes it lists have no file.
StartCancel(w) ==
  /\ series # None /\ files = {}
  /\ Start(w, "cancel", [Idle EXCEPT !.pc = "drop", !.series = series])

DropSeries(w) ==
  /\ At(w, "drop") /\ Known(w)
  /\ series' = None /\ files' = Kept /\ End(w)
  /\ UNCHANGED <<settings, added, asked, left, edits>>

DeleteShow(w) ==
  /\ series # None
  /\ Start(w, "delete_show", [Idle EXCEPT !.pc = "remove", !.series = series])

RemoveShow(w) ==
  /\ At(w, "remove") /\ Known(w)
  /\ series' = None /\ files' = {} /\ End(w)
  /\ UNCHANGED <<settings, added, asked, left, edits>>

-----------------------------------------------------------------------------
(* Settings: the profiles are read, changed and written back whole *)

StartProfileEdit(w, kind) ==
  Start(w, "edit_profile", [Idle EXCEPT !.pc = "save", !.kind = kind, !.config = settings])

SaveProfile(w) ==
  /\ At(w, "save")
  /\ \E p \in {[kind |-> jobs[w].kind, version |-> v] : v \in Versions} \cup {None} :
       settings' = [jobs[w].config EXCEPT ![jobs[w].kind] = p]
  /\ End(w)
  /\ UNCHANGED <<sonarr, left, edits>>

-----------------------------------------------------------------------------
(* Sonarr and its users *)

ByHand == edits < MaxEdits /\ edits' = edits + 1 /\ UNCHANGED <<settings, files, asked, jobs, left>>

AddByHand ==
  /\ series = None /\ added < MaxSeries /\ ByHand
  /\ added' = added + 1
  /\ series' = [id |-> NewId, quality |-> Own, root |-> Own, type |-> Own, tags |-> {Own}, seasons |-> Seasons]

EditByHand ==
  /\ series # None /\ ByHand
  /\ \/ \E s \in SUBSET Seasons : series' = [series EXCEPT !.seasons = s]
     \/ series' = [series EXCEPT !.tags = @ \cup {Own}]
  /\ UNCHANGED added

\* A search finds what the season misses, as long as the season is monitored.
Import(e) ==
  /\ series # None /\ e \in Aired \ files
  /\ SeasonOf[e] \in series.seasons /\ [id |-> series.id, season |-> SeasonOf[e]] \in asked
  /\ files' = files \cup {e}
  /\ UNCHANGED <<settings, series, added, asked, jobs, left, edits>>

Step(w) ==
  \/ \E s \in (Seasons \ {0}) \cup {All}, k \in Kinds : StartRequest(w, s, k)
  \/ FindSeries(w) \/ AddSeries(w) \/ EnsureSeries(w) \/ SearchSeason(w)
  \/ ListMissing(w) \/ MonitorMissing(w) \/ SearchMissing(w)
  \/ \E s \in Seasons : StartSeasonDeletion(w, s)
  \/ DeleteEpisodeFile(w) \/ ReadSeries(w) \/ UnmonitorSeason(w) \/ FinishDeletion(w)
  \/ StartCancel(w) \/ DropSeries(w) \/ DeleteShow(w) \/ RemoveShow(w)
  \/ \E k \in Kinds : StartProfileEdit(w, k)
  \/ SaveProfile(w) \/ Break(w)

Next ==
  \/ \E w \in Workers : Step(w)
  \/ AddByHand \/ EditByHand \/ \E e \in Episodes : Import(e)

Spec == Init /\ [][Next]_vars

-----------------------------------------------------------------------------
(* Properties *)

\* Settings, the series, the files and every worker keep their types.
TypeOK ==
  /\ settings \in Settings
  /\ series \in Series \cup {None}
  /\ added \in 0 .. MaxSeries
  /\ files \subseteq Episodes
  /\ asked \subseteq [id : 1 .. MaxSeries, season : Seasons]
  /\ jobs \in [Workers -> Job]
  /\ left \in [Operations -> Nat] /\ edits \in 0 .. MaxEdits

\* Whatever requests, stale copies and profile edits overlap, a series that
\* carries a tag of Scenario's carries one, with the type and a quality profile
\* of that same kind.
RoutedTogether ==
  series # None /\ series.tags \cap Kinds # {} =>
    \E k \in Kinds :
      /\ series.tags \cap Kinds = {k}
      /\ series.type = TypeFor(k) /\ series.quality \in Profile /\ series.quality.kind = k

\* Specials are never searched, and nobody but a user of Sonarr monitors them.
SpecialsAreLeftAlone ==
  /\ \A search \in asked : search.season # 0
  /\ edits = 0 /\ series # None => 0 \notin series.seasons

\* A file only goes with a deletion of its own season or of the show, never with
\* a cancellation or another season's deletion.
DeletionsAreAsked ==
  [][\A e \in Episodes : e \in files /\ e \notin files' =>
       \E w \in Workers :
         \/ jobs[w].op = "delete_show" /\ ~ At(w, "idle")
         \/ jobs[w].op = "delete_season" /\ jobs[w].season = SeasonOf[e] /\ ~ At(w, "idle")]_vars
=============================================================================
