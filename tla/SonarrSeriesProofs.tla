------------------------- MODULE SonarrSeriesProofs -------------------------
(***************************************************************************)
(* What holds of a series in Sonarr, and of the copies requests hold of    *)
(* it, for every number of workers, seasons, episodes and profiles.        *)
(***************************************************************************)
EXTENDS SonarrSeries, TLAPS

ConfigFits(config) == \A k \in Kinds : config[k] # None => config[k].kind = k

\* A record routed by Scenario is routed as a whole.
Coherent(record) ==
  record.tags \cap Kinds # {} =>
    \E k \in Kinds :
      /\ record.tags \cap Kinds = {k}
      /\ record.type = TypeFor(k) /\ record.quality \in Profile /\ record.quality.kind = k

\* Without a change by hand specials are not monitored.
SpecialsOff(record) == edits = 0 => 0 \notin record.seasons

Requesting == {"find", "add", "ensure", "search", "monitor", "command"}

\* What a worker knows at each step.
Knows(job) ==
  /\ ConfigFits(job.config)
  /\ job.pc \in Requesting => Configured(job.config) /\ job.season \in (Seasons \ {0}) \cup {All}
  /\ job.pc \in {"ensure", "search", "monitor", "command", "unmonitor"} => job.series # None
  /\ job.series # None => Coherent(job.series) /\ SpecialsOff(job.series)
  /\ job.pc \in {"monitor", "command"} => job.todo \subseteq Seasons \ {0}
  /\ job.pc = "delete" => /\ job.op = "delete_season"
                          /\ job.todo \subseteq {e \in Episodes : SeasonOf[e] = job.season}
  /\ job.pc = "remove" => job.op = "delete_show"

IInv ==
  /\ TypeOK
  /\ ConfigFits(settings)
  /\ series # None => Coherent(series) /\ SpecialsOff(series)
  /\ \A search \in asked : search.season # 0
  /\ \A w \in Workers : Knows(jobs[w])

-----------------------------------------------------------------------------
(* Helpers                                                                 *)

LEMMA IdleFits == Idle \in Job /\ Knows(Idle)
<1>1. Idle \in Job
  BY DEF Idle, Job, Operations, Steps, Kinds, Settings
<1>2. Knows(Idle)
  BY DEF Idle, Knows, ConfigFits, Requesting
<1>3. QED
  BY <1>1, <1>2

LEMMA JobsFit ==
  ASSUME IInv, NEW w \in Workers, NEW job \in Job, Knows(job), Become(w, job), edits' = edits
  PROVE  jobs' \in [Workers -> Job] /\ \A v \in Workers : Knows(jobs[v])'
<1>1. jobs' \in [Workers -> Job]
  BY DEF Become, IInv, TypeOK
<1>2. \A v \in Workers : Knows(jobs'[v])
  BY DEF Become, IInv, TypeOK
<1>3. \A v \in Workers : Knows(jobs[v])'
  BY <1>2 DEF Knows, SpecialsOff
<1>4. QED
  BY <1>1, <1>3

\* A worker that reads, decides or ends.
LEMMA OnlyJob ==
  ASSUME IInv, NEW w \in Workers, NEW job \in Job, Knows(job), Become(w, job),
         UNCHANGED <<settings, sonarr, edits>>, left' \in [Operations -> Nat]
  PROVE  IInv'
<1>1. jobs' \in [Workers -> Job] /\ \A v \in Workers : Knows(jobs[v])'
  BY JobsFit
<1>2. QED
  BY <1>1 DEF IInv, TypeOK, sonarr, SpecialsOff

\* A worker that puts a record, ends if the series is gone.
LEMMA PutFits ==
  ASSUME IInv, NEW w \in Workers, NEW record \in Series, NEW pc \in Steps,
         Coherent(record), SpecialsOff(record), Put(w, record, pc),
         Knows([jobs[w] EXCEPT !.series = record, !.pc = pc])
  PROVE  IInv'
<1> DEFINE job == [jobs[w] EXCEPT !.series = record, !.pc = pc]
<1>1. job \in Job
  BY DEF IInv, TypeOK, Job
<1> HIDE DEF job
<1>2. /\ UNCHANGED <<settings, added, files, asked, left, edits>>
      /\ \/ series' = record /\ Become(w, job)
         \/ series' = series /\ Become(w, Idle)
  BY DEF Put, End, job
<1>3. jobs' \in [Workers -> Job] /\ \A v \in Workers : Knows(jobs[v])'
  BY <1>1, <1>2, IdleFits, JobsFit DEF job
<1>4. QED
  BY <1>2, <1>3 DEF IInv, TypeOK, SpecialsOff

LEMMA InitInv == Init => IInv
<1> SUFFICES ASSUME Init PROVE IInv
  OBVIOUS
<1> DEFINE c == CHOOSE v \in Versions : TRUE
<1>1. settings \in Settings /\ ConfigFits(settings)
  <2>1. c \in Versions
    BY SonarrAssumption
  <2>2. settings = [k \in Kinds |-> None] \/ settings = [k \in Kinds |-> [kind |-> k, version |-> c]]
    BY DEF Init
  <2> HIDE DEF c
  <2>3. QED
    BY <2>1, <2>2 DEF Settings, Profile, ConfigFits
<1>2. jobs \in [Workers -> Job] /\ \A w \in Workers : Knows(jobs[w])
  BY IdleFits DEF Init
<1>3. left \in [Operations -> Nat]
  BY SonarrAssumption DEF Init
<1>4. QED
  BY <1>1, <1>2, <1>3, SonarrAssumption DEF Init, IInv, TypeOK

-----------------------------------------------------------------------------
(* Routing                                                                 *)

\* A complete set of profiles has one of the kind for every kind.
LEMMA QualityFits ==
  ASSUME NEW config \in Settings, ConfigFits(config), Configured(config), NEW kind \in Kinds
  PROVE  /\ QualityFor(config, kind) \in Profile /\ QualityFor(config, kind).kind = kind
         /\ RootFor(config, kind) \in Profile
BY DEF Settings, ConfigFits, Configured, QualityFor, RootFor, TvDefault, Kinds

LEMMA RoutedFits ==
  ASSUME NEW job \in Job, Knows(job), job.series # None, Configured(job.config),
         job.season \in (Seasons \ {0}) \cup {All}
  PROVE  /\ Routed(job) \in Series /\ Coherent(Routed(job)) /\ SpecialsOff(Routed(job))
<1> DEFINE quality == QualityFor(job.config, job.kind)
           root == IF job.empty THEN RootFor(job.config, job.kind) ELSE job.series.root
           tags == NextTags(job.series.tags, job.kind)
           seasons == IF job.season = All THEN job.series.seasons ELSE job.series.seasons \cup {job.season}
           record == [job.series EXCEPT !.quality = quality, !.root = root, !.type = TypeFor(job.kind),
                                        !.tags = tags, !.seasons = seasons]
<1>1. job.series \in Series /\ job.kind \in Kinds /\ job.config \in Settings
  BY DEF Job
<1>2. quality \in Profile /\ quality.kind = job.kind /\ root \in Value
  BY <1>1, QualityFits DEF Knows, Value, Series
<1>3. /\ tags \subseteq Kinds \cup {Own} /\ tags \cap Kinds = {job.kind}
      /\ TypeFor(job.kind) \in {"standard", "anime", Own}
  BY <1>1 DEF NextTags, Series, TypeFor
<1>4. seasons \subseteq Seasons /\ (edits = 0 => 0 \notin seasons)
  <2>1. job.series.seasons \subseteq Seasons /\ (edits = 0 => 0 \notin job.series.seasons)
    BY <1>1 DEF Knows, SpecialsOff, Series
  <2>2. QED
    BY <2>1
<1>5. Routed(job) = record
  BY DEF Routed
<1> HIDE DEF quality, root, tags, seasons
<1>6. record \in Series
  BY <1>1, <1>2, <1>3, <1>4 DEF Series, Value
<1>7. /\ record.tags = tags /\ record.quality = quality /\ record.type = TypeFor(job.kind)
      /\ record.seasons = seasons
  BY <1>1 DEF Series
<1> HIDE DEF record
<1>8. Coherent(record)
  BY <1>1, <1>2, <1>3, <1>7 DEF Coherent
<1>9. QED
  BY <1>4, <1>5, <1>6, <1>7, <1>8 DEF SpecialsOff

LEMMA NewFits ==
  ASSUME NEW job \in Job, Knows(job), Configured(job.config), added < MaxSeries, added \in 0 .. MaxSeries,
         job.season \in (Seasons \ {0}) \cup {All}, NEW proposed \in SUBSET Seasons
  PROVE  /\ NewSeries(job, proposed) \in Series /\ Coherent(NewSeries(job, proposed))
         /\ SpecialsOff(NewSeries(job, proposed))
<1> DEFINE quality == QualityFor(job.config, job.kind)
           root == RootFor(job.config, job.kind)
           seasons == IF job.season = All THEN proposed \ {0} ELSE {job.season} \ {0}
           record == [id |-> NewId, quality |-> quality, root |-> root, type |-> TypeFor(job.kind),
                      tags |-> {job.kind}, seasons |-> seasons]
<1>1. job.kind \in Kinds /\ job.config \in Settings /\ NewId \in 1 .. MaxSeries
  BY SonarrAssumption DEF Job, NewId
<1>2. quality \in Profile /\ quality.kind = job.kind /\ root \in Profile
  BY <1>1, QualityFits DEF Knows
<1>3. seasons \subseteq Seasons /\ 0 \notin seasons
  OBVIOUS
<1>4. TypeFor(job.kind) \in {"standard", "anime", Own}
  BY DEF TypeFor
<1>5. NewSeries(job, proposed) = record
  BY DEF NewSeries
<1> HIDE DEF quality, root, seasons
<1>6. record \in Series
  BY <1>1, <1>2, <1>3, <1>4 DEF Series, Value
<1>7. /\ record.tags = {job.kind} /\ record.quality = quality /\ record.type = TypeFor(job.kind)
      /\ record.seasons = seasons
  OBVIOUS
<1> HIDE DEF record
<1>8. Coherent(record)
  BY <1>1, <1>2, <1>7 DEF Coherent
<1>9. QED
  BY <1>3, <1>5, <1>6, <1>7, <1>8 DEF SpecialsOff

-----------------------------------------------------------------------------
(* Steps                                                                   *)

LEMMA JobOf ==
  ASSUME IInv, NEW w \in Workers
  PROVE  jobs[w] \in Job /\ Knows(jobs[w])
BY DEF IInv, TypeOK

LEMMA StartFits ==
  ASSUME IInv, NEW w \in Workers, NEW op \in Operations, NEW job \in Job, Start(w, op, job),
         Knows([job EXCEPT !.op = op])
  PROVE  IInv'
<1>1. [job EXCEPT !.op = op] \in Job
  BY DEF Job
<1>2. left' \in [Operations -> Nat] /\ UNCHANGED <<settings, sonarr, edits>>
  BY DEF Start, IInv, TypeOK
<1>3. Become(w, [job EXCEPT !.op = op])
  BY DEF Start
<1>4. QED
  BY <1>1, <1>2, <1>3, OnlyJob

LEMMA StartInv ==
  ASSUME IInv, NEW w \in Workers,
         \/ \E s \in (Seasons \ {0}) \cup {All}, k \in Kinds : StartRequest(w, s, k)
         \/ \E s \in Seasons : StartSeasonDeletion(w, s)
         \/ StartCancel(w) \/ DeleteShow(w) \/ \E k \in Kinds : StartProfileEdit(w, k)
  PROVE  IInv'
<1>1. /\ settings \in Settings /\ ConfigFits(settings) /\ series \in Series \cup {None}
      /\ series # None => Coherent(series) /\ SpecialsOff(series)
      /\ files \subseteq Episodes
  BY DEF IInv, TypeOK
<1>2. ASSUME NEW s \in (Seasons \ {0}) \cup {All}, NEW k \in Kinds, StartRequest(w, s, k) PROVE IInv'
  <2> DEFINE job == [Idle EXCEPT !.pc = "find", !.kind = k, !.season = s, !.config = settings]
  <2>1. job \in Job /\ Knows([job EXCEPT !.op = "request"])
    BY <1>1, <1>2, IdleFits DEF StartRequest, Idle, Job, Steps, Operations, Knows, Requesting
  <2>2. Start(w, "request", job) /\ "request" \in Operations
    BY <1>2 DEF StartRequest, Operations
  <2> HIDE DEF job
  <2>3. QED
    BY <2>1, <2>2, StartFits
<1>3. ASSUME NEW s \in Seasons, StartSeasonDeletion(w, s) PROVE IInv'
  <2> DEFINE todo == {e \in files : SeasonOf[e] = s}
             job == [Idle EXCEPT !.pc = "delete", !.season = s, !.series = series, !.todo = todo]
  <2>1. Start(w, "delete_season", job) /\ "delete_season" \in Operations
    BY <1>3 DEF StartSeasonDeletion, Operations
  <2>2. todo \subseteq {e \in Episodes : SeasonOf[e] = s}
    BY <1>1
  <2> HIDE DEF todo
  <2>3. job \in Job
    BY <1>1, <2>2, IdleFits DEF Job, Steps
  <2>4. Knows([job EXCEPT !.op = "delete_season"])
    BY <1>1, <2>2, IdleFits DEF Idle, Knows, Requesting
  <2> HIDE DEF job
  <2>5. QED
    BY <2>1, <2>3, <2>4, StartFits
<1>4. CASE StartCancel(w)
  <2> DEFINE job == [Idle EXCEPT !.pc = "drop", !.series = series]
  <2>1. job \in Job /\ Knows([job EXCEPT !.op = "cancel"])
    BY <1>1, IdleFits DEF Idle, Job, Steps, Knows, Requesting
  <2>2. Start(w, "cancel", job) /\ "cancel" \in Operations
    BY <1>4 DEF StartCancel, Operations
  <2> HIDE DEF job
  <2>3. QED
    BY <2>1, <2>2, StartFits
<1>5. CASE DeleteShow(w)
  <2> DEFINE job == [Idle EXCEPT !.pc = "remove", !.series = series]
  <2>1. job \in Job /\ Knows([job EXCEPT !.op = "delete_show"])
    BY <1>1, IdleFits DEF Idle, Job, Steps, Knows, Requesting
  <2>2. Start(w, "delete_show", job) /\ "delete_show" \in Operations
    BY <1>5 DEF DeleteShow, Operations
  <2> HIDE DEF job
  <2>3. QED
    BY <2>1, <2>2, StartFits
<1>6. ASSUME NEW k \in Kinds, StartProfileEdit(w, k) PROVE IInv'
  <2> DEFINE job == [Idle EXCEPT !.pc = "save", !.kind = k, !.config = settings]
  <2>1. job \in Job /\ Knows([job EXCEPT !.op = "edit_profile"])
    BY <1>1, IdleFits DEF Idle, Job, Steps, Knows, Requesting
  <2>2. Start(w, "edit_profile", job) /\ "edit_profile" \in Operations
    BY <1>6 DEF StartProfileEdit, Operations
  <2> HIDE DEF job
  <2>3. QED
    BY <2>1, <2>2, StartFits
<1>7. QED
  BY <1>2, <1>3, <1>4, <1>5, <1>6

\* Steps that read, decide or end.
LEMMA ReadInv ==
  ASSUME IInv, NEW w \in Workers,
         FindSeries(w) \/ ListMissing(w) \/ ReadSeries(w) \/ FinishDeletion(w) \/ Break(w)
  PROVE  IInv'
<1>1. /\ series \in Series \cup {None}
      /\ series # None => Coherent(series) /\ SpecialsOff(series)
      /\ left \in [Operations -> Nat]
  BY DEF IInv, TypeOK
<1>2. jobs[w] \in Job /\ Knows(jobs[w])
  BY JobOf
<1>3. ASSUME NEW job \in Job, Knows(job), Become(w, job), UNCHANGED <<settings, sonarr, left, edits>>
      PROVE  IInv'
  BY <1>1, <1>3, OnlyJob
<1>4. CASE FindSeries(w)
  <2> DEFINE pc == IF series = None THEN "add" ELSE "ensure"
             job == [jobs[w] EXCEPT !.series = series, !.empty = (files = {}), !.pc = pc]
  <2>1. Become(w, job) /\ UNCHANGED <<settings, sonarr, left, edits>> /\ jobs[w].pc = "find"
    BY <1>4 DEF FindSeries, At
  <2>2. pc \in {"add", "ensure"} /\ (pc = "ensure" => series # None)
    OBVIOUS
  <2> HIDE DEF pc
  <2>3. job \in Job /\ Knows(job)
    BY <1>1, <1>2, <2>1, <2>2 DEF Job, Steps, Knows, Requesting
  <2> HIDE DEF job
  <2>4. QED
    BY <1>3, <2>1, <2>3
<1>5. CASE ListMissing(w)
  <2>1. /\ UNCHANGED <<settings, sonarr, left, edits>> /\ jobs[w].pc = "search"
        /\ \/ Become(w, Idle)
           \/ Become(w, [jobs[w] EXCEPT !.todo = MissingSeasons, !.pc = "monitor"])
    BY <1>5 DEF ListMissing, End, At
  <2>2. MissingSeasons \subseteq Seasons \ {0}
    BY SonarrAssumption DEF MissingSeasons
  <2> DEFINE job == [jobs[w] EXCEPT !.todo = MissingSeasons, !.pc = "monitor"]
  <2>3. job \in Job /\ Knows(job)
    BY <1>2, <2>1, <2>2 DEF Job, Steps, Knows, Requesting
  <2> HIDE DEF job
  <2>4. QED
    BY <1>3, <2>1, <2>3, IdleFits DEF job
<1>6. CASE ReadSeries(w)
  <2>1. /\ UNCHANGED <<settings, sonarr, left, edits>> /\ jobs[w].pc = "delete" /\ series # None
        /\ \/ Become(w, Idle)
           \/ Become(w, [jobs[w] EXCEPT !.series = series, !.pc = "unmonitor"])
    BY <1>6 DEF ReadSeries, End, At, Known
  <2> DEFINE job == [jobs[w] EXCEPT !.series = series, !.pc = "unmonitor"]
  <2>2. job \in Job /\ Knows(job)
    BY <1>1, <1>2, <2>1 DEF Job, Steps, Knows, Requesting
  <2> HIDE DEF job
  <2>3. QED
    BY <1>3, <2>1, <2>2, IdleFits DEF job
<1>7. CASE FinishDeletion(w) \/ Break(w)
  BY <1>3, <1>7, IdleFits DEF FinishDeletion, Break, End
<1>8. QED
  BY <1>4, <1>5, <1>6, <1>7

LEMMA AddSeriesInv ==
  ASSUME IInv, NEW w \in Workers, AddSeries(w)
  PROVE  IInv'
<1>1. jobs[w] \in Job /\ Knows(jobs[w]) /\ jobs[w].pc = "add"
  BY JobOf DEF AddSeries, At
<1>2. PICK new : /\ new \in Series /\ Coherent(new) /\ SpecialsOff(new)
                 /\ series' = new /\ Become(w, [jobs[w] EXCEPT !.series = new, !.pc = "search"])
  <2>1. PICK proposed \in SUBSET Seasons :
          LET new == NewSeries(jobs[w], proposed) IN
          series' = new /\ Become(w, [jobs[w] EXCEPT !.series = new, !.pc = "search"])
    BY DEF AddSeries
  <2>2. /\ NewSeries(jobs[w], proposed) \in Series /\ Coherent(NewSeries(jobs[w], proposed))
        /\ SpecialsOff(NewSeries(jobs[w], proposed))
    BY <1>1, NewFits DEF AddSeries, Knows, Requesting, IInv, TypeOK
  <2>3. QED
    BY <2>1, <2>2
<1>3. added' \in 0 .. MaxSeries /\ series = None /\ UNCHANGED <<settings, files, asked, left, edits>>
  BY SonarrAssumption DEF AddSeries, IInv, TypeOK
<1> DEFINE job == [jobs[w] EXCEPT !.series = new, !.pc = "search"]
<1>4. job \in Job /\ Knows(job)
  BY <1>1, <1>2, NoneAssumption DEF Job, Steps, Knows, Requesting
<1>5. Become(w, job)
  BY <1>2
<1> HIDE DEF job
<1>6. jobs' \in [Workers -> Job] /\ \A v \in Workers : Knows(jobs[v])'
  BY <1>3, <1>4, <1>5, JobsFit
<1>7. QED
  BY <1>2, <1>3, <1>6 DEF IInv, TypeOK, SpecialsOff

LEMMA EnsureSeriesInv ==
  ASSUME IInv, NEW w \in Workers, EnsureSeries(w)
  PROVE  IInv'
<1> DEFINE record == Routed(jobs[w])
<1>1. /\ jobs[w] \in Job /\ Knows(jobs[w]) /\ jobs[w].pc = "ensure" /\ jobs[w].series # None
      /\ Configured(jobs[w].config) /\ jobs[w].season \in (Seasons \ {0}) \cup {All}
  BY JobOf DEF EnsureSeries, At, Knows, Requesting
<1>2. record \in Series /\ Coherent(record) /\ SpecialsOff(record) /\ record # None
  BY <1>1, RoutedFits, NoneAssumption
<1>3. \/ Goto(w, "search") /\ UNCHANGED <<settings, sonarr, left, edits>>
      \/ Put(w, record, "search")
  BY DEF EnsureSeries
<1> HIDE DEF record
<1>4. CASE Goto(w, "search") /\ UNCHANGED <<settings, sonarr, left, edits>>
  <2> DEFINE job == [jobs[w] EXCEPT !.pc = "search"]
  <2>1. job \in Job /\ Knows(job)
    BY <1>1 DEF Job, Steps, Knows, Requesting
  <2>2. Become(w, job) /\ UNCHANGED <<settings, sonarr, edits>> /\ left' \in [Operations -> Nat]
    BY <1>4 DEF Goto, IInv, TypeOK
  <2> HIDE DEF job
  <2>3. QED
    BY <2>1, <2>2, OnlyJob
<1>5. CASE Put(w, record, "search")
  <2>1. Knows([jobs[w] EXCEPT !.series = record, !.pc = "search"])
    BY <1>1, <1>2 DEF Job, Knows, Requesting
  <2>2. "search" \in Steps
    BY DEF Steps
  <2>3. QED
    BY <1>2, <1>5, <2>1, <2>2, PutFits
<1>6. QED
  BY <1>3, <1>4, <1>5

\* Only the monitored seasons differ.
LEMMA SeasonsFit ==
  ASSUME NEW record \in Series, Coherent(record), NEW seasons \in SUBSET Seasons,
         edits = 0 => 0 \notin seasons
  PROVE  /\ [record EXCEPT !.seasons = seasons] \in Series
         /\ Coherent([record EXCEPT !.seasons = seasons])
         /\ SpecialsOff([record EXCEPT !.seasons = seasons])
<1> DEFINE new == [record EXCEPT !.seasons = seasons]
<1>1. /\ new \in Series /\ new.seasons = seasons
      /\ new.tags = record.tags /\ new.type = record.type /\ new.quality = record.quality
  BY DEF Series
<1> HIDE DEF new
<1>2. new \in Series /\ Coherent(new) /\ SpecialsOff(new)
  BY <1>1 DEF Coherent, SpecialsOff
<1>3. QED
  BY <1>2 DEF new

LEMMA MonitorInv ==
  ASSUME IInv, NEW w \in Workers, MonitorMissing(w) \/ UnmonitorSeason(w)
  PROVE  IInv'
<1> DEFINE held == jobs[w].series
<1>1. /\ jobs[w] \in Job /\ Knows(jobs[w]) /\ held \in Series /\ held # None
      /\ Coherent(held) /\ SpecialsOff(held) /\ held.seasons \subseteq Seasons
  <2>1. jobs[w] \in Job /\ Knows(jobs[w]) /\ jobs[w].pc \in {"monitor", "unmonitor"}
    BY JobOf DEF MonitorMissing, UnmonitorSeason, At
  <2>2. held # None
    BY <2>1 DEF Knows
  <2>3. QED
    BY <2>1, <2>2 DEF Job, Knows, Series
<1>2. CASE UnmonitorSeason(w)
  <2> DEFINE seasons == held.seasons \ {jobs[w].season}
             record == [held EXCEPT !.seasons = seasons]
  <2>1. Put(w, record, "done") /\ jobs[w].pc = "unmonitor"
    BY <1>2 DEF UnmonitorSeason, At
  <2>2. seasons \in SUBSET Seasons /\ (edits = 0 => 0 \notin seasons)
    BY <1>1 DEF SpecialsOff
  <2> HIDE DEF held, seasons
  <2>3. record \in Series /\ Coherent(record) /\ SpecialsOff(record)
    BY <1>1, <2>2, SeasonsFit
  <2> HIDE DEF record
  <2>4. Knows([jobs[w] EXCEPT !.series = record, !.pc = "done"])
    BY <1>1, <2>3 DEF Job, Knows, Requesting
  <2>5. "done" \in Steps
    BY DEF Steps
  <2>6. QED
    BY <2>1, <2>3, <2>4, <2>5, PutFits
<1>3. CASE MonitorMissing(w)
  <2> DEFINE seasons == held.seasons \cup jobs[w].todo
             record == [held EXCEPT !.seasons = seasons]
  <2>1. /\ jobs[w].pc = "monitor" /\ jobs[w].todo \subseteq Seasons \ {0}
        /\ \/ Goto(w, "command") /\ UNCHANGED <<settings, sonarr, left, edits>>
           \/ Put(w, record, "command")
    BY <1>1, <1>3 DEF MonitorMissing, At, Knows
  <2>2. seasons \in SUBSET Seasons /\ (edits = 0 => 0 \notin seasons)
    BY <1>1, <2>1 DEF SpecialsOff
  <2> HIDE DEF held, seasons
  <2>3. record \in Series /\ Coherent(record) /\ SpecialsOff(record) /\ record # None
    BY <1>1, <2>2, SeasonsFit, NoneAssumption
  <2> HIDE DEF record
  <2>4. CASE Put(w, record, "command")
    <3>1. Knows([jobs[w] EXCEPT !.series = record, !.pc = "command"])
      BY <1>1, <2>1, <2>3 DEF Job, Knows, Requesting
    <3>2. "command" \in Steps
      BY DEF Steps
    <3>3. QED
      BY <2>3, <2>4, <3>1, <3>2, PutFits
  <2>5. CASE Goto(w, "command") /\ UNCHANGED <<settings, sonarr, left, edits>>
    <3> DEFINE job == [jobs[w] EXCEPT !.pc = "command"]
    <3>1. job \in Job /\ Knows(job)
      BY <1>1, <2>1 DEF Job, Steps, Knows, Requesting, held
    <3>2. Become(w, job) /\ UNCHANGED <<settings, sonarr, edits>> /\ left' \in [Operations -> Nat]
      BY <2>5 DEF Goto, IInv, TypeOK
    <3> HIDE DEF job
    <3>3. QED
      BY <3>1, <3>2, OnlyJob
  <2>6. QED
    BY <2>1, <2>4, <2>5
<1>4. QED
  BY <1>2, <1>3

LEMMA SearchInv ==
  ASSUME IInv, NEW w \in Workers, SearchSeason(w) \/ SearchMissing(w)
  PROVE  IInv'
<1>1. PICK s \in Seasons \ {0}, job \in Job :
        /\ asked' = asked \cup {[id |-> jobs[w].series.id, season |-> s]}
        /\ jobs[w].series \in Series
        /\ Knows(job) /\ Become(w, job)
        /\ UNCHANGED <<settings, series, added, files, left, edits>>
  <2>1. CASE SearchSeason(w)
    <3>1. /\ jobs[w].pc = "search" /\ jobs[w].season # All /\ Become(w, Idle)
          /\ jobs[w] \in Job /\ Knows(jobs[w])
      BY <2>1, JobOf DEF SearchSeason, At, End
    <3>2. jobs[w].season \in Seasons \ {0} /\ jobs[w].series \in Series
      BY <3>1 DEF Knows, Requesting, Job
    <3>3. QED
      BY <2>1, <3>1, <3>2, IdleFits DEF SearchSeason
  <2>2. CASE SearchMissing(w)
    <3>1. PICK s \in jobs[w].todo :
            /\ asked' = asked \cup {[id |-> jobs[w].series.id, season |-> s]}
            /\ IF jobs[w].todo = {s} THEN End(w) ELSE Become(w, [jobs[w] EXCEPT !.todo = @ \ {s}])
      BY <2>2 DEF SearchMissing
    <3>2. jobs[w].pc = "command" /\ jobs[w] \in Job /\ Knows(jobs[w])
      BY <2>2, JobOf DEF SearchMissing, At
    <3>3. s \in Seasons \ {0} /\ jobs[w].series \in Series /\ jobs[w].series # None
      BY <3>1, <3>2 DEF Knows, Job
    <3> DEFINE next == [jobs[w] EXCEPT !.todo = @ \ {s}]
    <3>4. next \in Job /\ Knows(next)
      BY <3>2 DEF Job, Knows, Requesting
    <3>5. PICK job \in Job : Knows(job) /\ Become(w, job)
      BY <3>1, <3>4, IdleFits DEF End
    <3>6. UNCHANGED <<settings, series, added, files, left, edits>>
      BY <2>2 DEF SearchMissing
    <3>7. QED
      BY <3>1, <3>3, <3>5, <3>6
  <2>3. QED
    BY <2>1, <2>2
<1>2. [id |-> jobs[w].series.id, season |-> s] \in [id : 1 .. MaxSeries, season : Seasons]
  BY <1>1 DEF Series
<1>3. jobs' \in [Workers -> Job] /\ \A v \in Workers : Knows(jobs[v])'
  BY <1>1, JobsFit
<1>4. QED
  BY <1>1, <1>2, <1>3 DEF IInv, TypeOK, SpecialsOff

LEMMA DeleteInv ==
  ASSUME IInv, NEW w \in Workers, DeleteEpisodeFile(w) \/ DropSeries(w) \/ RemoveShow(w)
  PROVE  IInv'
<1>1. /\ files' \subseteq files /\ series' \in {series, None}
      /\ UNCHANGED <<settings, added, asked, left, edits>>
      /\ \E job \in Job : Knows(job) /\ Become(w, job)
  <2>1. CASE DropSeries(w) \/ RemoveShow(w)
    BY <2>1, IdleFits DEF DropSeries, RemoveShow, Kept, End
  <2>2. CASE DeleteEpisodeFile(w)
    <3>1. PICK e \in jobs[w].todo \cap files :
            files' = files \ {e} /\ Become(w, [jobs[w] EXCEPT !.todo = @ \ {e}])
      BY <2>2 DEF DeleteEpisodeFile
    <3>2. [jobs[w] EXCEPT !.todo = @ \ {e}] \in Job /\ Knows([jobs[w] EXCEPT !.todo = @ \ {e}])
      BY JobOf DEF Job, Knows, Requesting
    <3>3. QED
      BY <2>2, <3>1, <3>2 DEF DeleteEpisodeFile
  <2>3. QED
    BY <2>1, <2>2
<1>2. jobs' \in [Workers -> Job] /\ \A v \in Workers : Knows(jobs[v])'
  BY <1>1, JobsFit
<1>3. QED
  BY <1>1, <1>2 DEF IInv, TypeOK, SpecialsOff

LEMMA SaveProfileInv ==
  ASSUME IInv, NEW w \in Workers, SaveProfile(w)
  PROVE  IInv'
<1>1. jobs[w].config \in Settings /\ ConfigFits(jobs[w].config) /\ jobs[w].kind \in Kinds
  BY JobOf DEF Job, Knows
<1>2. PICK p \in {[kind |-> jobs[w].kind, version |-> v] : v \in Versions} \cup {None} :
        settings' = [jobs[w].config EXCEPT ![jobs[w].kind] = p]
  BY DEF SaveProfile
<1>3. p \in Profile \cup {None} /\ (p # None => p.kind = jobs[w].kind)
  BY <1>1, <1>2 DEF Profile
<1>4. settings' \in Settings /\ ConfigFits(settings')
  BY <1>1, <1>2, <1>3 DEF Settings, ConfigFits
<1>5. jobs' \in [Workers -> Job] /\ \A v \in Workers : Knows(jobs[v])'
  BY IdleFits, JobsFit DEF SaveProfile, End
<1>6. UNCHANGED <<sonarr, left, edits>>
  BY DEF SaveProfile
<1>7. QED
  BY <1>4, <1>5, <1>6 DEF IInv, TypeOK, sonarr, SpecialsOff

-----------------------------------------------------------------------------
(* Sonarr and its users                                                    *)

\* After a change by hand specials may be monitored.
LEMMA ByHandInv ==
  ASSUME IInv, ByHand, NEW record \in Series, Coherent(record), series' = record,
         added' \in 0 .. MaxSeries
  PROVE  IInv'
<1>1. edits \in 0 .. MaxEdits /\ edits' = edits + 1 /\ edits' \in 0 .. MaxEdits /\ edits' # 0
  BY SonarrAssumption DEF ByHand, IInv, TypeOK
<1>2. UNCHANGED <<settings, files, asked, jobs, left>>
  BY DEF ByHand
<1>3. \A w \in Workers : Knows(jobs[w])'
  BY <1>1, <1>2 DEF IInv, Knows, SpecialsOff
<1>4. QED
  BY <1>1, <1>2, <1>3 DEF IInv, TypeOK, SpecialsOff

LEMMA AddByHandInv ==
  ASSUME IInv, AddByHand
  PROVE  IInv'
<1> DEFINE new == [id |-> NewId, quality |-> Own, root |-> Own, type |-> Own, tags |-> {Own}, seasons |-> Seasons]
<1>1. added' \in 0 .. MaxSeries /\ NewId \in 1 .. MaxSeries
  BY SonarrAssumption DEF IInv, TypeOK, AddByHand, NewId
<1>2. new \in Series
  BY <1>1 DEF Series, Value
<1>3. Coherent(new)
  BY SonarrAssumption DEF Coherent
<1>4. series' = new /\ ByHand
  BY DEF AddByHand
<1> HIDE DEF new
<1>5. QED
  BY <1>1, <1>2, <1>3, <1>4, ByHandInv

LEMMA EditByHandInv ==
  ASSUME IInv, EditByHand
  PROVE  IInv'
<1>1. series \in Series /\ Coherent(series) /\ added' \in 0 .. MaxSeries /\ ByHand
  BY DEF IInv, TypeOK, EditByHand
<1>2. CASE \E s \in SUBSET Seasons : series' = [series EXCEPT !.seasons = s]
  <2>1. PICK s \in SUBSET Seasons : series' = [series EXCEPT !.seasons = s]
    BY <1>2
  <2>2. series' \in Series /\ Coherent(series')
    BY <1>1, <2>1 DEF Series, Coherent
  <2>3. QED
    BY <1>1, <2>2, ByHandInv
<1>3. CASE series' = [series EXCEPT !.tags = @ \cup {Own}]
  <2>1. series' \in Series /\ series'.tags \cap Kinds = series.tags \cap Kinds
    BY <1>1, <1>3, SonarrAssumption DEF Series
  <2>2. series'.type = series.type /\ series'.quality = series.quality
    BY <1>1, <1>3 DEF Series
  <2>3. Coherent(series')
    BY <1>1, <2>1, <2>2 DEF Coherent
  <2>4. QED
    BY <1>1, <2>1, <2>3, ByHandInv
<1>4. QED
  BY <1>2, <1>3 DEF EditByHand

LEMMA StutterInv ==
  ASSUME IInv, UNCHANGED <<settings, series, added, asked, jobs, left, edits>>, files' \subseteq Episodes
  PROVE  IInv'
BY DEF IInv, TypeOK, SpecialsOff, Knows

LEMMA StepInv == IInv /\ [Next]_vars => IInv'
<1> SUFFICES ASSUME IInv, [Next]_vars PROVE IInv'
  OBVIOUS
<1>1. ASSUME NEW w \in Workers, Step(w) PROVE IInv'
  BY <1>1, StartInv, ReadInv, AddSeriesInv, EnsureSeriesInv, MonitorInv, SearchInv, DeleteInv, SaveProfileInv
     DEF Step
<1>2. CASE AddByHand
  BY <1>2, AddByHandInv
<1>3. CASE EditByHand
  BY <1>3, EditByHandInv
<1>4. CASE \E e \in Episodes : Import(e)
  BY <1>4, StutterInv DEF Import, IInv, TypeOK
<1>5. CASE UNCHANGED vars
  BY <1>5, StutterInv DEF vars, sonarr, IInv, TypeOK
<1>6. QED
  BY <1>1, <1>2, <1>3, <1>4, <1>5 DEF Next

LEMMA Invariance == Spec => []IInv
<1>1. QED
  BY InitInv, StepInv, PTL DEF Spec

-----------------------------------------------------------------------------
(* Theorems                                                                *)

\* The settings, the series and the copies the workers hold keep their types.
THEOREM TypeCorrect == Spec => []TypeOK
<1>1. IInv => TypeOK
  BY DEF IInv
<1>2. QED
  BY <1>1, Invariance, PTL

\* Whatever profile edits and stale copies overlap, a series that carries one of
\* Scenario's tags has the type and the quality profile of that tag
\* (_ensure_existing_series_config): a request that finds all profiles set keeps them.
THEOREM SeriesAreCoherent == Spec => []RoutedTogether
<1>1. IInv => RoutedTogether
  BY DEF IInv, Coherent, RoutedTogether
<1>2. QED
  BY <1>1, Invariance, PTL

\* Scenario never searches season 0, and only a user of Sonarr makes it monitored.
THEOREM SpecialsStayUntouched == Spec => []SpecialsAreLeftAlone
<1>1. IInv => SpecialsAreLeftAlone
  BY DEF IInv, SpecialsOff, SpecialsAreLeftAlone
<1>2. QED
  BY <1>1, Invariance, PTL

\* One step deletes only what a deletion of that season or of the show asks for.
LEMMA StepDeletes ==
  ASSUME IInv, [Next]_vars, NEW e \in Episodes, e \in files, e \notin files'
  PROVE  \E w \in Workers :
           \/ jobs[w].op = "delete_show" /\ ~ At(w, "idle")
           \/ jobs[w].op = "delete_season" /\ jobs[w].season = SeasonOf[e] /\ ~ At(w, "idle")
<1>1. PICK w \in Workers : Step(w)
  BY DEF Next, vars, sonarr, AddByHand, EditByHand, ByHand, Import
<1>2. DeleteEpisodeFile(w) \/ RemoveShow(w)
  <2>1. \A op, job : Start(w, op, job) => files' = files
    BY DEF Start, sonarr
  <2>2. \A record, pc : Put(w, record, pc) => files' = files
    BY DEF Put
  <2>3. ~ (\E s \in (Seasons \ {0}) \cup {All}, k \in Kinds : StartRequest(w, s, k))
        /\ ~ (\E s \in Seasons : StartSeasonDeletion(w, s)) /\ ~ StartCancel(w) /\ ~ DeleteShow(w)
        /\ ~ (\E k \in Kinds : StartProfileEdit(w, k))
    BY <2>1 DEF StartRequest, StartSeasonDeletion, StartCancel, DeleteShow, StartProfileEdit, Operations
  <2>4. ~ EnsureSeries(w) /\ ~ MonitorMissing(w) /\ ~ UnmonitorSeason(w)
    BY <2>2 DEF EnsureSeries, MonitorMissing, UnmonitorSeason, sonarr
  <2>5. ~ FindSeries(w) /\ ~ AddSeries(w) /\ ~ SearchSeason(w) /\ ~ ListMissing(w) /\ ~ SearchMissing(w)
    BY DEF FindSeries, AddSeries, SearchSeason, ListMissing, SearchMissing, sonarr
  <2>6. ~ ReadSeries(w) /\ ~ FinishDeletion(w) /\ ~ DropSeries(w) /\ ~ SaveProfile(w) /\ ~ Break(w)
    BY DEF ReadSeries, FinishDeletion, DropSeries, Kept, SaveProfile, Break, sonarr
  <2>7. QED
    BY <1>1, <2>3, <2>4, <2>5, <2>6 DEF Step
<1>3. Knows(jobs[w])
  BY DEF IInv
<1>4. CASE DeleteEpisodeFile(w)
  <2>1. jobs[w].pc = "delete" /\ e \in jobs[w].todo
    BY <1>4 DEF DeleteEpisodeFile, At
  <2>2. jobs[w].op = "delete_season" /\ jobs[w].season = SeasonOf[e]
    BY <1>3, <2>1 DEF Knows
  <2>3. QED
    BY <2>1, <2>2 DEF At
<1>5. CASE RemoveShow(w)
  BY <1>3, <1>5 DEF RemoveShow, At, Knows
<1>6. QED
  BY <1>2, <1>4, <1>5

\* A file goes only while a deletion of its season or of the show runs: a
\* cancellation (deleteFiles=false) leaves what was imported since it looked.
THEOREM FilesGoWhenAsked == Spec => DeletionsAreAsked
<1>1. IInv /\ [Next]_vars =>
        [\A e \in Episodes : e \in files /\ e \notin files' =>
           \E w \in Workers :
             \/ jobs[w].op = "delete_show" /\ ~ At(w, "idle")
             \/ jobs[w].op = "delete_season" /\ jobs[w].season = SeasonOf[e] /\ ~ At(w, "idle")]_vars
  BY StepDeletes
<1>2. QED
  BY <1>1, Invariance, PTL DEF Spec, DeletionsAreAsked
=============================================================================
