----------------------- MODULE DownloadRequestsProofs -----------------------
(***************************************************************************)
(* What holds of download requests although nothing locks their rows, for  *)
(* every number of sessions, requests, episodes and webhooks under way.    *)
(***************************************************************************)
EXTENDS DownloadRequests, TLAPS, FiniteSetTheorems, WellFoundedInduction

AllUnits == Episodes \cup {Film}
Steps == {"idle", "create", "hydrate", "search", "found", "failing", "retry", "next", "cancel", "entry",
          "drop", "cancelled", "read", "commit"}
Readings == UNION {[R -> Row] : R \in SUBSET Requests}
Verdicts == UNION {[R -> Status] : R \in SUBSET Requests}
Session == [pc : Steps, req : 0 .. MaxRequests, scope : Scopes, todo : SUBSET Requests,
            seen : Row \cup Readings, outcome : Verdicts, own : {None} \cup SUBSET AllUnits,
            entry : 0 .. MaxEntries, command : Nat]

Typed ==
  /\ source \in Sources /\ aired \subseteq Units
  /\ row \in [Requests -> Row] /\ created \in 0 .. MaxRequests
  /\ owned \subseteq Units /\ files \subseteq Units /\ imported \subseteq Units
  /\ session \in [Sessions -> Session]
  /\ entry \in 0 .. MaxEntries /\ entries \in 0 .. MaxEntries
  /\ queue \in [Units -> {"none", "good", "bad"}]
  /\ history \in Seq([unit : Units, says : {"downloading", "failed"}])
  /\ commands \in Seq({"running", "finished"})
  /\ events \subseteq [unit : Units, event : {"grabbed", "imported", "deleted"}]

-----------------------------------------------------------------------------
(* Evidence: what the server has shown of a scope, which is never undone   *)

DoneScopes == {s \in Scopes : ScopeUnits(s) \cap aired \subseteq imported}
HeardUnits == {history[i].unit : i \in 1 .. Len(history)}
BegunScopes == {s \in Scopes : ScopeUnits(s) \cap HeardUnits # {}}

\* The pairs of a scope and a status that the server has given cause for.
Shown ==
  {c \in Scopes \X Status :
     (c[2] = "available" => c[1] \in DoneScopes) /\ (c[2] = "downloading" => c[1] \in BegunScopes)}

\* A movie is not requested by season.
TitleScopes == IF source = "RADARR" THEN {"movie", "series"} ELSE Scopes

\* Files, rows, downloads and webhooks have their event in the history.
World ==
  /\ owned \subseteq imported /\ files \subseteq imported
  /\ \A u \in Units : queue[u] # "none" => u \in HeardUnits
  /\ \A e \in events : (e.event = "imported" => e.unit \in imported) /\ (e.event = "grabbed" => e.unit \in HeardUnits)

RowsFit ==
  \A r \in Requests :
    /\ <<row[r].scope, row[r].status>> \in Shown /\ row[r].scope \in TitleScopes
    /\ Exists(r) => r <= created

\* A listing's copy of an active request.
CopyFits(r, copy) ==
  /\ r <= created /\ copy.status \in Active
  /\ <<copy.scope, copy.status>> \in Shown /\ copy.scope \in TitleScopes
  /\ Exists(r) => row[r].scope = copy.scope

\* What a session has read is old, but was true.
Knows(p) ==
  LET me == session[p] IN
  /\ me.scope \in TitleScopes
  /\ me.own # None => me.own \subseteq Units \cap imported
  /\ me.command <= Len(commands)
  /\ At(p, "read") =>
       /\ me.seen \in Readings /\ me.todo \subseteq DOMAIN me.seen
       /\ \A r \in DOMAIN me.seen : CopyFits(r, me.seen[r])
       /\ \A r \in me.todo : me.seen[r].scope \in DoneScopes
  /\ At(p, "commit") =>
       \A r \in DOMAIN me.outcome :
         r <= created /\ (Exists(r) => <<row[r].scope, me.outcome[r]>> \in Shown)

IInv == Typed /\ World /\ RowsFit /\ \A p \in Sessions : Knows(p)

-----------------------------------------------------------------------------
(* Helpers                                                                 *)

LEMMA IdleFits == IdleSession \in Session
<1>1. <<>> \in [{} -> Row] /\ <<>> \in [{} -> Status]
  OBVIOUS
<1>2. <<>> \in Readings /\ <<>> \in Verdicts
  BY <1>1 DEF Readings, Verdicts
<1>3. 0 \in 0 .. MaxRequests /\ 0 \in 0 .. MaxEntries /\ 0 \in Nat
  BY DownloadAssumption
<1>4. QED
  BY <1>2, <1>3 DEF IdleSession, Session, Steps, Scopes

LEMMA RowTypes == NoRow \in Row
BY DEF NoRow, Row, Status, Scopes

LEMMA ScopesFit ==
  ASSUME Typed, NEW s \in TitleScopes
  PROVE  s \in Scopes /\ ScopeUnits(s) \subseteq Units
BY DownloadAssumption DEF Typed, TitleScopes, ScopeUnits, Units, Scopes

\* What a step that adds to imports and history leaves as it was.
Grows ==
  /\ UNCHANGED <<source, aired>>
  /\ imported \subseteq imported' /\ HeardUnits \subseteq HeardUnits'

LEMMA EvidenceStays ==
  ASSUME Grows
  PROVE  /\ Shown \subseteq Shown' /\ DoneScopes \subseteq DoneScopes'
         /\ TitleScopes' = TitleScopes /\ Units' = Units
<1>1. \A s : ScopeUnits(s)' = ScopeUnits(s)
  BY DEF ScopeUnits, Units, Grows
<1>2. DoneScopes \subseteq DoneScopes' /\ BegunScopes \subseteq BegunScopes'
  BY <1>1 DEF DoneScopes, BegunScopes, Grows
<1>3. QED
  BY <1>2 DEF Shown, TitleScopes, Units, Grows

\* Rows keep their scope, and identifiers are not used again.
RowsKeep == \A r \in Requests : r <= created /\ Exists(r)' => Exists(r) /\ row'[r].scope = row[r].scope

LEMMA OthersKnow ==
  ASSUME IInv, NEW v \in Sessions, session'[v] = session[v], Grows, RowsKeep,
         created' \in Nat, created <= created', Len(commands') \in Nat, Len(commands) <= Len(commands')
  PROVE  Knows(v)'
<1> PICK me : me = session[v] /\ me = session'[v]
  OBVIOUS
<1>1. Knows(v) /\ me \in Session
  BY DEF IInv, Typed
<1>2. /\ Shown \subseteq Shown' /\ DoneScopes \subseteq DoneScopes'
      /\ TitleScopes' = TitleScopes /\ Units' = Units /\ imported \subseteq imported'
  BY EvidenceStays DEF Grows
<1>3. Len(commands) \in Nat /\ me.command \in Nat /\ me.req \in Nat /\ created \in Nat
  BY <1>1 DEF IInv, Typed, Session
<1>4. /\ me.scope \in TitleScopes' /\ (me.own # None => me.own \subseteq Units' \cap imported')
      /\ me.command <= Len(commands')
  BY <1>1, <1>2, <1>3 DEF Knows
<1>5. ASSUME me.pc = "read"
      PROVE  /\ me.seen \in Readings /\ me.todo \subseteq DOMAIN me.seen
             /\ \A r \in DOMAIN me.seen : CopyFits(r, me.seen[r])'
             /\ \A r \in me.todo : me.seen[r].scope \in DoneScopes'
  <2>1. /\ me.seen \in Readings /\ me.todo \subseteq DOMAIN me.seen
        /\ \A r \in DOMAIN me.seen : CopyFits(r, me.seen[r])
        /\ \A r \in me.todo : me.seen[r].scope \in DoneScopes
    BY <1>1, <1>5 DEF Knows, At, CopyFits
  <2>2. ASSUME NEW r \in DOMAIN me.seen PROVE CopyFits(r, me.seen[r])'
    <3>1. r \in Requests /\ r \in Nat
      BY <2>1 DEF Readings, Requests
    <3>2. CopyFits(r, me.seen[r])
      BY <2>1
    <3>3. r <= created' /\ (Exists(r)' => row'[r].scope = me.seen[r].scope)
      BY <1>3, <3>1, <3>2 DEF CopyFits, RowsKeep
    <3>4. QED
      BY <1>2, <3>2, <3>3 DEF CopyFits
  <2>3. QED
    BY <1>2, <2>1, <2>2
<1>6. ASSUME me.pc = "commit", NEW r \in DOMAIN me.outcome
      PROVE  r <= created' /\ (Exists(r)' => <<row'[r].scope, me.outcome[r]>> \in Shown')
  <2>1. r \in Requests /\ r \in Nat
    BY <1>1, <1>6 DEF Session, Verdicts, Requests
  <2>2. r <= created /\ (Exists(r) => <<row[r].scope, me.outcome[r]>> \in Shown)
    BY <1>1, <1>6 DEF Knows, At
  <2>3. QED
    BY <1>2, <1>3, <2>1, <2>2 DEF RowsKeep
<1>7. QED
  BY <1>4, <1>5, <1>6 DEF Knows, At, CopyFits, Exists

-----------------------------------------------------------------------------
(* Steps of a session, by what they change                                 *)

\* A session that neither reads a listing nor commits one.
LEMMA PlainKnows ==
  ASSUME IInv, NEW p \in Sessions, NEW next \in Session, Become(p, next), next.pc \notin {"read", "commit"},
         UNCHANGED <<source, imported>>, next.scope \in TitleScopes,
         next.own # None => next.own \subseteq Units \cap imported,
         created' \in Nat, next.command <= Len(commands')
  PROVE  Knows(p)'
<1>1. session'[p] = next
  BY DEF Become, IInv, Typed
<1>2. TitleScopes' = TitleScopes /\ Units' = Units
  BY DEF TitleScopes, Units
<1>3. QED
  BY <1>1, <1>2 DEF Knows, At

\* No row changes; files and downloads may only go.
LEMMA ReadStepInv ==
  ASSUME IInv, NEW p \in Sessions, NEW next \in Session, Become(p, next), Knows(p)',
         UNCHANGED <<source, aired, row, created, owned, history, events, imported>>,
         files' \subseteq files, entry' \in 0 .. MaxEntries, entries' \in 0 .. MaxEntries,
         queue' \in [Units -> {"none", "good", "bad"}], \A u \in Units : queue'[u] # "none" => queue[u] # "none",
         commands' \in Seq({"running", "finished"}), Len(commands) <= Len(commands')
  PROVE  IInv'
<1>1. Grows /\ RowsKeep
  BY DEF Grows, HeardUnits, RowsKeep, Exists
<1>2. Units' = Units /\ TitleScopes' = TitleScopes /\ Shown' = Shown /\ HeardUnits' = HeardUnits
  BY DEF Units, TitleScopes, Shown, DoneScopes, BegunScopes, HeardUnits, ScopeUnits
<1>3. Typed'
  BY <1>2 DEF IInv, Typed, Become
<1>4. World' /\ RowsFit'
  BY <1>2 DEF IInv, World, RowsFit, Exists
<1>5. \A v \in Sessions \ {p} : session'[v] = session[v]
  BY DEF Become, IInv, Typed
<1>6. created' \in Nat /\ created <= created' /\ Len(commands') \in Nat
  BY DEF IInv, Typed
<1>7. \A v \in Sessions : Knows(v)'
  BY <1>1, <1>5, <1>6, OthersKnow
<1>8. QED
  BY <1>3, <1>4, <1>7 DEF IInv

\* Rows and owned units change, the server does not.
LEMMA RowStepInv ==
  ASSUME IInv, NEW p \in Sessions, NEW next \in Session, Become(p, next), Knows(p)',
         UNCHANGED <<source, aired, serverVars>>,
         row' \in [Requests -> Row], created' \in 0 .. MaxRequests, created <= created',
         owned' \subseteq Units \cap imported,
         \A r \in Requests :
           /\ <<row'[r].scope, row'[r].status>> \in Shown /\ row'[r].scope \in TitleScopes
           /\ row'[r].status # "absent" =>
                \/ row[r].status # "absent" /\ row'[r].scope = row[r].scope
                \/ created < r /\ r <= created'
  PROVE  IInv'
<1>1. Units' = Units /\ TitleScopes' = TitleScopes /\ Shown' = Shown /\ HeardUnits' = HeardUnits
  BY DEF Units, TitleScopes, Shown, DoneScopes, BegunScopes, HeardUnits, ScopeUnits, serverVars
<1>2. Typed'
  BY <1>1 DEF IInv, Typed, Become, serverVars
<1>3. World'
  BY <1>1 DEF IInv, World, serverVars
<1>4. created \in Nat /\ created' \in Nat /\ Requests \subseteq Nat
  BY DEF IInv, Typed, Requests
<1>5. ASSUME NEW r \in Requests, row'[r].status # "absent"
      PROVE  \/ row[r].status # "absent" /\ row'[r].scope = row[r].scope /\ r <= created
             \/ created < r /\ r <= created'
  <2>1. row[r].status # "absent" => r <= created
    BY DEF IInv, RowsFit, Exists
  <2>2. QED
    BY <1>5, <2>1
<1>6. RowsFit'
  <2>1. ASSUME NEW r \in Requests, row'[r].status # "absent" PROVE r <= created'
    <3>1. r \in Nat
      BY <1>4
    <3>2. QED
      BY <1>4, <1>5, <2>1, <3>1
  <2>2. QED
    BY <1>1, <2>1 DEF RowsFit, Exists
<1>7. RowsKeep
  <2>1. ASSUME NEW r \in Requests, r <= created, row'[r].status # "absent"
        PROVE  row[r].status # "absent" /\ row'[r].scope = row[r].scope
    <3>1. r \in Nat
      BY <1>4
    <3>2. QED
      BY <1>4, <1>5, <2>1, <3>1
  <2>2. QED
    BY <2>1 DEF RowsKeep, Exists
<1>8. Grows
  BY <1>1 DEF Grows, serverVars
<1>9. \A v \in Sessions \ {p} : session'[v] = session[v]
  BY DEF Become, IInv, Typed
<1>10. Len(commands') \in Nat /\ Len(commands) <= Len(commands')
  BY DEF IInv, Typed, serverVars
<1>11. \A v \in Sessions : Knows(v)'
  BY <1>4, <1>7, <1>8, <1>9, <1>10, OthersKnow
<1>12. QED
  BY <1>2, <1>3, <1>6, <1>11 DEF IInv

\* One row gets another status, for which there is cause.
LEMMA StatusStepInv ==
  ASSUME IInv, NEW p \in Sessions, NEW next \in Session, Become(p, next), Knows(p)',
         UNCHANGED <<source, aired, created, owned, serverVars>>,
         NEW r \in Requests, NEW new \in Row, new.scope = row[r].scope, Exists(r),
         <<new.scope, new.status>> \in Shown, row' = [row EXCEPT ![r] = new]
  PROVE  IInv'
<1>1. row \in [Requests -> Row] /\ created \in 0 .. MaxRequests /\ owned \subseteq Units \cap imported
  BY DEF IInv, Typed, World
<1>2. row' \in [Requests -> Row]
  BY <1>1
<1>3. \A q \in Requests :
        /\ <<row'[q].scope, row'[q].status>> \in Shown /\ row'[q].scope \in TitleScopes
        /\ row'[q].status # "absent" => row[q].status # "absent" /\ row'[q].scope = row[q].scope
  BY <1>1 DEF IInv, RowsFit, Exists
<1>4. created <= created' /\ created' \in 0 .. MaxRequests /\ owned' \subseteq Units \cap imported
  BY <1>1
<1>5. QED
  BY <1>2, <1>3, <1>4, RowStepInv

\* A row that is not a verdict may be written at any time.
LEMMA NoVerdict ==
  ASSUME Typed, NEW s \in Scopes, NEW status \in Status, status \notin {"available", "downloading"}
  PROVE  <<s, status>> \in Shown
BY DEF Shown

\* A session goes on and changes no row.
LEMMA PlainStepInv ==
  ASSUME IInv, NEW p \in Sessions, NEW next \in Session, Become(p, next), next.pc \notin {"read", "commit"},
         next.scope \in TitleScopes, next.own # None => next.own \subseteq Units \cap imported,
         next.command <= Len(commands),
         UNCHANGED <<source, aired, row, created, owned, serverVars>>
  PROVE  IInv'
<1>1. created' \in Nat /\ next.command <= Len(commands') /\ UNCHANGED <<source, imported>>
  BY DEF IInv, Typed, serverVars
<1>2. Knows(p)'
  BY <1>1, PlainKnows
<1>3. QED
  BY <1>1, <1>2, ReadStepInv DEF IInv, Typed, serverVars

LEMMA IdlePlain ==
  ASSUME IInv
  PROVE  /\ IdleSession \in Session /\ IdleSession.pc = "idle" /\ IdleSession.scope \in TitleScopes
         /\ IdleSession.own = None /\ IdleSession.command <= Len(commands)
         /\ IdleSession.req = 0 /\ IdleSession.command = 0 /\ IdleSession.todo = {}
BY IdleFits DEF IInv, Typed, IdleSession, TitleScopes, Scopes

\* What the state says of a session that goes on.
LEMMA Own ==
  ASSUME IInv, NEW p \in Sessions
  PROVE  /\ session[p] \in Session /\ session[p].scope \in TitleScopes /\ session[p].scope \in Scopes
         /\ session[p].own # None => session[p].own \subseteq Units \cap imported
         /\ session[p].req \in 0 .. MaxRequests
         /\ session[p].command <= Len(commands)
BY DEF IInv, Typed, Knows, Session

LEMMA RestInv ==
  ASSUME IInv, NEW p \in Sessions, Rest(p), UNCHANGED <<source, aired, row, created, owned, serverVars>>
  PROVE  IInv'
BY IdlePlain, PlainStepInv DEF Rest

LEMMA GotoInv ==
  ASSUME IInv, NEW p \in Sessions, NEW pc \in Steps, pc \notin {"read", "commit"}, Goto(p, pc),
         UNCHANGED <<source, aired, row, created, owned, serverVars>>
  PROVE  IInv'
<1> DEFINE next == [session[p] EXCEPT !.pc = pc]
<1>1. next \in Session /\ next.pc = pc /\ next.scope = session[p].scope /\ next.own = session[p].own
      /\ next.req = session[p].req /\ next.command = session[p].command
  BY Own DEF Session
<1>2. Become(p, next)
  BY DEF Goto
<1> HIDE DEF next
<1>3. QED
  BY <1>1, <1>2, Own, PlainStepInv

\* A set of numbers up to a bound has a largest one: that with the smallest set of
\* numbers above it.
LEMMA LargestOf ==
  ASSUME NEW n \in Nat, NEW T, T \subseteq 1 .. n, T # {}
  PROVE  \E x \in T : \A y \in T : y <= x
<1> DEFINE above(x) == {y \in 1 .. n : x < y}
           family == {above(x) : x \in T}
           S == 1 .. n
<1>1. IsFiniteSet(S)
  BY FS_Interval
<1>2. FiniteSubsetsOf(S) = SUBSET S
  BY <1>1, FS_FiniteSubsetsOfFinite
<1>3. IsWellFoundedOn(StrictSubsetOrdering(S), SUBSET S)
  BY <1>2, FS_StrictSubsetOrderingWellFounded
<1>4. family \subseteq SUBSET S /\ family # {}
  OBVIOUS
<1>5. \E m \in family : \A k \in family : ~ (<<k, m>> \in StrictSubsetOrdering(S))
  BY <1>3, <1>4, WFMin
<1>6. PICK x \in T : \A y \in T : ~ (<<above(y), above(x)>> \in StrictSubsetOrdering(S))
  BY <1>5
<1>7. ASSUME NEW y \in T, ~ (y <= x) PROVE FALSE
  <2>1. x \in 1 .. n /\ y \in 1 .. n /\ x < y
    BY <1>7
  <2>2. above(y) \subseteq above(x) /\ y \in above(x) /\ y \notin above(y)
    BY <2>1
  <2>3. above(y) \in SUBSET S /\ above(x) \in SUBSET S
    OBVIOUS
  <2> HIDE DEF above
  <2>4. <<above(y), above(x)>> \in StrictSubsetOrdering(S)
    BY <2>2, <2>3 DEF StrictSubsetOrdering
  <2>5. QED
    BY <1>6, <2>4
<1>8. QED
  BY <1>6, <1>7

LEMMA LatestFits ==
  ASSUME NEW s
  PROVE  Latest(s) \in 0 .. MaxRequests
<1> DEFINE of == {r \in Requests : Exists(r) /\ row[r].scope = s}
<1>1. MaxRequests \in Nat
  BY DownloadAssumption
<1>2. CASE of = {}
  BY <1>1, <1>2 DEF Latest
<1>3. CASE of # {}
  <2>1. of \subseteq 1 .. MaxRequests
    BY DEF Requests
  <2> HIDE DEF of
  <2>2. \E r \in of : \A o \in of : o <= r
    BY <1>1, <1>3, <2>1, LargestOf
  <2>3. Latest(s) \in of
    BY <1>3, <2>2 DEF Latest, of
  <2>4. Latest(s) \in Requests
    BY <2>3 DEF of
  <2>5. QED
    BY <1>1, <2>4 DEF Requests
<1>4. QED
  BY <1>2, <1>3

-----------------------------------------------------------------------------
(* The steps of requests, retries and searches                             *)

LEMMA ScopesAsked == ASSUME Typed PROVE RequestScopes \subseteq TitleScopes
BY DownloadAssumption DEF Typed, RequestScopes, TitleScopes, Scopes

\* A title wholly imported has each of its scopes done.
LEMMA WholeTitleDone ==
  ASSUME Typed, Units \cap aired \subseteq imported, NEW s \in TitleScopes
  PROVE  s \in DoneScopes
BY ScopesFit DEF DoneScopes

LEMMA DoneShown ==
  ASSUME NEW s \in DoneScopes
  PROVE  <<s, "available">> \in Shown
BY DEF DoneScopes, Shown, Status, Settled

LEMMA CreateInv ==
  ASSUME IInv, NEW p \in Sessions, NEW s \in TitleScopes,
         Become(p, [IdleSession EXCEPT !.pc = "create", !.req = Latest(s), !.scope = s]),
         UNCHANGED <<source, aired, row, created, owned, serverVars>>
  PROVE  IInv'
<1> DEFINE next == [IdleSession EXCEPT !.pc = "create", !.req = Latest(s), !.scope = s]
<1>1. s \in Scopes /\ Latest(s) \in 0 .. MaxRequests
  BY LatestFits, ScopesFit DEF IInv
<1>2. /\ next \in Session /\ next.pc = "create" /\ next.scope = s /\ next.own = None
      /\ next.req = Latest(s) /\ next.command = IdleSession.command
  BY <1>1, IdlePlain DEF Session, Steps
<1> HIDE DEF next
<1>3. QED
  BY <1>1, <1>2, IdlePlain, PlainStepInv DEF next

LEMMA BeginRequestInv ==
  ASSUME IInv, NEW p \in Sessions, NEW s \in RequestScopes, BeginRequest(p, s)
  PROVE  IInv'
BY CreateInv, ScopesAsked DEF BeginRequest, IInv

LEMMA BeginRetryInv ==
  ASSUME IInv, NEW p \in Sessions, NEW r \in Requests, BeginRetry(p, r)
  PROVE  IInv'
<1>1. row[r].status # "absent" /\ row[r].scope \in TitleScopes
  BY DEF BeginRetry, Retryable, IInv, RowsFit
<1>2. CASE /\ source = "RADARR"
           /\ Become(p, [IdleSession EXCEPT !.pc = "retry", !.req = r, !.scope = "movie"])
  <2> DEFINE next == [IdleSession EXCEPT !.pc = "retry", !.req = r, !.scope = "movie"]
  <2>1. "movie" \in TitleScopes /\ "movie" \in Scopes
    BY <1>2 DEF TitleScopes, Scopes
  <2>2. r \in 0 .. MaxRequests
    BY DownloadAssumption DEF Requests
  <2>3. /\ next \in Session /\ next.pc = "retry" /\ next.scope = "movie" /\ next.own = None
        /\ next.req = r /\ next.command = IdleSession.command
    BY <2>1, <2>2, IdlePlain DEF Session, Steps
  <2> HIDE DEF next
  <2>4. QED
    BY <1>2, <2>1, <2>3, IdlePlain, PlainStepInv DEF next, BeginRetry
<1>3. CASE Become(p, [IdleSession EXCEPT !.pc = "create", !.req = Latest(row[r].scope), !.scope = row[r].scope])
  BY <1>1, <1>3, CreateInv DEF BeginRetry
<1>4. QED
  BY <1>2, <1>3 DEF BeginRetry

\* An owned movie was imported.
LEMMA MovieDone ==
  ASSUME IInv, MovieOwned, NEW s \in TitleScopes
  PROVE  s \in DoneScopes
<1>1. Units = {Film} /\ Film \in imported
  BY DEF MovieOwned, Units, IInv, World
<1>2. QED
  BY <1>1, WholeTitleDone DEF IInv

LEMMA CommitRequestInv ==
  ASSUME IInv, NEW p \in Sessions, CommitRequest(p)
  PROVE  IInv'
<1> DEFINE s == session[p].scope
           old == session[p].req
           r == IF old = 0 THEN created + 1 ELSE old
           status == IF MovieOwned THEN "available" ELSE "requested"
           kept == IF old = 0 THEN Inserted(s) ELSE row[r]
           new == [kept EXCEPT !.status = status]
           going == [session[p] EXCEPT !.pc = "hydrate", !.req = r]
<1>1. /\ s \in TitleScopes /\ s \in Scopes /\ old \in 0 .. MaxRequests
      /\ session[p] \in Session
      /\ session[p].own # None => session[p].own \subseteq Units \cap imported
      /\ session[p].command <= Len(commands)
  BY Own
<1>2. CASE Rest(p) /\ UNCHANGED <<row, created>>
  BY <1>2, RestInv DEF CommitRequest
<1>3. CASE /\ old # 0 => Exists(old)
           /\ r \in Requests
           /\ row' = [row EXCEPT ![r] = new]
           /\ created' = IF old = 0 THEN created + 1 ELSE created
           /\ Become(p, IF MovieOwned THEN IdleSession ELSE going)
  <2>1. /\ created \in Nat /\ MaxRequests \in Nat /\ row \in [Requests -> Row]
        /\ owned \subseteq Units \cap imported
    BY DownloadAssumption DEF IInv, Typed, World
  <2>2. /\ created' \in 0 .. MaxRequests /\ created <= created' /\ r <= created' /\ r \in 0 .. MaxRequests
        /\ old = 0 => created < r
    <3> HIDE DEF kept, new, going, status
    <3>1. created \in 0 .. MaxRequests /\ r \in 1 .. MaxRequests
      BY <1>3 DEF Requests, IInv, Typed
    <3>2. CASE old = 0
      BY <1>3, <2>1, <3>1, <3>2
    <3>3. CASE old # 0
      <4>1. old <= created
        BY <1>3, <3>3 DEF IInv, RowsFit, Exists
      <4>2. QED
        BY <1>1, <1>3, <2>1, <3>1, <3>3, <4>1
    <3>4. QED
      BY <3>2, <3>3
  <2>3. kept \in Row /\ kept.scope \in TitleScopes /\ (old # 0 => kept.scope = row[r].scope)
    <3>1. CASE old = 0
      BY <1>1, <3>1, RowTypes DEF Inserted, Row, Status, Active
    <3>2. CASE old # 0
      BY <1>3, <2>1, <3>2 DEF IInv, RowsFit
    <3>3. QED
      BY <3>1, <3>2
  <2> HIDE DEF kept
  <2>4. new \in Row /\ new.status = status /\ new.scope = kept.scope
    BY <2>3 DEF Row, Status, Active, Settled
  <2>5. <<new.scope, new.status>> \in Shown
    <3>1. CASE MovieOwned
      BY <2>3, <2>4, <3>1, MovieDone, DoneShown
    <3>2. CASE ~MovieOwned
      BY <2>3, <2>4, <3>2 DEF Shown, Row
    <3>3. QED
      BY <3>1, <3>2
  <2> HIDE DEF new
  <2>6. row' \in [Requests -> Row]
    BY <1>3, <2>1, <2>4
  <2>7. \A q \in Requests :
          /\ <<row'[q].scope, row'[q].status>> \in Shown /\ row'[q].scope \in TitleScopes
          /\ row'[q].status # "absent" =>
               \/ row[q].status # "absent" /\ row'[q].scope = row[q].scope
               \/ created < q /\ q <= created'
    <3> TAKE q \in Requests
    <3>1. CASE q # r
      BY <1>3, <2>1, <3>1 DEF IInv, RowsFit
    <3>2. CASE q = r
      <4>1. row'[q] = new
        BY <1>3, <2>1, <3>2
      <4>2. old # 0 => Exists(r)
        BY <1>3
      <4>3. QED
        BY <2>2, <2>3, <2>4, <2>5, <3>2, <4>1, <4>2 DEF Exists
    <3>3. QED
      BY <3>1, <3>2
  <2>8. /\ going \in Session /\ going.pc = "hydrate" /\ going.req = r /\ going.scope = s
        /\ going.own = session[p].own /\ going.command = session[p].command
    BY <1>1, <2>2 DEF Session, Steps
  <2> HIDE DEF going, r, s, old
  <2>9. UNCHANGED <<source, aired, serverVars>> /\ UNCHANGED <<imported, commands>> /\ owned' = owned
    BY DEF CommitRequest, serverVars
  <2>10. PICK next \in Session :
           /\ Become(p, next) /\ next.pc \notin {"read", "commit"} /\ next.scope \in TitleScopes
           /\ next.own # None => next.own \subseteq Units \cap imported
           /\ next.command <= Len(commands)
    <3>1. CASE MovieOwned
      BY <1>3, <3>1, IdlePlain
    <3>2. CASE ~MovieOwned
      BY <1>1, <1>3, <2>8, <3>2 DEF s
    <3>3. QED
      BY <3>1, <3>2
  <2>11. created' \in Nat
    BY <2>2
  <2>12. Knows(p)'
    BY <2>9, <2>10, <2>11, PlainKnows
  <2>13. QED
    BY <2>1, <2>2, <2>6, <2>7, <2>9, <2>10, <2>12, RowStepInv
<1>4. QED
  BY <1>2, <1>3 DEF CommitRequest

\* A session at another step of the same operation.
LEMMA Steady ==
  ASSUME IInv, NEW p \in Sessions, NEW pc \in Steps
  PROVE  LET next == [session[p] EXCEPT !.pc = pc] IN
         /\ next \in Session /\ next.pc = pc /\ next.scope \in TitleScopes
         /\ next.own # None => next.own \subseteq Units \cap imported
         /\ next.command <= Len(commands)
BY Own DEF Session

\* A request gets a status that claims nothing.
LEMMA SetStatusInv ==
  ASSUME IInv, NEW p \in Sessions, NEW next \in Session, Become(p, next), next.pc \notin {"read", "commit"},
         next.scope \in TitleScopes, next.own # None => next.own \subseteq Units \cap imported,
         next.command <= Len(commands),
         UNCHANGED <<source, aired, created, owned, serverVars>>,
         NEW r, Exists(r), NEW status \in Status \ {"available", "downloading"}, SetStatus(r, status)
  PROVE  IInv'
<1> DEFINE new == [row[r] EXCEPT !.status = status]
<1>1. r \in Requests /\ row \in [Requests -> Row]
  BY DEF IInv, Typed, Exists
<1>2. new \in Row /\ new.scope = row[r].scope /\ new.status = status /\ new.scope \in Scopes
  BY <1>1 DEF Row
<1>3. row' = [row EXCEPT ![r] = new]
  BY <1>1 DEF SetStatus
<1> HIDE DEF new
<1>4. <<new.scope, new.status>> \in Shown
  BY <1>2, NoVerdict DEF IInv
<1>5. created' \in Nat /\ next.command <= Len(commands')
      /\ UNCHANGED <<source, imported>>
  BY DEF IInv, Typed, serverVars
<1>6. Knows(p)'
  BY <1>5, PlainKnows
<1>7. QED
  BY <1>1, <1>2, <1>3, <1>4, <1>6, StatusStepInv

LEMMA HydrateInv ==
  ASSUME IInv, NEW p \in Sessions, Hydrate(p)
  PROVE  IInv'
<1> DEFINE r == session[p].req
<1>1. CASE Exists(r) /\ SetStatus(r, "requested") /\ Goto(p, "search")
  BY <1>1, Steady, SetStatusInv DEF Hydrate, Goto, Steps, Status, Active
<1>2. CASE Exists(r) /\ SetStatus(r, "failed") /\ Rest(p)
  BY <1>2, IdlePlain, SetStatusInv DEF Hydrate, Rest, Status, Settled, Retryable
<1>3. CASE Rest(p) /\ UNCHANGED row
  BY <1>3, RestInv DEF Hydrate
<1>4. QED
  BY <1>1, <1>2, <1>3 DEF Hydrate

LEMMA CommitRetryInv ==
  ASSUME IInv, NEW p \in Sessions, CommitRetry(p)
  PROVE  IInv'
<1> DEFINE r == session[p].req
<1>1. CASE Exists(r) /\ SetStatus(r, "requested") /\ Goto(p, "search")
  BY <1>1, Steady, SetStatusInv DEF CommitRetry, Goto, Steps, Status, Active
<1>2. CASE Rest(p) /\ UNCHANGED row
  BY <1>2, RestInv DEF CommitRetry
<1>3. QED
  BY <1>1, <1>2 DEF CommitRetry

LEMMA MarkRequestFailedInv ==
  ASSUME IInv, NEW p \in Sessions, MarkRequestFailed(p)
  PROVE  IInv'
<1>1. CASE Exists(session[p].req)
  BY <1>1, IdlePlain, SetStatusInv DEF MarkRequestFailed, Rest, Status, Settled, Retryable
<1>2. CASE ~Exists(session[p].req)
  BY <1>2, RestInv DEF MarkRequestFailed
<1>3. QED
  BY <1>1, <1>2

LEMMA AddAndSearchInv ==
  ASSUME IInv, NEW p \in Sessions, AddAndSearch(p)
  PROVE  IInv'
<1> DEFINE known == IF entry = 0 THEN entries + 1 ELSE entry
           me == session[p]
<1>1. CASE Goto(p, "failing") /\ UNCHANGED <<entry, entries, commands>>
  BY <1>1, GotoInv DEF AddAndSearch, Steps, serverVars
<1>2. CASE known <= MaxEntries /\ entry' = known /\ entries' = IF entry = 0 THEN known ELSE entries
  <2>1. /\ entry' \in 0 .. MaxEntries /\ entries' \in 0 .. MaxEntries /\ known \in 0 .. MaxEntries
        /\ commands \in Seq({"running", "finished"}) /\ Len(commands) \in Nat
    BY <1>2, DownloadAssumption DEF IInv, Typed
  <2>2. commands' = commands \/ commands' = Append(commands, "running")
    BY <1>2 DEF AddAndSearch
  <2>3. commands' \in Seq({"running", "finished"}) /\ Len(commands) <= Len(commands')
        /\ Len(commands') \in Nat
    BY <2>1, <2>2
  <2>4. me \in Session /\ me.command <= Len(commands)
    BY Own
  <2> DEFINE found(own, command) ==
               [me EXCEPT !.pc = "found", !.entry = known, !.own = own, !.command = command]
  <2>5. \/ Goto(p, "failing")
        \/ \E own \in {None, files}, command \in Nat :
             command <= Len(commands') /\ Become(p, found(own, command))
    <3>1. CASE commands' = Append(commands, "running")
      <4>1. Len(commands) + 1 \in Nat /\ Len(commands) + 1 <= Len(commands')
        BY <2>1, <3>1
      <4>2. commands # Append(commands, "running")
        BY <2>1
      <4>3. \/ Goto(p, "failing")
            \/ \E own \in {None, files} : Become(p, found(own, Len(commands) + 1))
        BY <3>1, <4>2, Zenon DEF AddAndSearch
      <4> HIDE DEF found
      <4>4. QED
        BY <4>1, <4>3, Zenon
    <3>2. CASE commands' = commands
      <4>1. commands # Append(commands, "running")
        BY <2>1
      <4>2. \/ Goto(p, "failing")
            \/ \E own \in {None, files} :
                 Become(p, [me EXCEPT !.pc = "found", !.entry = known, !.own = own])
        BY <1>2, <3>2, <4>1 DEF AddAndSearch
      <4>3. \A own : [me EXCEPT !.pc = "found", !.entry = known, !.own = own] = found(own, me.command)
        BY <2>4 DEF Session
      <4>4. me.command \in Nat /\ me.command <= Len(commands')
        BY <2>4, <3>2 DEF Session
      <4>5. ASSUME NEW own \in {None, files}, Become(p, [me EXCEPT !.pc = "found", !.entry = known, !.own = own])
            PROVE  Become(p, found(own, me.command))
        BY <4>3, <4>5, Zenon DEF Become
      <4> HIDE DEF found
      <4>6. QED
        BY <4>2, <4>4, <4>5, Zenon
    <3>3. QED
      BY <2>2, <3>1, <3>2
  <2> HIDE DEF known
  <2>6. /\ UNCHANGED <<source, aired, row, created, owned, history, events, imported, files, queue>>
        /\ created \in Nat /\ queue \in [Units -> {"none", "good", "bad"}]
    <3>1. UNCHANGED <<source, aired, row, created, owned, history, events, imported, files, queue>>
      BY DEF AddAndSearch
    <3>2. QED
      BY <3>1 DEF IInv, Typed
  <2>7. ASSUME NEW next \in Session, Become(p, next), next.pc \notin {"read", "commit"},
               next.scope \in TitleScopes, next.own # None => next.own \subseteq Units \cap imported,
               next.command <= Len(commands')
        PROVE  IInv'
    <3>1. Knows(p)'
      BY <2>6, <2>7, PlainKnows
    <3>2. QED
      BY <2>1, <2>3, <2>6, <2>7, <3>1, ReadStepInv
  <2>8. CASE Goto(p, "failing")
    <3> DEFINE next == [me EXCEPT !.pc = "failing"]
    <3>1. /\ next \in Session /\ next.pc = "failing" /\ next.scope \in TitleScopes
          /\ next.own # None => next.own \subseteq Units \cap imported
          /\ next.command <= Len(commands)
      BY Steady DEF Steps
    <3>2. Become(p, next)
      BY <2>8 DEF Goto
    <3> HIDE DEF next
    <3>3. next.command \in Nat
      BY <3>1 DEF Session
    <3>4. next.command <= Len(commands')
      BY <2>1, <2>3, <3>1, <3>3
    <3>5. QED
      BY <2>7, <3>1, <3>2, <3>4
  <2>9. ASSUME NEW own \in {None, files}, NEW command \in Nat, command <= Len(commands'),
               Become(p, found(own, command))
        PROVE  IInv'
    <3>1. own \in {None} \cup SUBSET AllUnits /\ (own # None => own \subseteq Units \cap imported)
      BY DEF IInv, Typed, World, AllUnits, Units
    <3>2. /\ found(own, command) \in Session /\ found(own, command).pc = "found"
          /\ found(own, command).scope = me.scope /\ found(own, command).own = own
          /\ found(own, command).req = me.req /\ found(own, command).command = command
      BY <2>1, <2>4, <3>1 DEF Session, Steps
    <3> HIDE DEF found
    <3>3. QED
      BY <2>7, <2>9, <3>1, <3>2, Own
  <2>10. QED
    BY <2>5, <2>8, <2>9
<1>3. QED
  BY <1>1, <1>2 DEF AddAndSearch

\* The owned rows a session stores are units that were imported.
LEMMA OwnedAfterFits ==
  ASSUME IInv, NEW p \in Sessions
  PROVE  OwnedAfter(session[p].own) \subseteq Units \cap imported
BY Own DEF OwnedAfter, IInv, Typed, World

\* A series the task sees as owned was imported as a whole.
LEMMA SeenSeriesDone ==
  ASSUME IInv, NEW own, ScopeAvailable("series", VisibleOwned(own)), NEW s \in TitleScopes
  PROVE  s \in DoneScopes
<1>1. VisibleOwned(own) \subseteq imported /\ ScopeUnits("series") = Units
  BY DEF VisibleOwned, ScopeUnits, IInv, World
<1>2. Units \cap aired \subseteq imported
  BY <1>1 DEF ScopeAvailable
<1>3. QED
  BY <1>2, WholeTitleDone DEF IInv

LEMMA CommitSearchInv ==
  ASSUME IInv, NEW p \in Sessions, CommitSearch(p)
  PROVE  IInv'
<1> DEFINE me == session[p]
           r == me.req
           status == IF me.scope # "series" \/ me.command # 0 THEN "searching"
                     ELSE IF ScopeAvailable("series", VisibleOwned(me.own)) THEN "available" ELSE "not_found"
           new == [row[r] EXCEPT !.entry = me.entry, !.command = me.command, !.status = status]
<1>1. CASE Goto(p, "failing") /\ UNCHANGED <<row, owned>>
  BY <1>1, GotoInv DEF CommitSearch, Steps
<1>2. CASE Rest(p) /\ UNCHANGED <<row, owned>>
  BY <1>2, RestInv DEF CommitSearch
<1>3. CASE /\ Exists(r)
           /\ row' = [row EXCEPT ![r].entry = me.entry, ![r].command = me.command, ![r].status = status]
           /\ owned' = OwnedAfter(me.own)
           /\ Rest(p)
  <2>1. r \in Requests /\ row \in [Requests -> Row] /\ me \in Session /\ created \in 0 .. MaxRequests
    BY <1>3, Own DEF IInv, Typed, Exists
  <2>2. me.entry \in Nat /\ me.command \in Nat
    BY <2>1 DEF Session
  <2>3. row[r].scope \in Scopes /\ row[r].scope \in TitleScopes
    BY <2>1 DEF IInv, RowsFit, Row
  <2>4. status \in Status /\ (status = "available" => row[r].scope \in DoneScopes) /\ status # "downloading"
    BY <2>3, SeenSeriesDone DEF Status, Active, Settled, Retryable
  <2> HIDE DEF status
  <2>5. new \in Row /\ new.scope = row[r].scope /\ new.status = status
    BY <2>1, <2>2, <2>4 DEF Row
  <2>6. <<new.scope, new.status>> \in Shown
    BY <2>3, <2>4, <2>5 DEF Shown
  <2>7. row' = [row EXCEPT ![r] = new]
    BY <1>3, <2>1
  <2> HIDE DEF new
  <2>8. row' \in [Requests -> Row]
    BY <2>1, <2>5, <2>7
  <2>9. \A q \in Requests :
          /\ <<row'[q].scope, row'[q].status>> \in Shown /\ row'[q].scope \in TitleScopes
          /\ row'[q].status # "absent" => row[q].status # "absent" /\ row'[q].scope = row[q].scope
    BY <1>3, <2>1, <2>3, <2>5, <2>6, <2>7 DEF IInv, RowsFit, Exists
  <2>10. UNCHANGED <<source, aired, created, serverVars>> /\ UNCHANGED <<imported, commands>>
         /\ owned' \subseteq Units \cap imported /\ created' \in 0 .. MaxRequests /\ created <= created'
    BY <1>3, <2>1, OwnedAfterFits DEF CommitSearch, serverVars
  <2>11. Knows(p)'
    BY <1>3, <2>10, IdlePlain, PlainKnows DEF Rest
  <2>12. QED
    BY <1>3, <2>8, <2>9, <2>10, <2>11, IdlePlain, RowStepInv DEF Rest
<1>4. QED
  BY <1>1, <1>2, <1>3 DEF CommitSearch

-----------------------------------------------------------------------------
(* The steps of cancellation and cleaning                                  *)

LEMMA BeginCancelInv ==
  ASSUME IInv, NEW p \in Sessions, NEW todo \in SUBSET Requests, BeginCancel(p, todo)
  PROVE  IInv'
<1> DEFINE next == [IdleSession EXCEPT !.pc = "next", !.todo = todo]
<1>1. /\ next \in Session /\ next.pc = "next" /\ next.scope = IdleSession.scope /\ next.own = None
      /\ next.req = IdleSession.req /\ next.command = IdleSession.command
  BY IdlePlain DEF Session, Steps
<1>2. Become(p, next)
  BY DEF BeginCancel
<1> HIDE DEF next
<1>3. QED
  BY <1>1, <1>2, IdlePlain, PlainStepInv DEF BeginCancel

LEMMA NextCancelInv ==
  ASSUME IInv, NEW p \in Sessions, NextCancel(p)
  PROVE  IInv'
<1> DEFINE me == session[p]
<1>1. CASE Rest(p)
  BY <1>1, RestInv DEF NextCancel
<1>2. ASSUME NEW r \in me.todo,
             Become(p, [me EXCEPT !.todo = me.todo \ {r}, !.req = r, !.seen = row[r],
                                  !.pc = IF Exists(r) THEN "cancel" ELSE "next"])
      PROVE  IInv'
  <2> DEFINE next == [me EXCEPT !.todo = me.todo \ {r}, !.req = r, !.seen = row[r],
                                !.pc = IF Exists(r) THEN "cancel" ELSE "next"]
  <2>1. me \in Session /\ r \in Requests /\ r \in 0 .. MaxRequests
    BY <1>2, Own, DownloadAssumption DEF Session, Requests
  <2>2. row[r] \in Row
    BY <2>1 DEF IInv, Typed
  <2>3. /\ next \in Session /\ next.pc \in {"cancel", "next"} /\ next.scope = me.scope /\ next.own = me.own
        /\ next.command = me.command
    BY <2>1, <2>2 DEF Session, Steps
  <2>4. Become(p, next)
    BY <1>2
  <2> HIDE DEF next
  <2>5. QED
    BY <2>3, <2>4, Own, PlainStepInv DEF NextCancel
<1>3. QED
  BY <1>1, <1>2 DEF NextCancel

\* A session goes on; files and downloads may go from the server.
LEMMA CleanServerInv ==
  ASSUME IInv, NEW p \in Sessions, NEW pc \in Steps, pc \notin {"read", "commit"}, Goto(p, pc),
         UNCHANGED <<source, aired, row, created, owned, entries, history, commands, events, imported>>,
         files' \subseteq files, entry' \in 0 .. MaxEntries,
         queue' \in [Units -> {"none", "good", "bad"}], \A u \in Units : queue'[u] # "none" => queue[u] # "none"
  PROVE  IInv'
<1> DEFINE next == [session[p] EXCEPT !.pc = pc]
<1>1. /\ next \in Session /\ next.pc = pc /\ next.scope \in TitleScopes
      /\ next.own # None => next.own \subseteq Units \cap imported
      /\ next.command <= Len(commands)
  BY Steady
<1>2. Become(p, next)
  BY DEF Goto
<1> HIDE DEF next
<1>3. created' \in Nat /\ next.command <= Len(commands') /\ UNCHANGED <<source, imported>>
  BY <1>1 DEF IInv, Typed
<1>4. Knows(p)'
  BY <1>1, <1>2, <1>3, PlainKnows
<1>5. entries' \in 0 .. MaxEntries /\ commands' \in Seq({"running", "finished"}) /\ Len(commands) <= Len(commands')
  BY DEF IInv, Typed
<1>6. QED
  BY <1>1, <1>2, <1>4, <1>5, ReadStepInv

LEMMA RemoveDownloadsInv ==
  ASSUME IInv, NEW p \in Sessions, RemoveDownloads(p)
  PROVE  IInv'
<1>1. CASE Goto(p, "cancelled") /\ UNCHANGED queue
  BY <1>1, GotoInv DEF RemoveDownloads, Steps, serverVars
<1>2. ASSUME NEW gone, queue' = [u \in Units |-> IF u \in gone THEN "none" ELSE queue[u]],
             NEW pc \in {"next", "cancelled", "entry"}, Goto(p, pc)
      PROVE  IInv'
  <2>1. queue \in [Units -> {"none", "good", "bad"}] /\ entry \in 0 .. MaxEntries
    BY DEF IInv, Typed
  <2>2. /\ queue' \in [Units -> {"none", "good", "bad"}]
        /\ \A u \in Units : queue'[u] # "none" => queue[u] # "none"
    BY <1>2, <2>1
  <2>3. UNCHANGED <<source, aired, row, created, owned, entries, history, commands, events, imported,
                    files, entry>>
    BY DEF RemoveDownloads
  <2>4. pc \in Steps /\ pc \notin {"read", "commit"}
    BY DEF Steps
  <2>5. QED
    BY <1>2, <2>1, <2>2, <2>3, <2>4, CleanServerInv
<1>3. QED
  BY <1>1, <1>2 DEF RemoveDownloads, Rejected

LEMMA CheckEntryInv ==
  ASSUME IInv, NEW p \in Sessions, CheckEntry(p)
  PROVE  IInv'
BY GotoInv DEF CheckEntry, Rejected, Steps

LEMMA DropEntryInv ==
  ASSUME IInv, NEW p \in Sessions, DropEntry(p)
  PROVE  IInv'
<1>1. CASE Goto(p, Rejected) /\ UNCHANGED <<entry, files, queue>>
  BY <1>1, GotoInv DEF DropEntry, Rejected, Steps, serverVars
<1>2. CASE /\ Goto(p, "cancelled") /\ entry' = 0 /\ files' = {}
           /\ queue' = [u \in Units |-> "none"]
  <2>1. UNCHANGED <<source, aired, row, created, owned, entries, history, commands, events, imported>>
    BY DEF DropEntry
  <2>2. /\ files' \subseteq files /\ entry' \in 0 .. MaxEntries
        /\ queue' \in [Units -> {"none", "good", "bad"}]
        /\ \A u \in Units : queue'[u] # "none" => queue[u] # "none"
    BY <1>2, DownloadAssumption
  <2>3. QED
    BY <1>2, <2>1, <2>2, CleanServerInv DEF Steps
<1>3. QED
  BY <1>1, <1>2 DEF DropEntry

LEMMA CommitCancelInv ==
  ASSUME IInv, NEW p \in Sessions, CommitCancel(p)
  PROVE  IInv'
<1> DEFINE r == session[p].req
           next == [IdleSession EXCEPT !.pc = "next", !.todo = session[p].todo]
<1>1. CASE Rest(p) /\ UNCHANGED row
  BY <1>1, RestInv DEF CommitCancel
<1>2. CASE /\ Exists(r) /\ Become(p, next)
           /\ UNCHANGED row \/ SetStatus(r, "cancelled")
  <2>1. session[p].todo \in SUBSET Requests
    BY Own DEF Session
  <2>2. /\ next \in Session /\ next.pc = "next" /\ next.scope = IdleSession.scope /\ next.own = None
        /\ next.command = IdleSession.command
    BY <2>1, IdlePlain DEF Session, Steps
  <2>3. "cancelled" \in Status \ {"available", "downloading"}
    BY DEF Status, Settled, Retryable
  <2> HIDE DEF next
  <2>4. CASE UNCHANGED row
    BY <1>2, <2>2, <2>4, IdlePlain, PlainStepInv DEF CommitCancel
  <2>5. CASE SetStatus(r, "cancelled")
    BY <1>2, <2>2, <2>3, <2>5, IdlePlain, SetStatusInv DEF CommitCancel
  <2>6. QED
    BY <1>2, <2>4, <2>5
<1>3. QED
  BY <1>1, <1>2 DEF CommitCancel

-----------------------------------------------------------------------------
(* The steps of a listing                                                  *)

LEMMA BeginReconcileInv ==
  ASSUME IInv, NEW p \in Sessions, BeginReconcile(p)
  PROVE  IInv'
<1> DEFINE copies == [r \in ActiveRequests |-> row[r]]
           next == [IdleSession EXCEPT !.pc = "read", !.seen = copies, !.todo = AlreadyOwned]
<1>1. ActiveRequests \in SUBSET Requests /\ AlreadyOwned \subseteq ActiveRequests
  BY DEF ActiveRequests, AlreadyOwned
<1>2. copies \in [ActiveRequests -> Row]
  BY <1>1 DEF IInv, Typed
<1>3. copies \in Readings /\ DOMAIN copies = ActiveRequests
  BY <1>1, <1>2 DEF Readings
<1>4. ASSUME NEW r \in ActiveRequests PROVE CopyFits(r, row[r])
  BY <1>4 DEF ActiveRequests, CopyFits, IInv, RowsFit, Exists, Active
<1>5. ASSUME NEW r \in AlreadyOwned PROVE row[r].scope \in DoneScopes
  <2>1. r \in Requests /\ row[r].scope \in Scopes
    BY <1>1 DEF IInv, Typed, Row
  <2>2. ScopeUnits(row[r].scope) \cap aired \subseteq imported
    BY DEF AlreadyOwned, ScopeAvailable, IInv, World
  <2>3. QED
    BY <2>1, <2>2 DEF DoneScopes
<1>6. /\ next \in Session /\ next.pc = "read" /\ next.scope = IdleSession.scope /\ next.own = None
      /\ next.seen = copies /\ next.todo = AlreadyOwned /\ next.command = IdleSession.command
  <2> HIDE DEF copies
  <2>1. QED
    BY <1>1, <1>3, IdlePlain DEF Session, Steps
<1>7. session'[p] = next
  BY DEF BeginReconcile, Become, IInv, Typed
<1>8. Become(p, next) /\ UNCHANGED <<source, aired, row, created, owned, serverVars>>
  BY DEF BeginReconcile
<1>9. \A r \in DOMAIN copies : copies[r] = row[r] /\ r \in ActiveRequests
  OBVIOUS
<1> HIDE DEF next, copies
<1> PICK seen : seen = copies
  OBVIOUS
<1> PICK todo : todo = AlreadyOwned
  OBVIOUS
<1>10. /\ Shown \subseteq Shown' /\ DoneScopes \subseteq DoneScopes' /\ TitleScopes' = TitleScopes
       /\ UNCHANGED <<row, created, commands>>
  BY <1>8, EvidenceStays DEF Grows, HeardUnits, serverVars
<1>11. \A r \in DOMAIN seen : CopyFits(r, seen[r])'
  BY <1>4, <1>9, <1>10 DEF CopyFits, Exists
<1>12. /\ session'[p].seen = seen /\ session'[p].todo = todo /\ seen \in Readings /\ todo \subseteq DOMAIN seen
       /\ \A r \in todo : seen[r].scope \in DoneScopes'
       /\ session'[p].pc = "read" /\ session'[p].scope \in TitleScopes' /\ session'[p].own = None
       /\ session'[p].command <= Len(commands')
  BY <1>1, <1>3, <1>5, <1>6, <1>7, <1>9, <1>10, IdlePlain
<1>13. Knows(p)'
  BY <1>11, <1>12 DEF Knows, At
<1>14. QED
  BY <1>6, <1>8, <1>13, ReadStepInv DEF IInv, Typed, serverVars

\* What the server says of a request, it says for a reason.
LEMMA OutcomeShown ==
  ASSUME IInv, NEW r, NEW copy \in Row, CopyFits(r, copy), NEW out \in Outcomes(copy), out \in Status
  PROVE  <<copy.scope, out>> \in Shown
<1>1. copy.scope \in Scopes /\ copy.scope \in TitleScopes /\ ScopeUnits(copy.scope) \subseteq Units
  BY ScopesFit DEF CopyFits, Row, IInv
<1>2. CASE Matching(copy) # {}
  <2>1. PICK u \in Matching(copy) : out = Verdict(queue[u])
    BY <1>2 DEF Outcomes, QueueOutcomes
  <2>2. u \in ScopeUnits(copy.scope) /\ u \in HeardUnits
    BY <1>1, <2>1 DEF Matching, IInv, World
  <2>3. copy.scope \in BegunScopes
    BY <1>1, <2>2 DEF BegunScopes
  <2>4. QED
    BY <1>1, <2>1, <2>3 DEF Shown, Verdict
<1>3. CASE out = CommandOutcome(copy)
  BY <1>1, <1>3 DEF CommandOutcome, Shown, CopyFits
<1>4. CASE out = HistoryOutcome(copy) /\ HistoryOutcome(copy) # "none"
  <2> DEFINE of == {i \in 1 .. Len(history) : history[i].unit \in ScopeUnits(copy.scope)}
             newest == CHOOSE i \in of : \A j \in of : j <= i
  <2>1. of # {} /\ out = history[newest].says
    BY <1>4 DEF HistoryOutcome
  <2>2. Len(history) \in Nat /\ of \subseteq 1 .. Len(history)
    BY DEF IInv, Typed
  <2>3. newest \in of
    <3> HIDE DEF of
    <3>1. \E i \in of : \A j \in of : j <= i
      BY <2>1, <2>2, LargestOf
    <3>2. QED
      BY <3>1
  <2> HIDE DEF newest
  <2>4. newest \in 1 .. Len(history) /\ history[newest].unit \in ScopeUnits(copy.scope)
    BY <2>3
  <2>5. copy.scope \in BegunScopes
    BY <1>1, <2>4 DEF BegunScopes, HeardUnits
  <2>6. history[newest] \in [unit : Units, says : {"downloading", "failed"}]
    <3> DEFINE S == [unit : Units, says : {"downloading", "failed"}]
    <3>1. history \in Seq(S)
      BY DEF IInv, Typed
    <3> HIDE DEF S
    <3>2. history[newest] \in S
      BY <2>4, <3>1
    <3>3. QED
      BY <3>2 DEF S
  <2>7. out \in {"downloading", "failed"}
    BY <2>1, <2>6
  <2>8. QED
    BY <1>1, <1>4, <2>5, <2>7 DEF Shown
<1>5. QED
  BY <1>2, <1>3, <1>4 DEF Outcomes

\* A listing goes on to its commit with verdicts the server has given cause for.
LEMMA WritesInv ==
  ASSUME IInv, NEW p \in Sessions, At(p, "read"), NEW R \in SUBSET (DOMAIN session[p].seen), NEW new \in [R -> Status],
         \A r \in R : <<session[p].seen[r].scope, new[r]>> \in Shown,
         NEW own, own = None \/ own \subseteq Units \cap imported,
         Writes(p, session[p].seen, new, own),
         UNCHANGED <<source, aired, row, created, owned, serverVars>>
  PROVE  IInv'
<1> DEFINE seen == session[p].seen
           changed == {r \in R : new[r] # seen[r].status}
           outcome == [r \in changed |-> new[r]]
           next == [IdleSession EXCEPT !.pc = "commit", !.own = own, !.outcome = outcome]
<1>1. CASE Rest(p)
  BY <1>1, RestInv
<1>2. CASE Become(p, next)
  <2>1. R \subseteq Requests /\ \A r \in DOMAIN seen : CopyFits(r, seen[r])
    BY DEF IInv, Knows, At, Readings, CopyFits
  <2>2. outcome \in Verdicts /\ DOMAIN outcome = changed
    <3>1. changed \in SUBSET Requests /\ outcome \in [changed -> Status]
      BY <2>1
    <3> HIDE DEF changed, outcome
    <3>2. QED
      BY <3>1 DEF Verdicts
  <2>3. \A r \in changed : /\ r <= created /\ r \in R /\ outcome[r] = new[r]
                           /\ Exists(r) => <<row[r].scope, outcome[r]>> \in Shown
    BY <2>1 DEF CopyFits
  <2>4. own \in {None} \cup SUBSET AllUnits
    BY DEF AllUnits, Units
  <2> HIDE DEF outcome, changed
  <2>5. /\ next \in Session /\ next.pc = "commit" /\ next.scope = IdleSession.scope /\ next.own = own
        /\ next.outcome = outcome /\ next.command = IdleSession.command
    BY <2>2, <2>4, IdlePlain DEF Session, Steps
  <2> HIDE DEF next
  <2>6. session'[p] = next
    BY <1>2 DEF Become, IInv, Typed
  <2>7. /\ Shown \subseteq Shown' /\ TitleScopes' = TitleScopes /\ Units' = Units
        /\ UNCHANGED <<row, created, commands, imported>>
    BY EvidenceStays DEF Grows, HeardUnits, serverVars
  <2>8. Knows(p)'
    BY <2>2, <2>3, <2>5, <2>6, <2>7, IdlePlain DEF Knows, At, Exists
  <2>9. QED
    BY <1>2, <2>5, <2>8, ReadStepInv DEF IInv, Typed, serverVars
<1>3. QED
  BY <1>1, <1>2 DEF Writes

LEMMA ReadServerInv ==
  ASSUME IInv, NEW p \in Sessions, ReadServer(p)
  PROVE  IInv'
<1> DEFINE seen == session[p].seen
           todo == session[p].todo
           pending == DOMAIN seen \ todo
<1>1. At(p, "read") /\ UNCHANGED <<source, aired, row, created, owned, serverVars>>
  BY DEF ReadServer
<1>2. /\ seen \in Readings /\ todo \subseteq DOMAIN seen
      /\ \A r \in DOMAIN seen : CopyFits(r, seen[r]) /\ seen[r] \in Row
      /\ \A r \in todo : seen[r].scope \in DoneScopes
  BY <1>1 DEF IInv, Knows, Readings
<1>3. "available" \in Status
  BY DEF Status, Settled
<1>4. ASSUME Writes(p, seen, [r \in todo |-> "available"], None)
      PROVE  IInv'
  <2> DEFINE new == [r \in todo |-> "available"]
  <2>1. new \in [todo -> Status] /\ \A r \in todo : <<seen[r].scope, new[r]>> \in Shown
    BY <1>2, <1>3, DoneShown
  <2> HIDE DEF new
  <2>2. QED
    BY <1>1, <1>2, <1>4, <2>1, WritesInv DEF new
<1>5. CASE Rest(p)
  BY <1>1, <1>5, RestInv
<1>6. ASSUME NEW own \in {None, files}, NEW said \in [pending -> Status],
             \A r \in pending : said[r] \in Outcomes(seen[r]),
             Writes(p, seen, [r \in DOMAIN seen |-> IF r \in pending THEN said[r] ELSE "available"], own)
      PROVE  IInv'
  <2> DEFINE new == [r \in DOMAIN seen |-> IF r \in pending THEN said[r] ELSE "available"]
  <2>1. new \in [DOMAIN seen -> Status]
    BY <1>3, <1>6
  <2>2. ASSUME NEW r \in DOMAIN seen PROVE <<seen[r].scope, new[r]>> \in Shown
    <3>1. CASE r \in pending
      <4>1. said[r] \in Status /\ said[r] \in Outcomes(seen[r]) /\ CopyFits(r, seen[r]) /\ seen[r] \in Row
        BY <1>2, <1>6, <3>1
      <4>2. new[r] = said[r]
        BY <3>1
      <4>3. QED
        BY <4>1, <4>2, OutcomeShown
    <3>2. CASE r \notin pending
      BY <1>2, <3>2, DoneShown
    <3>3. QED
      BY <3>1, <3>2
  <2>3. own = None \/ own \subseteq Units \cap imported
    BY DEF IInv, Typed, World
  <2> HIDE DEF new
  <2>4. QED
    BY <1>1, <1>6, <2>1, <2>2, <2>3, WritesInv DEF new
<1>7. QED
  BY <1>4, <1>5, <1>6 DEF ReadServer

LEMMA StoreReadingInv ==
  ASSUME IInv, NEW p \in Sessions, StoreReading(p)
  PROVE  IInv'
<1> DEFINE new == session[p].outcome
<1>1. /\ UNCHANGED <<source, aired, created, serverVars>> /\ UNCHANGED <<imported, commands>> /\ Rest(p)
      /\ owned' \subseteq Units \cap imported /\ created \in 0 .. MaxRequests
  BY OwnedAfterFits DEF StoreReading, serverVars, IInv, Typed
<1>2. /\ row \in [Requests -> Row] /\ new \in Verdicts
      /\ \A r \in DOMAIN new : Exists(r) /\ <<row[r].scope, new[r]>> \in Shown
  BY Own DEF StoreReading, IInv, Typed, Session, Knows, At
<1>3. row' = [r \in Requests |-> IF r \in DOMAIN new THEN [row[r] EXCEPT !.status = new[r]] ELSE row[r]]
  BY DEF StoreReading
<1>4. \A r \in DOMAIN new : new[r] \in Status
  BY <1>2 DEF Verdicts
<1> HIDE DEF new
<1>5. row' \in [Requests -> Row]
  BY <1>2, <1>3, <1>4 DEF Row
<1>6. \A r \in Requests :
        /\ <<row'[r].scope, row'[r].status>> \in Shown /\ row'[r].scope \in TitleScopes
        /\ row'[r].status # "absent" => row[r].status # "absent" /\ row'[r].scope = row[r].scope
  <2> TAKE r \in Requests
  <2>1. CASE r \in DOMAIN new
    <3>1. row'[r].scope = row[r].scope /\ row'[r].status = new[r]
      BY <1>2, <1>3, <2>1 DEF Row
    <3>2. QED
      BY <1>2, <2>1, <3>1 DEF IInv, RowsFit, Exists
  <2>2. CASE r \notin DOMAIN new
    BY <1>3, <2>2 DEF IInv, RowsFit
  <2>3. QED
    BY <2>1, <2>2
<1>7. created' \in 0 .. MaxRequests /\ created <= created'
  BY <1>1
<1>8. Knows(p)'
  BY <1>1, <1>7, IdlePlain, PlainKnows DEF Rest
<1>9. QED
  BY <1>1, <1>5, <1>6, <1>7, <1>8, IdlePlain, RowStepInv DEF Rest

LEMMA CommitReconcileInv ==
  ASSUME IInv, NEW p \in Sessions, CommitReconcile(p)
  PROVE  IInv'
BY StoreReadingInv, RestInv DEF CommitReconcile

-----------------------------------------------------------------------------
(* Steps of no session: cleaning, webhooks, syncs, the server and time     *)

LEMMA QuietInv ==
  ASSUME IInv, UNCHANGED <<session, created>>, Typed', World', RowsFit', Grows, RowsKeep,
         Len(commands) <= Len(commands')
  PROVE  IInv'
<1>1. created' \in Nat /\ created <= created' /\ Len(commands') \in Nat
  BY DEF IInv, Typed
<1>2. \A v \in Sessions : Knows(v)'
  BY <1>1, OthersKnow
<1>3. QED
  BY <1>2 DEF IInv

\* The server goes on, and what it has shown stays.
LEMMA ServerStepInv ==
  ASSUME IInv, UNCHANGED <<source, aired, row, created, owned, session>>, Typed', World',
         imported \subseteq imported', HeardUnits \subseteq HeardUnits', Len(commands) <= Len(commands')
  PROVE  IInv'
<1>1. Grows /\ RowsKeep
  BY DEF Grows, RowsKeep, Exists
<1>2. Shown \subseteq Shown' /\ TitleScopes' = TitleScopes
  BY <1>1, EvidenceStays
<1>3. RowsFit'
  BY <1>2 DEF IInv, RowsFit, Exists
<1>4. QED
  BY <1>1, <1>3, QuietInv

\* Rows and owned units change, but no session does.
LEMMA TableStepInv ==
  ASSUME IInv, UNCHANGED <<source, aired, created, session, entry, entries, files, queue, history,
                           commands, imported>>,
         row' \in [Requests -> Row], owned' \subseteq Units \cap imported, events' \subseteq events,
         \A r \in Requests :
           /\ <<row'[r].scope, row'[r].status>> \in Shown /\ row'[r].scope \in TitleScopes
           /\ row'[r].status # "absent" => row[r].status # "absent" /\ row'[r].scope = row[r].scope
  PROVE  IInv'
<1>1. Units' = Units /\ TitleScopes' = TitleScopes /\ Shown' = Shown /\ HeardUnits' = HeardUnits
  BY DEF Units, TitleScopes, Shown, DoneScopes, BegunScopes, HeardUnits, ScopeUnits
<1>2. Typed'
  BY <1>1 DEF IInv, Typed
<1>3. World'
  BY <1>1 DEF IInv, World
<1>4. RowsFit' /\ RowsKeep
  BY <1>1 DEF IInv, RowsFit, RowsKeep, Exists
<1>5. Grows
  BY <1>1 DEF Grows
<1>6. Len(commands) <= Len(commands')
  BY DEF IInv, Typed
<1>7. QED
  BY <1>2, <1>3, <1>4, <1>5, <1>6, QuietInv

LEMMA CleanInv ==
  ASSUME IInv, NEW p \in Sessions, Clean(p)
  PROVE  IInv'
<1>1. row \in [Requests -> Row] /\ owned \subseteq Units \cap imported
  BY DEF IInv, Typed, World
<1>2. row' = [r \in Requests |-> IF row[r].status \in Settled THEN NoRow ELSE row[r]]
  BY DEF Clean
<1>3. row' \in [Requests -> Row]
  BY <1>1, <1>2, RowTypes
<1>4. <<NoRow.scope, NoRow.status>> \in Shown /\ NoRow.scope \in TitleScopes /\ NoRow.status = "absent"
  BY DEF NoRow, Shown, TitleScopes, Scopes, Status
<1>5. \A r \in Requests :
        /\ <<row'[r].scope, row'[r].status>> \in Shown /\ row'[r].scope \in TitleScopes
        /\ row'[r].status # "absent" => row[r].status # "absent" /\ row'[r].scope = row[r].scope
  BY <1>2, <1>4 DEF IInv, RowsFit
<1>6. QED
  BY <1>1, <1>3, <1>5, TableStepInv DEF Clean, serverVars

\* A webhook that gives rows a status for which there is cause.
LEMMA DeliverInv ==
  ASSUME IInv, NEW e, NEW status, Deliver(e, status), owned' \subseteq Units \cap imported,
         \A r \in Requests : status[r] # "same" =>
           Exists(r) /\ status[r] \in Status /\ <<row[r].scope, status[r]>> \in Shown
  PROVE  IInv'
<1>1. row \in [Requests -> Row]
  BY DEF IInv, Typed
<1>2. row' = [r \in Requests |-> IF status[r] = "same" THEN row[r] ELSE [row[r] EXCEPT !.status = status[r]]]
  BY DEF Deliver
<1>3. row' \in [Requests -> Row]
  BY <1>1, <1>2 DEF Row
<1>4. \A r \in Requests :
        /\ <<row'[r].scope, row'[r].status>> \in Shown /\ row'[r].scope \in TitleScopes
        /\ row'[r].status # "absent" => row[r].status # "absent" /\ row'[r].scope = row[r].scope
  <2> TAKE r \in Requests
  <2>1. CASE status[r] = "same"
    BY <1>2, <2>1 DEF IInv, RowsFit
  <2>2. CASE status[r] # "same"
    <3>1. row'[r].scope = row[r].scope /\ row'[r].status = status[r]
      BY <1>1, <1>2, <2>2 DEF Row
    <3>2. QED
      BY <2>2, <3>1 DEF IInv, RowsFit, Exists
  <2>3. QED
    BY <2>1, <2>2
<1>5. QED
  BY <1>3, <1>4, TableStepInv DEF Deliver

LEMMA WebhookInv ==
  ASSUME IInv, NEW e \in events, Grabbed(e) \/ Imported(e) \/ Deleted(e)
  PROVE  IInv'
<1>1. /\ owned \subseteq Units \cap imported /\ e.unit \in Units
      /\ (e.event = "imported" => e.unit \in imported) /\ (e.event = "grabbed" => e.unit \in HeardUnits)
      /\ \A r \in Requests : row[r].scope \in Scopes /\ row[r].scope \in TitleScopes
  <2>1. events \subseteq [unit : Units, event : {"grabbed", "imported", "deleted"}]
    BY DEF IInv, Typed
  <2>2. e.unit \in Units
    BY <2>1
  <2>3. \A r \in Requests : row[r].scope \in Scopes /\ row[r].scope \in TitleScopes
    BY DEF IInv, Typed, RowsFit, Row
  <2>4. owned \subseteq Units \cap imported
    BY DEF IInv, Typed, World
  <2>5. (e.event = "imported" => e.unit \in imported) /\ (e.event = "grabbed" => e.unit \in HeardUnits)
    BY DEF IInv, World
  <2>6. QED
    BY <2>2, <2>3, <2>4, <2>5
<1>2. {"available", "downloading"} \subseteq Status
  BY DEF Status, Settled, Active
<1>3. CASE Grabbed(e)
  <2> DEFINE status == [r \in Requests |->
               IF row[r].status \in Active /\ e.unit \in ScopeUnits(row[r].scope) THEN "downloading" ELSE "same"]
  <2>1. Deliver(e, status) /\ e.event = "grabbed" /\ UNCHANGED owned
    BY <1>3 DEF Grabbed
  <2>2. ASSUME NEW r \in Requests, status[r] # "same"
        PROVE  Exists(r) /\ status[r] \in Status /\ <<row[r].scope, status[r]>> \in Shown
    <3>1. row[r].status \in Active /\ e.unit \in ScopeUnits(row[r].scope) /\ status[r] = "downloading"
      BY <2>2
    <3>2. row[r].scope \in BegunScopes
      BY <1>1, <2>1, <3>1 DEF BegunScopes
    <3>3. QED
      BY <1>1, <1>2, <3>1, <3>2 DEF Shown, Exists, Active
  <2> HIDE DEF status
  <2>3. QED
    BY <1>1, <2>1, <2>2, DeliverInv
<1>4. CASE Imported(e)
  <2> DEFINE status == [r \in Requests |-> IF Completes(r) THEN "available" ELSE "same"]
  <2>1. Deliver(e, status) /\ e.event = "imported" /\ owned' = owned \cup {e.unit}
    BY <1>4 DEF Imported
  <2>2. ASSUME NEW r \in Requests, status[r] # "same"
        PROVE  Exists(r) /\ status[r] \in Status /\ <<row[r].scope, status[r]>> \in Shown
    <3>1. Completes(r) /\ status[r] = "available"
      BY <2>2
    <3>2. row[r].scope \in DoneScopes
      <4>1. CASE source = "RADARR"
        <5>1. Units = {e.unit}
          BY <1>1, <4>1 DEF Units
        <5>2. QED
          BY <1>1, <2>1, <5>1, WholeTitleDone DEF IInv
      <4>2. CASE ScopeAvailable(row[r].scope, owned)
        BY <1>1, <4>2 DEF ScopeAvailable, DoneScopes
      <4>3. QED
        BY <3>1, <4>1, <4>2 DEF Completes
    <3>3. QED
      BY <1>2, <3>1, <3>2, DoneShown DEF Completes
  <2>3. owned' \subseteq Units \cap imported
    BY <1>1, <2>1
  <2> HIDE DEF status
  <2>4. QED
    BY <2>1, <2>2, <2>3, DeliverInv
<1>5. CASE Deleted(e)
  <2> DEFINE status == [r \in Requests |-> "same"]
  <2>1. Deliver(e, status) /\ owned' = owned \ {e.unit}
    BY <1>5 DEF Deleted
  <2>2. \A r \in Requests : status[r] = "same"
    OBVIOUS
  <2> HIDE DEF status
  <2>3. QED
    BY <1>1, <2>1, <2>2, DeliverInv
<1>6. QED
  BY <1>3, <1>4, <1>5

LEMMA SyncOwnedInv ==
  ASSUME IInv, SyncOwned
  PROVE  IInv'
<1>1. row \in [Requests -> Row] /\ row' = row /\ owned' \subseteq Units \cap imported
  BY DEF SyncOwned, IInv, Typed, World
<1>2. QED
  BY <1>1, TableStepInv DEF SyncOwned, serverVars, IInv, RowsFit

LEMMA LoseEventInv ==
  ASSUME IInv, LoseEvent
  PROVE  IInv'
<1>1. row \in [Requests -> Row] /\ row' = row /\ owned' \subseteq Units \cap imported /\ events' \subseteq events
  BY DEF LoseEvent, requestVars, IInv, Typed, World
<1>2. QED
  BY <1>1, TableStepInv DEF LoseEvent, requestVars, IInv, RowsFit

LEMMA GracePassesInv ==
  ASSUME IInv, NEW r \in Requests, GracePasses(r)
  PROVE  IInv'
<1>1. row \in [Requests -> Row] /\ owned' \subseteq Units \cap imported
  BY DEF GracePasses, IInv, Typed, World
<1>2. /\ row' \in [Requests -> Row]
      /\ \A q \in Requests : row'[q].scope = row[q].scope /\ row'[q].status = row[q].status
  BY <1>1 DEF GracePasses, Row
<1>3. QED
  BY <1>1, <1>2, TableStepInv DEF GracePasses, serverVars, IInv, RowsFit

LEMMA DieInv ==
  ASSUME IInv, NEW p \in Sessions, Die(p)
  PROVE  IInv'
BY RestInv DEF Die

\* What is recorded was heard of, and nothing heard of is forgotten.
LEMMA Recorded ==
  ASSUME Typed, NEW u \in Units, NEW says \in {"downloading", "failed"}, history' = Record(u, says)
  PROVE  /\ history' \in Seq([unit : Units, says : {"downloading", "failed"}])
         /\ HeardUnits \subseteq HeardUnits' /\ u \in HeardUnits'
<1> DEFINE Event == [unit : Units, says : {"downloading", "failed"}]
           new == [unit |-> u, says |-> says]
<1>1. history \in Seq(Event) /\ new \in Event /\ new.unit = u /\ history' = Append(history, new)
  BY DEF Typed, Record
<1> HIDE DEF Event, new
<1>2. /\ history' \in Seq(Event) /\ Len(history') = Len(history) + 1 /\ Len(history) \in Nat
      /\ \A i \in 1 .. Len(history) : history'[i] = history[i]
      /\ history'[Len(history) + 1] = new
  BY <1>1
<1>3. \A i \in 1 .. Len(history) : i \in 1 .. Len(history') /\ history'[i].unit = history[i].unit
  BY <1>2
<1>4. Len(history) + 1 \in 1 .. Len(history') /\ history'[Len(history) + 1].unit = u
  BY <1>1, <1>2
<1>5. HeardUnits' = {history'[i].unit : i \in 1 .. Len(history')}
  BY DEF HeardUnits
<1>6. u \in HeardUnits'
  BY <1>4, <1>5
<1>7. HeardUnits \subseteq HeardUnits'
  BY <1>3, <1>5 DEF HeardUnits
<1>8. QED
  BY <1>2, <1>6, <1>7 DEF Event

\* The server records something of a unit and may announce it.
LEMMA ServerMovesInv ==
  ASSUME IInv, NEW u \in Units, NEW says \in {"downloading", "failed"}, history' = Record(u, says),
         NEW event \in {"grabbed", "imported", "deleted"},
         events' \subseteq events \cup {[unit |-> u, event |-> event]},
         event = "imported" => u \in imported',
         NEW state \in {"none", "good", "bad"}, queue' = [queue EXCEPT ![u] = state] \/ queue' = queue,
         files' \subseteq files \cup {u}, files' \subseteq imported', imported' \in {imported, imported \cup {u}},
         UNCHANGED <<source, aired, requestVars, entry, entries, commands>>
  PROVE  IInv'
<1>1. /\ history' \in Seq([unit : Units, says : {"downloading", "failed"}])
      /\ HeardUnits \subseteq HeardUnits' /\ u \in HeardUnits'
  BY Recorded DEF IInv
<1>2. UNCHANGED <<source, aired, row, created, owned, session>> /\ Units' = Units
  BY DEF requestVars, Units
<1>3. Typed
  BY DEF IInv
<1>4. /\ queue' \in [Units -> {"none", "good", "bad"}]
      /\ \A v \in Units : queue'[v] # "none" => v = u \/ queue[v] # "none"
  BY <1>3 DEF Typed
<1>5. events' \subseteq [unit : Units, event : {"grabbed", "imported", "deleted"}]
  <2>1. events \subseteq [unit : Units, event : {"grabbed", "imported", "deleted"}]
    BY <1>3 DEF Typed
  <2>2. QED
    BY <2>1
<1>6. files' \subseteq Units /\ imported' \subseteq Units /\ imported \subseteq imported'
  BY <1>3 DEF Typed
<1>7. Typed'
  BY <1>1, <1>2, <1>3, <1>4, <1>5, <1>6 DEF Typed
<1>8. \A e \in events' : (e.event = "imported" => e.unit \in imported') /\ (e.event = "grabbed" => e.unit \in HeardUnits')
  BY <1>1, <1>6 DEF IInv, World
<1>9. World'
  BY <1>1, <1>2, <1>4, <1>6, <1>8 DEF IInv, World
<1>10. Len(commands) <= Len(commands')
  BY <1>3 DEF Typed
<1>11. QED
  BY <1>1, <1>2, <1>6, <1>7, <1>9, <1>10, ServerStepInv

LEMMA GrabInv ==
  ASSUME IInv, NEW u \in Units, Grab(u)
  PROVE  IInv'
<1>1. /\ history' = Record(u, "downloading") /\ events' = events \cup {[unit |-> u, event |-> "grabbed"]}
      /\ queue' = [queue EXCEPT ![u] = "good"] /\ files' = files /\ imported' = imported
      /\ UNCHANGED <<source, aired, requestVars, entry, entries, commands>>
  BY DEF Grab, Emit
<1>2. files' \subseteq imported'
  BY <1>1 DEF IInv, World
<1>3. QED
  BY <1>1, <1>2, ServerMovesInv

LEMMA FailDownloadInv ==
  ASSUME IInv, NEW u \in Units, FailDownload(u)
  PROVE  IInv'
<1>1. /\ history' = Record(u, "failed") /\ events' = events
      /\ queue' = [queue EXCEPT ![u] = "none"] /\ files' = files /\ imported' = imported
      /\ UNCHANGED <<source, aired, requestVars, entry, entries, commands>>
  BY DEF FailDownload
<1>2. files' \subseteq imported' /\ events' \subseteq events \cup {[unit |-> u, event |-> "deleted"]}
  BY <1>1 DEF IInv, World
<1>3. QED
  BY <1>1, <1>2, ServerMovesInv

LEMMA ImportInv ==
  ASSUME IInv, NEW u \in Units, Import(u)
  PROVE  IInv'
<1>1. /\ history' = Record(u, "downloading") /\ events' = events \cup {[unit |-> u, event |-> "imported"]}
      /\ queue' = [queue EXCEPT ![u] = "none"] /\ files' = files \cup {u} /\ imported' = imported \cup {u}
      /\ UNCHANGED <<source, aired, requestVars, entry, entries, commands>>
  BY DEF Import, Emit
<1>2. files' \subseteq imported' /\ u \in imported'
  BY <1>1 DEF IInv, World
<1>3. QED
  BY <1>1, <1>2, ServerMovesInv

LEMMA DeleteFileInv ==
  ASSUME IInv, NEW u \in Units, DeleteFile(u)
  PROVE  IInv'
<1>1. /\ history' = Record(u, "failed") /\ events' = events \cup {[unit |-> u, event |-> "deleted"]}
      /\ queue' = queue /\ files' = files \ {u} /\ imported' = imported
      /\ UNCHANGED <<source, aired, requestVars, entry, entries, commands>>
  BY DEF DeleteFile, Emit
<1>2. files' \subseteq imported'
  BY <1>1 DEF IInv, World
<1>3. QED
  BY <1>1, <1>2, ServerMovesInv

LEMMA TroubleInv ==
  ASSUME IInv, NEW u \in Units, Trouble(u)
  PROVE  IInv'
<1>1. /\ UNCHANGED <<source, aired, requestVars, entry, entries, files, history, commands, events, imported>>
      /\ queue' = [queue EXCEPT ![u] = "bad"] /\ queue[u] = "good"
  BY DEF Trouble
<1>2. /\ UNCHANGED <<source, aired, row, created, owned, session>> /\ Units' = Units /\ HeardUnits' = HeardUnits
      /\ Len(commands) <= Len(commands')
  BY <1>1 DEF requestVars, Units, HeardUnits, IInv, Typed
<1>3. /\ queue' \in [Units -> {"none", "good", "bad"}]
      /\ \A v \in Units : queue'[v] # "none" => queue[v] # "none"
  BY <1>1 DEF IInv, Typed
<1>4. Typed' /\ World'
  BY <1>1, <1>2, <1>3 DEF IInv, Typed, World
<1>5. QED
  BY <1>1, <1>2, <1>4, ServerStepInv

LEMMA FinishCommandInv ==
  ASSUME IInv, NEW c \in 1 .. Len(commands), FinishCommand(c)
  PROVE  IInv'
<1>1. /\ UNCHANGED <<source, aired, row, created, owned, session, entry, entries, files, queue, history, events,
                     imported>>
      /\ commands' = [commands EXCEPT ![c] = "finished"] /\ commands \in Seq({"running", "finished"})
  BY DEF FinishCommand, requestVars, IInv, Typed
<1>2. commands' \in Seq({"running", "finished"}) /\ Len(commands') = Len(commands) /\ Len(commands) \in Nat
  BY <1>1
<1>3. Units' = Units /\ HeardUnits' = HeardUnits
  BY <1>1 DEF Units, HeardUnits
<1>4. Typed' /\ World'
  BY <1>1, <1>2, <1>3 DEF IInv, Typed, World
<1>5. QED
  BY <1>1, <1>2, <1>3, <1>4, ServerStepInv

-----------------------------------------------------------------------------
(* The invariant                                                           *)

LEMMA InitInv == Init => IInv
<1> SUFFICES ASSUME Init PROVE IInv
  OBVIOUS
<1>1. MaxRequests \in Nat /\ MaxEntries \in Nat /\ 0 \in 0 .. MaxRequests /\ 0 \in 0 .. MaxEntries
  BY DownloadAssumption
<1>2. aired \subseteq Units /\ <<>> \in Seq([unit : Units, says : {"downloading", "failed"}])
      /\ <<>> \in Seq({"running", "finished"})
  BY DEF Init
<1>3. Typed
  BY <1>1, <1>2, IdleFits, RowTypes DEF Init, Typed
<1>4. World
  BY DEF Init, World
<1>5. \A r \in Requests : row[r] = NoRow
  BY DEF Init
<1>6. <<NoRow.scope, NoRow.status>> \in Shown /\ NoRow.scope \in TitleScopes /\ NoRow.status = "absent"
  BY DEF NoRow, Shown, TitleScopes, Scopes, Status
<1>7. RowsFit
  BY <1>5, <1>6 DEF RowsFit, Exists
<1>8. ASSUME NEW p \in Sessions PROVE Knows(p)
  <2>1. session[p] = IdleSession /\ commands = <<>>
    BY DEF Init
  <2>2. QED
    BY <2>1 DEF Knows, At, IdleSession, TitleScopes, Scopes
<1>9. QED
  BY <1>3, <1>4, <1>7, <1>8 DEF IInv

LEMMA ClientInv ==
  ASSUME IInv, NEW p \in Sessions, Client(p)
  PROVE  IInv'
<1>1. ActiveRequests \in SUBSET Requests /\ \A r \in Requests : {r} \in SUBSET Requests
  BY DEF ActiveRequests
<1>2. QED
  BY <1>1, BeginRequestInv, BeginRetryInv, BeginCancelInv, CleanInv, BeginReconcileInv DEF Client

LEMMA SessionStepInv ==
  ASSUME IInv, NEW p \in Sessions, SessionStep(p)
  PROVE  IInv'
BY CommitRequestInv, HydrateInv, AddAndSearchInv, CommitSearchInv, MarkRequestFailedInv, CommitRetryInv,
   NextCancelInv, RemoveDownloadsInv, CheckEntryInv, DropEntryInv, CommitCancelInv, ReadServerInv,
   CommitReconcileInv
   DEF SessionStep

LEMMA NextInv == IInv /\ [Next]_vars => IInv'
<1> SUFFICES ASSUME IInv, [Next]_vars PROVE IInv'
  OBVIOUS
<1>1. ASSUME NEW p \in Sessions, Client(p) \/ SessionStep(p) \/ Die(p) PROVE IInv'
  BY <1>1, ClientInv, SessionStepInv, DieInv
<1>2. CASE Webhook \/ LoseEvent \/ SyncOwned
  BY <1>2, WebhookInv, LoseEventInv, SyncOwnedInv DEF Webhook
<1>3. CASE Server
  BY <1>3, GrabInv, TroubleInv, FailDownloadInv, ImportInv, DeleteFileInv, FinishCommandInv DEF Server
<1>4. ASSUME NEW r \in Requests, GracePasses(r) PROVE IInv'
  BY <1>4, GracePassesInv
<1>5. CASE UNCHANGED vars
  <2>1. UNCHANGED <<source, aired, row, created, owned, session, entry, entries, files, queue, history,
                    commands, events, imported>>
    BY <1>5 DEF vars, requestVars, serverVars
  <2>2. row \in [Requests -> Row] /\ owned \subseteq Units \cap imported
    BY DEF IInv, Typed, World
  <2>3. QED
    BY <2>1, <2>2, TableStepInv DEF IInv, RowsFit
<1>6. QED
  BY <1>1, <1>2, <1>3, <1>4, <1>5 DEF Next

-----------------------------------------------------------------------------
(* Theorems                                                                *)

LEMMA Invariance == Spec => []IInv
BY InitInv, NextInv, PTL DEF Spec

\* Rows, sessions and the server keep their types, and what a session will store
\* as owned are units of the title.
THEOREM TypeCorrect == Spec => []TypeOK
<1>1. IInv => TypeOK
  <2> SUFFICES ASSUME IInv PROVE TypeOK
    OBVIOUS
  <2>1. ASSUME NEW p \in Sessions PROVE SessionType(session[p])
    <3>1. session[p].command \in Nat /\ session[p].command <= Len(commands) /\ Len(commands) \in Nat
      BY Own DEF Session, IInv, Typed
    <3>2. QED
      BY <3>1, Own DEF SessionType, Session, Steps
  <2>2. owned # None
    BY DownloadAssumption DEF IInv, Typed, Units
  <2>3. /\ \A i \in 1 .. Len(history) : history[i] \in [unit : Units, says : {"downloading", "failed"}]
        /\ \A i \in 1 .. Len(commands) : commands[i] \in {"running", "finished"}
    <3> DEFINE Event == [unit : Units, says : {"downloading", "failed"}]
    <3>1. history \in Seq(Event) /\ commands \in Seq({"running", "finished"})
      BY DEF IInv, Typed
    <3> HIDE DEF Event
    <3>2. \A i \in 1 .. Len(history) : history[i] \in Event
      BY <3>1
    <3>3. \A i \in 1 .. Len(commands) : commands[i] \in {"running", "finished"}
      BY <3>1
    <3>4. QED
      BY <3>2, <3>3 DEF Event
  <2>4. QED
    BY <2>1, <2>2, <2>3 DEF IInv, Typed, TypeOK
<1>2. QED
  BY <1>1, Invariance, PTL

\* Whatever webhooks, listings, retries and syncs race, a request is only called
\* available when every aired unit of its scope was imported.
THEOREM AvailabilityIsEarned == Spec => []AvailableMeansImported
<1>1. IInv => AvailableMeansImported
  BY DEF IInv, RowsFit, Shown, DoneScopes, AvailableMeansImported
<1>2. QED
  BY <1>1, Invariance, PTL

\* A request only says it is downloading when the server once recorded a release
\* of its scope: no webhook or queue record of another season moves it.
THEOREM DownloadingIsGrounded == Spec => []DownloadingMeansGrabbed
<1>1. IInv => DownloadingMeansGrabbed
  BY DEF IInv, RowsFit, Shown, BegunScopes, HeardUnits, DownloadingMeansGrabbed
<1>2. QED
  BY <1>1, Invariance, PTL

\* A cancelled request that no session has in hand is left alone.
LEMMA CancelledStays ==
  ASSUME IInv, Next, NEW r \in Requests, row[r].status = "cancelled", \A p \in Sessions : ~Holds(p, r)
  PROVE  row'[r].status \in {"cancelled", "available", "absent"}
<1>1. row \in [Requests -> Row] /\ r <= created /\ created \in Nat /\ row[r].status \notin Active
  <2>1. row \in [Requests -> Row] /\ created \in Nat
    BY DEF IInv, Typed
  <2>2. r <= created
    BY DEF IInv, RowsFit, Exists
  <2>3. QED
    BY <2>1, <2>2 DEF Active
<1>2. \A p \in Sessions : session[p].req # r /\ (At(p, "commit") => r \notin DOMAIN session[p].outcome)
  BY DEF Holds
<1>3. ASSUME NEW q, q # r, NEW new, row' = [row EXCEPT ![q] = new]
      PROVE  row'[r] = row[r]
  BY <1>1, <1>3
<1>4. ASSUME NEW p \in Sessions, Client(p) PROVE row'[r].status \in {"cancelled", "absent"}
  <2>1. CASE Clean(p)
    BY <2>1 DEF Clean, NoRow
  <2>2. CASE UNCHANGED row
    BY <2>2
  <2>3. QED
    BY <1>4, <2>1, <2>2 DEF Client, BeginRequest, BeginRetry, BeginCancel, BeginReconcile
<1>5. ASSUME NEW p \in Sessions, SessionStep(p) PROVE row'[r] = row[r]
  <2>1. CASE CommitRequest(p)
    <3>1. r \in Nat /\ created + 1 # r
      BY <1>1 DEF Requests
    <3>2. QED
      BY <1>1, <1>2, <2>1, <3>1 DEF CommitRequest
  <2>2. CASE Hydrate(p)
    BY <1>1, <1>2, <2>2 DEF Hydrate, SetStatus
  <2>3. CASE CommitSearch(p)
    BY <1>1, <1>2, <2>3 DEF CommitSearch
  <2>4. CASE MarkRequestFailed(p)
    BY <1>1, <1>2, <2>4 DEF MarkRequestFailed, SetStatus
  <2>5. CASE CommitRetry(p)
    BY <1>1, <1>2, <2>5 DEF CommitRetry, SetStatus
  <2>6. CASE CommitCancel(p)
    BY <1>1, <1>2, <2>6 DEF CommitCancel, SetStatus
  <2>7. CASE CommitReconcile(p)
    BY <1>1, <1>2, <2>7 DEF CommitReconcile, StoreReading
  <2>8. CASE AddAndSearch(p) \/ NextCancel(p) \/ RemoveDownloads(p) \/ CheckEntry(p) \/ DropEntry(p) \/ ReadServer(p)
    BY <2>8 DEF AddAndSearch, NextCancel, RemoveDownloads, CheckEntry, DropEntry, ReadServer
  <2>9. QED
    BY <1>5, <2>1, <2>2, <2>3, <2>4, <2>5, <2>6, <2>7, <2>8 DEF SessionStep
<1>6. ASSUME NEW p \in Sessions, Die(p) PROVE row'[r] = row[r]
  BY <1>6 DEF Die
<1>7. ASSUME NEW e \in events, Grabbed(e) \/ Imported(e) \/ Deleted(e)
      PROVE  row'[r] = row[r] \/ row'[r].status = "available"
  BY <1>1, <1>7 DEF Grabbed, Imported, Deleted, Deliver, Row
<1>8. CASE LoseEvent \/ SyncOwned \/ Server
  BY <1>8 DEF LoseEvent, SyncOwned, Server, Grab, Trouble, FailDownload, Import, DeleteFile, FinishCommand,
              requestVars
<1>9. ASSUME NEW q \in Requests, GracePasses(q) PROVE row'[r].status = row[r].status
  BY <1>1, <1>9 DEF GracePasses, Row
<1>10. QED
  BY <1>4, <1>5, <1>6, <1>7, <1>8, <1>9 DEF Next, Webhook

\* A late webhook, or a listing that starts after the cancellation, does not
\* bring a cancelled request back.
THEOREM CancellationsAreKept == Spec => CancellationsHold
<1> DEFINE Kept == \A r \in Requests :
                     /\ row[r].status = "cancelled"
                     /\ \A p \in Sessions : ~Holds(p, r)
                     => row'[r].status \in {"cancelled", "available", "absent"}
<1>1. IInv /\ [Next]_vars => [Kept]_vars
  BY CancelledStays
<1>2. QED
  BY <1>1, Invariance, PTL DEF Spec, CancellationsHold

=============================================================================
