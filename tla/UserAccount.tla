---------------------------- MODULE UserAccount ----------------------------
(***************************************************************************)
(* The rows an account owns: watchlists with their media and bookmarks,    *)
(* badges, API tokens and the profile banner with its file, used by        *)
(* requests that read, then commit, while others commit in between.        *)
(* Source: api/v1/{auth,users,watchlists,medias,uploads}.py and services/  *)
(* {bookmark,badge,api_token,upload}_service.py.                           *)
(***************************************************************************)
EXTENDS Naturals, FiniteSets

CONSTANTS
  Users,
  Lists,     \* watchlist identifiers
  Media,     \* media identifiers
  Tokens,    \* API token values
  Files,     \* banner file names
  Instants,  \* when a badge was unlocked
  Workers,   \* requests served at once
  Badges,
  Target,    \* the metric a badge takes
  Traffic,   \* bound: the mixes of operations that users may call
  None,      \* no such row yet, or nothing
  Gone,      \* the row was deleted
  Link       \* a banner that is not an uploaded file

Operations ==
  {"register", "create_watchlist", "delete_watchlist", "create_media", "update_media", "delete_media",
   "create_bookmark", "delete_bookmark", "list_badges", "create_token", "use_token", "revoke_token",
   "upload_banner", "delete_banner", "update_banner", "delete_user"}

ASSUME AccountAssumption ==
  /\ Badges \subseteq {"watchlists_created", "watchlist_items"}
  /\ Target \in [Badges -> Nat \ {0}]
  /\ Traffic \subseteq SUBSET Operations
  /\ {None, Gone} \cap (Lists \cup Media \cup Tokens \cup Files \cup Instants) = {}
  /\ Link \notin Files /\ None \notin {Gone, Link}
  /\ {None, Gone} \cap [author : Users, type : {"SYSTEM", "USER"}] = {}
  /\ {None, Gone} \cap [list : Lists, type : {"PENDING", "IN_WATCHLIST"}] = {}
  /\ {None, Gone} \cap [owner : Users, revoked : BOOLEAN, used : BOOLEAN] = {}

VARIABLES
  account,   \* of each user: "new", "open" or "closed"
  lists,     \* watchlist_model
  media,     \* media_model
  unlocked,  \* user_badge_model: when each badge was unlocked
  tokens,    \* user_api_token_model
  banner,    \* user_model.profile_banner
  files,     \* the banner files on disk of each user
  jobs,      \* the request each worker has read for and not committed
  loop,      \* the banner request on the event loop
  traffic    \* the operations called in this behaviour

library == <<lists, media, unlocked>>
profile == <<banner, files>>
vars == <<account, library, tokens, profile, jobs, loop, traffic>>

Watchlist == [author : Users, type : {"SYSTEM", "USER"}]
MediaRow == [list : Lists, type : {"PENDING", "IN_WATCHLIST"}]
UserApiToken == [owner : Users, revoked : BOOLEAN, used : BOOLEAN]
Job == [op : Operations, user : Users, on : Lists \cup Media \cup Tokens \cup {None},
        to : Lists \cup {None}, found : (SUBSET Media) \cup (SUBSET Badges)]
BannerJob == [op : {"upload_banner", "delete_banner"}, user : Users, file : Files \cup {None, Link}]

Stored(row) == row \notin {None, Gone}
Owns(u, l) == Stored(lists[l]) /\ lists[l].author = u
SystemLists(u) == {l \in Lists : Owns(u, l) /\ lists[l].type = "SYSTEM"}
OwnMedia(u) == {m \in Media : Stored(media[m]) /\ Owns(u, media[m].list)}

\* Mutant of Referenced: rows without the foreign key.
ReferencedAlways(u) == account[u] # "new"

\* The foreign key to the user: an insert for a deleted account is refused.
Referenced(u) == account[u] = "open"

Init ==
  /\ account = [u \in Users |-> "new"]
  /\ lists = [l \in Lists |-> None]
  /\ media = [m \in Media |-> None]
  /\ unlocked = [u \in Users |-> [b \in Badges |-> None]]
  /\ tokens = [k \in Tokens |-> None]
  /\ banner = [u \in Users |-> None]
  /\ files = [u \in Users |-> {}]
  /\ jobs = [w \in Workers |-> None]
  /\ loop = None
  /\ traffic \in Traffic

-----------------------------------------------------------------------------
(* Requests: what they read and check, up to their commit *)

Claimed == {jobs[w].on : w \in {v \in Workers : jobs[v] # None}}
Fresh(table, x) == table[x] = None /\ x \notin Claimed

CurrentUser(u) == account[u] = "open"

Start(w, op, u, on, to, found) ==
  /\ jobs[w] = None /\ op \in traffic /\ CurrentUser(u)
  /\ jobs' = [jobs EXCEPT ![w] = [op |-> op, user |-> u, on |-> on, to |-> to, found |-> found]]
  /\ UNCHANGED <<account, library, tokens, profile, loop, traffic>>

\* The user row is committed before the system watchlist is added.
RegisterUser(w, u) ==
  /\ jobs[w] = None /\ account[u] = "new" /\ "register" \in traffic
  /\ account' = [account EXCEPT ![u] = "open"]
  /\ \E l \in Lists :
       /\ Fresh(lists, l)
       /\ jobs' = [jobs EXCEPT ![w] = [op |-> "register", user |-> u, on |-> l, to |-> None, found |-> {}]]
  /\ UNCHANGED <<library, tokens, profile, loop, traffic>>

CreateWatchlist(w, u, l) == Fresh(lists, l) /\ Start(w, "create_watchlist", u, l, None, {})

DeletableBy(u, l) == Owns(u, l) /\ lists[l].type # "SYSTEM"

\* session.delete loads the media it will delete with the list.
DeleteWatchlist(w, u, l) ==
  DeletableBy(u, l) /\ Start(w, "delete_watchlist", u, l, None, {m \in Media : Stored(media[m]) /\ media[m].list = l})

AddMedia(w, u, m, l) == Fresh(media, m) /\ Owns(u, l) /\ Start(w, "create_media", u, m, l, {})

\* Mutant of MovableBy: the target list may be anybody's.
MovableByAnyTarget(u, m, l) == m \in OwnMedia(u) /\ Stored(lists[l])

MovableBy(u, m, l) == m \in OwnMedia(u) /\ Owns(u, l)

UpdateMedia(w, u, m, l) == MovableBy(u, m, l) /\ Start(w, "update_media", u, m, l, {})

DeleteMedia(w, u, m) == m \in OwnMedia(u) /\ Start(w, "delete_media", u, m, None, {})

CreateBookmark(w, u, m) ==
  Fresh(media, m) /\ \E l \in SystemLists(u) : Start(w, "create_bookmark", u, m, l, {})

Bookmarks(u) == {m \in OwnMedia(u) : media[m].type = "PENDING" /\ media[m].list \in SystemLists(u)}

DeleteBookmark(w, u, m) == m \in Bookmarks(u) /\ Start(w, "delete_bookmark", u, m, None, {})

Metric(u, b) ==
  IF b = "watchlists_created" THEN Cardinality({l \in Lists : Owns(u, l) /\ lists[l].type = "USER"})
                              ELSE Cardinality(OwnMedia(u))

NewUnlocks(u) == {b \in Badges : Metric(u, b) >= Target[b] /\ unlocked[u][b] = None}

ListBadges(w, u) == NewUnlocks(u) # {} /\ Start(w, "list_badges", u, None, None, NewUnlocks(u))

CreateApiToken(w, u, k) == tokens[k] # Gone /\ Start(w, "create_token", u, k, None, {})

ActiveToken(k) == Stored(tokens[k]) /\ ~ tokens[k].revoked

RevokeApiToken(w, u, k) == ActiveToken(k) /\ tokens[k].owner = u /\ Start(w, "revoke_token", u, k, None, {})

ResolveBearer(w, k) == ActiveToken(k) /\ Start(w, "use_token", tokens[k].owner, k, None, {})

UpdateBanner(w, u) == Start(w, "update_banner", u, None, None, {})

DeleteUser(w, u) == Start(w, "delete_user", u, None, None, OwnMedia(u))

Request(w, u) ==
  \/ RegisterUser(w, u)
  \/ \E l \in Lists : CreateWatchlist(w, u, l) \/ DeleteWatchlist(w, u, l)
  \/ \E m \in Media, l \in Lists : AddMedia(w, u, m, l) \/ UpdateMedia(w, u, m, l)
  \/ \E m \in Media : DeleteMedia(w, u, m) \/ CreateBookmark(w, u, m) \/ DeleteBookmark(w, u, m)
  \/ ListBadges(w, u)
  \/ \E k \in Tokens : CreateApiToken(w, u, k) \/ RevokeApiToken(w, u, k)
  \/ UpdateBanner(w, u) \/ DeleteUser(w, u)

-----------------------------------------------------------------------------
(* Commits: each writes the columns its request changed, on the rows that are still there *)

Commit(w, ops) == jobs[w] # None /\ jobs[w].op \in ops /\ jobs' = [jobs EXCEPT ![w] = None]

\* The insert, or the integrity error that answers the request.
CommitWatchlist(w) ==
  /\ Commit(w, {"register", "create_watchlist"})
  /\ lists' = IF Referenced(jobs[w].user)
              THEN [lists EXCEPT ![jobs[w].on] =
                      [author |-> jobs[w].user, type |-> IF jobs[w].op = "register" THEN "SYSTEM" ELSE "USER"]]
              ELSE lists
  /\ UNCHANGED <<account, media, unlocked, tokens, profile, loop, traffic>>

\* The loaded media go by identifier, those added since by the cascade.
CommitListDeletion(w) ==
  /\ Commit(w, {"delete_watchlist"})
  /\ lists' = [lists EXCEPT ![jobs[w].on] = Gone]
  /\ media' = [m \in Media |-> IF Stored(media[m]) /\ (m \in jobs[w].found \/ media[m].list = jobs[w].on)
                               THEN Gone ELSE media[m]]
  /\ UNCHANGED <<account, unlocked, tokens, profile, loop, traffic>>

CommitNewMedia(w) ==
  /\ Commit(w, {"create_media", "create_bookmark"})
  /\ media' = IF Stored(lists[jobs[w].to])
              THEN [media EXCEPT ![jobs[w].on] =
                      [list |-> jobs[w].to, type |-> IF jobs[w].op = "create_media" THEN "IN_WATCHLIST" ELSE "PENDING"]]
              ELSE media
  /\ UNCHANGED <<account, lists, unlocked, tokens, profile, loop, traffic>>

\* The type stays, also when a bookmark leaves the system watchlist.
CommitMove(w) ==
  /\ Commit(w, {"update_media"})
  /\ media' = IF Stored(media[jobs[w].on]) /\ Stored(lists[jobs[w].to])
              THEN [media EXCEPT ![jobs[w].on].list = jobs[w].to] ELSE media
  /\ UNCHANGED <<account, lists, unlocked, tokens, profile, loop, traffic>>

CommitMediaDeletion(w) ==
  /\ Commit(w, {"delete_media", "delete_bookmark"})
  /\ media' = [media EXCEPT ![jobs[w].on] = Gone]
  /\ UNCHANGED <<account, lists, unlocked, tokens, profile, loop, traffic>>

\* Mutant of Unlock: the insert overwrites on conflict.
UnlockAgain(held, new, now) == [b \in Badges |-> IF b \in new THEN now ELSE held[b]]

\* ON CONFLICT DO NOTHING
Unlock(held, new, now) == [b \in Badges |-> IF b \in new /\ held[b] = None THEN now ELSE held[b]]

CommitUnlocks(w) ==
  /\ Commit(w, {"list_badges"})
  /\ \E now \in Instants :
       unlocked' = IF Referenced(jobs[w].user)
                   THEN [unlocked EXCEPT ![jobs[w].user] = Unlock(@, jobs[w].found, now)] ELSE unlocked
  /\ UNCHANGED <<account, lists, media, tokens, profile, loop, traffic>>

\* Mutant of NewToken: the use flag has no default.
NewTokenUnset(u) == [owner |-> u, revoked |-> FALSE, used |-> None]

NewToken(u) == [owner |-> u, revoked |-> FALSE, used |-> FALSE]

\* The hash is unique: a taken value is refused.
CommitToken(w) ==
  /\ Commit(w, {"create_token"})
  /\ tokens' = IF Referenced(jobs[w].user) /\ tokens[jobs[w].on] = None
               THEN [tokens EXCEPT ![jobs[w].on] = NewToken(jobs[w].user)]
               ELSE tokens
  /\ UNCHANGED <<account, library, profile, loop, traffic>>

CommitRevocation(w) ==
  /\ Commit(w, {"revoke_token"})
  /\ tokens' = IF Stored(tokens[jobs[w].on]) THEN [tokens EXCEPT ![jobs[w].on].revoked = TRUE] ELSE tokens
  /\ UNCHANGED <<account, library, profile, loop, traffic>>

\* Mutant of Touched: the whole row is written back as it was read.
TouchedAsRead(row) == [row EXCEPT !.used = TRUE, !.revoked = FALSE]

\* last_used_at alone is written.
Touched(row) == [row EXCEPT !.used = TRUE]

CommitLastUse(w) ==
  /\ Commit(w, {"use_token"})
  /\ tokens' = IF Stored(tokens[jobs[w].on]) THEN [tokens EXCEPT ![jobs[w].on] = Touched(@)] ELSE tokens
  /\ UNCHANGED <<account, library, profile, loop, traffic>>

CommitBannerLink(w) ==
  /\ Commit(w, {"update_banner"})
  /\ banner' = IF Referenced(jobs[w].user) THEN [banner EXCEPT ![jobs[w].user] = Link] ELSE banner
  /\ UNCHANGED <<account, library, tokens, files, loop, traffic>>

\* The rows below the account go by the cascades; its files stay on disk.
CommitUserDeletion(w) == LET u == jobs[w].user IN
  /\ Commit(w, {"delete_user"})
  /\ account' = [account EXCEPT ![u] = "closed"]
  /\ lists' = [l \in Lists |-> IF Owns(u, l) THEN Gone ELSE lists[l]]
  /\ media' = [m \in Media |-> IF Stored(media[m]) /\ (m \in jobs[w].found \cup OwnMedia(u)) THEN Gone ELSE media[m]]
  /\ unlocked' = [unlocked EXCEPT ![u] = [b \in Badges |-> None]]
  /\ tokens' = [k \in Tokens |-> IF Stored(tokens[k]) /\ tokens[k].owner = u THEN Gone ELSE tokens[k]]
  /\ banner' = [banner EXCEPT ![u] = None]
  /\ UNCHANGED <<files, loop, traffic>>

-----------------------------------------------------------------------------
(* Banner files: requests on the event loop, one at a time, beside the workers *)

\* Mutant of Cleared: only the file the row names is removed.
ClearedNamed(u) == files[u] \ {banner[u]}

Cleared(u) == {}

ClearBanners(u) ==
  /\ loop = None /\ CurrentUser(u) /\ "upload_banner" \in traffic
  /\ files' = [files EXCEPT ![u] = Cleared(u)]
  /\ loop' = [op |-> "upload_banner", user |-> u, file |-> None]
  /\ UNCHANGED <<account, library, tokens, banner, jobs, traffic>>

Uploading == loop # None /\ loop.op = "upload_banner" /\ loop.file = None

StoreBanner ==
  /\ Uploading
  /\ \E f \in Files \ (files[loop.user] \cup {banner[loop.user]}) :
       /\ files' = [files EXCEPT ![loop.user] = @ \cup {f}]
       /\ loop' \in {[loop EXCEPT !.file = f], None}  \* stored, or broken off by an error
  /\ UNCHANGED <<account, library, tokens, banner, jobs, traffic>>

RefuseBanner ==
  /\ Uploading /\ loop' = None
  /\ UNCHANGED <<account, library, tokens, profile, jobs, traffic>>

UnlinkBanner(u) ==
  /\ loop = None /\ CurrentUser(u) /\ "delete_banner" \in traffic /\ banner[u] # None
  /\ files' = [files EXCEPT ![u] = @ \ {banner[u]}]
  /\ loop' = [op |-> "delete_banner", user |-> u, file |-> banner[u]]
  /\ UNCHANGED <<account, library, tokens, banner, jobs, traffic>>

CommitBanner ==
  /\ loop # None /\ loop.file # None
  /\ banner' = IF Referenced(loop.user)
               THEN [banner EXCEPT ![loop.user] = IF loop.op = "upload_banner" THEN loop.file ELSE None]
               ELSE banner
  /\ loop' = None
  /\ UNCHANGED <<account, library, tokens, files, jobs, traffic>>

\* The process stops: what was not committed is lost.
Crash ==
  /\ loop # None \/ \E w \in Workers : jobs[w] # None
  /\ jobs' = [w \in Workers |-> None] /\ loop' = None
  /\ UNCHANGED <<account, library, tokens, profile, traffic>>

Next ==
  \/ \E w \in Workers, u \in Users : Request(w, u)
  \/ \E w \in Workers, k \in Tokens : ResolveBearer(w, k)
  \/ \E w \in Workers :
       \/ CommitWatchlist(w) \/ CommitListDeletion(w) \/ CommitNewMedia(w) \/ CommitMove(w)
       \/ CommitMediaDeletion(w) \/ CommitUnlocks(w) \/ CommitToken(w) \/ CommitRevocation(w)
       \/ CommitLastUse(w) \/ CommitBannerLink(w) \/ CommitUserDeletion(w)
  \/ \E u \in Users : ClearBanners(u) \/ UnlinkBanner(u)
  \/ StoreBanner \/ RefuseBanner \/ CommitBanner
  \/ Crash

Spec == Init /\ [][Next]_vars

-----------------------------------------------------------------------------
(* Properties *)

\* Every table, pending request and file set keeps its type.
TypeOK ==
  /\ account \in [Users -> {"new", "open", "closed"}]
  /\ lists \in [Lists -> Watchlist \cup {None, Gone}]
  /\ media \in [Media -> MediaRow \cup {None, Gone}]
  /\ unlocked \in [Users -> [Badges -> Instants \cup {None}]]
  /\ tokens \in [Tokens -> UserApiToken \cup {None, Gone}]
  /\ banner \in [Users -> Files \cup {None, Link}]
  /\ files \in [Users -> SUBSET Files]
  /\ jobs \in [Workers -> Job \cup {None}]
  /\ loop \in BannerJob \cup {None}
  /\ traffic \in Traffic

\* Requests under way when an account is deleted leave no row of it behind:
\* every watchlist, medium, badge, token and banner belongs to an open account.
NothingOutlivesItsAccount ==
  /\ \A l \in Lists : Stored(lists[l]) => account[lists[l].author] = "open"
  /\ \A m \in Media : Stored(media[m]) => Stored(lists[media[m].list])
  /\ \A k \in Tokens : Stored(tokens[k]) => account[tokens[k].owner] = "open"
  /\ \A u \in Users : account[u] # "open" => banner[u] = None /\ \A b \in Badges : unlocked[u][b] = None

\* Whatever moves and deletions overlap, a medium never changes hands.
MediaStayHome ==
  [][\A m \in Media : Stored(media[m]) /\ Stored(media'[m]) => 
       lists'[media'[m].list].author = lists[media[m].list].author]_vars

\* An unlocked badge keeps its instant while the account is open, though the
\* counts behind it fall and two listings unlock it at once.
UnlocksArePermanent ==
  [][\A u \in Users, b \in Badges :
       unlocked[u][b] # None /\ account'[u] = "open" => unlocked'[u][b] = unlocked[u][b]]_vars

\* A revoked token is never active again, though a request that found it
\* active records its use after the revocation.
RevocationsHold ==
  [][\A k \in Tokens : Stored(tokens[k]) /\ tokens[k].revoked => ~ ActiveToken(k)']_vars

\* Failed uploads and crashes between the file and the commit leave orphans,
\* but never more than one banner file of a user.
OneBannerFile == \A u \in Users : Cardinality(files[u]) <= 1
=============================================================================
