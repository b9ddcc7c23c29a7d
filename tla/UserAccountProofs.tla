-------------------------- MODULE UserAccountProofs --------------------------
(***************************************************************************)
(* What holds of an account's rows for every number of users, rows and     *)
(* requests served at once, and every set of operations they call.         *)
(***************************************************************************)
EXTENDS UserAccount, TLAPS, FiniteSetTheorems

\* What a request keeps until its commit names rows of the right table.
Fits(j) ==
  /\ j.op \in {"register", "create_watchlist", "delete_watchlist"} => j.on \in Lists
  /\ j.op \in {"create_media", "create_bookmark", "update_media"} => j.on \in Media /\ j.to \in Lists
  /\ j.op \in {"delete_media", "delete_bookmark"} => j.on \in Media
  /\ j.op \in {"create_token", "use_token", "revoke_token"} => j.on \in Tokens

JobsFit == \A w \in Workers : jobs[w] # None => Fits(jobs[w])

\* A user has no banner file, or one; none while an upload is about to store it.
BannerFiles ==
  /\ \A u \in Users : files[u] = {} \/ \E f \in Files : files[u] = {f}
  /\ Uploading => files[loop.user] = {}

IInv == TypeOK /\ JobsFit /\ NothingOutlivesItsAccount /\ BannerFiles

-----------------------------------------------------------------------------
(* Requests                                                                *)

LEMMA InitInv == Init => IInv
<1> SUFFICES ASSUME Init PROVE IInv
  OBVIOUS
<1>1. TypeOK
  BY DEF Init, TypeOK
<1>2. JobsFit /\ BannerFiles
  BY DEF Init, JobsFit, BannerFiles, Uploading
<1>3. NothingOutlivesItsAccount
  BY DEF Init, NothingOutlivesItsAccount, Stored
<1>4. QED
  BY <1>1, <1>2, <1>3 DEF IInv

LEMMA StartFits ==
  ASSUME TypeOK, JobsFit, NEW w \in Workers, NEW u \in Users, NEW op \in Operations,
         NEW on \in Lists \cup Media \cup Tokens \cup {None}, NEW to \in Lists \cup {None},
         NEW found \in (SUBSET Media) \cup (SUBSET Badges),
         Start(w, op, u, on, to, found),
         Fits([op |-> op, user |-> u, on |-> on, to |-> to, found |-> found])
  PROVE  /\ jobs' \in [Workers -> Job \cup {None}] /\ JobsFit'
         /\ UNCHANGED <<account, library, tokens, profile, loop, traffic>>
<1> DEFINE j == [op |-> op, user |-> u, on |-> on, to |-> to, found |-> found]
<1>1. j \in Job
  BY DEF Job
<1>2. jobs' = [jobs EXCEPT ![w] = j] /\ UNCHANGED <<account, library, tokens, profile, loop, traffic>>
  BY DEF Start
<1> HIDE DEF j
<1>3. Fits(j)
  BY DEF j
<1>4. QED
  BY <1>1, <1>2, <1>3 DEF TypeOK, JobsFit, Fits

\* A request only takes note of what it read, but for a registration.
LEMMA RequestReads ==
  ASSUME TypeOK, JobsFit, NEW w \in Workers, NEW u \in Users,
         Request(w, u) \/ \E k \in Tokens : ResolveBearer(w, k)
  PROVE  /\ jobs' \in [Workers -> Job \cup {None}] /\ JobsFit'
         /\ UNCHANGED <<library, tokens, profile, loop, traffic>>
         /\ account' = account \/ \E v \in Users : account[v] = "new" /\ account' = [account EXCEPT ![v] = "open"]
<1> DEFINE Goal == /\ jobs' \in [Workers -> Job \cup {None}] /\ JobsFit'
                   /\ UNCHANGED <<library, tokens, profile, loop, traffic>>
                   /\ account' = account \/ \E v \in Users : account[v] = "new" /\ account' = [account EXCEPT ![v] = "open"]
<1> SUFFICES Goal
  OBVIOUS
<1>1. ASSUME NEW v \in Users, NEW op \in Operations,
             NEW on \in Lists \cup Media \cup Tokens \cup {None}, NEW to \in Lists \cup {None},
             NEW found \in (SUBSET Media) \cup (SUBSET Badges),
             Start(w, op, v, on, to, found),
             Fits([op |-> op, user |-> v, on |-> on, to |-> to, found |-> found])
      PROVE  Goal
  BY <1>1, StartFits
<1> HIDE DEF Goal
<1>2. CASE RegisterUser(w, u)
  <2>1. PICK l \in Lists :
          jobs' = [jobs EXCEPT ![w] = [op |-> "register", user |-> u, on |-> l, to |-> None, found |-> {}]]
    BY <1>2 DEF RegisterUser
  <2> DEFINE j == [op |-> "register", user |-> u, on |-> l, to |-> None, found |-> {}]
  <2>2. j \in Job /\ Fits(j)
    BY DEF Job, Fits, Operations
  <2> HIDE DEF j
  <2>3. jobs' \in [Workers -> Job \cup {None}] /\ JobsFit'
    BY <2>1, <2>2 DEF j, TypeOK, JobsFit, Fits
  <2>4. QED
    BY <1>2, <2>3 DEF RegisterUser, Goal
<1>3. ASSUME NEW l \in Lists, CreateWatchlist(w, u, l) PROVE Goal
  <2>1. Start(w, "create_watchlist", u, l, None, {}) /\ "create_watchlist" \in Operations
    BY <1>3 DEF CreateWatchlist, Operations
  <2>2. QED
    BY <1>1, <2>1 DEF Fits
<1>4. ASSUME NEW l \in Lists, DeleteWatchlist(w, u, l) PROVE Goal
  <2> DEFINE found == {m \in Media : Stored(media[m]) /\ media[m].list = l}
  <2>1. found \in (SUBSET Media) \cup (SUBSET Badges)
    OBVIOUS
  <2>2. Start(w, "delete_watchlist", u, l, None, found)
    BY <1>4 DEF DeleteWatchlist
  <2> HIDE DEF found
  <2>3. QED
    BY <1>1, <2>1, <2>2 DEF Fits, Operations
<1>5. ASSUME NEW m \in Media, NEW l \in Lists, AddMedia(w, u, m, l) PROVE Goal
  BY <1>1, <1>5 DEF AddMedia, Fits, Operations
<1>6. ASSUME NEW m \in Media, NEW l \in Lists, UpdateMedia(w, u, m, l) PROVE Goal
  BY <1>1, <1>6 DEF UpdateMedia, Fits, Operations
<1>7. ASSUME NEW m \in Media, DeleteMedia(w, u, m) \/ DeleteBookmark(w, u, m) PROVE Goal
  BY <1>1, <1>7 DEF DeleteMedia, DeleteBookmark, Fits, Operations
<1>8. ASSUME NEW m \in Media, CreateBookmark(w, u, m) PROVE Goal
  BY <1>1, <1>8 DEF CreateBookmark, SystemLists, Fits, Operations
<1>9. CASE ListBadges(w, u)
  <2>1. NewUnlocks(u) \in (SUBSET Media) \cup (SUBSET Badges)
    BY DEF NewUnlocks
  <2>2. Start(w, "list_badges", u, None, None, NewUnlocks(u))
    BY <1>9 DEF ListBadges
  <2>3. QED
    BY <1>1, <2>1, <2>2 DEF Fits, Operations
<1>10. ASSUME NEW k \in Tokens, CreateApiToken(w, u, k) \/ RevokeApiToken(w, u, k) PROVE Goal
  BY <1>1, <1>10 DEF CreateApiToken, RevokeApiToken, Fits, Operations
<1>11. CASE UpdateBanner(w, u)
  BY <1>1, <1>11 DEF UpdateBanner, Fits, Operations
<1>12. CASE DeleteUser(w, u)
  BY <1>1, <1>12 DEF DeleteUser, OwnMedia, Fits, Operations
<1>13. ASSUME NEW k \in Tokens, ResolveBearer(w, k) PROVE Goal
  <2>1. PICK v \in Users : v = tokens[k].owner
    BY <1>13 DEF ResolveBearer, ActiveToken, Stored, TypeOK, UserApiToken
  <2>2. Start(w, "use_token", v, k, None, {})
    BY <1>13, <2>1 DEF ResolveBearer
  <2>3. "use_token" \in Operations
    BY DEF Operations
  <2>4. QED
    BY <1>1, <2>2, <2>3 DEF Fits
<1>14. QED
  BY <1>2, <1>3, <1>4, <1>5, <1>6, <1>7, <1>8, <1>9, <1>10, <1>11, <1>12, <1>13 DEF Request

LEMMA RequestInv ==
  ASSUME IInv, NEW w \in Workers, NEW u \in Users,
         Request(w, u) \/ \E k \in Tokens : ResolveBearer(w, k)
  PROVE  IInv'
<1> USE DEF IInv
<1>1. /\ jobs' \in [Workers -> Job \cup {None}] /\ JobsFit'
      /\ UNCHANGED <<library, tokens, profile, loop, traffic>>
      /\ account' \in [Users -> {"new", "open", "closed"}]
      /\ \A v \in Users : account[v] = "open" => account'[v] = "open"
  BY RequestReads DEF TypeOK
<1>2. TypeOK' /\ BannerFiles'
  BY <1>1 DEF TypeOK, BannerFiles, Uploading, library, profile
<1>3. NothingOutlivesItsAccount'
  BY <1>1 DEF NothingOutlivesItsAccount, TypeOK, Stored, Watchlist, UserApiToken, library, profile
<1>4. QED
  BY <1>1, <1>2, <1>3

-----------------------------------------------------------------------------
(* Commits                                                                 *)

LEMMA CommitTakes ==
  ASSUME TypeOK, JobsFit, NEW w \in Workers, NEW ops, Commit(w, ops)
  PROVE  /\ jobs' \in [Workers -> Job \cup {None}] /\ JobsFit'
         /\ jobs[w] \in Job /\ Fits(jobs[w]) /\ jobs[w].op \in ops /\ jobs[w].user \in Users
<1>1. jobs' = [jobs EXCEPT ![w] = None] /\ jobs[w] # None /\ jobs[w].op \in ops
  BY DEF Commit
<1>2. jobs' \in [Workers -> Job \cup {None}] /\ JobsFit'
  BY <1>1 DEF TypeOK, JobsFit, Fits
<1>3. jobs[w] \in Job /\ Fits(jobs[w]) /\ jobs[w].user \in Users
  BY <1>1 DEF TypeOK, JobsFit, Job
<1>4. QED
  BY <1>1, <1>2, <1>3

\* The tables a commit may change, with what each may become.
LEMMA CommitWatchlistInv ==
  ASSUME IInv, NEW w \in Workers, CommitWatchlist(w)
  PROVE  IInv'
<1> USE DEF IInv
<1> DEFINE row == [author |-> jobs[w].user, type |-> IF jobs[w].op = "register" THEN "SYSTEM" ELSE "USER"]
<1>1. /\ jobs' \in [Workers -> Job \cup {None}] /\ JobsFit'
      /\ jobs[w].on \in Lists /\ jobs[w].user \in Users
  BY CommitTakes DEF CommitWatchlist, Fits
<1>2. row \in Watchlist /\ row.author = jobs[w].user
  BY <1>1 DEF Watchlist
<1>3. \/ lists' = lists
      \/ account[jobs[w].user] = "open" /\ lists' = [lists EXCEPT ![jobs[w].on] = row]
  BY DEF CommitWatchlist, Referenced
<1>4. UNCHANGED <<account, media, unlocked, tokens, profile, loop, traffic>>
  BY DEF CommitWatchlist
<1> HIDE DEF row
<1>5. row \notin {None, Gone}
  BY <1>2, AccountAssumption DEF Watchlist
<1>6. TypeOK' /\ BannerFiles'
  BY <1>1, <1>2, <1>3, <1>4 DEF TypeOK, BannerFiles, Uploading, profile
<1>7. NothingOutlivesItsAccount'
  BY <1>1, <1>2, <1>3, <1>4, <1>5 DEF NothingOutlivesItsAccount, TypeOK, MediaRow, Stored, profile
<1>8. QED
  BY <1>1, <1>6, <1>7

LEMMA CommitListDeletionInv ==
  ASSUME IInv, NEW w \in Workers, CommitListDeletion(w)
  PROVE  IInv'
<1> USE DEF IInv
<1>1. jobs' \in [Workers -> Job \cup {None}] /\ JobsFit' /\ jobs[w].on \in Lists
  BY CommitTakes DEF CommitListDeletion, Fits
<1>2. /\ lists' = [lists EXCEPT ![jobs[w].on] = Gone]
      /\ media' = [m \in Media |-> IF Stored(media[m]) /\ (m \in jobs[w].found \/ media[m].list = jobs[w].on)
                                   THEN Gone ELSE media[m]]
      /\ UNCHANGED <<account, unlocked, tokens, profile, loop, traffic>>
  BY DEF CommitListDeletion
<1>3. TypeOK' /\ BannerFiles'
  BY <1>1, <1>2 DEF TypeOK, BannerFiles, Uploading, profile
<1>4. NothingOutlivesItsAccount'
  BY <1>1, <1>2 DEF NothingOutlivesItsAccount, TypeOK, MediaRow, Stored, profile
<1>5. QED
  BY <1>1, <1>3, <1>4

LEMMA CommitMediaInv ==
  ASSUME IInv, NEW w \in Workers, CommitNewMedia(w) \/ CommitMove(w) \/ CommitMediaDeletion(w)
  PROVE  IInv'
<1> USE DEF IInv
<1>1. /\ jobs' \in [Workers -> Job \cup {None}] /\ JobsFit'
      /\ jobs[w].on \in Media
      /\ CommitMediaDeletion(w) \/ jobs[w].to \in Lists
  BY CommitTakes DEF CommitNewMedia, CommitMove, CommitMediaDeletion, Fits
<1>2. UNCHANGED <<account, lists, unlocked, tokens, profile, loop, traffic>>
  BY DEF CommitNewMedia, CommitMove, CommitMediaDeletion
<1>3. \/ media' = media
      \/ media' = [media EXCEPT ![jobs[w].on] = Gone]
      \/ \E row \in MediaRow : Stored(lists[row.list]) /\ media' = [media EXCEPT ![jobs[w].on] = row]
  <2>1. CASE CommitNewMedia(w)
    <3> DEFINE row == [list |-> jobs[w].to,
                       type |-> IF jobs[w].op = "create_media" THEN "IN_WATCHLIST" ELSE "PENDING"]
    <3>1. jobs[w].to \in Lists
      BY <2>1, CommitTakes DEF CommitNewMedia, Fits
    <3>2. row \in MediaRow /\ row.list = jobs[w].to
      BY <3>1 DEF MediaRow
    <3>3. \/ media' = media
          \/ Stored(lists[jobs[w].to]) /\ media' = [media EXCEPT ![jobs[w].on] = row]
      BY <2>1 DEF CommitNewMedia
    <3> HIDE DEF row
    <3>4. QED
      BY <3>2, <3>3
  <2>2. CASE CommitMove(w)
    <3> DEFINE row == [media[jobs[w].on] EXCEPT !.list = jobs[w].to]
    <3>1. jobs[w].to \in Lists
      BY <2>2, CommitTakes DEF CommitMove, Fits
    <3>2. CASE media' = media
      BY <3>2
    <3>3. CASE /\ Stored(media[jobs[w].on]) /\ Stored(lists[jobs[w].to])
               /\ media' = [media EXCEPT ![jobs[w].on].list = jobs[w].to]
      <4>1. media[jobs[w].on] \in MediaRow
        BY <1>1, <3>3 DEF Stored, TypeOK
      <4>2. row \in MediaRow /\ row.list = jobs[w].to
        BY <3>1, <4>1 DEF MediaRow
      <4>3. media' = [media EXCEPT ![jobs[w].on] = row]
        BY <3>3
      <4> HIDE DEF row
      <4>4. QED
        BY <3>3, <4>2, <4>3
    <3>4. QED
      BY <2>2, <3>2, <3>3 DEF CommitMove
  <2>3. CASE CommitMediaDeletion(w)
    BY <2>3 DEF CommitMediaDeletion
  <2>4. QED
    BY <2>1, <2>2, <2>3
<1>4. TypeOK' /\ BannerFiles'
  BY <1>1, <1>2, <1>3 DEF TypeOK, BannerFiles, Uploading, profile
<1>5. NothingOutlivesItsAccount'
  BY <1>1, <1>2, <1>3 DEF NothingOutlivesItsAccount, TypeOK, Stored, profile
<1>6. QED
  BY <1>1, <1>4, <1>5

LEMMA CommitUnlocksInv ==
  ASSUME IInv, NEW w \in Workers, CommitUnlocks(w)
  PROVE  IInv'
<1> USE DEF IInv
<1>1. jobs' \in [Workers -> Job \cup {None}] /\ JobsFit' /\ jobs[w].user \in Users
  BY CommitTakes DEF CommitUnlocks
<1>2. UNCHANGED <<account, lists, media, tokens, profile, loop, traffic>>
  BY DEF CommitUnlocks
<1>3. PICK now \in Instants :
        unlocked' = IF Referenced(jobs[w].user)
                    THEN [unlocked EXCEPT ![jobs[w].user] = Unlock(@, jobs[w].found, now)] ELSE unlocked
  BY DEF CommitUnlocks
<1>4. /\ unlocked' \in [Users -> [Badges -> Instants \cup {None}]]
      /\ \A u \in Users : account[u] # "open" => unlocked'[u] = unlocked[u]
  BY <1>1, <1>3 DEF TypeOK, Unlock, Referenced
<1>5. TypeOK' /\ BannerFiles'
  BY <1>1, <1>2, <1>4 DEF TypeOK, BannerFiles, Uploading, profile
<1>6. NothingOutlivesItsAccount'
  BY <1>2, <1>4 DEF NothingOutlivesItsAccount, TypeOK, Stored, profile
<1>7. QED
  BY <1>1, <1>5, <1>6

\* A token row after any commit but the user's deletion.
LEMMA TokenRows ==
  ASSUME IInv, NEW w \in Workers, CommitToken(w) \/ CommitRevocation(w) \/ CommitLastUse(w)
  PROVE  /\ tokens' \in [Tokens -> UserApiToken \cup {None, Gone}]
         /\ \A k \in Tokens : Stored(tokens'[k]) =>
              \/ Stored(tokens[k]) /\ tokens'[k].owner = tokens[k].owner
                 /\ (tokens[k].revoked => tokens'[k].revoked)
              \/ tokens[k] = None /\ account[tokens'[k].owner] = "open"
         /\ UNCHANGED <<account, library, profile, loop, traffic>>
<1> DEFINE k == jobs[w].on
           Kept(row) == \/ tokens' = tokens
                        \/ tokens' = [tokens EXCEPT ![k] = row]
<1>1. k \in Tokens /\ jobs[w].user \in Users
  BY CommitTakes DEF CommitToken, CommitRevocation, CommitLastUse, IInv, Fits
<1>2. tokens \in [Tokens -> UserApiToken \cup {None, Gone}]
  BY DEF IInv, TypeOK
<1>3. UNCHANGED <<account, library, profile, loop, traffic>>
  BY DEF CommitToken, CommitRevocation, CommitLastUse
<1> HIDE DEF k
<1>4. CASE tokens' = tokens
  BY <1>2, <1>3, <1>4
<1>5. ASSUME NEW row \in UserApiToken, tokens' = [tokens EXCEPT ![k] = row],
             \/ Stored(tokens[k]) /\ row.owner = tokens[k].owner /\ (tokens[k].revoked => row.revoked)
             \/ tokens[k] = None /\ account[row.owner] = "open"
      PROVE  /\ tokens' \in [Tokens -> UserApiToken \cup {None, Gone}]
             /\ \A t \in Tokens : Stored(tokens'[t]) =>
                  \/ Stored(tokens[t]) /\ tokens'[t].owner = tokens[t].owner
                     /\ (tokens[t].revoked => tokens'[t].revoked)
                  \/ tokens[t] = None /\ account[tokens'[t].owner] = "open"
  BY <1>1, <1>2, <1>5, Zenon DEF Stored
<1>6. CASE CommitToken(w)
  <2>1. NewToken(jobs[w].user) \in UserApiToken /\ NewToken(jobs[w].user).owner = jobs[w].user
    BY <1>1 DEF NewToken, UserApiToken
  <2>2. \/ tokens' = tokens
        \/ /\ account[jobs[w].user] = "open" /\ tokens[k] = None
           /\ tokens' = [tokens EXCEPT ![k] = NewToken(jobs[w].user)]
    BY <1>6 DEF CommitToken, Referenced, k
  <2>3. QED
    BY <1>3, <1>4, <1>5, <2>1, <2>2
<1>7. CASE CommitRevocation(w) \/ CommitLastUse(w)
  <2>1. CASE ~ Stored(tokens[k])
    BY <1>4, <1>7, <2>1 DEF CommitRevocation, CommitLastUse, k
  <2>2. CASE Stored(tokens[k])
    <3>1. tokens[k] \in UserApiToken
      BY <1>1, <1>2, <2>2 DEF Stored
    <3>2. \/ tokens' = [tokens EXCEPT ![k] = [tokens[k] EXCEPT !.revoked = TRUE]]
          \/ tokens' = [tokens EXCEPT ![k] = [tokens[k] EXCEPT !.used = TRUE]]
      BY <1>7, <2>2 DEF CommitRevocation, CommitLastUse, Touched, k
    <3>3. /\ [tokens[k] EXCEPT !.revoked = TRUE] \in UserApiToken
          /\ [tokens[k] EXCEPT !.used = TRUE] \in UserApiToken
          /\ [tokens[k] EXCEPT !.revoked = TRUE].owner = tokens[k].owner
          /\ [tokens[k] EXCEPT !.used = TRUE].owner = tokens[k].owner
          /\ [tokens[k] EXCEPT !.revoked = TRUE].revoked
          /\ [tokens[k] EXCEPT !.used = TRUE].revoked = tokens[k].revoked
      BY <3>1 DEF UserApiToken
    <3>4. QED
      BY <1>3, <1>5, <2>2, <3>2, <3>3
  <2>3. QED
    BY <2>1, <2>2
<1>8. QED
  BY <1>6, <1>7

LEMMA CommitTokensInv ==
  ASSUME IInv, NEW w \in Workers, CommitToken(w) \/ CommitRevocation(w) \/ CommitLastUse(w)
  PROVE  IInv'
<1> USE DEF IInv
<1>1. jobs' \in [Workers -> Job \cup {None}] /\ JobsFit'
  BY CommitTakes DEF CommitToken, CommitRevocation, CommitLastUse
<1>2. TypeOK' /\ BannerFiles'
  BY <1>1, TokenRows DEF TypeOK, BannerFiles, Uploading, library, profile
<1>3. NothingOutlivesItsAccount'
  BY TokenRows DEF NothingOutlivesItsAccount, Stored, library, profile
<1>4. QED
  BY <1>1, <1>2, <1>3

LEMMA CommitBannerLinkInv ==
  ASSUME IInv, NEW w \in Workers, CommitBannerLink(w)
  PROVE  IInv'
<1> USE DEF IInv
<1>1. jobs' \in [Workers -> Job \cup {None}] /\ JobsFit' /\ jobs[w].user \in Users
  BY CommitTakes DEF CommitBannerLink
<1>2. /\ UNCHANGED <<account, library, tokens, files, loop, traffic>>
      /\ banner' \in [Users -> Files \cup {None, Link}]
      /\ \A u \in Users : account[u] # "open" => banner'[u] = banner[u]
  BY <1>1 DEF CommitBannerLink, Referenced, TypeOK
<1>3. TypeOK' /\ BannerFiles'
  BY <1>1, <1>2 DEF TypeOK, BannerFiles, Uploading, library
<1>4. NothingOutlivesItsAccount'
  BY <1>2 DEF NothingOutlivesItsAccount, Stored, library
<1>5. QED
  BY <1>1, <1>3, <1>4

LEMMA CommitUserDeletionInv ==
  ASSUME IInv, NEW w \in Workers, CommitUserDeletion(w)
  PROVE  IInv'
<1> USE DEF IInv
<1> DEFINE u == jobs[w].user
<1>1. jobs' \in [Workers -> Job \cup {None}] /\ JobsFit' /\ u \in Users
  BY CommitTakes DEF CommitUserDeletion
<1>2. /\ account' = [account EXCEPT ![u] = "closed"]
      /\ lists' = [l \in Lists |-> IF Owns(u, l) THEN Gone ELSE lists[l]]
      /\ media' = [m \in Media |-> IF Stored(media[m]) /\ (m \in jobs[w].found \cup OwnMedia(u)) THEN Gone ELSE media[m]]
      /\ unlocked' = [unlocked EXCEPT ![u] = [b \in Badges |-> None]]
      /\ tokens' = [k \in Tokens |-> IF Stored(tokens[k]) /\ tokens[k].owner = u THEN Gone ELSE tokens[k]]
      /\ banner' = [banner EXCEPT ![u] = None]
      /\ UNCHANGED <<files, loop, traffic>>
  BY DEF CommitUserDeletion
<1> HIDE DEF u
<1>3. TypeOK'
  BY <1>1, <1>2 DEF TypeOK
<1>4. BannerFiles'
  BY <1>2 DEF BannerFiles, Uploading
<1>5. \A l \in Lists : Stored(lists'[l]) => lists'[l] = lists[l] /\ account'[lists[l].author] = "open"
  BY <1>1, <1>2 DEF Owns, Stored, NothingOutlivesItsAccount, TypeOK, Watchlist
<1>6. \A k \in Tokens : Stored(tokens'[k]) => account'[tokens'[k].owner] = "open"
  BY <1>1, <1>2 DEF Stored, NothingOutlivesItsAccount, TypeOK, UserApiToken
<1>7. \A m \in Media : Stored(media'[m]) => Stored(lists'[media'[m].list])
  <2> SUFFICES ASSUME NEW m \in Media, Stored(media'[m]) PROVE Stored(lists'[media'[m].list])
    OBVIOUS
  <2>1. media'[m] = media[m] /\ m \notin OwnMedia(u)
    BY <1>2 DEF Stored
  <2>2. media[m].list \in Lists /\ Stored(lists[media[m].list])
    BY <2>1 DEF Stored, NothingOutlivesItsAccount, TypeOK, MediaRow
  <2>3. ~ Owns(u, media[m].list)
    BY <2>1, <2>2 DEF OwnMedia
  <2>4. QED
    BY <1>2, <2>1, <2>2, <2>3
<1>8. \A v \in Users : account'[v] # "open" => banner'[v] = None /\ \A b \in Badges : unlocked'[v][b] = None
  BY <1>1, <1>2 DEF NothingOutlivesItsAccount, TypeOK
<1>9. NothingOutlivesItsAccount'
  BY <1>5, <1>6, <1>7, <1>8 DEF NothingOutlivesItsAccount
<1>10. QED
  BY <1>1, <1>3, <1>4, <1>9

-----------------------------------------------------------------------------
(* Banner files and crashes                                                *)

LEMMA BannerInv ==
  ASSUME IInv,
         \/ \E u \in Users : ClearBanners(u) \/ UnlinkBanner(u)
         \/ StoreBanner \/ RefuseBanner \/ CommitBanner \/ Crash
  PROVE  IInv'
<1> USE DEF IInv
<1>1. ASSUME NEW u \in Users, ClearBanners(u) PROVE IInv'
  <2>1. [op |-> "upload_banner", user |-> u, file |-> None] \in BannerJob
    BY DEF BannerJob
  <2>2. TypeOK'
    BY <1>1, <2>1 DEF ClearBanners, Cleared, TypeOK, library
  <2>3. BannerFiles'
    <3>1. files' = [files EXCEPT ![u] = {}] /\ loop'.user = u
      BY <1>1 DEF ClearBanners, Cleared
    <3>2. files'[u] = {} /\ \A v \in Users \ {u} : files'[v] = files[v]
      BY <3>1 DEF TypeOK
    <3>3. \A v \in Users : files'[v] = {} \/ \E f \in Files : files'[v] = {f}
      BY <3>2 DEF BannerFiles
    <3>4. files'[loop'.user] = {}
      BY <3>1, <3>2
    <3>5. QED
      BY <3>3, <3>4 DEF BannerFiles
  <2>4. QED
    BY <1>1, <2>2, <2>3 DEF ClearBanners, NothingOutlivesItsAccount, JobsFit, Fits, Stored, library
<1>2. ASSUME NEW u \in Users, UnlinkBanner(u) PROVE IInv'
  <2>1. [op |-> "delete_banner", user |-> u, file |-> banner[u]] \in BannerJob
    BY DEF BannerJob, TypeOK
  <2>2. TypeOK'
    BY <1>2, <2>1 DEF UnlinkBanner, TypeOK, library
  <2>3. BannerFiles'
    BY <1>2 DEF UnlinkBanner, TypeOK, BannerFiles, Uploading
  <2>4. QED
    BY <1>2, <2>2, <2>3 DEF UnlinkBanner, NothingOutlivesItsAccount, JobsFit, Fits, Stored, library
<1>3. CASE StoreBanner
  <2>1. loop \in BannerJob /\ loop.user \in Users /\ files[loop.user] = {}
    BY <1>3 DEF StoreBanner, Uploading, TypeOK, BannerJob, BannerFiles
  <2>2. PICK f \in Files : /\ files' = [files EXCEPT ![loop.user] = @ \cup {f}]
                           /\ loop' \in {[loop EXCEPT !.file = f], None}
    BY <1>3 DEF StoreBanner
  <2>3. [loop EXCEPT !.file = f] \in BannerJob /\ [loop EXCEPT !.file = f].file = f
    BY <2>1 DEF BannerJob
  <2>4. f # None
    BY AccountAssumption
  <2>5. TypeOK'
    BY <1>3, <2>1, <2>2, <2>3 DEF StoreBanner, TypeOK, library
  <2>6. files' = [files EXCEPT ![loop.user] = {f}]
    BY <2>1, <2>2
  <2>7. BannerFiles'
    <3>1. \A v \in Users : files'[v] = {} \/ \E g \in Files : files'[v] = {g}
      BY <2>1, <2>6 DEF TypeOK, BannerFiles
    <3>2. ~ Uploading'
      BY <2>2, <2>3, <2>4 DEF Uploading
    <3>3. QED
      BY <3>1, <3>2 DEF BannerFiles
  <2>8. QED
    BY <1>3, <2>5, <2>7 DEF StoreBanner, NothingOutlivesItsAccount, JobsFit, Fits, Stored, library
<1>4. CASE RefuseBanner
  BY <1>4 DEF RefuseBanner, TypeOK, BannerFiles, Uploading, NothingOutlivesItsAccount, JobsFit, Fits,
              Stored, library, profile
<1>5. CASE CommitBanner
  <2>1. /\ UNCHANGED <<account, library, tokens, files, jobs, traffic>> /\ loop' = None
        /\ loop \in BannerJob /\ loop.user \in Users
    BY <1>5 DEF CommitBanner, TypeOK, BannerJob
  <2>2. /\ banner' \in [Users -> Files \cup {None, Link}]
        /\ \A u \in Users : account[u] # "open" => banner'[u] = banner[u]
    BY <1>5, <2>1 DEF CommitBanner, Referenced, TypeOK, BannerJob
  <2>3. TypeOK' /\ BannerFiles' /\ JobsFit'
    BY <2>1, <2>2 DEF TypeOK, BannerFiles, Uploading, JobsFit, Fits, library
  <2>4. NothingOutlivesItsAccount'
    BY <2>1, <2>2 DEF NothingOutlivesItsAccount, Stored, library
  <2>5. QED
    BY <2>3, <2>4
<1>6. CASE Crash
  BY <1>6 DEF Crash, TypeOK, BannerFiles, Uploading, NothingOutlivesItsAccount, JobsFit, Stored,
              library, profile
<1>7. QED
  BY <1>1, <1>2, <1>3, <1>4, <1>5, <1>6

-----------------------------------------------------------------------------
(* The whole component                                                     *)

LEMMA StepInv == IInv /\ [Next]_vars => IInv'
<1> SUFFICES ASSUME IInv, [Next]_vars PROVE IInv'
  OBVIOUS
<1>1. CASE \E w \in Workers, u \in Users : Request(w, u)
  BY <1>1, RequestInv
<1>2. ASSUME NEW w \in Workers, NEW k \in Tokens, ResolveBearer(w, k) PROVE IInv'
  <2>1. tokens[k].owner \in Users
    BY <1>2 DEF ResolveBearer, ActiveToken, Stored, IInv, TypeOK, UserApiToken
  <2>2. QED
    BY <1>2, <2>1, RequestInv
<1>3. CASE UNCHANGED vars
  BY <1>3 DEF IInv, TypeOK, BannerFiles, Uploading, NothingOutlivesItsAccount, JobsFit, Fits, Stored,
              vars, library, profile
<1>4. QED
  BY <1>1, <1>2, <1>3, CommitWatchlistInv, CommitListDeletionInv, CommitMediaInv, CommitUnlocksInv,
     CommitTokensInv, CommitBannerLinkInv, CommitUserDeletionInv, BannerInv DEF Next

LEMMA Invariance == Spec => []IInv
BY InitInv, StepInv, PTL DEF Spec

\* Every table, pending request and file set keeps its type, however many users
\* and requests there are.
THEOREM TypeCorrect == Spec => []TypeOK
<1>1. IInv => TypeOK
  BY DEF IInv
<1>2. QED
  BY <1>1, Invariance, PTL

\* The foreign keys and cascades of the models: requests that race with the
\* deletion of an account leave no row behind.
THEOREM AccountsGoWhole == Spec => []NothingOutlivesItsAccount
<1>1. IInv => NothingOutlivesItsAccount
  BY DEF IInv
<1>2. QED
  BY <1>1, Invariance, PTL

\* upload_service clears the directory before it stores a banner, and the event
\* loop runs one upload at a time: a user has at most one file.
THEOREM BannersAreSingle == Spec => []OneBannerFile
<1>1. IInv => OneBannerFile
  <2> SUFFICES ASSUME IInv, NEW u \in Users PROVE Cardinality(files[u]) <= 1
    BY DEF OneBannerFile
  <2>1. Cardinality({}) = 0 /\ \A f \in Files : Cardinality({f}) = 1
    BY FS_EmptySet, FS_Singleton
  <2>2. QED
    BY <2>1 DEF IInv, BannerFiles
<1>2. QED
  BY <1>1, Invariance, PTL

-----------------------------------------------------------------------------
(* What commits may not undo                                               *)

\* Requests, banners and crashes leave badges and tokens alone.
LEMMA Elsewhere ==
  ASSUME IInv, [Next]_vars,
         \A w \in Workers : ~ CommitUnlocks(w) /\ ~ CommitUserDeletion(w)
  PROVE  UNCHANGED unlocked
<1>1. CASE \E w \in Workers, u \in Users : Request(w, u)
  BY <1>1, RequestReads DEF IInv, library
<1>2. ASSUME NEW w \in Workers, NEW k \in Tokens, ResolveBearer(w, k) PROVE UNCHANGED unlocked
  BY <1>2 DEF ResolveBearer, Start, library
<1>3. ASSUME NEW w \in Workers,
             \/ CommitWatchlist(w) \/ CommitListDeletion(w) \/ CommitNewMedia(w) \/ CommitMove(w)
             \/ CommitMediaDeletion(w) \/ CommitToken(w) \/ CommitRevocation(w)
             \/ CommitLastUse(w) \/ CommitBannerLink(w)
      PROVE  UNCHANGED unlocked
  BY <1>3 DEF CommitWatchlist, CommitListDeletion, CommitNewMedia, CommitMove, CommitMediaDeletion,
              CommitToken, CommitRevocation, CommitLastUse, CommitBannerLink, library
<1>4. CASE \/ \E u \in Users : ClearBanners(u) \/ UnlinkBanner(u)
           \/ StoreBanner \/ RefuseBanner \/ CommitBanner \/ Crash
  BY <1>4 DEF ClearBanners, UnlinkBanner, StoreBanner, RefuseBanner, CommitBanner, Crash, library
<1>5. CASE UNCHANGED vars
  BY <1>5 DEF vars, library
<1>6. QED
  BY <1>1, <1>2, <1>3, <1>4, <1>5 DEF Next

LEMMA UnlocksKept ==
  ASSUME IInv, [Next]_vars,
         NEW u \in Users, NEW b \in Badges, unlocked[u][b] # None, account'[u] = "open"
  PROVE  unlocked'[u][b] = unlocked[u][b]
<1>1. ASSUME NEW w \in Workers, CommitUnlocks(w) PROVE unlocked'[u][b] = unlocked[u][b]
  <2>1. PICK now \in Instants :
          unlocked' = IF Referenced(jobs[w].user)
                      THEN [unlocked EXCEPT ![jobs[w].user] = Unlock(@, jobs[w].found, now)] ELSE unlocked
    BY <1>1 DEF CommitUnlocks
  <2>2. QED
    BY <2>1 DEF IInv, TypeOK, Unlock
<1>2. ASSUME NEW w \in Workers, CommitUserDeletion(w) PROVE unlocked'[u][b] = unlocked[u][b]
  <2>1. jobs[w].user # u
    BY <1>2 DEF CommitUserDeletion, IInv, TypeOK
  <2>2. QED
    BY <1>2, <2>1 DEF CommitUserDeletion, IInv, TypeOK
<1>3. QED
  BY <1>1, <1>2, Elsewhere

\* ON CONFLICT DO NOTHING: a badge keeps the instant it was unlocked at.
THEOREM BadgesStayUnlocked == Spec => UnlocksArePermanent
<1>1. IInv /\ [Next]_vars =>
        [\A u \in Users, b \in Badges :
           unlocked[u][b] # None /\ account'[u] = "open" => unlocked'[u][b] = unlocked[u][b]]_vars
  BY UnlocksKept
<1>2. QED
  BY <1>1, Invariance, PTL DEF Spec, UnlocksArePermanent

LEMMA TokensElsewhere ==
  ASSUME IInv, [Next]_vars,
         \A w \in Workers : /\ ~ CommitToken(w) /\ ~ CommitRevocation(w) /\ ~ CommitLastUse(w)
                             /\ ~ CommitUserDeletion(w)
  PROVE  UNCHANGED tokens
<1>1. CASE \E w \in Workers, u \in Users : Request(w, u)
  BY <1>1, RequestReads DEF IInv
<1>2. ASSUME NEW w \in Workers, NEW k \in Tokens, ResolveBearer(w, k) PROVE UNCHANGED tokens
  BY <1>2 DEF ResolveBearer, Start
<1>3. ASSUME NEW w \in Workers,
             \/ CommitWatchlist(w) \/ CommitListDeletion(w) \/ CommitNewMedia(w) \/ CommitMove(w)
             \/ CommitMediaDeletion(w) \/ CommitUnlocks(w) \/ CommitBannerLink(w)
      PROVE  UNCHANGED tokens
  BY <1>3 DEF CommitWatchlist, CommitListDeletion, CommitNewMedia, CommitMove, CommitMediaDeletion,
              CommitUnlocks, CommitBannerLink
<1>4. CASE \/ \E u \in Users : ClearBanners(u) \/ UnlinkBanner(u)
           \/ StoreBanner \/ RefuseBanner \/ CommitBanner \/ Crash
  BY <1>4 DEF ClearBanners, UnlinkBanner, StoreBanner, RefuseBanner, CommitBanner, Crash
<1>5. CASE UNCHANGED vars
  BY <1>5 DEF vars
<1>6. QED
  BY <1>1, <1>2, <1>3, <1>4, <1>5 DEF Next

LEMMA RevokedKept ==
  ASSUME IInv, [Next]_vars, NEW k \in Tokens, Stored(tokens[k]), tokens[k].revoked
  PROVE  ~ ActiveToken(k)'
<1>1. ASSUME NEW w \in Workers, CommitToken(w) \/ CommitRevocation(w) \/ CommitLastUse(w)
      PROVE  ~ ActiveToken(k)'
  BY <1>1, TokenRows DEF ActiveToken, Stored
<1>2. ASSUME NEW w \in Workers, CommitUserDeletion(w) PROVE ~ ActiveToken(k)'
  BY <1>2 DEF CommitUserDeletion, ActiveToken, Stored
<1>3. CASE UNCHANGED tokens
  BY <1>3 DEF ActiveToken
<1>4. QED
  BY <1>1, <1>2, <1>3, TokensElsewhere

\* resolve_api_token writes last_used_at alone: no use brings a revoked token back.
THEOREM TokensStayRevoked == Spec => RevocationsHold
<1>1. IInv /\ [Next]_vars =>
        [\A k \in Tokens : Stored(tokens[k]) /\ tokens[k].revoked => ~ ActiveToken(k)']_vars
  BY RevokedKept
<1>2. QED
  BY <1>1, Invariance, PTL DEF Spec, RevocationsHold

-----------------------------------------------------------------------------
(* Media and their owners: what pending requests may still assume of the   *)
(* rows they read, though others have committed since                      *)

Pending(w, ops) == jobs[w] # None /\ jobs[w].op \in ops

NewList(w) == Pending(w, {"register", "create_watchlist"})
NewMedia(w) == Pending(w, {"create_media", "create_bookmark"})

\* A row that is to be inserted has an identifier of its own.
Claims ==
  \A w \in Workers :
    /\ NewList(w) => /\ lists[jobs[w].on] = None
                     /\ \A v \in Workers \ {w} : NewList(v) => jobs[v].on # jobs[w].on
    /\ NewMedia(w) => /\ media[jobs[w].on] = None
                      /\ \A v \in Workers \ {w} : NewMedia(v) => jobs[v].on # jobs[w].on

\* A row that was read may be deleted meanwhile, and does not change hands.
Reads ==
  \A w \in Workers :
    /\ Pending(w, {"delete_watchlist"}) => lists[jobs[w].on] # None
    /\ Pending(w, {"delete_media", "delete_bookmark", "update_media"}) => media[jobs[w].on] # None
    /\ Pending(w, {"update_media"}) =>
         /\ lists[jobs[w].to] # None
         /\ Stored(lists[jobs[w].to]) => lists[jobs[w].to].author = jobs[w].user
         /\ Stored(media[jobs[w].on]) => lists[media[jobs[w].on].list].author = jobs[w].user

HomeInv == IInv /\ Claims /\ Reads

\* What any commit does to watchlists and media.
ListsMove ==
  \A l \in Lists :
    \/ lists'[l] = lists[l]
    \/ lists[l] # None /\ lists'[l] = Gone
    \/ lists[l] = None /\ \E w \in Workers : NewList(w) /\ jobs[w].on = l /\ jobs'[w] = None

MediaMove ==
  \A m \in Media :
    \/ media'[m] = media[m]
    \/ media[m] # None /\ media'[m] = Gone
    \/ media[m] = None /\ \E w \in Workers : NewMedia(w) /\ jobs[w].on = m /\ jobs'[w] = None
    \/ Stored(media[m]) /\ Stored(media'[m])

Home ==
  \A m \in Media : Stored(media[m]) /\ Stored(media'[m]) =>
    lists'[media'[m].list].author = lists[media[m].list].author

LEMMA HomeKept ==
  ASSUME HomeInv, ListsMove, MediaMove, Home,
         \A w \in Workers : jobs'[w] = jobs[w] \/ jobs'[w] = None
  PROVE  Claims' /\ Reads'
<1> USE DEF HomeInv
<1>1. ASSUME NEW w \in Workers, NewList(w)'
      PROVE  /\ lists'[jobs'[w].on] = None
             /\ \A v \in Workers \ {w} : NewList(v)' => jobs'[v].on # jobs'[w].on
  <2>1. jobs'[w] = jobs[w] /\ jobs[w] # None /\ NewList(w)
    BY <1>1 DEF NewList, Pending
  <2>2. jobs[w].on \in Lists /\ lists[jobs[w].on] = None
    BY <2>1 DEF IInv, JobsFit, Fits, Claims, NewList, Pending
  <2>3. ASSUME NEW v \in Workers, NewList(v), jobs[v].on = jobs[w].on PROVE v = w
    BY <2>1, <2>3 DEF Claims
  <2>4. lists'[jobs[w].on] = None
    BY <2>1, <2>2, <2>3 DEF ListsMove
  <2>5. QED
    BY <2>1, <2>3, <2>4 DEF NewList, Pending
<1>2. ASSUME NEW w \in Workers, NewMedia(w)'
      PROVE  /\ media'[jobs'[w].on] = None
             /\ \A v \in Workers \ {w} : NewMedia(v)' => jobs'[v].on # jobs'[w].on
  <2>1. jobs'[w] = jobs[w] /\ jobs[w] # None /\ NewMedia(w)
    BY <1>2 DEF NewMedia, Pending
  <2>2. jobs[w].on \in Media /\ media[jobs[w].on] = None
    BY <2>1 DEF IInv, JobsFit, Fits, Claims, NewMedia, Pending
  <2>3. ASSUME NEW v \in Workers, NewMedia(v), jobs[v].on = jobs[w].on PROVE v = w
    BY <2>1, <2>3 DEF Claims
  <2>4. media'[jobs[w].on] = None
    BY <2>1, <2>2, <2>3 DEF MediaMove, Stored
  <2>5. QED
    BY <2>1, <2>3, <2>4 DEF NewMedia, Pending
<1>3. ASSUME NEW l \in Lists, lists[l] # None
      PROVE  lists'[l] = lists[l] \/ lists'[l] = Gone
  BY <1>3 DEF ListsMove
<1>4. ASSUME NEW m \in Media, media[m] # None
      PROVE  /\ media'[m] # None
             /\ Stored(media'[m]) => /\ Stored(media[m])
                                     /\ lists'[media'[m].list].author = lists[media[m].list].author
  BY <1>4, AccountAssumption DEF MediaMove, Home, Stored
<1>5. ASSUME NEW w \in Workers, jobs'[w] = jobs[w], jobs[w] # None
      PROVE  /\ Pending(w, {"delete_watchlist"}) => lists'[jobs[w].on] # None
             /\ Pending(w, {"delete_media", "delete_bookmark", "update_media"}) => media'[jobs[w].on] # None
             /\ Pending(w, {"update_media"}) =>
                  /\ lists'[jobs[w].to] # None
                  /\ Stored(lists'[jobs[w].to]) => lists'[jobs[w].to].author = jobs[w].user
                  /\ Stored(media'[jobs[w].on]) => lists'[media'[jobs[w].on].list].author = jobs[w].user
  <2>1. Fits(jobs[w])
    BY <1>5 DEF IInv, JobsFit
  <2>2. CASE Pending(w, {"delete_watchlist"})
    BY <1>3, <2>1, <2>2, AccountAssumption DEF Fits, Pending, Reads
  <2>3. CASE Pending(w, {"delete_media", "delete_bookmark"})
    BY <1>4, <2>1, <2>3 DEF Fits, Pending, Reads
  <2>4. CASE Pending(w, {"update_media"})
    <3>1. /\ jobs[w].on \in Media /\ jobs[w].to \in Lists
          /\ media[jobs[w].on] # None /\ lists[jobs[w].to] # None
          /\ Stored(lists[jobs[w].to]) => lists[jobs[w].to].author = jobs[w].user
          /\ Stored(media[jobs[w].on]) => lists[media[jobs[w].on].list].author = jobs[w].user
      BY <2>1, <2>4 DEF Fits, Pending, Reads
    <3>2. /\ lists'[jobs[w].to] # None
          /\ Stored(lists'[jobs[w].to]) => lists'[jobs[w].to].author = jobs[w].user
      BY <1>3, <3>1, AccountAssumption DEF Stored
    <3>3. /\ media'[jobs[w].on] # None
          /\ Stored(media'[jobs[w].on]) => lists'[media'[jobs[w].on].list].author = jobs[w].user
      BY <1>4, <3>1
    <3>4. QED
      BY <2>4, <3>2, <3>3 DEF Pending
  <2>5. QED
    BY <2>2, <2>3, <2>4 DEF Pending
<1>6. Claims'
  BY <1>1, <1>2 DEF Claims
<1>7. Reads'
  BY <1>5 DEF Reads, Pending
<1>8. QED
  BY <1>6, <1>7

\* What a new request has read holds when it starts.
Knows(op, u, on, to) ==
  /\ op \in {"register", "create_watchlist"} => Fresh(lists, on)
  /\ op \in {"create_media", "create_bookmark"} => Fresh(media, on)
  /\ op = "delete_watchlist" => Stored(lists[on])
  /\ op \in {"delete_media", "delete_bookmark"} => Stored(media[on])
  /\ op = "update_media" => MovableBy(u, on, to)

Begins(w) ==
  \E j : jobs' = [jobs EXCEPT ![w] = j] /\ UNCHANGED library /\ Knows(j.op, j.user, j.on, j.to)

LEMMA StartKnows ==
  ASSUME NEW w, NEW op, NEW u, NEW on, NEW to, NEW found,
         Start(w, op, u, on, to, found), Knows(op, u, on, to)
  PROVE  Begins(w)
<1> DEFINE j == [op |-> op, user |-> u, on |-> on, to |-> to, found |-> found]
<1>1. j.op = op /\ j.user = u /\ j.on = on /\ j.to = to
  OBVIOUS
<1>2. jobs' = [jobs EXCEPT ![w] = j] /\ UNCHANGED library
  BY DEF Start
<1> HIDE DEF j
<1>3. QED
  BY <1>1, <1>2 DEF Begins

LEMMA RequestKnows ==
  ASSUME NEW w \in Workers, NEW u \in Users,
         Request(w, u) \/ \E k \in Tokens : ResolveBearer(w, k)
  PROVE  Begins(w)
<1>1. CASE RegisterUser(w, u)
  <2>1. PICK l \in Lists : /\ Fresh(lists, l)
                           /\ jobs' = [jobs EXCEPT ![w] = [op |-> "register", user |-> u, on |-> l,
                                                            to |-> None, found |-> {}]]
    BY <1>1 DEF RegisterUser
  <2> DEFINE j == [op |-> "register", user |-> u, on |-> l, to |-> None, found |-> {}]
  <2>2. Knows(j.op, j.user, j.on, j.to)
    BY <2>1 DEF Knows
  <2>3. jobs' = [jobs EXCEPT ![w] = j] /\ UNCHANGED library
    BY <1>1, <2>1 DEF RegisterUser
  <2> HIDE DEF j
  <2>4. QED
    BY <2>2, <2>3 DEF Begins
<1>2. ASSUME NEW l \in Lists, CreateWatchlist(w, u, l) PROVE Begins(w)
  <2>1. Start(w, "create_watchlist", u, l, None, {}) /\ Knows("create_watchlist", u, l, None)
    BY <1>2 DEF CreateWatchlist, Knows
  <2>2. QED
    BY <2>1, StartKnows
<1>3. ASSUME NEW l \in Lists, DeleteWatchlist(w, u, l) PROVE Begins(w)
  <2> DEFINE found == {m \in Media : Stored(media[m]) /\ media[m].list = l}
  <2>1. Start(w, "delete_watchlist", u, l, None, found)
    BY <1>3 DEF DeleteWatchlist
  <2>2. Knows("delete_watchlist", u, l, None)
    BY <1>3 DEF DeleteWatchlist, DeletableBy, Owns, Knows
  <2> HIDE DEF found
  <2>3. QED
    BY <2>1, <2>2, StartKnows
<1>4. ASSUME NEW m \in Media, NEW l \in Lists, AddMedia(w, u, m, l) PROVE Begins(w)
  <2>1. Start(w, "create_media", u, m, l, {}) /\ Knows("create_media", u, m, l)
    BY <1>4 DEF AddMedia, Knows
  <2>2. QED
    BY <2>1, StartKnows
<1>5. ASSUME NEW m \in Media, NEW l \in Lists, UpdateMedia(w, u, m, l) PROVE Begins(w)
  <2>1. Start(w, "update_media", u, m, l, {}) /\ Knows("update_media", u, m, l)
    BY <1>5 DEF UpdateMedia, Knows
  <2>2. QED
    BY <2>1, StartKnows
<1>6. ASSUME NEW m \in Media, DeleteMedia(w, u, m) PROVE Begins(w)
  <2>1. Start(w, "delete_media", u, m, None, {}) /\ Knows("delete_media", u, m, None)
    BY <1>6 DEF DeleteMedia, OwnMedia, Knows
  <2>2. QED
    BY <2>1, StartKnows
<1>7. ASSUME NEW m \in Media, DeleteBookmark(w, u, m) PROVE Begins(w)
  <2>1. Start(w, "delete_bookmark", u, m, None, {}) /\ Knows("delete_bookmark", u, m, None)
    BY <1>7 DEF DeleteBookmark, Bookmarks, OwnMedia, Knows
  <2>2. QED
    BY <2>1, StartKnows
<1>8. ASSUME NEW m \in Media, CreateBookmark(w, u, m) PROVE Begins(w)
  <2>1. PICK l \in SystemLists(u) : Start(w, "create_bookmark", u, m, l, {})
    BY <1>8 DEF CreateBookmark
  <2>2. Knows("create_bookmark", u, m, l)
    BY <1>8 DEF CreateBookmark, Knows
  <2>3. QED
    BY <2>1, <2>2, StartKnows
<1>9. CASE ListBadges(w, u)
  <2>1. Start(w, "list_badges", u, None, None, NewUnlocks(u)) /\ Knows("list_badges", u, None, None)
    BY <1>9 DEF ListBadges, Knows
  <2>2. QED
    BY <2>1, StartKnows
<1>10. ASSUME NEW k \in Tokens, CreateApiToken(w, u, k) PROVE Begins(w)
  <2>1. Start(w, "create_token", u, k, None, {}) /\ Knows("create_token", u, k, None)
    BY <1>10 DEF CreateApiToken, Knows
  <2>2. QED
    BY <2>1, StartKnows
<1>11. ASSUME NEW k \in Tokens, RevokeApiToken(w, u, k) PROVE Begins(w)
  <2>1. Start(w, "revoke_token", u, k, None, {}) /\ Knows("revoke_token", u, k, None)
    BY <1>11 DEF RevokeApiToken, Knows
  <2>2. QED
    BY <2>1, StartKnows
<1>12. CASE UpdateBanner(w, u)
  <2>1. Start(w, "update_banner", u, None, None, {}) /\ Knows("update_banner", u, None, None)
    BY <1>12 DEF UpdateBanner, Knows
  <2>2. QED
    BY <2>1, StartKnows
<1>13. CASE DeleteUser(w, u)
  <2>1. Start(w, "delete_user", u, None, None, OwnMedia(u)) /\ Knows("delete_user", u, None, None)
    BY <1>13 DEF DeleteUser, Knows
  <2>2. QED
    BY <2>1, StartKnows
<1>14. ASSUME NEW k \in Tokens, ResolveBearer(w, k) PROVE Begins(w)
  <2>1. Start(w, "use_token", tokens[k].owner, k, None, {}) /\ Knows("use_token", tokens[k].owner, k, None)
    BY <1>14 DEF ResolveBearer, Knows
  <2>2. QED
    BY <2>1, StartKnows
<1>15. QED
  BY <1>1, <1>2, <1>3, <1>4, <1>5, <1>6, <1>7, <1>8, <1>9, <1>10, <1>11, <1>12, <1>13, <1>14 DEF Request

LEMMA RequestHome ==
  ASSUME HomeInv, NEW w \in Workers, NEW u \in Users,
         Request(w, u) \/ \E k \in Tokens : ResolveBearer(w, k)
  PROVE  Claims' /\ Reads' /\ Home
<1> USE DEF HomeInv
<1>1. PICK j : /\ jobs' = [jobs EXCEPT ![w] = j] /\ UNCHANGED library
               /\ Knows(j.op, j.user, j.on, j.to)
  BY RequestKnows DEF Begins
<1>2. /\ UNCHANGED <<lists, media>> /\ jobs'[w] = j
      /\ \A v \in Workers \ {w} : jobs'[v] = jobs[v]
  BY <1>1 DEF library, IInv, TypeOK
<1>3. ASSUME NEW v \in Workers \ {w}
      PROVE  /\ NewList(v)' <=> NewList(v)
             /\ NewMedia(v)' <=> NewMedia(v)
             /\ NewList(v) => lists[jobs[v].on] = None
             /\ NewMedia(v) => media[jobs[v].on] = None
             /\ jobs[v] # None => jobs[v].on \in Claimed
  BY <1>2 DEF NewList, NewMedia, Pending, Claims, Claimed
<1>4. /\ NewList(w)' => Fresh(lists, j.on)
      /\ NewMedia(w)' => Fresh(media, j.on)
  BY <1>1, <1>2 DEF Knows, NewList, NewMedia, Pending
<1>5. \A x : /\ Fresh(lists, x) => lists[x] = None /\ x \notin Claimed
             /\ Fresh(media, x) => media[x] = None /\ x \notin Claimed
  BY DEF Fresh
<1>6. \A v \in Workers : (NewList(v) \/ NewMedia(v)) => jobs[v] # None
  BY DEF NewList, NewMedia, Pending
<1>7. Claims'
  <2> SUFFICES ASSUME NEW v \in Workers
               PROVE  /\ NewList(v)' => /\ lists[jobs'[v].on] = None
                                        /\ \A x \in Workers \ {v} : NewList(x)' => jobs'[x].on # jobs'[v].on
                      /\ NewMedia(v)' => /\ media[jobs'[v].on] = None
                                         /\ \A x \in Workers \ {v} : NewMedia(x)' => jobs'[x].on # jobs'[v].on
    BY <1>2 DEF Claims
  <2>1. CASE v = w
    BY <1>2, <1>3, <1>4, <1>5, <1>6, <2>1
  <2>2. CASE v # w
    <3>1. NewList(v)' => /\ lists[jobs'[v].on] = None
                         /\ \A x \in Workers \ {v} : NewList(x)' => jobs'[x].on # jobs'[v].on
      BY <1>2, <1>3, <1>4, <1>5, <1>6, <2>2 DEF Claims
    <3>2. NewMedia(v)' => /\ media[jobs'[v].on] = None
                          /\ \A x \in Workers \ {v} : NewMedia(x)' => jobs'[x].on # jobs'[v].on
      BY <1>2, <1>3, <1>4, <1>5, <1>6, <2>2 DEF Claims
    <3>3. QED
      BY <3>1, <3>2
  <2>3. QED
    BY <2>1, <2>2
<1>8. Reads'
  <2> SUFFICES ASSUME NEW v \in Workers
               PROVE  /\ Pending(v, {"delete_watchlist"})' => lists[jobs'[v].on] # None
                      /\ Pending(v, {"delete_media", "delete_bookmark", "update_media"})' =>
                           media[jobs'[v].on] # None
                      /\ Pending(v, {"update_media"})' =>
                           /\ lists[jobs'[v].to] # None
                           /\ Stored(lists[jobs'[v].to]) => lists[jobs'[v].to].author = jobs'[v].user
                           /\ Stored(media[jobs'[v].on]) => lists[media[jobs'[v].on].list].author = jobs'[v].user
    BY <1>2 DEF Reads, Stored
  <2>1. CASE v # w
    BY <1>2, <2>1 DEF Reads, Pending
  <2>2. CASE v = w
    BY <1>1, <1>2, <2>2 DEF Knows, Pending, MovableBy, OwnMedia, Owns, Stored
  <2>3. QED
    BY <2>1, <2>2
<1>9. Home
  BY <1>2 DEF Home
<1>10. QED
  BY <1>7, <1>8, <1>9

LEMMA CommitHome ==
  ASSUME HomeInv, NEW w \in Workers,
         \/ CommitWatchlist(w) \/ CommitListDeletion(w) \/ CommitNewMedia(w) \/ CommitMove(w)
         \/ CommitMediaDeletion(w) \/ CommitUserDeletion(w)
  PROVE  Claims' /\ Reads' /\ Home
<1> USE DEF HomeInv
<1>1. /\ jobs[w] # None /\ jobs'[w] = None
      /\ \A v \in Workers : jobs'[v] = jobs[v] \/ jobs'[v] = None
  BY DEF CommitWatchlist, CommitListDeletion, CommitNewMedia, CommitMove, CommitMediaDeletion,
         CommitUserDeletion, Commit, IInv, TypeOK
<1>2. \A m \in Media : Stored(media[m]) => media[m].list \in Lists /\ Stored(lists[media[m].list])
  BY DEF Stored, IInv, TypeOK, MediaRow, NothingOutlivesItsAccount
<1> SUFFICES ListsMove /\ MediaMove /\ Home
  BY <1>1, HomeKept
<1>3. CASE CommitWatchlist(w)
  <2>1. NewList(w) /\ jobs[w].on \in Lists /\ lists[jobs[w].on] = None
    BY <1>3, CommitTakes DEF CommitWatchlist, Commit, NewList, Pending, Fits, IInv, Claims
  <2>2. media' = media /\ \A l \in Lists : l # jobs[w].on => lists'[l] = lists[l]
    BY <1>3 DEF CommitWatchlist, IInv, TypeOK
  <2>3. ListsMove /\ MediaMove
    BY <1>1, <2>1, <2>2 DEF ListsMove, MediaMove
  <2>4. Home
    BY <1>2, <2>1, <2>2 DEF Home, Stored
  <2>5. QED
    BY <2>3, <2>4
<1>4. CASE CommitListDeletion(w)
  <2>1. jobs[w].on \in Lists /\ lists[jobs[w].on] # None
    BY <1>4, CommitTakes DEF CommitListDeletion, Commit, Pending, Fits, IInv, Reads
  <2>2. /\ lists' = [lists EXCEPT ![jobs[w].on] = Gone]
        /\ media' = [m \in Media |-> IF Stored(media[m]) /\ (m \in jobs[w].found \/ media[m].list = jobs[w].on)
                                     THEN Gone ELSE media[m]]
    BY <1>4 DEF CommitListDeletion
  <2>3. ListsMove
    BY <2>1, <2>2 DEF ListsMove, IInv, TypeOK
  <2>4. \A m \in Media : \/ media'[m] = Gone /\ Stored(media[m])
                         \/ media'[m] = media[m] /\ (Stored(media[m]) => media[m].list # jobs[w].on)
    BY <2>2
  <2>5. MediaMove
    BY <2>4 DEF MediaMove, Stored
  <2>6. Home
    BY <1>2, <2>1, <2>2, <2>4 DEF Home, Stored, IInv, TypeOK
  <2>7. QED
    BY <2>3, <2>5, <2>6
<1>5. CASE CommitNewMedia(w)
  <2>1. NewMedia(w) /\ jobs[w].on \in Media /\ media[jobs[w].on] = None
    BY <1>5, CommitTakes DEF CommitNewMedia, Commit, NewMedia, Pending, Fits, IInv, Claims
  <2>2. lists' = lists /\ \A m \in Media : m # jobs[w].on => media'[m] = media[m]
    BY <1>5 DEF CommitNewMedia, IInv, TypeOK
  <2>3. QED
    BY <1>1, <2>1, <2>2 DEF ListsMove, MediaMove, Home, Stored
<1>6. CASE CommitMove(w)
  <2>1. /\ jobs[w].on \in Media /\ jobs[w].to \in Lists
        /\ Pending(w, {"update_media"})
    BY <1>6, CommitTakes DEF CommitMove, Commit, Pending, Fits, IInv
  <2>2. lists' = lists
    BY <1>6 DEF CommitMove
  <2>3. CASE media' = media
    BY <2>2, <2>3 DEF ListsMove, MediaMove, Home
  <2>4. CASE /\ Stored(media[jobs[w].on]) /\ Stored(lists[jobs[w].to])
             /\ media' = [media EXCEPT ![jobs[w].on].list = jobs[w].to]
    <3>1. media[jobs[w].on] \in MediaRow
      BY <2>1, <2>4 DEF Stored, IInv, TypeOK
    <3>2. /\ media'[jobs[w].on] \in MediaRow /\ media'[jobs[w].on].list = jobs[w].to
          /\ \A m \in Media : m # jobs[w].on => media'[m] = media[m]
      BY <2>1, <2>4, <3>1 DEF IInv, TypeOK, MediaRow
    <3>3. Stored(media'[jobs[w].on])
      BY <3>2, AccountAssumption DEF Stored, MediaRow
    <3>4. lists[jobs[w].to].author = lists[media[jobs[w].on].list].author
      BY <2>1, <2>4 DEF Reads
    <3>5. QED
      BY <2>2, <2>4, <3>2, <3>3, <3>4 DEF ListsMove, MediaMove, Home
  <2>5. QED
    BY <1>6, <2>3, <2>4 DEF CommitMove
<1>7. CASE CommitMediaDeletion(w)
  <2>1. jobs[w].on \in Media /\ media[jobs[w].on] # None
    BY <1>7, CommitTakes DEF CommitMediaDeletion, Commit, Pending, Fits, IInv, Reads
  <2>2. lists' = lists /\ media' = [media EXCEPT ![jobs[w].on] = Gone]
    BY <1>7 DEF CommitMediaDeletion
  <2>3. QED
    BY <2>1, <2>2 DEF ListsMove, MediaMove, Home, Stored, IInv, TypeOK
<1>8. CASE CommitUserDeletion(w)
  <2> DEFINE u == jobs[w].user
  <2>1. /\ lists' = [l \in Lists |-> IF Owns(u, l) THEN Gone ELSE lists[l]]
        /\ media' = [m \in Media |-> IF Stored(media[m]) /\ (m \in jobs[w].found \cup OwnMedia(u)) THEN Gone ELSE media[m]]
    BY <1>8 DEF CommitUserDeletion
  <2> HIDE DEF u
  <2>2. ListsMove
    BY <2>1 DEF ListsMove, Owns, Stored
  <2>3. MediaMove
    BY <2>1 DEF MediaMove, Stored
  <2>4. Home
    <3> SUFFICES ASSUME NEW m \in Media, Stored(media[m]), Stored(media'[m])
                 PROVE  lists'[media'[m].list].author = lists[media[m].list].author
      BY DEF Home
    <3>1. media'[m] = media[m] /\ m \notin OwnMedia(u)
      BY <2>1 DEF Stored
    <3>2. ~ Owns(u, media[m].list)
      BY <3>1 DEF OwnMedia
    <3>3. QED
      BY <1>2, <2>1, <3>1, <3>2
  <2>5. QED
    BY <2>2, <2>3, <2>4
<1>9. QED
  BY <1>3, <1>4, <1>5, <1>6, <1>7, <1>8

LEMMA QuietHome ==
  ASSUME HomeInv,
         \/ \E w \in Workers : \/ CommitUnlocks(w) \/ CommitToken(w) \/ CommitRevocation(w)
                               \/ CommitLastUse(w) \/ CommitBannerLink(w)
         \/ \E u \in Users : ClearBanners(u) \/ UnlinkBanner(u)
         \/ StoreBanner \/ RefuseBanner \/ CommitBanner \/ Crash \/ UNCHANGED vars
  PROVE  Claims' /\ Reads' /\ Home
<1>1. UNCHANGED <<lists, media>> /\ \A v \in Workers : jobs'[v] = jobs[v] \/ jobs'[v] = None
  <2>1. ASSUME NEW w \in Workers,
               \/ CommitUnlocks(w) \/ CommitToken(w) \/ CommitRevocation(w)
               \/ CommitLastUse(w) \/ CommitBannerLink(w)
        PROVE  <1>1
    BY <2>1 DEF CommitUnlocks, CommitToken, CommitRevocation, CommitLastUse, CommitBannerLink, Commit,
                library, HomeInv, IInv, TypeOK
  <2>2. CASE \/ \E u \in Users : ClearBanners(u) \/ UnlinkBanner(u)
             \/ StoreBanner \/ RefuseBanner \/ CommitBanner
    BY <2>2 DEF ClearBanners, UnlinkBanner, StoreBanner, RefuseBanner, CommitBanner, library
  <2>3. CASE Crash \/ UNCHANGED vars
    BY <2>3 DEF Crash, vars, library
  <2>4. QED
    BY <2>1, <2>2, <2>3
<1>2. ListsMove /\ MediaMove /\ Home
  BY <1>1 DEF ListsMove, MediaMove, Home
<1>3. QED
  BY <1>1, <1>2, HomeKept

LEMMA HomeStep == HomeInv /\ [Next]_vars => HomeInv' /\ Home
<1> SUFFICES ASSUME HomeInv, [Next]_vars PROVE HomeInv' /\ Home
  OBVIOUS
<1>1. IInv'
  BY StepInv DEF HomeInv
<1>2. ASSUME NEW w \in Workers, NEW k \in Tokens, ResolveBearer(w, k) PROVE Claims' /\ Reads' /\ Home
  <2>1. tokens[k].owner \in Users
    BY <1>2 DEF ResolveBearer, ActiveToken, Stored, HomeInv, IInv, TypeOK, UserApiToken
  <2>2. QED
    BY <1>2, <2>1, RequestHome
<1>3. QED
  BY <1>1, <1>2, RequestHome, CommitHome, QuietHome DEF Next, HomeInv

\* update_media checks both watchlists before its commit, and others commit in
\* between: a medium still never passes from one account to another.
THEOREM MediaKeepTheirOwner == Spec => MediaStayHome
<1>1. Init => HomeInv
  BY InitInv DEF Init, HomeInv, Claims, Reads, NewList, NewMedia, Pending
<1>2. HomeInv /\ [Next]_vars => HomeInv'
  BY HomeStep
<1>3. HomeInv /\ [Next]_vars =>
        [\A m \in Media : Stored(media[m]) /\ Stored(media'[m]) =>
           lists'[media'[m].list].author = lists[media[m].list].author]_vars
  BY HomeStep DEF Home
<1>4. QED
  BY <1>1, <1>2, <1>3, PTL DEF Spec, MediaStayHome

=============================================================================
