--------------------------- MODULE MCUserAccount ---------------------------
EXTENDS UserAccount, TLC
Accounts == {"register", "delete_user"}
MCTraffic ==
  {Accounts \cup {"create_watchlist", "delete_watchlist", "create_media", "update_media"},
   Accounts \cup {"create_watchlist", "create_bookmark", "delete_bookmark", "delete_media", "update_media"},
   Accounts \cup {"create_watchlist", "delete_watchlist", "create_media", "list_badges"},
   Accounts \cup {"create_token", "use_token", "revoke_token"},
   Accounts \cup {"upload_banner", "delete_banner", "update_banner"}}
MCTarget == [b \in Badges |-> 1]
MCSymmetry == Permutations(Users) \cup Permutations(Lists) \cup Permutations(Workers)
=============================================================================
