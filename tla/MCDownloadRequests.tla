------------------------ MODULE MCDownloadRequests ------------------------
EXTENDS DownloadRequests, TLC
CONSTANTS e1, e2, s1, s2, p1, p2
MCSeasonOf == (e1 :> s1) @@ (e2 :> s2)
MCDuties == (p1 :> {"request", "retry"}) @@ (p2 :> {"cancel", "clean", "list"})
MCMoves == [s \in Sources |-> IF s = "RADARR" THEN 3 ELSE 2]
MCCalls == [s \in Sources |-> IF s = "RADARR" THEN 3 ELSE 2]
MCFewMoves == [s \in Sources |-> 2]
MCFewCalls == [s \in Sources |-> 2]
=============================================================================
