--------------------------- MODULE MCSonarrSeries ---------------------------
EXTENDS SonarrSeries, TLC
CONSTANTS e0, e1
MCSeasonOf == (e0 :> 0) @@ (e1 :> 1)
MCMix(others) == [op \in Operations |-> IF op = "request" THEN 2 ELSE IF op \in others THEN 1 ELSE 0]
MCMixes == {MCMix(others) : others \in
              {{"edit_profile"}, {"delete_season", "cancel"}, {"delete_season", "delete_show"}}}
MCSymmetry == Permutations(Workers)
=============================================================================
