------------------------- MODULE MCReleaseCatalog -------------------------
EXTENDS ReleaseCatalog, TLC

CONSTANTS k1, k2, w1, w2

MCKeys == {k1, k2}
MCWorkers == {w1, w2}
MCRefreshTimes == {3}

MCSymmetry == Permutations(MCKeys) \cup Permutations(MCWorkers)

=============================================================================
