------------------------- MODULE MCReleaseDigests -------------------------
EXTENDS ReleaseDigests, TLC
MCSchedules == {[zone |-> -1, time |-> 0], [zone |-> 1, time |-> 1]}
MCOneSchedule == {[zone |-> 0, time |-> 1]}
MCSymmetry == Permutations(Senders)
=============================================================================
