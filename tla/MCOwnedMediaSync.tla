-------------------------- MODULE MCOwnedMediaSync --------------------------
EXTENDS OwnedMediaSync, TLC

CONSTANTS t1, t2, p1, p2, x1, x2

MCOneProcess == (t1 :> p1) @@ (t2 :> p1)
MCTwoProcesses == (t1 :> p1) @@ (t2 :> p2)

MCThreadSymmetry == Permutations({x1, x2}) \cup Permutations({t1, t2})

=============================================================================
