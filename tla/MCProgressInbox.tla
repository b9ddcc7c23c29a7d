-------------------------- MODULE MCProgressInbox --------------------------
EXTENDS InboxRefinement, TLC

CONSTANTS s1, s2, e1, e2

Whole(s, mark) == [show |-> s, eps |-> Episodes, whole |-> TRUE, mark |-> mark,
                   history |-> TRUE]
One(s, e, mark) == [show |-> s, eps |-> {e}, whole |-> FALSE, mark |-> mark,
                    history |-> FALSE]

\* A show is watched or unwatched as a whole, one episode is watched.
MCBodies == {Whole(s1, "watched"), Whole(s1, "unwatched"), One(s1, e2, "watched")}

\* One episode of each show; the liveness runs need no history.
MCShortBodies == {One(s1, e2, "watched"), One(s2, e2, "watched")}

MCSymmetry == Permutations(Clients) \cup Permutations(Ids) \cup Permutations(ViewIds)

\* The second episode may not have been released yet.
MCPayloads == {{e1}, {e1, e2}}

=============================================================================
