-------------------------- MODULE InboxRefinement --------------------------
(***************************************************************************)
(* The progress inbox implements OrderedInbox: the queue of a show is what *)
(* its committed pending receipts carry, placed by their sequence numbers. *)
(***************************************************************************)
EXTENDS ProgressInbox

Queue(s) == {[place |-> receipt[i].seq, body |-> receipt[i].body] : i \in Pending(s)}

Progress(s) ==
  [marks |-> marks[s], tracked |-> baseline[s] # "untracked", recorded |-> views[s] # {}]

Inbox == INSTANCE OrderedInbox WITH
           LastPlace <- MaxSeq,
           queue <- [s \in Shows |-> Queue(s)],
           state <- [s \in Shows |-> Progress(s)]

\* To its owner the inbox is a queue per show, applied in order and in one piece:
\* no drain acts on a queue that has changed since it was read, an older intent
\* never has the last word, and none is applied after it was withdrawn.
ImplementsOrderedInbox == Inbox!Spec

=============================================================================
