---------------------------- MODULE OrderedInbox ----------------------------
(***************************************************************************)
(* What the progress inbox promises an owner, without sessions, locks or   *)
(* receipts: each show has a queue of intents.  An intent joins behind the *)
(* others, a queue is applied whole and one intent at a time from its head *)
(* on, and a change of the viewing history by hand withdraws the intents   *)
(* that came before it.                                                    *)
(***************************************************************************)
EXTENDS Naturals

CONSTANTS
  Shows, Episodes, Bodies, Payloads,
  LastPlace     \* places in a queue are numbered from 1 on

VARIABLES
  queue,    \* intents waiting for each show, with their places
  state     \* progress of each show: episode marks, tracked, recorded in history

Intent == [place : 1 .. LastPlace, body : Bodies]

\* One intent against a catalogue: invalid ones change nothing.
Apply(st, body, pl) ==
  LET touched == body.eps \cap pl
  IN  IF touched = {} THEN st
      ELSE [marks    |-> [e \in Episodes |-> IF e \in touched THEN body.mark ELSE st.marks[e]],
            tracked  |-> TRUE,
            recorded |-> IF body.whole /\ body.history THEN body.mark = "watched"
                         ELSE st.recorded]

\* Where a queue leads: the state after each place, one intent after the other.
Stages(st, q, pl) ==
  LET upTo[n \in 0 .. LastPlace] ==
        IF n = 0 THEN st
        ELSE IF \E e \in q : e.place = n
             THEN Apply(upTo[n - 1], (CHOOSE e \in q : e.place = n).body, pl)
             ELSE upTo[n - 1]
  IN  upTo

Unmarked == [e \in Episodes |-> "unset"]

Init ==
  /\ queue = [s \in Shows |-> {}]
  /\ state = [s \in Shows |-> [marks |-> Unmarked, tracked |-> FALSE, recorded |-> FALSE]]

\* The intent is behind all those that wait.
Last(e, q) == \A other \in q : other.place < e.place

Accept(e) ==
  /\ Last(e, queue[e.body.show])
  /\ queue' = [queue EXCEPT ![e.body.show] = @ \cup {e}]
  /\ UNCHANGED state

\* Applies a whole queue, which the drain or the submission has just seen.
Empty(s, q, pl) ==
  /\ queue' = [queue EXCEPT ![s] = {}]
  /\ state' = [state EXCEPT ![s] = Stages(@, q, pl)[LastPlace]]

Drain(s, pl) == queue[s] # {} /\ Empty(s, queue[s], pl)

AcceptAndDrain(e, pl) ==
  /\ Last(e, queue[e.body.show])
  /\ Empty(e.body.show, queue[e.body.show] \cup {e}, pl)

\* A mark that does not go through the inbox.
MarkAtOnce(body, pl) ==
  /\ state' = [state EXCEPT ![body.show] = Apply(@, body, pl)]
  /\ UNCHANGED queue

StartTracking(s) ==
  /\ state' = [state EXCEPT ![s] =
                 [marks |-> @.marks, tracked |-> TRUE, recorded |-> @.recorded]]
  /\ UNCHANGED queue

AddView(s) ==
  /\ queue' = [queue EXCEPT ![s] = {}]
  /\ state' = [state EXCEPT ![s] = [marks |-> @.marks, tracked |-> TRUE, recorded |-> TRUE]]

RemoveLastView(s) ==
  /\ queue' = [queue EXCEPT ![s] = {}]
  /\ state' = [state EXCEPT ![s] = [marks |-> Unmarked, tracked |-> FALSE, recorded |-> FALSE]]

Next ==
  \/ \E e \in Intent : Accept(e)
  \/ \E s \in Shows, pl \in Payloads : Drain(s, pl)
  \/ \E e \in Intent, pl \in Payloads : AcceptAndDrain(e, pl)
  \/ \E body \in Bodies, pl \in Payloads : MarkAtOnce(body, pl)
  \/ \E s \in Shows : StartTracking(s)
  \/ \E s \in Shows : AddView(s)
  \/ \E s \in Shows : RemoveLastView(s)

Spec == Init /\ [][Next]_<<queue, state>>

=============================================================================
