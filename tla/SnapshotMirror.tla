--------------------------- MODULE SnapshotMirror ---------------------------
(***************************************************************************)
(* What the release catalogue promises its readers, without leases,        *)
(* workers or time: a mirror that lags behind a changing source but only   *)
(* ever moves forward, and never shows a version the source did not have.  *)
(***************************************************************************)
EXTENDS Naturals

CONSTANT Titles

VARIABLES source, mirror

Init ==
  /\ source = [t \in Titles |-> 1]
  /\ mirror = [t \in Titles |-> 0]

SourceChanges(t) ==
  /\ source' = [source EXCEPT ![t] = @ + 1]
  /\ UNCHANGED mirror

Publish(t) ==
  /\ \E v \in mirror[t] .. source[t] : mirror' = [mirror EXCEPT ![t] = v]
  /\ UNCHANGED source

Next == \E t \in Titles : SourceChanges(t) \/ Publish(t)

Spec == Init /\ [][Next]_<<source, mirror>>

=============================================================================
