------------------------------ MODULE MCRetained ------------------------------
(***************************************************************************)
(* Instances of Retained for TLC: one or two nodes and topics; the filter  *)
(* matches every topic.  The remaining bounds are in the .cfg files.  Once *)
(* the writes are used up and everything is in sync, a behaviour stops.    *)
(***************************************************************************)
EXTENDS RetainedProperties

CONSTANTS n1, n2, t1, t2

OneNode   == {n1}
TwoNodes  == {n1, n2}
AllNodes  == Nodes
OneWriter == {<<n1, t1>>}
BothWrite == {<<n1, t1>>, <<n2, t1>>}
OneTopic  == {t1}
AllTopics == {Topics}

\* A bound on the starts: the second node comes when the first has caught up with
\* itself.  A fault lifts it, so that both join at once where the first one died.
Staggered == node[n2].up => node[n1].fetch = "done" \/ made.faults > 0

=============================================================================
