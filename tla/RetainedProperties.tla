------------------------- MODULE RetainedProperties -------------------------
(***************************************************************************)
(* What the retained store is meant to guarantee.  The first part holds.   *)
(* The second states what a comment or document of the repository says and *)
(* the code does not do in every interleaving; the README tells for each   *)
(* of those which run, or which instance, shows it.                        *)
(***************************************************************************)
EXTENDS Retained

\* Every node is up and connected, has caught up, and nothing is in flight.
Quiet ==
    /\ \A n \in Nodes : node[n].up /\ node[n].fetch = "done"
    /\ \A m, n \in Nodes : Reaches(m, n)
    /\ \A m, n \in Nodes : chan[m][n] = << >>
    /\ queries = {}
    /\ replies = {}

(***************************************************************************)
(* The dirty flag loses no update: while it is clear, no task is about to  *)
(* set it, the saver is idle and its last write did not fail, the snapshot *)
(* file is the replica.  (The saver takes the flag before it copies the    *)
(* map; insert and remove set it after they changed the map.  After a      *)
(* failed write the flag stays clear: nothing tries again until the next   *)
(* update.)                                                                *)
(***************************************************************************)
Clean(n) ==
    /\ node[n].up
    /\ ~node[n].dirty
    /\ node[n].saver = "idle"
    /\ ~node[n].failed
    /\ \A who \in Mutators : node[n].pc[who] # "dirty"

SnapshotCurrent == \A n \in Savers : Clean(n) => snap[n] = node[n].map

(***************************************************************************)
(* PLAN.md, "Retained persistence to disk (debounced snapshot)": what is   *)
(* in a replica reaches the node's file, unless it changes, a write fails  *)
(* or the process dies first, even if updates keep racing with the saver.  *)
(***************************************************************************)
SnapshotCatchesUp ==
    \A n \in Savers, t \in Topics, v \in Values :
        (node[n].up /\ node[n].map[t] = v)
            ~> (snap[n][t] = v \/ node[n].failed \/ ~node[n].up \/ node[n].map[t] # v)

(***************************************************************************)
(* Where all writes of a topic come from one node, live replication is     *)
(* exact for a node that has caught up (wire's subscriber applies what     *)
(* comes, without comparing origin times): as long as it runs and stays    *)
(* linked to the writing node, its replica and what is on its way to it    *)
(* yield the topic's newest write, or delete, if they ever did; and the    *)
(* next write makes them, whatever the catch-up brought back before.  All  *)
(* other nodes may join with old snapshots, ask, crash, lose links and     *)
(* write other topics meanwhile.                                           *)
(***************************************************************************)
OneHome(w, t) == \A n \in Nodes : <<n, t>> \in Writers => n = w

Follows(n, w) == node[n].up /\ node[n].fetch = "done" /\ Reaches(w, n)

\* v is what a map holds for topic t once the samples of q are applied.
LastOn(q, i, t) == q[i][1] = t /\ \A j \in 1..Len(q) : j > i => q[j][1] # t

Yields(q, map, t, v) ==
    /\ (\A i \in 1..Len(q) : q[i][1] # t) => map[t] = v
    /\ \A i \in 1..Len(q) : LastOn(q, i, t) => q[i][2] = v

InSync(n, w, t) == Yields(chan[w][n], node[n].map, t, newest[t])

KeepsInSync(n, w, t) ==
    (Follows(n, w) /\ Follows(n, w)' /\ (InSync(n, w, t) \/ newest'[t] # newest[t]))
        => InSync(n, w, t)'

Replicates == \A w, n \in Nodes, t \in Topics : OneHome(w, t) => KeepsInSync(n, w, t)

StaysInSync == [][Replicates]_vars

(***************************************************************************)
(* README.md, "late-joining nodes catch up": what is current at a node     *)
(* linked to one that has yet to send its catch-up query becomes current   *)
(* there too, unless it changes first or the link is lost.                 *)
(***************************************************************************)
Current(n, t) == node[n].up /\ node[n].map[t] = newest[t] /\ newest[t] # None

Joining(n) == node[n].up /\ node[n].fetch = "wait"

LateJoinerCatchesUp ==
    \A m \in Nodes : \A n \in Nodes \ {m}, t \in Topics :
        (Joining(n) /\ {m, n} \in links /\ Current(m, t))
            ~> (Current(n, t) \/ ~Current(m, t) \/ {m, n} \notin links)

-----------------------------------------------------------------------------
(***************************************************************************)
(* retained.rs, match_cache: "Invalidated wholesale on every mutation, so  *)
(* it never serves a result older than the last insert/remove": with no    *)
(* insert or remove in progress, a cached result is what a scan would give.*)
(***************************************************************************)
CacheNeverStale ==
    \A n \in Nodes, f \in Filters :
        (node[n].cache[f].hit /\ \A who \in Mutators : node[n].pc[who] = "idle")
            => node[n].cache[f].found = Matching(node[n].map, f)

(***************************************************************************)
(* retained.rs, wire: catch-up "wins for anything fresher than the         *)
(* snapshot": a reply does not replace a value by an older one.            *)
(***************************************************************************)
FetchTakesFresher ==
    \A n \in Nodes, t \in Topics :
        (node'[n].pc["fetch"] = "dirty" /\ node[n].pc["fetch"] = "idle")
            => node'[n].map[t] >= node[n].map[t]

CatchUpOnlyFresher == [][FetchTakesFresher]_vars

(***************************************************************************)
(* RESILIENCE_ROADMAP.md: "Zenoh already resolves retained writes          *)
(* last-writer-wins": once nothing is in flight all replicas are the same. *)
(***************************************************************************)
ReplicasAgree == Quiet => \A m, n \in Nodes : node[m].map = node[n].map

(***************************************************************************)
(* The same for replicas that did agree once, with every node linked and   *)
(* nothing under way.                                                      *)
(***************************************************************************)
ReplicasStayAgreed == [](Quiet /\ ReplicasAgree => []ReplicasAgree)

(***************************************************************************)
(* retained.rs: "a zenoh delete clears them": a topic whose newest write   *)
(* is a delete is retained nowhere once nothing is in flight.              *)
(***************************************************************************)
ClearedEverywhere ==
    Quiet => \A n \in Nodes, t \in Topics : newest[t] = None => node[n].map[t] = None

=============================================================================
