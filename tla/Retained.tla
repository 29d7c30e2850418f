------------------------------ MODULE Retained ------------------------------
(***************************************************************************)
(* The mesh-wide retained-message store (crates/entmoot-node/src/          *)
(* retained.rs).  Every node keeps a replica in memory and four tasks work *)
(* on it: the live subscriber, the queryable that serves it to others, the *)
(* catch-up fetch at startup, and the saver of the snapshot file.  Lookups *)
(* for new subscriptions go through a cache of match results.              *)
(*                                                                         *)
(* A retained value is the number of the write that made it, which is also *)
(* its origin time: clocks are in step, the best case for comparing them.  *)
(***************************************************************************)
EXTENDS Naturals, Sequences

CONSTANTS
    Nodes,        \* nodes of the mesh
    Topics,       \* topics that retained messages are published on
    Filters,      \* subscription filters, each the set of topics it matches
    Writers,      \* pairs <<n, t>>: clients of node n publish retained on topic t
    Kinds,        \* "put", and "delete" for an empty payload
    Savers,       \* nodes with data_dir configured
    DiskFails,    \* TRUE iff writing a snapshot may fail
    MaxWrites,    \* bound: retained writes
    MaxFaults     \* bound: times a node's process dies or a link is lost

ASSUME RetainedAssumption ==
    /\ Filters \subseteq SUBSET Topics
    /\ Writers \subseteq Nodes \X Topics
    /\ Kinds \subseteq {"put", "delete"}
    /\ Savers \subseteq Nodes
    /\ DiskFails \in BOOLEAN
    /\ MaxWrites \in Nat
    /\ MaxFaults \in Nat

VARIABLES
    node,     \* every node's RetainedStore and the state of its tasks
    snap,     \* every node's snapshot file (no file: no entries)
    links,    \* pairs of nodes that are connected
    chan,     \* chan[m][n]: samples published at m that n has not applied
    queries,  \* catch-up queries <<n, m>> of n that m has not answered
    replies,  \* replies on their way to, or waiting at, the node that asked
    newest,   \* each topic's newest write, anywhere in the mesh
    made      \* how many writes and faults there were

vars == <<node, snap, links, chan, queries, replies, newest, made>>

-----------------------------------------------------------------------------
None   == 0                          \* no retained message
Writes == 1..MaxWrites
Values == Writes \cup {None}
Map    == [Topics -> Values]
Empty  == [t \in Topics |-> None]
Match  == [hit : BOOLEAN, found : SUBSET (Topics \X Writes)]
Miss   == [hit |-> FALSE, found |-> {}]

\* The two tasks that change the replica.  insert and remove are three
\* steps: the map under its lock, then the dirty flag, then the cache.
Mutators == {"live", "fetch"}

NodeRecord ==
    [up    : BOOLEAN,
     map   : Map,
     dirty : BOOLEAN,
     cache : [Filters -> Match],     \* match_cache
     scan  : [Filters -> Match],     \* a load of the cache in progress
     pc    : [Mutators -> {"idle", "dirty", "invalidate"}],
     fetch : {"wait", "replies", "done"},
     saver : {"idle", "snapshot", "write"},
     buf   : Map,                    \* what the saver is writing
     failed : BOOLEAN]               \* the saver's last write failed, which is logged

\* A node that has loaded map and runs none of its tasks yet.
Store(up, map) ==
    [up |-> up, map |-> map, dirty |-> FALSE,
     cache |-> [f \in Filters |-> Miss], scan |-> [f \in Filters |-> Miss],
     pc |-> [w \in Mutators |-> "idle"], fetch |-> "wait",
     saver |-> "idle", buf |-> Empty, failed |-> FALSE]

Reply == [to : Nodes, from : Nodes, topic : Topics, value : Writes]

TypeOK ==
    /\ node \in [Nodes -> NodeRecord]
    /\ snap \in [Nodes -> Map]
    /\ links \subseteq SUBSET Nodes
    /\ chan \in [Nodes -> [Nodes -> Seq(Topics \X Values)]]
    /\ queries \subseteq Nodes \X Nodes
    /\ replies \subseteq Reply
    /\ newest \in Map
    /\ made \in [writes : 0..MaxWrites, faults : 0..MaxFaults]

Init ==
    /\ node = [n \in Nodes |-> Store(FALSE, Empty)]
    /\ snap = [n \in Nodes |-> Empty]
    /\ links = {}
    /\ chan = [m \in Nodes |-> [n \in Nodes |-> << >>]]
    /\ queries = {}
    /\ replies = {}
    /\ newest = Empty
    /\ made = [writes |-> 0, faults |-> 0]

Reaches(m, n) == m = n \/ {m, n} \in links

-----------------------------------------------------------------------------
(***************************************************************************)
(* A node's life.  wire loads the snapshot and clears the dirty flag       *)
(* before it declares the subscriber and the queryable and starts the      *)
(* tasks.  Links come up afterwards, when the network lets them.           *)
(***************************************************************************)
Start(n) ==
    /\ ~node[n].up
    /\ node' = [node EXCEPT ![n] = Store(TRUE, snap[n])]
    /\ UNCHANGED <<snap, links, chan, queries, replies, newest, made>>

LinkUp(m, n) ==
    /\ m # n
    /\ node[m].up
    /\ node[n].up
    /\ links' = links \cup {{m, n}}
    /\ UNCHANGED <<node, snap, chan, queries, replies, newest, made>>

\* A lost connection: what n had received from m stays, the rest is gone.
Prefix(q, k) == IF k < Len(q) THEN SubSeq(q, 1, k) ELSE q

Between(m, n) == {<<m, n>>, <<n, m>>}

Cut(m, n, k) ==
    /\ {m, n} \in links
    /\ made.faults < MaxFaults
    /\ made' = [made EXCEPT !.faults = @ + 1]
    /\ links' = links \ {{m, n}}
    /\ chan' = [a \in Nodes |-> [b \in Nodes |->
                  IF {a, b} = {m, n} THEN Prefix(chan[a][b], k) ELSE chan[a][b]]]
    /\ queries' = queries \ Between(m, n)
    /\ UNCHANGED <<node, snap, replies, newest>>

Crash(n, k) ==
    /\ node[n].up
    /\ made.faults < MaxFaults
    /\ made' = [made EXCEPT !.faults = @ + 1]
    /\ node' = [node EXCEPT ![n] = Store(FALSE, Empty)]
    /\ links' = {l \in links : n \notin l}
    /\ chan' = [a \in Nodes |-> [b \in Nodes |->
                  IF b = n THEN << >>
                  ELSE IF a = n THEN Prefix(chan[a][b], k)
                  ELSE chan[a][b]]]
    /\ queries' = {q \in queries : n \notin {q[1], q[2]}}
    /\ replies' = {r \in replies : r.to # n}
    /\ UNCHANGED <<snap, newest>>

-----------------------------------------------------------------------------
(***************************************************************************)
(* Writing: handle_publish (and fire_will) put the value, or delete it,    *)
(* under the retained key; zenoh hands the sample to the subscriber of     *)
(* every node it reaches, that of the writer included.                     *)
(***************************************************************************)
Write(n, t, kind) ==
    LET w     == made.writes + 1
        value == IF kind = "put" THEN w ELSE None
    IN  /\ node[n].up
        /\ w \in Writes
        /\ made' = [made EXCEPT !.writes = w]
        /\ newest' = [newest EXCEPT ![t] = value]
        /\ chan' = [chan EXCEPT ![n] = [m \in Nodes |->
                      IF Reaches(n, m) THEN Append(@[m], <<t, value>>) ELSE @[m]]]
        /\ UNCHANGED <<node, snap, links, queries, replies>>

-----------------------------------------------------------------------------
(***************************************************************************)
(* The replica.  Samples are applied, and replies inserted, as they come:  *)
(* the origin times of the old and the new value are not compared.         *)
(***************************************************************************)

\* Mutant: an older value does not replace a newer one, which also keeps
\* deletes out.
Stored_if_newer(map, t, value) == [map EXCEPT ![t] = IF value > @ THEN value ELSE @]

\* The map after insert, or remove for None.
Stored(map, t, value) == [map EXCEPT ![t] = value]

\* The locked first step of insert and remove, by one of the mutators.
Mutate(r, who, t, value) == [r EXCEPT !.map = Stored(@, t, value), !.pc[who] = "dirty"]

\* One turn of the live subscriber.
Apply(n, m) ==
    LET sample == Head(chan[m][n])
    IN  /\ node[n].up
        /\ node[n].pc["live"] = "idle"
        /\ chan[m][n] # << >>
        /\ chan' = [chan EXCEPT ![m][n] = Tail(@)]
        /\ node' = [node EXCEPT ![n] = Mutate(@, "live", sample[1], sample[2])]
        /\ UNCHANGED <<snap, links, queries, replies, newest, made>>

\* The catch-up query goes to every queryable, the node's own included.
Get(n) ==
    /\ node[n].up
    /\ node[n].fetch = "wait"
    /\ node' = [node EXCEPT ![n].fetch = "replies"]
    /\ queries' = queries \cup {<<n, m>> : m \in {k \in Nodes : Reaches(n, k)}}
    /\ UNCHANGED <<snap, links, chan, replies, newest, made>>

\* RetainedStore::snapshot.
Snapshot(map) == {<<t, map[t]>> : t \in {u \in Topics : map[u] # None}}

ServeQuery(n, m) ==
    /\ <<n, m>> \in queries
    /\ queries' = queries \ {<<n, m>>}
    /\ replies' = replies \cup {[to |-> n, from |-> m, topic |-> e[1], value |-> e[2]]
                                  : e \in Snapshot(node[m].map)}
    /\ UNCHANGED <<node, snap, links, chan, newest, made>>

InsertReply(n) ==
    /\ node[n].up
    /\ node[n].fetch = "replies"
    /\ node[n].pc["fetch"] = "idle"
    /\ \E r \in replies :
         /\ r.to = n
         /\ replies' = replies \ {r}
         /\ node' = [node EXCEPT ![n] = Mutate(@, "fetch", r.topic, r.value)]
    /\ UNCHANGED <<snap, links, chan, queries, newest, made>>

\* Mutant: the fetch does not wait for everyone it asked.
FetchDone_early(n) ==
    /\ node[n].fetch = "replies"
    /\ node[n].pc["fetch"] = "idle"
    /\ \A r \in replies : r.to # n
    /\ node' = [node EXCEPT ![n].fetch = "done"]
    /\ UNCHANGED <<snap, links, chan, queries, replies, newest, made>>

\* The replies end when nobody is left to answer.
FetchDone(n) ==
    /\ node[n].fetch = "replies"
    /\ node[n].pc["fetch"] = "idle"
    /\ \A m \in Nodes : <<n, m>> \notin queries
    /\ \A r \in replies : r.to # n
    /\ node' = [node EXCEPT ![n].fetch = "done"]
    /\ UNCHANGED <<snap, links, chan, queries, replies, newest, made>>

MarkDirty(n, who) ==
    /\ node[n].pc[who] = "dirty"
    /\ node' = [node EXCEPT ![n].dirty = TRUE, ![n].pc[who] = "invalidate"]
    /\ UNCHANGED <<snap, links, chan, queries, replies, newest, made>>

\* invalidate_all: what the cache holds now is never returned again.  A
\* load that is in progress is not affected.
Invalidate(n, who) ==
    /\ node[n].pc[who] = "invalidate"
    /\ node' = [node EXCEPT ![n].cache = [f \in Filters |-> Miss], ![n].pc[who] = "idle"]
    /\ UNCHANGED <<snap, links, chan, queries, replies, newest, made>>

-----------------------------------------------------------------------------
(***************************************************************************)
(* matching_cached, for the retained messages of a new subscription: a     *)
(* miss starts one scan, and everyone who asks meanwhile waits for it.     *)
(***************************************************************************)
Matching(map, f) == {e \in Snapshot(map) : e[1] \in f}

Scan(n, f) ==
    /\ node[n].up
    /\ ~node[n].cache[f].hit
    /\ ~node[n].scan[f].hit
    /\ node' = [node EXCEPT ![n].scan[f] = [hit |-> TRUE, found |-> Matching(node[n].map, f)]]
    /\ UNCHANGED <<snap, links, chan, queries, replies, newest, made>>

Fill(n, f) ==
    /\ node[n].scan[f].hit
    /\ node' = [node EXCEPT ![n].cache[f] = node[n].scan[f], ![n].scan[f] = Miss]
    /\ UNCHANGED <<snap, links, chan, queries, replies, newest, made>>

-----------------------------------------------------------------------------
(***************************************************************************)
(* The saver, every PERSIST_INTERVAL: take the dirty flag, copy the map    *)
(* under its lock, write and rename the file.  A failed write is logged.   *)
(***************************************************************************)
TakeDirty(n) ==
    /\ n \in Savers
    /\ node[n].saver = "idle"
    /\ node[n].dirty
    /\ node' = [node EXCEPT ![n].dirty = FALSE, ![n].saver = "snapshot"]
    /\ UNCHANGED <<snap, links, chan, queries, replies, newest, made>>

CopyMap(n) ==
    /\ node[n].saver = "snapshot"
    /\ node' = [node EXCEPT ![n].buf = node[n].map, ![n].saver = "write"]
    /\ UNCHANGED <<snap, links, chan, queries, replies, newest, made>>

\* Mutant: the flag is cleared only after the file is written.
Saved_clears(r, ok) ==
    [r EXCEPT !.saver = "idle", !.buf = Empty, !.failed = ~ok, !.dirty = FALSE]

\* Mutant: the saver's loop ends with its first save.
Saved_ends(r, ok) == [r EXCEPT !.saver = "ended", !.buf = Empty, !.failed = ~ok]

Saved(r, ok) == [r EXCEPT !.saver = "idle", !.buf = Empty, !.failed = ~ok]

SaveSnapshot(n) ==
    /\ node[n].saver = "write"
    /\ snap' = [snap EXCEPT ![n] = node[n].buf]
    /\ node' = [node EXCEPT ![n] = Saved(@, TRUE)]
    /\ UNCHANGED <<links, chan, queries, replies, newest, made>>

SaveFails(n) ==
    /\ DiskFails
    /\ node[n].saver = "write"
    /\ node' = [node EXCEPT ![n] = Saved(@, FALSE)]
    /\ UNCHANGED <<snap, links, chan, queries, replies, newest, made>>

-----------------------------------------------------------------------------
LiveStep(n)  == \E m \in Nodes : Apply(n, m)
QueryStep(m) == \E n \in Nodes : ServeQuery(n, m)
FetchStep(n) == Get(n) \/ InsertReply(n) \/ FetchDone(n)
MutatorStep(n, who) == MarkDirty(n, who) \/ Invalidate(n, who)
SaverStep(n) == TakeDirty(n) \/ CopyMap(n) \/ SaveSnapshot(n) \/ SaveFails(n)

NodeStep(n) ==
    \/ LiveStep(n) \/ QueryStep(n) \/ FetchStep(n) \/ SaverStep(n)
    \/ \E who \in Mutators : MutatorStep(n, who)

Next ==
    \/ \E n \in Nodes : Start(n) \/ NodeStep(n)
    \/ \E n \in Nodes, f \in Filters : Scan(n, f) \/ Fill(n, f)
    \/ \E n \in Nodes, k \in 0..MaxWrites : Crash(n, k)
    \/ \E m, n \in Nodes : LinkUp(m, n)
    \/ \E m, n \in Nodes, k \in 0..MaxWrites : Cut(m, n, k)
    \/ \E n \in Nodes, t \in Topics, kind \in Kinds : <<n, t>> \in Writers /\ Write(n, t, kind)

Spec == Init /\ [][Next]_vars

(***************************************************************************)
(* Fairness: the runtime keeps scheduling each of a node's tasks that can  *)
(* go on.  Nodes need not start, links need not come up, samples may wait  *)
(* for ever and clients need not write or look anything up.                *)
(***************************************************************************)
Fairness ==
    \A n \in Nodes :
        /\ WF_vars(QueryStep(n))
        /\ WF_vars(FetchStep(n))
        /\ WF_vars(SaverStep(n))
        /\ \A who \in Mutators : WF_vars(MutatorStep(n, who))

FairSpec == Spec /\ Fairness

=============================================================================
