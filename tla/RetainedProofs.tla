---------------------------- MODULE RetainedProofs ----------------------------
(***************************************************************************)
(* Retained is type correct; its saver loses no update: the snapshot file  *)
(* is the replica whenever the dirty flag says so; and live replication is *)
(* exact for a node that has caught up and stays linked to the only node   *)
(* that writes a topic, whatever all others do.  All for any number of     *)
(* nodes, topics, filters, writes, crashes and link losses, in any order.  *)
(***************************************************************************)
EXTENDS RetainedProperties, TLAPS

\* A fresh store is a well-formed node.
LEMMA StoreType ==
    ASSUME NEW up \in BOOLEAN, NEW m \in Map
    PROVE  Store(up, m) \in NodeRecord
  BY DEF Store, NodeRecord, Map, Empty, Values, None, Match, Miss, Mutators

\* A shortened channel holds the same kind of samples.
LEMMA PrefixType ==
    ASSUME NEW S, NEW q \in Seq(S), NEW k \in Nat
    PROVE  Prefix(q, k) \in Seq(S)
  BY DEF Prefix

\* insert and remove keep a node well formed.
LEMMA MutateType ==
    ASSUME NEW r \in NodeRecord, NEW who \in Mutators, NEW t \in Topics, NEW v \in Values
    PROVE  Mutate(r, who, t, v) \in NodeRecord
  <1>1. Stored(r.map, t, v) \in Map
    BY DEF Stored, NodeRecord, Map
  <1>2. [r.pc EXCEPT ![who] = "dirty"] \in [Mutators -> {"idle", "dirty", "invalidate"}]
    BY DEF NodeRecord
  <1> QED
    BY <1>1, <1>2 DEF Mutate, NodeRecord

\* What a snapshot of a map holds.
LEMMA SnapshotType ==
    ASSUME NEW m \in Map
    PROVE  Snapshot(m) \subseteq Topics \X Writes
  BY DEF Snapshot, Map, Values, None, Writes

\* Replacing one node's record by a well-formed one.
LEMMA NodeUpdate ==
    ASSUME TypeOK, NEW n \in Nodes, NEW r \in NodeRecord, node' = [node EXCEPT ![n] = r]
    PROVE  node' \in [Nodes -> NodeRecord]
  BY DEF TypeOK

Channels == [Nodes -> [Nodes -> Seq(Topics \X Values)]]
Counts   == [writes : 0..MaxWrites, faults : 0..MaxFaults]

\* A channel that takes one more sample.
LEMMA AppendType ==
    ASSUME NEW S, NEW q \in Seq(S), NEW e \in S
    PROVE  Append(q, e) \in Seq(S)
  OBVIOUS

\* What is left of a channel when a connection is lost.
LEMMA ChannelPrefix ==
    ASSUME TypeOK, NEW a \in Nodes, NEW b \in Nodes, NEW k \in 0..MaxWrites
    PROVE  /\ chan[a][b] \in Seq(Topics \X Values)
           /\ Prefix(chan[a][b], k) \in Seq(Topics \X Values)
  <1>1. chan[a][b] \in Seq(Topics \X Values)
    BY DEF TypeOK
  <1>2. k \in Nat
    BY RetainedAssumption
  <1> QED
    BY <1>1, <1>2, PrefixType

-----------------------------------------------------------------------------
LEMMA TypeInit == Init => TypeOK
  <1> SUFFICES ASSUME Init PROVE TypeOK
    OBVIOUS
  <1>1. Empty \in Map
    BY DEF Empty, Map, Values
  <1>2. node \in [Nodes -> NodeRecord]
    BY <1>1, StoreType DEF Init
  <1>3. chan \in [Nodes -> [Nodes -> Seq(Topics \X Values)]]
    BY DEF Init
  <1>4. made \in [writes : 0..MaxWrites, faults : 0..MaxFaults]
    BY RetainedAssumption DEF Init
  <1> QED
    BY <1>1, <1>2, <1>3, <1>4 DEF Init, TypeOK

LEMMA TypeStart ==
    ASSUME TypeOK, NEW n \in Nodes, Start(n)
    PROVE  TypeOK'
  <1>1. Store(TRUE, snap[n]) \in NodeRecord
    BY StoreType DEF TypeOK
  <1> QED
    BY <1>1 DEF TypeOK, Start

LEMMA TypeLinkUp ==
    ASSUME TypeOK, NEW m \in Nodes, NEW n \in Nodes, LinkUp(m, n)
    PROVE  TypeOK'
  BY DEF TypeOK, LinkUp

LEMMA TypeCut ==
    ASSUME TypeOK, NEW m \in Nodes, NEW n \in Nodes, NEW k \in 0..MaxWrites, Cut(m, n, k)
    PROVE  TypeOK'
  <1>1. chan' \in Channels
    BY ChannelPrefix DEF TypeOK, Cut, Channels
  <1>2. made' \in Counts
    <2>1. made \in Counts
      BY DEF TypeOK, Counts
    <2>2. made.faults + 1 \in 0..MaxFaults
      BY <2>1, RetainedAssumption DEF Counts, Cut
    <2> QED
      BY <2>1, <2>2 DEF Cut, Counts
  <1> QED
    BY <1>1, <1>2 DEF TypeOK, Cut, Channels, Counts

LEMMA TypeCrash ==
    ASSUME TypeOK, NEW n \in Nodes, NEW k \in 0..MaxWrites, Crash(n, k)
    PROVE  TypeOK'
  <1>1. chan' \in Channels
    <2>1. << >> \in Seq(Topics \X Values)
      OBVIOUS
    <2> QED
      BY <2>1, ChannelPrefix DEF TypeOK, Crash, Channels
  <1>2. made' \in Counts
    <2>1. made \in Counts
      BY DEF TypeOK, Counts
    <2>2. made.faults + 1 \in 0..MaxFaults
      BY <2>1, RetainedAssumption DEF Counts, Crash
    <2> QED
      BY <2>1, <2>2 DEF Crash, Counts
  <1>3. node' \in [Nodes -> NodeRecord]
    <2>1. Store(FALSE, Empty) \in NodeRecord
      BY StoreType DEF Empty, Map, Values
    <2> QED
      BY <2>1, NodeUpdate DEF Crash
  <1> QED
    BY <1>1, <1>2, <1>3 DEF TypeOK, Crash, Channels, Counts

LEMMA TypeWrite ==
    ASSUME TypeOK, NEW n \in Nodes, NEW t \in Topics, NEW kind \in Kinds, Write(n, t, kind)
    PROVE  TypeOK'
  <1> DEFINE w == made.writes + 1
             v == IF kind = "put" THEN w ELSE None
  <1>1. w \in Writes /\ v \in Values
    BY DEF Write, Values, None
  <1>2. /\ chan' = [chan EXCEPT ![n] = [m \in Nodes |->
                      IF Reaches(n, m) THEN Append(@[m], <<t, v>>) ELSE @[m]]]
        /\ made' = [made EXCEPT !.writes = w]
        /\ newest' = [newest EXCEPT ![t] = v]
        /\ UNCHANGED <<node, snap, links, queries, replies>>
    BY DEF Write
  <1> HIDE DEF v, w
  <1>3. chan' \in Channels
    <2>1. chan \in Channels
      BY DEF TypeOK, Channels
    <2>2. \A m \in Nodes : chan[n][m] \in Seq(Topics \X Values)
      BY <2>1 DEF Channels
    <2>3. \A m \in Nodes : Append(chan[n][m], <<t, v>>) \in Seq(Topics \X Values)
      <3>1. <<t, v>> \in Topics \X Values
        BY <1>1
      <3> QED
        BY <2>2, <3>1, AppendType
    <2> QED
      BY <1>2, <2>1, <2>2, <2>3 DEF Channels
  <1>4. made' \in Counts
    <2>1. made \in Counts /\ w \in 0..MaxWrites
      BY <1>1, RetainedAssumption DEF TypeOK, Counts, Writes
    <2> QED
      BY <1>2, <2>1 DEF Counts
  <1>5. newest' \in Map
    BY <1>1, <1>2 DEF TypeOK, Map
  <1> QED
    BY <1>2, <1>3, <1>4, <1>5 DEF TypeOK, Channels, Counts

LEMMA TypeApply ==
    ASSUME TypeOK, NEW n \in Nodes, NEW m \in Nodes, Apply(n, m)
    PROVE  TypeOK'
  <1> DEFINE t == Head(chan[m][n])[1]
             v == Head(chan[m][n])[2]
             r == Mutate(node[n], "live", t, v)
  <1>1. chan[m][n] \in Seq(Topics \X Values) /\ chan[m][n] # << >>
    BY DEF TypeOK, Apply
  <1>2. /\ Head(chan[m][n]) \in Topics \X Values
        /\ Tail(chan[m][n]) \in Seq(Topics \X Values)
    BY <1>1
  <1>3. t \in Topics /\ v \in Values
    BY <1>2
  <1>4. /\ node' = [node EXCEPT ![n] = r]
        /\ chan' = [chan EXCEPT ![m][n] = Tail(@)]
        /\ UNCHANGED <<snap, links, queries, replies, newest, made>>
    BY DEF Apply
  <1> HIDE DEF t, v
  <1>5. node' \in [Nodes -> NodeRecord]
    <2>1. "live" \in Mutators /\ node[n] \in NodeRecord
      BY DEF Mutators, TypeOK
    <2>2. r \in NodeRecord
      BY <1>3, <2>1, MutateType
    <2> QED
      BY <1>4, <2>2, NodeUpdate
  <1>6. chan' \in Channels
    <2>1. [chan[m] EXCEPT ![n] = Tail(chan[m][n])] \in [Nodes -> Seq(Topics \X Values)]
      BY <1>2 DEF TypeOK
    <2>2. chan' = [chan EXCEPT ![m] = [chan[m] EXCEPT ![n] = Tail(chan[m][n])]]
      BY <1>4
    <2> QED
      BY <2>1, <2>2 DEF TypeOK, Channels
  <1> QED
    BY <1>4, <1>5, <1>6 DEF TypeOK, Channels

LEMMA TypeFetch ==
    ASSUME TypeOK, NEW n \in Nodes, Get(n) \/ FetchDone(n)
    PROVE  TypeOK'
  <1>1. \A p \in {"replies", "done"} : [node[n] EXCEPT !.fetch = p] \in NodeRecord
    <2>1. node[n] \in NodeRecord
      BY DEF TypeOK
    <2> QED
      BY <2>1 DEF NodeRecord
  <1>2. CASE Get(n)
    <2>1. node' = [node EXCEPT ![n] = [node[n] EXCEPT !.fetch = "replies"]]
      BY <1>2 DEF Get
    <2>2. node' \in [Nodes -> NodeRecord]
      BY <1>1, <2>1, NodeUpdate
    <2>3. queries' \subseteq Nodes \X Nodes
      BY <1>2 DEF TypeOK, Get
    <2> QED
      BY <1>2, <2>2, <2>3 DEF TypeOK, Get
  <1>3. CASE FetchDone(n)
    <2>1. node' = [node EXCEPT ![n] = [node[n] EXCEPT !.fetch = "done"]]
      BY <1>3 DEF FetchDone
    <2>2. node' \in [Nodes -> NodeRecord]
      BY <1>1, <2>1, NodeUpdate
    <2> QED
      BY <1>3, <2>2 DEF TypeOK, FetchDone
  <1> QED
    BY <1>2, <1>3

LEMMA TypeServeQuery ==
    ASSUME TypeOK, NEW n \in Nodes, NEW m \in Nodes, ServeQuery(n, m)
    PROVE  TypeOK'
  <1>1. node[m].map \in Map
    BY DEF TypeOK, NodeRecord
  <1>2. Snapshot(node[m].map) \subseteq Topics \X Writes
    BY <1>1, SnapshotType
  <1>3. replies' \subseteq Reply
    BY <1>2 DEF TypeOK, ServeQuery, Reply
  <1> QED
    BY <1>3 DEF TypeOK, ServeQuery

LEMMA TypeInsertReply ==
    ASSUME TypeOK, NEW n \in Nodes, InsertReply(n)
    PROVE  TypeOK'
  <1>1. PICK r \in replies :
          /\ replies' = replies \ {r}
          /\ node' = [node EXCEPT ![n] = Mutate(@, "fetch", r.topic, r.value)]
    BY DEF InsertReply
  <1>2. r.topic \in Topics /\ r.value \in Values
    BY DEF TypeOK, Reply, Values
  <1>3. Mutate(node[n], "fetch", r.topic, r.value) \in NodeRecord
    BY <1>2, MutateType DEF TypeOK, Mutators
  <1>4. node' \in [Nodes -> NodeRecord]
    BY <1>1, <1>3, NodeUpdate
  <1> QED
    BY <1>1, <1>4 DEF TypeOK, InsertReply

LEMMA TypeMutatorStep ==
    ASSUME TypeOK, NEW n \in Nodes, NEW who \in Mutators, MutatorStep(n, who)
    PROVE  TypeOK'
  <1> DEFINE PC == [Mutators -> {"idle", "dirty", "invalidate"}]
             marked == [node[n] EXCEPT !.dirty = TRUE, !.pc = [@ EXCEPT ![who] = "invalidate"]]
             empty  == [f \in Filters |-> Miss]
             fresh  == [node[n] EXCEPT !.cache = empty, !.pc = [@ EXCEPT ![who] = "idle"]]
  <1>0. node[n] \in NodeRecord
    BY DEF TypeOK
  <1>1. \A p \in {"idle", "invalidate"} : [node[n].pc EXCEPT ![who] = p] \in PC
    BY <1>0 DEF NodeRecord
  <1>2. empty \in [Filters -> Match]
    BY DEF Miss, Match
  <1>3. marked \in NodeRecord
    BY <1>0, <1>1 DEF NodeRecord
  <1>4. fresh \in NodeRecord
    <2> HIDE DEF empty
    <2> QED
      BY <1>0, <1>1, <1>2 DEF NodeRecord
  <1>5. CASE MarkDirty(n, who)
    <2>1. node' = [node EXCEPT ![n] = marked]
      BY <1>5 DEF MarkDirty
    <2>2. node' \in [Nodes -> NodeRecord]
      BY <1>3, <2>1, NodeUpdate
    <2> QED
      BY <1>5, <2>2 DEF TypeOK, MarkDirty
  <1>6. CASE Invalidate(n, who)
    <2>1. node' = [node EXCEPT ![n] = fresh]
      BY <1>6 DEF Invalidate
    <2>2. node' \in [Nodes -> NodeRecord]
      BY <1>4, <2>1, NodeUpdate
    <2> QED
      BY <1>6, <2>2 DEF TypeOK, Invalidate
  <1> QED
    BY <1>5, <1>6 DEF MutatorStep

LEMMA TypeLookup ==
    ASSUME TypeOK, NEW n \in Nodes, NEW f \in Filters, Scan(n, f) \/ Fill(n, f)
    PROVE  TypeOK'
  <1>1. CASE Scan(n, f)
    <2> DEFINE found == [hit |-> TRUE, found |-> Matching(node[n].map, f)]
               scan  == [node[n].scan EXCEPT ![f] = found]
               r     == [node[n] EXCEPT !.scan = scan]
    <2>1. node[n].map \in Map /\ node[n].scan \in [Filters -> Match]
      BY DEF TypeOK, NodeRecord
    <2>2. found \in Match
      BY <2>1, SnapshotType DEF Matching, Match
    <2>3. scan \in [Filters -> Match]
      <3> HIDE DEF found
      <3> QED
        BY <2>1, <2>2
    <2>4. node' = [node EXCEPT ![n] = r]
      BY <1>1 DEF Scan
    <2> HIDE DEF scan
    <2>5. r \in NodeRecord
      <3>1. node[n] \in NodeRecord
        BY DEF TypeOK
      <3> QED
        BY <2>3, <3>1 DEF NodeRecord
    <2>6. node' \in [Nodes -> NodeRecord]
      BY <2>4, <2>5, NodeUpdate
    <2> QED
      BY <1>1, <2>6 DEF TypeOK, Scan
  <1>2. CASE Fill(n, f)
    <2> DEFINE cache == [node[n].cache EXCEPT ![f] = node[n].scan[f]]
               scan  == [node[n].scan EXCEPT ![f] = Miss]
               r     == [node[n] EXCEPT !.cache = cache, !.scan = scan]
    <2>1. cache \in [Filters -> Match] /\ scan \in [Filters -> Match]
      <3>1. Miss \in Match
        BY DEF Miss, Match
      <3>2. node[n].cache \in [Filters -> Match] /\ node[n].scan \in [Filters -> Match]
        BY DEF TypeOK, NodeRecord
      <3> QED
        BY <3>1, <3>2
    <2>2. node' = [node EXCEPT ![n] = r]
      BY <1>2 DEF Fill
    <2> HIDE DEF cache, scan
    <2>3. r \in NodeRecord
      <3>1. node[n] \in NodeRecord
        BY DEF TypeOK
      <3> QED
        BY <2>1, <3>1 DEF NodeRecord
    <2>4. node' \in [Nodes -> NodeRecord]
      BY <2>2, <2>3, NodeUpdate
    <2> QED
      BY <1>2, <2>4 DEF TypeOK, Fill
  <1> QED
    BY <1>1, <1>2

LEMMA TypeSaverStep ==
    ASSUME TypeOK, NEW n \in Nodes, SaverStep(n)
    PROVE  TypeOK'
  <1> DEFINE taken  == [node[n] EXCEPT !.dirty = FALSE, !.saver = "snapshot"]
             copied == [node[n] EXCEPT !.buf = node[n].map, !.saver = "write"]
  <1>0. node[n] \in NodeRecord
    BY DEF TypeOK
  <1>1. taken \in NodeRecord /\ copied \in NodeRecord
    BY <1>0 DEF NodeRecord
  <1>2. \A ok \in BOOLEAN : Saved(node[n], ok) \in NodeRecord
    <2>1. Empty \in Map
      BY DEF Empty, Map, Values
    <2> QED
      BY <1>0, <2>1 DEF NodeRecord, Saved
  <1>3. CASE TakeDirty(n)
    <2>1. node' = [node EXCEPT ![n] = taken]
      BY <1>3 DEF TakeDirty
    <2>2. node' \in [Nodes -> NodeRecord]
      BY <1>1, <2>1, NodeUpdate
    <2> QED
      BY <1>3, <2>2 DEF TypeOK, TakeDirty
  <1>4. CASE CopyMap(n)
    <2>1. node' = [node EXCEPT ![n] = copied]
      BY <1>4 DEF CopyMap
    <2>2. node' \in [Nodes -> NodeRecord]
      BY <1>1, <2>1, NodeUpdate
    <2> QED
      BY <1>4, <2>2 DEF TypeOK, CopyMap
  <1>5. CASE SaveSnapshot(n)
    <2>1. node' \in [Nodes -> NodeRecord]
      BY <1>2, <1>5, NodeUpdate DEF SaveSnapshot
    <2>2. snap' \in [Nodes -> Map]
      <3>1. node[n].buf \in Map
        BY DEF TypeOK, NodeRecord
      <3> QED
        BY <1>5, <3>1 DEF TypeOK, SaveSnapshot
    <2> QED
      BY <1>5, <2>1, <2>2 DEF TypeOK, SaveSnapshot
  <1>6. CASE SaveFails(n)
    <2>1. node' \in [Nodes -> NodeRecord]
      BY <1>2, <1>6, NodeUpdate DEF SaveFails
    <2> QED
      BY <1>6, <2>1 DEF TypeOK, SaveFails
  <1> QED
    BY <1>3, <1>4, <1>5, <1>6 DEF SaverStep

LEMMA TypeNext == TypeOK /\ [Next]_vars => TypeOK'
  <1> SUFFICES ASSUME TypeOK, [Next]_vars PROVE TypeOK'
    OBVIOUS
  <1>1. CASE UNCHANGED vars
    BY <1>1 DEF TypeOK, vars
  <1>2. ASSUME NEW n \in Nodes, Start(n) \/ NodeStep(n) PROVE TypeOK'
    BY <1>2, TypeStart, TypeApply, TypeServeQuery, TypeFetch, TypeInsertReply,
       TypeSaverStep, TypeMutatorStep
       DEF NodeStep, LiveStep, QueryStep, FetchStep
  <1>3. ASSUME NEW n \in Nodes, NEW f \in Filters, Scan(n, f) \/ Fill(n, f) PROVE TypeOK'
    BY <1>3, TypeLookup
  <1>4. ASSUME NEW n \in Nodes, NEW k \in 0..MaxWrites, Crash(n, k) PROVE TypeOK'
    BY <1>4, TypeCrash
  <1>5. ASSUME NEW m \in Nodes, NEW n \in Nodes, LinkUp(m, n) PROVE TypeOK'
    BY <1>5, TypeLinkUp
  <1>6. ASSUME NEW m \in Nodes, NEW n \in Nodes, NEW k \in 0..MaxWrites, Cut(m, n, k)
        PROVE  TypeOK'
    BY <1>6, TypeCut
  <1>7. ASSUME NEW n \in Nodes, NEW t \in Topics, NEW kind \in Kinds, Write(n, t, kind)
        PROVE  TypeOK'
    BY <1>7, TypeWrite
  <1> QED
    BY <1>1, <1>2, <1>3, <1>4, <1>5, <1>6, <1>7 DEF Next

(***************************************************************************)
(* Every variable of Retained keeps its type, whatever the nodes, their    *)
(* tasks and the network between them do.                                  *)
(***************************************************************************)
THEOREM RetainedTypeCorrect == Spec => []TypeOK
  BY TypeInit, TypeNext, PTL DEF Spec

-----------------------------------------------------------------------------
(***************************************************************************)
(* SnapshotCurrent is not inductive: it says nothing of a saver at work.   *)
(* While the flag stays clear, the copy it made is still the replica.      *)
(***************************************************************************)
Flagged(r) == r.dirty \/ \E who \in Mutators : r.pc[who] = "dirty"

SavedOrSaving(r, file) ==
    r.up /\ ~Flagged(r) => /\ r.saver = "idle" /\ ~r.failed => file = r.map
                           /\ r.saver = "write" => r.buf = r.map

SaverInv == \A n \in Savers : SavedOrSaving(node[n], snap[n])

\* A fresh store agrees with the file it was loaded from.
LEMMA StoreSaved == \A file, m : SavedOrSaving(Store(FALSE, m), file)
                                   /\ SavedOrSaving(Store(TRUE, file), file)
  BY DEF SavedOrSaving, Store

\* It is enough to look at the record that a step replaces.
LEMMA RecordStep ==
    ASSUME TypeOK, NEW n \in Nodes, NEW s \in Nodes, NEW r,
           node' = [node EXCEPT ![n] = r],
           snap' = snap,
           SavedOrSaving(node[s], snap[s]),
           n = s => SavedOrSaving(r, snap[s])
    PROVE  SavedOrSaving(node'[s], snap'[s])
  <1>1. node'[s] = IF n = s THEN r ELSE node[s]
    BY DEF TypeOK
  <1> QED
    BY <1>1

\* Only the fields that say what is saved matter.
LEMMA OtherFields ==
    ASSUME NEW r, NEW q, NEW file,
           q.up = r.up, q.dirty = r.dirty, q.saver = r.saver, q.buf = r.buf, q.map = r.map,
           q.failed = r.failed,
           \A who \in Mutators : r.pc[who] = "dirty" => q.pc[who] = "dirty" \/ q.dirty,
           SavedOrSaving(r, file)
    PROVE  SavedOrSaving(q, file)
  BY DEF SavedOrSaving, Flagged

LEMMA SaverNext ==
    ASSUME TypeOK, SaverInv, [Next]_vars
    PROVE  SaverInv'
  <1> SUFFICES ASSUME NEW s \in Savers
               PROVE  SavedOrSaving(node'[s], snap'[s])
    BY DEF SaverInv
  <1>0. s \in Nodes /\ SavedOrSaving(node[s], snap[s]) /\ node[s] \in NodeRecord
    BY RetainedAssumption DEF SaverInv, TypeOK
  <1>1. ASSUME node' = node, snap' = snap PROVE SavedOrSaving(node'[s], snap'[s])
    BY <1>0, <1>1
  <1>3. ASSUME NEW n \in Nodes, Start(n) PROVE SavedOrSaving(node'[s], snap'[s])
    BY <1>0, <1>3, StoreSaved DEF Start, TypeOK
  <1>4. ASSUME NEW n \in Nodes, NEW k \in 0..MaxWrites, Crash(n, k)
        PROVE  SavedOrSaving(node'[s], snap'[s])
    BY <1>0, <1>4, StoreSaved DEF Crash, TypeOK
  <1>5. ASSUME NEW n \in Nodes, NEW who \in Mutators, NEW t, NEW v, snap' = snap,
               node' = [node EXCEPT ![n] = Mutate(@, who, t, v)]
        PROVE  SavedOrSaving(node'[s], snap'[s])
    <2>1. CASE n # s
      BY <1>0, <1>5, <2>1 DEF TypeOK
    <2>2. CASE n = s
      <3>1. node'[s].pc[who] = "dirty"
        BY <1>0, <1>5, <2>2 DEF TypeOK, Mutate, NodeRecord
      <3> QED
        BY <3>1 DEF SavedOrSaving, Flagged
    <2> QED
      BY <2>1, <2>2
  <1>6. ASSUME NEW n \in Nodes, LiveStep(n) PROVE SavedOrSaving(node'[s], snap'[s])
    BY <1>5, <1>6 DEF LiveStep, Apply, Mutators
  <1>7. ASSUME NEW n \in Nodes, FetchStep(n) PROVE SavedOrSaving(node'[s], snap'[s])
    <2>1. CASE Get(n) \/ FetchDone(n)
      <3>1. PICK p : node' = [node EXCEPT ![n] = [node[n] EXCEPT !.fetch = p]] /\ snap' = snap
        BY <2>1 DEF Get, FetchDone
      <3>2. SavedOrSaving([node[s] EXCEPT !.fetch = p], snap[s])
        BY <1>0, OtherFields DEF NodeRecord
      <3> QED
        BY <1>0, <3>1, <3>2, RecordStep
    <2>2. CASE InsertReply(n)
      <3>1. PICK r \in replies : node' = [node EXCEPT ![n] = Mutate(@, "fetch", r.topic, r.value)]
        BY <2>2 DEF InsertReply
      <3>2. "fetch" \in Mutators /\ snap' = snap
        BY <2>2 DEF InsertReply, Mutators
      <3> QED
        BY <1>5, <3>1, <3>2
    <2> QED
      BY <1>7, <2>1, <2>2 DEF FetchStep
  <1>8. ASSUME NEW n \in Nodes, NEW who \in Mutators, MutatorStep(n, who)
        PROVE  SavedOrSaving(node'[s], snap'[s])
    <2>1. CASE MarkDirty(n, who)
      BY <1>0, <2>1 DEF MarkDirty, TypeOK, SavedOrSaving, Flagged, NodeRecord
    <2>2. CASE Invalidate(n, who)
      <3> DEFINE miss == [f \in Filters |-> Miss]
                 r == [node[n] EXCEPT !.cache = miss, !.pc = [@ EXCEPT ![who] = "idle"]]
      <3>1. node' = [node EXCEPT ![n] = r] /\ snap' = snap /\ node[n].pc[who] = "invalidate"
        BY <2>2 DEF Invalidate
      <3>2. n = s => SavedOrSaving(r, snap[s])
        <4> HIDE DEF miss
        <4> QED
          BY <1>0, <3>1 DEF NodeRecord, SavedOrSaving, Flagged
      <3> QED
        BY <1>0, <3>1, <3>2, RecordStep
    <2> QED
      BY <1>8, <2>1, <2>2 DEF MutatorStep
  <1>9. ASSUME NEW n \in Nodes, SaverStep(n) PROVE SavedOrSaving(node'[s], snap'[s])
    <2>1. CASE TakeDirty(n)
      BY <1>0, <2>1 DEF TakeDirty, TypeOK, SavedOrSaving, Flagged, NodeRecord
    <2>2. CASE CopyMap(n)
      BY <1>0, <2>2 DEF CopyMap, TypeOK, SavedOrSaving, Flagged, NodeRecord
    <2>3. CASE SaveSnapshot(n)
      BY <1>0, <2>3 DEF SaveSnapshot, Saved, TypeOK, SavedOrSaving, Flagged, NodeRecord
    <2>4. CASE SaveFails(n)
      BY <1>0, <2>4 DEF SaveFails, Saved, TypeOK, SavedOrSaving, Flagged, NodeRecord
    <2> QED
      BY <1>9, <2>1, <2>2, <2>3, <2>4 DEF SaverStep
  <1>10. ASSUME NEW n \in Nodes, NEW f \in Filters, Scan(n, f) \/ Fill(n, f)
         PROVE  SavedOrSaving(node'[s], snap'[s])
    <2>1. CASE Scan(n, f)
      <3>1. PICK e : node' = [node EXCEPT ![n] = [node[n] EXCEPT !.scan = e]] /\ snap' = snap
        BY <2>1 DEF Scan
      <3>2. SavedOrSaving([node[s] EXCEPT !.scan = e], snap[s])
        BY <1>0, OtherFields DEF NodeRecord
      <3> QED
        BY <1>0, <3>1, <3>2, RecordStep
    <2>2. CASE Fill(n, f)
      <3> DEFINE c == [node[n].cache EXCEPT ![f] = node[n].scan[f]]
                 e == [node[n].scan EXCEPT ![f] = Miss]
      <3>1. /\ node' = [node EXCEPT ![n] = [node[n] EXCEPT !.cache = c, !.scan = e]]
            /\ snap' = snap
        BY <2>2 DEF Fill
      <3> HIDE DEF c, e
      <3> DEFINE r == [node[s] EXCEPT !.cache = c, !.scan = e]
      <3>2. /\ r.up = node[s].up /\ r.dirty = node[s].dirty /\ r.saver = node[s].saver
            /\ r.buf = node[s].buf /\ r.map = node[s].map /\ r.pc = node[s].pc
            /\ r.failed = node[s].failed
        BY <1>0 DEF NodeRecord
      <3> HIDE DEF r
      <3>3. SavedOrSaving(r, snap[s])
        BY <1>0, <3>2, OtherFields
      <3>4. n = s => SavedOrSaving([node[n] EXCEPT !.cache = c, !.scan = e], snap[s])
        BY <3>3 DEF r
      <3> QED
        BY <1>0, <3>1, <3>4, RecordStep
    <2> QED
      BY <1>10, <2>1, <2>2
  <1>11. CASE UNCHANGED vars
    BY <1>1, <1>11 DEF vars
  <1>12. ASSUME NEW n \in Nodes, QueryStep(n) PROVE SavedOrSaving(node'[s], snap'[s])
    BY <1>1, <1>12 DEF QueryStep, ServeQuery
  <1>13. ASSUME NEW m \in Nodes, NEW n \in Nodes, NEW k, LinkUp(m, n) \/ Cut(m, n, k)
         PROVE  SavedOrSaving(node'[s], snap'[s])
    BY <1>1, <1>13 DEF LinkUp, Cut
  <1>14. ASSUME NEW n \in Nodes, NEW t \in Topics, NEW kind \in Kinds, Write(n, t, kind)
         PROVE  SavedOrSaving(node'[s], snap'[s])
    BY <1>1, <1>14 DEF Write
  <1> QED
    BY <1>3, <1>4, <1>6, <1>7, <1>8, <1>9, <1>10, <1>11, <1>12, <1>13, <1>14
       DEF Next, NodeStep

(***************************************************************************)
(* The snapshot file is the replica whenever the dirty flag is clear,      *)
(* nobody is at work on either and the last write of the file did not      *)
(* fail: no insert or remove that races with the saver is lost.            *)
(***************************************************************************)
THEOREM SnapshotSafe == Spec => []SnapshotCurrent
  <1>1. Init => SaverInv
    <2> SUFFICES ASSUME Init, NEW n \in Savers PROVE SavedOrSaving(node[n], snap[n])
      BY DEF SaverInv
    <2>1. node[n] = Store(FALSE, Empty)
      BY RetainedAssumption DEF Init
    <2> QED
      BY <2>1, StoreSaved
  <1>2. TypeOK /\ SaverInv /\ [Next]_vars => SaverInv'
    BY SaverNext
  <1>3. SaverInv => SnapshotCurrent
    BY DEF SaverInv, SavedOrSaving, Flagged, SnapshotCurrent, Clean
  <1> QED
    BY <1>1, <1>2, <1>3, RetainedTypeCorrect, PTL DEF Spec

-----------------------------------------------------------------------------
(***************************************************************************)
(* StaysInSync needs three facts about every state: only a node that waits *)
(* for answers has asked, so that no reply reaches one that has caught up; *)
(* no node is linked to itself, so that a lost link never takes samples a  *)
(* node sent to itself; and samples of a topic are in the channels of the  *)
(* node it is written at only.                                             *)
(***************************************************************************)
Asking(n) == node[n].up /\ node[n].fetch = "replies"

OnlyAskingNodesAsked ==
    /\ \A q \in queries : Asking(q[1])
    /\ \A r \in replies : Asking(r.to)

NoLoops == \A n \in Nodes : {n} \notin links

SamplesAtHome ==
    \A w \in Nodes, t \in Topics : OneHome(w, t) =>
        \A m \in Nodes \ {w}, n \in Nodes :
            \A i \in 1..Len(chan[m][n]) : chan[m][n][i][1] # t

SyncInv == OnlyAskingNodesAsked /\ NoLoops /\ SamplesAtHome

\* A new sample at the end is the last one on its topic.
LEMMA YieldsAppend ==
    ASSUME NEW q \in Seq(Topics \X Values), NEW u \in Topics, NEW x \in Values,
           NEW map, NEW t \in Topics, NEW v, NEW z,
           Yields(q, map, t, v), z = IF t = u THEN x ELSE v
    PROVE  Yields(Append(q, <<u, x>>), map, t, z)
  <1> DEFINE p == Append(q, <<u, x>>)
             l == Len(q)
  <1>1. /\ l \in Nat /\ Len(p) = l + 1 /\ p[l + 1] = <<u, x>>
        /\ \A i \in 1..l : p[i] = q[i]
    OBVIOUS
  <1> HIDE DEF p
  <1>2. ASSUME \A i \in 1..Len(p) : p[i][1] # t
        PROVE  map[t] = z
    <2>1. t # u
      BY <1>1, <1>2
    <2>2. \A i \in 1..Len(q) : q[i][1] # t
      BY <1>1, <1>2
    <2> QED
      BY <2>1, <2>2 DEF Yields
  <1>3. ASSUME NEW i \in 1..Len(p), LastOn(p, i, t)
        PROVE  p[i][2] = z
    <2>1. CASE i = l + 1
      BY <1>1, <1>3, <2>1 DEF LastOn
    <2>2. CASE i # l + 1
      <3>1. i \in 1..l /\ q[i] = p[i] /\ t # u
        BY <1>1, <1>3, <2>2 DEF LastOn
      <3>2. LastOn(q, i, t)
        BY <1>1, <1>3, <3>1 DEF LastOn
      <3> QED
        BY <3>1, <3>2 DEF Yields
    <2> QED
      BY <2>1, <2>2
  <1>4. Yields(p, map, t, z)
    BY <1>2, <1>3 DEF Yields
  <1> QED
    BY <1>4 DEF p

\* Applying the first sample of a channel changes nothing of what it yields.
LEMMA YieldsApply ==
    ASSUME NEW q \in Seq(Topics \X Values), q # << >>, NEW map \in Map, NEW t \in Topics, NEW v,
           Yields(q, map, t, v)
    PROVE  Yields(Tail(q), Stored(map, Head(q)[1], Head(q)[2]), t, v)
  <1> DEFINE p == Tail(q)
             l == Len(q)
             g == Stored(map, Head(q)[1], Head(q)[2])
  <1>1. /\ l \in Nat \ {0} /\ Len(p) = l - 1 /\ Head(q) = q[1]
        /\ \A i \in 1..(l - 1) : p[i] = q[i + 1]
    OBVIOUS
  <1>2. g[t] = IF t = q[1][1] THEN q[1][2] ELSE map[t]
    BY <1>1 DEF Stored, Map
  <1> HIDE DEF p, g
  <1>3. \A i \in 1..l : i > 1 => i - 1 \in 1..(l - 1) /\ p[i - 1] = q[i]
    BY <1>1
  <1>4. ASSUME \A i \in 1..Len(p) : p[i][1] # t
        PROVE  g[t] = v
    <2>1. \A i \in 1..l : i > 1 => q[i][1] # t
      BY <1>1, <1>3, <1>4
    <2>2. CASE q[1][1] = t
      <3>1. LastOn(q, 1, t) /\ 1 \in 1..Len(q)
        BY <1>1, <2>1, <2>2 DEF LastOn
      <3> QED
        BY <1>2, <2>2, <3>1 DEF Yields
    <2>3. CASE q[1][1] # t
      <3>1. \A i \in 1..Len(q) : q[i][1] # t
        BY <1>1, <2>1, <2>3
      <3> QED
        BY <1>2, <2>3, <3>1 DEF Yields
    <2> QED
      BY <2>2, <2>3
  <1>5. ASSUME NEW i \in 1..Len(p), LastOn(p, i, t)
        PROVE  p[i][2] = v
    <2>1. i + 1 \in 1..Len(q) /\ q[i + 1] = p[i]
      BY <1>1
    <2>2. ASSUME NEW j \in 1..Len(q), j > i + 1 PROVE q[j][1] # t
      <3>1. j - 1 \in 1..Len(p) /\ j - 1 > i /\ p[j - 1] = q[j]
        BY <1>1, <1>3, <2>2
      <3> QED
        BY <1>5, <3>1 DEF LastOn
    <2>3. LastOn(q, i + 1, t)
      BY <1>5, <2>1, <2>2 DEF LastOn
    <2> QED
      BY <2>1, <2>3 DEF Yields
  <1>6. Yields(p, g, t, v)
    BY <1>4, <1>5 DEF Yields
  <1> QED
    BY <1>6 DEF p, g

\* The same for a topic of which nothing is known but the sample itself.
LEMMA YieldsLast ==
    ASSUME NEW q \in Seq(Topics \X Values), NEW t \in Topics, NEW x \in Values, NEW map
    PROVE  Yields(Append(q, <<t, x>>), map, t, x)
  <1> DEFINE p == Append(q, <<t, x>>)
             l == Len(q)
  <1>1. l \in Nat /\ Len(p) = l + 1 /\ p[l + 1] = <<t, x>>
    OBVIOUS
  <1> HIDE DEF p
  <1>2. ~ \A i \in 1..Len(p) : p[i][1] # t
    BY <1>1
  <1>3. ASSUME NEW i \in 1..Len(p), LastOn(p, i, t)
        PROVE  p[i][2] = x
    <2>1. i = l + 1
      BY <1>1, <1>3 DEF LastOn
    <2> QED
      BY <1>1, <2>1
  <1>4. Yields(p, map, t, x)
    BY <1>2, <1>3 DEF Yields
  <1> QED
    BY <1>4 DEF p

\* Following goes on undisturbed where neither channel nor replica changes.
LEMMA KeepsFrame ==
    ASSUME NEW w \in Nodes, NEW n \in Nodes, NEW t \in Topics,
           newest'[t] = newest[t],
           Follows(n, w) /\ Follows(n, w)' => /\ chan'[w][n] = chan[w][n]
                                              /\ node'[n].map = node[n].map
    PROVE  KeepsInSync(n, w, t)
  BY DEF KeepsInSync, InSync

\* Steps that touch neither a replica nor what is on its way to one.
LEMMA SyncFrame ==
    ASSUME TypeOK, SyncInv, UNCHANGED <<links, chan, queries, replies, newest>>,
           \A n \in Nodes : /\ node'[n].up = node[n].up
                            /\ node'[n].map = node[n].map
                            /\ node'[n].fetch = node[n].fetch
    PROVE  SyncInv' /\ Replicates
  <1>1. \A n \in Nodes : Asking(n)' <=> Asking(n)
    BY DEF Asking
  <1>2. (\A q \in queries : q[1] \in Nodes) /\ (\A r \in replies : r.to \in Nodes)
    BY DEF TypeOK, Reply
  <1>3. OnlyAskingNodesAsked'
    BY <1>1, <1>2 DEF SyncInv, OnlyAskingNodesAsked
  <1>4. NoLoops' /\ SamplesAtHome'
    BY DEF SyncInv, NoLoops, SamplesAtHome
  <1>5. Replicates
    BY KeepsFrame DEF Replicates
  <1> QED
    BY <1>3, <1>4, <1>5 DEF SyncInv

\* A step of one node that leaves its replica alone.
LEMMA SyncRecord ==
    ASSUME TypeOK, SyncInv, NEW n \in Nodes, NEW r,
           node' = [node EXCEPT ![n] = r],
           r.up = node[n].up, r.map = node[n].map, r.fetch = node[n].fetch,
           UNCHANGED <<links, chan, queries, replies, newest>>
    PROVE  SyncInv' /\ Replicates
  <1>1. node'[n] = r /\ \A m \in Nodes \ {n} : node'[m] = node[m]
    BY DEF TypeOK
  <1> QED
    BY <1>1, SyncFrame

\* The flag, the cache and the snapshot file.
LEMMA SyncLocal ==
    ASSUME TypeOK, SyncInv, NEW n \in Nodes,
           \/ \E who \in Mutators : MutatorStep(n, who)
           \/ \E f \in Filters : Scan(n, f) \/ Fill(n, f)
           \/ SaverStep(n)
    PROVE  SyncInv' /\ Replicates
  <1>t. node[n] \in NodeRecord
    BY DEF TypeOK
  <1>1. ASSUME NEW who \in Mutators, MutatorStep(n, who)
        PROVE  SyncInv' /\ Replicates
    <2>1. CASE MarkDirty(n, who)
      <3> DEFINE r == [node[n] EXCEPT !.dirty = TRUE, !.pc = [@ EXCEPT ![who] = "invalidate"]]
      <3>1. node' = [node EXCEPT ![n] = r] /\ UNCHANGED <<links, chan, queries, replies, newest>>
        BY <2>1 DEF MarkDirty
      <3>2. r.up = node[n].up /\ r.map = node[n].map /\ r.fetch = node[n].fetch
        BY <1>t DEF NodeRecord
      <3> HIDE DEF r
      <3> QED
        BY <3>1, <3>2, SyncRecord
    <2>2. CASE Invalidate(n, who)
      <3> DEFINE miss == [f \in Filters |-> Miss]
                 r == [node[n] EXCEPT !.cache = miss, !.pc = [@ EXCEPT ![who] = "idle"]]
      <3>1. node' = [node EXCEPT ![n] = r] /\ UNCHANGED <<links, chan, queries, replies, newest>>
        BY <2>2 DEF Invalidate
      <3> HIDE DEF miss
      <3>2. r.up = node[n].up /\ r.map = node[n].map /\ r.fetch = node[n].fetch
        BY <1>t DEF NodeRecord
      <3> HIDE DEF r
      <3> QED
        BY <3>1, <3>2, SyncRecord
    <2> QED
      BY <1>1, <2>1, <2>2 DEF MutatorStep
  <1>2. ASSUME NEW f \in Filters, Scan(n, f)
        PROVE  SyncInv' /\ Replicates
    <2>1. PICK e : /\ node' = [node EXCEPT ![n] = [node[n] EXCEPT !.scan = e]]
                   /\ UNCHANGED <<links, chan, queries, replies, newest>>
      BY <1>2 DEF Scan
    <2> DEFINE r == [node[n] EXCEPT !.scan = e]
    <2>2. r.up = node[n].up /\ r.map = node[n].map /\ r.fetch = node[n].fetch
      BY <1>t DEF NodeRecord
    <2>3. node' = [node EXCEPT ![n] = r]
      BY <2>1
    <2> HIDE DEF r
    <2> QED
      BY <2>1, <2>2, <2>3, SyncRecord
  <1>3. ASSUME NEW f \in Filters, Fill(n, f)
        PROVE  SyncInv' /\ Replicates
    <2> DEFINE c == [node[n].cache EXCEPT ![f] = node[n].scan[f]]
               e == [node[n].scan EXCEPT ![f] = Miss]
               r == [node[n] EXCEPT !.cache = c, !.scan = e]
    <2>1. node' = [node EXCEPT ![n] = r] /\ UNCHANGED <<links, chan, queries, replies, newest>>
      BY <1>3 DEF Fill
    <2> HIDE DEF c, e
    <2>2. r.up = node[n].up /\ r.map = node[n].map /\ r.fetch = node[n].fetch
      BY <1>t DEF NodeRecord
    <2> HIDE DEF r
    <2> QED
      BY <2>1, <2>2, SyncRecord
  <1>4. CASE TakeDirty(n)
    <2> DEFINE r == [node[n] EXCEPT !.dirty = FALSE, !.saver = "snapshot"]
    <2>1. node' = [node EXCEPT ![n] = r] /\ UNCHANGED <<links, chan, queries, replies, newest>>
      BY <1>4 DEF TakeDirty
    <2>2. r.up = node[n].up /\ r.map = node[n].map /\ r.fetch = node[n].fetch
      BY <1>t DEF NodeRecord
    <2> HIDE DEF r
    <2> QED
      BY <2>1, <2>2, SyncRecord
  <1>5. CASE CopyMap(n)
    <2> DEFINE r == [node[n] EXCEPT !.buf = node[n].map, !.saver = "write"]
    <2>1. node' = [node EXCEPT ![n] = r] /\ UNCHANGED <<links, chan, queries, replies, newest>>
      BY <1>5 DEF CopyMap
    <2>2. r.up = node[n].up /\ r.map = node[n].map /\ r.fetch = node[n].fetch
      BY <1>t DEF NodeRecord
    <2> HIDE DEF r
    <2> QED
      BY <2>1, <2>2, SyncRecord
  <1>6. ASSUME NEW ok \in BOOLEAN, node' = [node EXCEPT ![n] = Saved(@, ok)],
               UNCHANGED <<links, chan, queries, replies, newest>>
        PROVE  SyncInv' /\ Replicates
    <2> DEFINE r == Saved(node[n], ok)
    <2>1. node' = [node EXCEPT ![n] = r]
      BY <1>6
    <2>2. r.up = node[n].up /\ r.map = node[n].map /\ r.fetch = node[n].fetch
      BY <1>t DEF NodeRecord, Saved
    <2> HIDE DEF r
    <2> QED
      BY <1>6, <2>1, <2>2, SyncRecord
  <1>7. CASE SaveSnapshot(n) \/ SaveFails(n)
    BY <1>6, <1>7 DEF SaveSnapshot, SaveFails
  <1> QED
    BY <1>1, <1>2, <1>3, <1>4, <1>5, <1>7 DEF SaverStep

\* Steps that change the asking of one node, and what it has asked for.
LEMMA SyncAsking ==
    ASSUME TypeOK, SyncInv, NEW n \in Nodes, UNCHANGED <<chan, newest>>, NoLoops',
           \A m \in Nodes \ {n} : node'[m] = node[m],
           ~Follows(n, n) \/ ~Follows(n, n)' \/ node'[n].map = node[n].map,
           \A q \in queries' : q \in queries \/ q[1] = n,
           \A r \in replies' : r \in replies \/ r.to = n,
           Asking(n)' \/ ((\A m \in Nodes : <<n, m>> \notin queries') /\ (\A r \in replies' : r.to # n)),
           queries' \subseteq Nodes \X Nodes, replies' \subseteq Reply
    PROVE  SyncInv' /\ Replicates
  <1>1. \A m \in Nodes \ {n} : Asking(m)' <=> Asking(m)
    BY DEF Asking
  <1>2. ASSUME NEW q \in queries' PROVE Asking(q[1])'
    <2>1. PICK a \in Nodes, b \in Nodes : q = <<a, b>>
      OBVIOUS
    <2>2. CASE a = n
      BY <1>2, <2>1, <2>2
    <2>3. CASE a # n
      <3>1. q \in queries /\ q[1] = a
        BY <2>1, <2>3
      <3>2. Asking(a)
        BY <3>1 DEF SyncInv, OnlyAskingNodesAsked
      <3>3. Asking(a)'
        BY <1>1, <2>3, <3>2
      <3> QED
        BY <3>1, <3>3
    <2> QED
      BY <2>2, <2>3
  <1>3. ASSUME NEW r \in replies' PROVE Asking(r.to)'
    <2>1. r.to \in Nodes
      BY DEF Reply
    <2>2. CASE r.to = n
      BY <1>3, <2>2
    <2>3. CASE r.to # n
      <3>1. r \in replies
        BY <2>3
      <3>2. Asking(r.to)
        BY <3>1 DEF SyncInv, OnlyAskingNodesAsked
      <3> QED
        BY <1>1, <2>1, <2>3, <3>2
    <2> QED
      BY <2>2, <2>3
  <1>4. OnlyAskingNodesAsked'
    BY <1>2, <1>3 DEF OnlyAskingNodesAsked
  <1>5. SamplesAtHome'
    BY DEF SyncInv, SamplesAtHome
  <1>6. ASSUME NEW w \in Nodes, NEW m \in Nodes, NEW t \in Topics PROVE KeepsInSync(m, w, t)
    <2>1. Follows(m, w) /\ Follows(m, w)' => node'[m].map = node[m].map
      <3>1. CASE m # n
        BY <3>1
      <3>2. CASE m = n
        BY <3>2 DEF Follows, Reaches
      <3> QED
        BY <3>1, <3>2
    <2> QED
      BY <2>1, KeepsFrame
  <1> QED
    BY <1>4, <1>5, <1>6 DEF SyncInv, Replicates

\* A node starts, asks its peers, or takes what they answer.
LEMMA SyncCatchUp ==
    ASSUME TypeOK, SyncInv, NEW n \in Nodes, Start(n) \/ FetchStep(n)
    PROVE  SyncInv' /\ Replicates
  <1>t. /\ node[n] \in NodeRecord /\ queries \subseteq Nodes \X Nodes /\ replies \subseteq Reply
        /\ \A r : node' = [node EXCEPT ![n] = r] =>
                     node'[n] = r /\ \A m \in Nodes \ {n} : node'[m] = node[m]
    BY DEF TypeOK
  <1>n. links' = links => NoLoops'
    BY DEF SyncInv, NoLoops
  <1>i. ~Asking(n) => (\A m \in Nodes : <<n, m>> \notin queries) /\ (\A r \in replies : r.to # n)
    BY DEF SyncInv, OnlyAskingNodesAsked
  <1>1. CASE Start(n)
    <2>1. /\ node' = [node EXCEPT ![n] = Store(TRUE, snap[n])] /\ ~node[n].up
          /\ UNCHANGED <<links, chan, queries, replies, newest>>
      BY <1>1 DEF Start
    <2>2. ~Follows(n, n) /\ ~Asking(n)
      BY <2>1 DEF Follows, Asking
    <2>3. \A m \in Nodes \ {n} : node'[m] = node[m]
      BY <1>t, <2>1
    <2> QED
      BY <1>t, <1>n, <1>i, <2>1, <2>2, <2>3, SyncAsking
  <1>2. CASE Get(n)
    <2> DEFINE r == [node[n] EXCEPT !.fetch = "replies"]
    <2>1. /\ node' = [node EXCEPT ![n] = r] /\ node[n].up
          /\ queries' = queries \cup {<<n, m>> : m \in {k \in Nodes : Reaches(n, k)}}
          /\ UNCHANGED <<links, chan, replies, newest>>
      BY <1>2 DEF Get
    <2>2. r.up = node[n].up /\ r.map = node[n].map /\ r.fetch = "replies"
      BY <1>t DEF NodeRecord
    <2> HIDE DEF r
    <2>3. node'[n] = r /\ \A m \in Nodes \ {n} : node'[m] = node[m]
      BY <1>t, <2>1
    <2>4. Asking(n)' /\ node'[n].map = node[n].map
      BY <2>1, <2>2, <2>3 DEF Asking
    <2>5. queries' \subseteq Nodes \X Nodes /\ \A q \in queries' : q \in queries \/ q[1] = n
      BY <1>t, <2>1
    <2>6. replies' \subseteq Reply /\ \A a \in replies' : a \in replies \/ a.to = n
      BY <1>t, <2>1
    <2> QED
      BY <1>n, <2>1, <2>3, <2>4, <2>5, <2>6, SyncAsking
  <1>3. CASE FetchDone(n)
    <2> DEFINE r == [node[n] EXCEPT !.fetch = "done"]
    <2>1. /\ node' = [node EXCEPT ![n] = r]
          /\ \A m \in Nodes : <<n, m>> \notin queries
          /\ \A a \in replies : a.to # n
          /\ UNCHANGED <<links, chan, queries, replies, newest>>
      BY <1>3 DEF FetchDone
    <2>2. r.map = node[n].map
      BY <1>t DEF NodeRecord
    <2> HIDE DEF r
    <2>3. node'[n] = r /\ \A m \in Nodes \ {n} : node'[m] = node[m]
      BY <1>t, <2>1
    <2> QED
      BY <1>t, <1>n, <2>1, <2>2, <2>3, SyncAsking
  <1>4. CASE InsertReply(n)
    <2>1. PICK a \in replies : /\ replies' = replies \ {a}
                               /\ node' = [node EXCEPT ![n] = Mutate(@, "fetch", a.topic, a.value)]
      BY <1>4 DEF InsertReply
    <2>2. /\ node[n].up /\ node[n].fetch = "replies"
          /\ UNCHANGED <<links, chan, queries, newest>>
      BY <1>4 DEF InsertReply
    <2> DEFINE r == Mutate(node[n], "fetch", a.topic, a.value)
    <2>3. r.up = node[n].up /\ r.fetch = node[n].fetch
      BY <1>t DEF NodeRecord, Mutate
    <2> HIDE DEF r
    <2>4. node'[n] = r /\ \A m \in Nodes \ {n} : node'[m] = node[m]
      BY <1>t, <2>1 DEF r
    <2>5. Asking(n)' /\ ~Follows(n, n)
      BY <2>2, <2>3, <2>4 DEF Asking, Follows
    <2> QED
      BY <1>t, <1>n, <2>1, <2>2, <2>4, <2>5, SyncAsking
  <1> QED
    BY <1>1, <1>2, <1>3, <1>4 DEF FetchStep

\* Answers go to a node that waits for them.
LEMMA SyncServe ==
    ASSUME TypeOK, SyncInv, NEW n \in Nodes, NEW m \in Nodes, ServeQuery(n, m)
    PROVE  SyncInv' /\ Replicates
  <1>1. /\ <<n, m>> \in queries /\ queries' = queries \ {<<n, m>>}
        /\ UNCHANGED <<node, links, chan, newest>>
    BY DEF ServeQuery
  <1>2. Asking(n) /\ Asking(n)'
    BY <1>1 DEF SyncInv, OnlyAskingNodesAsked, Asking
  <1>3. \A r \in replies' : r \in replies \/ r.to = n
    BY DEF ServeQuery
  <1>4. queries' \subseteq Nodes \X Nodes /\ replies' \subseteq Reply
    <2>1. TypeOK'
      BY TypeServeQuery
    <2> QED
      BY <2>1 DEF TypeOK
  <1>5. NoLoops'
    BY <1>1 DEF SyncInv, NoLoops
  <1> QED
    BY <1>1, <1>2, <1>3, <1>4, <1>5, SyncAsking

\* A new link takes nothing away.
LEMMA SyncLinkUp ==
    ASSUME TypeOK, SyncInv, NEW m \in Nodes, NEW n \in Nodes, LinkUp(m, n)
    PROVE  SyncInv' /\ Replicates
  <1>1. /\ m # n /\ links' = links \cup {{m, n}}
        /\ UNCHANGED <<node, chan, queries, replies, newest>>
    BY DEF LinkUp
  <1>2. NoLoops'
    BY <1>1 DEF SyncInv, NoLoops
  <1>3. OnlyAskingNodesAsked' /\ SamplesAtHome'
    BY <1>1 DEF SyncInv, OnlyAskingNodesAsked, SamplesAtHome, Asking
  <1>4. Replicates
    BY <1>1, KeepsFrame DEF Replicates
  <1> QED
    BY <1>2, <1>3, <1>4 DEF SyncInv

\* What is left of a channel is a part of what was in it.
LEMMA PrefixSamples ==
    ASSUME NEW S, NEW q \in Seq(S), NEW k \in Nat
    PROVE  /\ Len(Prefix(q, k)) \in Nat
           /\ \A i \in 1..Len(Prefix(q, k)) : i \in 1..Len(q) /\ Prefix(q, k)[i] = q[i]
  BY DEF Prefix

\* Every channel holds samples.
LEMMA ChannelType ==
    ASSUME TypeOK
    PROVE  \A m, n \in Nodes : chan[m][n] \in Seq(Topics \X Values)
  BY DEF TypeOK

\* A lost link: its two ends no longer follow each other.
LEMMA SyncCut ==
    ASSUME TypeOK, SyncInv, NEW a \in Nodes, NEW b \in Nodes, NEW k \in 0..MaxWrites, Cut(a, b, k)
    PROVE  SyncInv' /\ Replicates
  <1>1. /\ {a, b} \in links /\ links' = links \ {{a, b}}
        /\ queries' = queries \ Between(a, b)
        /\ UNCHANGED <<node, replies, newest>>
    BY DEF Cut
  <1>2. \A m, n \in Nodes : chan'[m][n] = IF {m, n} = {a, b} THEN Prefix(chan[m][n], k)
                                                             ELSE chan[m][n]
    BY DEF Cut
  <1>k. k \in Nat
    BY RetainedAssumption
  <1>3. NoLoops'
    BY <1>1 DEF SyncInv, NoLoops
  <1>4. OnlyAskingNodesAsked'
    BY <1>1 DEF SyncInv, OnlyAskingNodesAsked, Asking
  <1>5. SamplesAtHome'
    <2> SUFFICES ASSUME NEW w \in Nodes, NEW t \in Topics, OneHome(w, t), NEW m \in Nodes \ {w},
                        NEW n \in Nodes, NEW i \in 1..Len(chan'[m][n])
                 PROVE  chan'[m][n][i][1] # t
      BY DEF SamplesAtHome, OneHome
    <2>1. chan[m][n] \in Seq(Topics \X Values)
      BY ChannelType
    <2>2. i \in 1..Len(chan[m][n]) /\ chan'[m][n][i] = chan[m][n][i]
      <3>1. CASE {m, n} = {a, b}
        <4>1. chan'[m][n] = Prefix(chan[m][n], k)
          BY <1>2, <3>1
        <4> QED
          BY <1>k, <2>1, <4>1, PrefixSamples
      <3>2. CASE {m, n} # {a, b}
        BY <1>2, <3>2
      <3> QED
        BY <3>1, <3>2
    <2> QED
      BY <2>2 DEF SyncInv, SamplesAtHome
  <1>6. ASSUME NEW w \in Nodes, NEW n \in Nodes, NEW t \in Topics PROVE KeepsInSync(n, w, t)
    <2>1. Follows(n, w)' => {w, n} # {a, b}
      <3>1. CASE w = n
        BY <1>1, <3>1 DEF SyncInv, NoLoops
      <3>2. CASE w # n
        BY <1>1, <3>2 DEF Follows, Reaches
      <3> QED
        BY <3>1, <3>2
    <2>2. Follows(n, w)' => chan'[w][n] = chan[w][n]
      BY <1>2, <2>1
    <2> QED
      BY <1>1, <2>2, KeepsFrame
  <1> QED
    BY <1>3, <1>4, <1>5, <1>6 DEF SyncInv, Replicates

\* A node that dies follows nobody, and nobody follows it.
LEMMA SyncCrash ==
    ASSUME TypeOK, SyncInv, NEW a \in Nodes, NEW k \in 0..MaxWrites, Crash(a, k)
    PROVE  SyncInv' /\ Replicates
  <1>1. /\ node' = [node EXCEPT ![a] = Store(FALSE, Empty)]
        /\ links' = {l \in links : a \notin l}
        /\ queries' = {q \in queries : a \notin {q[1], q[2]}}
        /\ replies' = {r \in replies : r.to # a}
        /\ UNCHANGED newest
    BY DEF Crash
  <1>2. \A m, n \in Nodes : chan'[m][n] = IF n = a THEN << >>
                                          ELSE IF m = a THEN Prefix(chan[m][n], k)
                                          ELSE chan[m][n]
    BY DEF Crash
  <1>3. ~node'[a].up /\ \A m \in Nodes \ {a} : node'[m] = node[m]
    BY <1>1 DEF TypeOK, Store
  <1>k. k \in Nat
    BY RetainedAssumption
  <1>4. NoLoops'
    BY <1>1 DEF SyncInv, NoLoops
  <1>5. OnlyAskingNodesAsked'
    <2>1. \A m \in Nodes \ {a} : Asking(m) => Asking(m)'
      BY <1>3 DEF Asking
    <2>2. (\A q \in queries : q[1] \in Nodes) /\ (\A r \in replies : r.to \in Nodes)
      BY DEF TypeOK, Reply
    <2> QED
      BY <1>1, <2>1, <2>2 DEF SyncInv, OnlyAskingNodesAsked
  <1>6. SamplesAtHome'
    <2> SUFFICES ASSUME NEW w \in Nodes, NEW t \in Topics, OneHome(w, t), NEW m \in Nodes \ {w},
                        NEW n \in Nodes, NEW i \in 1..Len(chan'[m][n])
                 PROVE  chan'[m][n][i][1] # t
      BY DEF SamplesAtHome, OneHome
    <2>1. chan[m][n] \in Seq(Topics \X Values)
      BY ChannelType
    <2>2. i \in 1..Len(chan[m][n]) /\ chan'[m][n][i] = chan[m][n][i]
      <3>1. CASE n = a
        BY <1>2, <3>1
      <3>2. CASE n # a /\ m = a
        <4>1. chan'[m][n] = Prefix(chan[m][n], k)
          BY <1>2, <3>2
        <4> QED
          BY <1>k, <2>1, <4>1, PrefixSamples
      <3>3. CASE n # a /\ m # a
        BY <1>2, <3>3
      <3> QED
        BY <3>1, <3>2, <3>3
    <2> QED
      BY <2>2 DEF SyncInv, SamplesAtHome
  <1>7. ASSUME NEW w \in Nodes, NEW n \in Nodes, NEW t \in Topics PROVE KeepsInSync(n, w, t)
    <2>1. Follows(n, w)' => n # a /\ w # a
      BY <1>1, <1>3 DEF Follows, Reaches
    <2>2. Follows(n, w)' => chan'[w][n] = chan[w][n] /\ node'[n] = node[n]
      BY <1>2, <1>3, <2>1
    <2> QED
      BY <1>1, <2>2, KeepsFrame
  <1> QED
    BY <1>4, <1>5, <1>6, <1>7 DEF SyncInv, Replicates

\* A write reaches everyone who follows its node.
LEMMA SyncWrite ==
    ASSUME TypeOK, SyncInv, NEW a \in Nodes, NEW u \in Topics, <<a, u>> \in Writers,
           NEW kind \in Kinds, Write(a, u, kind)
    PROVE  SyncInv' /\ Replicates
  <1> DEFINE v == IF kind = "put" THEN made.writes + 1 ELSE None
  <1>1. /\ v \in Values
        /\ newest' = [newest EXCEPT ![u] = v]
        /\ chan' = [chan EXCEPT ![a] = [m \in Nodes |->
                      IF Reaches(a, m) THEN Append(@[m], <<u, v>>) ELSE @[m]]]
        /\ UNCHANGED <<node, links, queries, replies>>
    BY DEF Write, Values, None
  <1> HIDE DEF v
  <1>2. /\ \A m \in Nodes \ {a}, n \in Nodes : chan'[m][n] = chan[m][n]
        /\ \A n \in Nodes : chan'[a][n] = IF Reaches(a, n) THEN Append(chan[a][n], <<u, v>>)
                                                           ELSE chan[a][n]
    BY <1>1 DEF TypeOK
  <1>3. \A t \in Topics : newest'[t] = IF t = u THEN v ELSE newest[t]
    BY <1>1 DEF TypeOK, Map
  <1>4. NoLoops' /\ OnlyAskingNodesAsked'
    BY <1>1 DEF SyncInv, NoLoops, OnlyAskingNodesAsked, Asking
  <1>5. SamplesAtHome'
    <2> SUFFICES ASSUME NEW w \in Nodes, NEW t \in Topics, OneHome(w, t), NEW m \in Nodes \ {w},
                        NEW n \in Nodes, NEW i \in 1..Len(chan'[m][n])
                 PROVE  chan'[m][n][i][1] # t
      BY DEF SamplesAtHome, OneHome
    <2>1. \A j \in 1..Len(chan[m][n]) : chan[m][n][j][1] # t
      BY DEF SyncInv, SamplesAtHome
    <2>2. CASE m = a /\ Reaches(a, n)
      <3>1. u # t
        BY <2>2 DEF OneHome
      <3>2. chan'[m][n] = Append(chan[m][n], <<u, v>>) /\ chan[m][n] \in Seq(Topics \X Values)
        BY <1>2, <2>2, ChannelType
      <3>3. CASE i = Len(chan[m][n]) + 1
        BY <3>1, <3>2, <3>3
      <3>4. CASE i # Len(chan[m][n]) + 1
        <4>1. i \in 1..Len(chan[m][n]) /\ chan'[m][n][i] = chan[m][n][i]
          BY <3>2, <3>4
        <4> QED
          BY <2>1, <4>1
      <3> QED
        BY <3>3, <3>4
    <2>3. CASE ~(m = a /\ Reaches(a, n))
      BY <1>2, <2>1, <2>3
    <2> QED
      BY <2>2, <2>3
  <1>6. ASSUME NEW w \in Nodes, NEW n \in Nodes, NEW t \in Topics, OneHome(w, t)
        PROVE  KeepsInSync(n, w, t)
    <2> SUFFICES ASSUME Follows(n, w), InSync(n, w, t) \/ newest'[t] # newest[t]
                 PROVE  Yields(chan'[w][n], node'[n].map, t, newest'[t])
      BY DEF KeepsInSync, InSync
    <2>1. chan[w][n] \in Seq(Topics \X Values) /\ node' = node
      BY <1>1, ChannelType
    <2>2. CASE w # a
      <3>1. t # u
        BY <1>6, <2>2 DEF OneHome
      <3>2. newest'[t] = newest[t] /\ chan'[w][n] = chan[w][n]
        BY <1>2, <1>3, <2>2, <3>1
      <3> QED
        BY <2>1, <3>2 DEF InSync
    <2>3. CASE w = a
      <3>1. chan'[w][n] = Append(chan[w][n], <<u, v>>)
        BY <1>2, <2>3 DEF Follows
      <3>2. CASE t = u
        <4>1. Yields(Append(chan[w][n], <<u, v>>), node[n].map, u, v)
          BY <1>1, <2>1, YieldsLast
        <4> QED
          BY <1>3, <2>1, <3>1, <3>2, <4>1
      <3>3. CASE t # u
        <4>1. newest'[t] = newest[t] /\ Yields(chan[w][n], node[n].map, t, newest[t])
          BY <1>3, <3>3 DEF InSync
        <4>2. newest'[t] = IF t = u THEN v ELSE newest[t]
          BY <1>3
        <4>3. Yields(Append(chan[w][n], <<u, v>>), node[n].map, t, newest'[t])
          BY <1>1, <2>1, <4>1, <4>2, YieldsAppend
        <4> QED
          BY <2>1, <3>1, <4>3
      <3> QED
        BY <3>2, <3>3
    <2> QED
      BY <2>2, <2>3
  <1> QED
    BY <1>4, <1>5, <1>6 DEF SyncInv, Replicates

\* The live subscriber takes the first sample of a channel.
LEMMA SyncApply ==
    ASSUME TypeOK, SyncInv, NEW a \in Nodes, NEW b \in Nodes, Apply(a, b)
    PROVE  SyncInv' /\ Replicates
  <1> DEFINE q == chan[b][a]
             g == Stored(node[a].map, Head(q)[1], Head(q)[2])
             r == Mutate(node[a], "live", Head(q)[1], Head(q)[2])
  <1>1. /\ q # << >>
        /\ chan' = [chan EXCEPT ![b][a] = Tail(@)]
        /\ node' = [node EXCEPT ![a] = r]
        /\ UNCHANGED <<links, queries, replies, newest>>
    BY DEF Apply
  <1>2. q \in Seq(Topics \X Values) /\ node[a] \in NodeRecord /\ node[a].map \in Map
    BY ChannelType DEF TypeOK, NodeRecord
  <1>3. r.map = g /\ r.up = node[a].up /\ r.fetch = node[a].fetch
    BY <1>2 DEF Mutate, NodeRecord
  <1> HIDE DEF r
  <1>4. node'[a] = r /\ \A m \in Nodes \ {a} : node'[m] = node[m]
    BY <1>1 DEF TypeOK
  <1>5. chan'[b][a] = Tail(q) /\ \A m, n \in Nodes : m # b \/ n # a => chan'[m][n] = chan[m][n]
    BY <1>1 DEF TypeOK
  <1>6. Head(q) = q[1] /\ Head(q)[1] \in Topics /\ Len(q) \in Nat \ {0}
    BY <1>1, <1>2
  <1>7. \A i \in 1..Len(Tail(q)) : i + 1 \in 1..Len(q) /\ Tail(q)[i] = q[i + 1]
    BY <1>1, <1>2
  <1>8. \A m \in Nodes : Asking(m) <=> Asking(m)'
    BY <1>3, <1>4 DEF Asking
  <1>9. NoLoops' /\ OnlyAskingNodesAsked'
    <2>1. (\A e \in queries : e[1] \in Nodes) /\ (\A e \in replies : e.to \in Nodes)
      BY DEF TypeOK, Reply
    <2> QED
      BY <1>1, <1>8, <2>1 DEF SyncInv, NoLoops, OnlyAskingNodesAsked
  <1>10. SamplesAtHome'
    <2> SUFFICES ASSUME NEW w \in Nodes, NEW t \in Topics, OneHome(w, t), NEW m \in Nodes \ {w},
                        NEW n \in Nodes, NEW i \in 1..Len(chan'[m][n])
                 PROVE  chan'[m][n][i][1] # t
      BY DEF SamplesAtHome, OneHome
    <2>1. \A j \in 1..Len(chan[m][n]) : chan[m][n][j][1] # t
      BY DEF SyncInv, SamplesAtHome
    <2>2. CASE m = b /\ n = a
      <3>1. i \in 1..Len(Tail(q)) /\ chan'[m][n][i] = Tail(q)[i]
        BY <1>5, <2>2
      <3>2. i + 1 \in 1..Len(q) /\ Tail(q)[i] = q[i + 1]
        BY <1>7, <3>1
      <3> QED
        BY <2>1, <2>2, <3>1, <3>2
    <2>3. CASE ~(m = b /\ n = a)
      BY <1>5, <2>1, <2>3
    <2> QED
      BY <2>2, <2>3
  <1>11. ASSUME NEW w \in Nodes, NEW n \in Nodes, NEW t \in Topics, OneHome(w, t)
         PROVE  KeepsInSync(n, w, t)
    <2>1. CASE n # a
      BY <1>1, <1>4, <1>5, <2>1, KeepsFrame
    <2>2. CASE n = a /\ w # b
      <3>1. Head(q)[1] # t
        <4>1. 1 \in 1..Len(q) /\ \A j \in 1..Len(q) : q[j][1] # t
          BY <1>6, <1>11, <2>2 DEF SyncInv, SamplesAtHome
        <4> QED
          BY <1>6, <4>1
      <3>2. g[t] = node[a].map[t]
        BY <1>2, <3>1 DEF Stored, Map
      <3>3. chan'[w][n] = chan[w][n] /\ node'[n].map[t] = node[n].map[t] /\ newest' = newest
        BY <1>1, <1>3, <1>4, <1>5, <2>2, <3>2
      <3> QED
        BY <3>3 DEF KeepsInSync, InSync, Yields
    <2>3. CASE n = a /\ w = b
      <3> SUFFICES ASSUME InSync(n, w, t)
                   PROVE  InSync(n, w, t)'
        BY <1>1 DEF KeepsInSync
      <3>1. Yields(q, node[a].map, t, newest[t])
        BY <2>3 DEF InSync
      <3> HIDE DEF q
      <3>2. Yields(Tail(q), g, t, newest[t])
        BY <1>1, <1>2, <3>1, YieldsApply
      <3>3. chan'[w][n] = Tail(q) /\ node'[n].map = g /\ newest' = newest
        BY <1>1, <1>3, <1>4, <1>5, <2>3
      <3> HIDE DEF g
      <3> QED
        BY <3>2, <3>3 DEF InSync
    <2> QED
      BY <2>1, <2>2, <2>3
  <1> QED
    BY <1>9, <1>10, <1>11 DEF SyncInv, Replicates

\* The step of each action, together.
LEMMA SyncNext ==
    ASSUME TypeOK, SyncInv, [Next]_vars
    PROVE  SyncInv' /\ Replicates
  <1>1. ASSUME NEW n \in Nodes, NodeStep(n)
        PROVE  SyncInv' /\ Replicates
    <2>1. CASE LiveStep(n)
      BY <2>1, SyncApply DEF LiveStep
    <2>2. CASE QueryStep(n)
      BY <2>2, SyncServe DEF QueryStep
    <2>3. CASE FetchStep(n)
      BY <2>3, SyncCatchUp
    <2> QED
      BY <1>1, <2>1, <2>2, <2>3, SyncLocal DEF NodeStep
  <1>2. CASE UNCHANGED vars
    BY <1>2, SyncFrame DEF vars
  <1>3. ASSUME NEW n \in Nodes, NEW t \in Topics, NEW kind \in Kinds, <<n, t>> \in Writers,
               Write(n, t, kind)
        PROVE  SyncInv' /\ Replicates
    BY <1>3, SyncWrite
  <1>4. ASSUME NEW m \in Nodes, NEW n \in Nodes, NEW k \in 0..MaxWrites, Cut(m, n, k) \/ Crash(n, k)
        PROVE  SyncInv' /\ Replicates
    BY <1>4, SyncCut, SyncCrash
  <1> QED
    BY <1>1, <1>2, <1>3, <1>4, SyncCatchUp, SyncLocal, SyncLinkUp DEF Next

(***************************************************************************)
(* Live replication is exact: where the writes of a topic come from one    *)
(* node, a node that has caught up and stays linked to that node never     *)
(* falls out of step with the topic's newest write, or delete, and is in   *)
(* step from the next one on if its catch-up left it behind.  Nothing is   *)
(* assumed of the other nodes or of when anything happens: they start with *)
(* old snapshots, ask, answer, die and lose links as they like, and other  *)
(* topics are written anywhere.                                            *)
(***************************************************************************)
THEOREM ReplicaStaysInSync == Spec => StaysInSync
  <1>1. Init => SyncInv
    BY DEF Init, SyncInv, OnlyAskingNodesAsked, NoLoops, SamplesAtHome
  <1>2. TypeOK /\ SyncInv /\ [Next]_vars => SyncInv' /\ [Replicates]_vars
    BY SyncNext
  <1> QED
    BY <1>1, <1>2, RetainedTypeCorrect, PTL DEF Spec, StaysInSync


=============================================================================
