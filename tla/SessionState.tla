---------------------------- MODULE SessionState ----------------------------
(***************************************************************************)
(* The data of crates/entmoot-node/src/session.rs and what each method of  *)
(* SessionState does to it, as operators on records.  Every operator here  *)
(* is one critical section of the code (one hold of Inner's mutex, or one  *)
(* file operation); module Broker says who calls them and in which order.  *)
(*                                                                         *)
(* All of it is about ONE client id: the registry is a map from client id  *)
(* to session, and two client ids share no session, connection, forwarding *)
(* task or state file.                                                     *)
(***************************************************************************)
EXTENDS Naturals, Sequences, FiniteSets

CONSTANTS
    Filters,      \* topic filters the client may subscribe to
    MaxQueue,     \* max_queued_per_session
    DataDir,      \* TRUE iff data_dir is configured
    MaxSessions,  \* bound: SessionState objects made by one run of the node
    MaxConns,     \* bound: connections of the client
    MaxTasks,     \* bound: forwarding tasks spawned by one run of the node
    MaxMsgs       \* bound: messages published in the mesh

ASSUME ConstantsAssumption ==
    /\ MaxQueue \in Nat
    /\ DataDir \in BOOLEAN
    /\ MaxSessions \in Nat
    /\ MaxConns \in Nat
    /\ MaxTasks \in Nat
    /\ MaxMsgs \in Nat

Sessions == 1..MaxSessions
Conns    == 1..MaxConns
Tasks    == 1..MaxTasks
Msgs     == 1..MaxMsgs
None     == 0                        \* Option::None for each kind of handle
QoS      == {0, 1}                   \* granted: at most QoS 1

(***************************************************************************)
(* SessionState with its Inner.  sink and kick are named by the connection *)
(* that installed them (a channel and a Notify belong to one connection);  *)
(* a subscription is named by its forwarding task, which carries the       *)
(* granted QoS.  offline says that offline_since is Some: how long ago is  *)
(* left open, so an offline session may be expired at any moment.  durable *)
(* says that queue_path and subs_path are Some.                            *)
(***************************************************************************)
SessionRecord ==
    [epoch   : Nat,
     sink    : Conns \cup {None},
     kick    : Conns \cup {None},
     subs    : [Filters -> Tasks \cup {None}],
     queue   : Seq(Msgs),
     dropped : Nat,
     offline : BOOLEAN,
     durable : BOOLEAN]

NoSubs == [f \in Filters |-> None]

\* load_queue: what a new session starts from, keeping the newest MaxQueue.
load_queue(file) ==
    IF Len(file) <= MaxQueue
    THEN file
    ELSE SubSeq(file, Len(file) - MaxQueue + 1, Len(file))

\* SessionState::new.
new(durable, file) ==
    [epoch |-> 0, sink |-> None, kick |-> None, subs |-> NoSubs,
     queue |-> IF durable THEN load_queue(file) ELSE << >>,
     dropped |-> 0, offline |-> FALSE, durable |-> durable]

\* Mutant: the epoch is not advanced.
attach_conn_same_epoch(s, c) ==
    [s EXCEPT !.sink = c, !.kick = c, !.offline = FALSE, !.queue = << >>]

\* The locked part of attach_conn; the queue it drains goes to the caller.
attach_conn(s, c) ==
    [s EXCEPT !.epoch = @ + 1, !.sink = c, !.kick = c,
              !.offline = FALSE, !.queue = << >>]

\* Mutant: every connection may detach the session.
OwnsSession_unchecked(s, epoch) == TRUE

\* detach_conn answers whether the connection still owns the session ...
OwnsSession(s, epoch) == s.epoch = epoch

\* ... and, only then, takes it offline.
detach_conn(s, epoch) ==
    IF OwnsSession(s, epoch)
    THEN [s EXCEPT !.sink = None, !.kick = None, !.offline = TRUE]
    ELSE s

\* Mutant: the comparison is the wrong way round.
SameChannel_negated(s, tx) == s.sink # tx

\* evict_slow and the tail of deliver's failed send both take the session
\* offline, if the channel that failed is still its sink.
SameChannel(s, tx) == s.sink = tx

\* Mutant: offline_since is forgotten.
take_offline_untimed(s, tx) ==
    IF SameChannel(s, tx) THEN [s EXCEPT !.sink = None] ELSE s

take_offline(s, tx) ==
    IF SameChannel(s, tx) THEN [s EXCEPT !.sink = None, !.offline = TRUE] ELSE s

expired(s) == s.offline

insert_sub(s, f, t) == [s EXCEPT !.subs[f] = t]

remove_sub(s, f) == [s EXCEPT !.subs[f] = None]

abort_subs(s) == [s EXCEPT !.subs = NoSubs]

\* Mutant: the queue is let grow by one too many.
push_queue_off_by_one(s, m) ==
    IF Len(s.queue) > MaxQueue
    THEN [s EXCEPT !.queue = Append(Tail(@), m), !.dropped = @ + 1]
    ELSE [s EXCEPT !.queue = Append(@, m)]

\* Mutant: the new message goes to the front.
push_queue_front(s, m) ==
    IF Len(s.queue) >= MaxQueue
    THEN [s EXCEPT !.queue = <<m>> \o Tail(@), !.dropped = @ + 1]
    ELSE [s EXCEPT !.queue = <<m>> \o @]

\* Mutant: when the queue is full it is the new message that goes.
push_queue_drops_newest(s, m) ==
    IF Len(s.queue) >= MaxQueue
    THEN [s EXCEPT !.dropped = @ + 1]
    ELSE [s EXCEPT !.queue = Append(@, m)]

\* The offline branch of deliver: drop the oldest when full, then push.
push_queue(s, m) ==
    IF Len(s.queue) >= MaxQueue
    THEN [s EXCEPT !.queue = Append(Tail(@), m), !.dropped = @ + 1]
    ELSE [s EXCEPT !.queue = Append(@, m)]

(***************************************************************************)
(* The two state files of the client id.  Both are replaced by an atomic   *)
(* rename.  An empty value is a missing file: save_subs removes the file   *)
(* when there is nothing to write, and save_queue only ever runs just      *)
(* after a push.                                                           *)
(***************************************************************************)
DiskRecord == [queue : Seq(Msgs), subs : SUBSET (Filters \X QoS)]

NoFiles == [queue |-> << >>, subs |-> {}]

\* persist_queue, save_queue.
persist_queue(disk, s) == IF s.durable THEN [disk EXCEPT !.queue = s.queue] ELSE disk

\* persist_subs, save_subs: qosOf gives the QoS of a forwarding task.
Entries(s, qosOf) == {<<f, qosOf[s.subs[f]]>> : f \in {g \in Filters : s.subs[g] # None}}

\* Mutant: nothing to write, so the old file is left alone.
persist_subs_keeps_last(disk, s, qosOf) ==
    IF s.durable /\ Entries(s, qosOf) # {}
    THEN [disk EXCEPT !.subs = Entries(s, qosOf)]
    ELSE disk

persist_subs(disk, s, qosOf) ==
    IF s.durable THEN [disk EXCEPT !.subs = Entries(s, qosOf)] ELSE disk

\* Mutant: the drained queue's file is left behind.
discard_queue_file_skipped(disk, s) == disk

discard_queue_file(disk, s) == IF s.durable THEN [disk EXCEPT !.queue = << >>] ELSE disk

discard_state_files(disk, s) == IF s.durable THEN NoFiles ELSE disk

=============================================================================
