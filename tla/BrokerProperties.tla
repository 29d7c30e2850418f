-------------------------- MODULE BrokerProperties --------------------------
(***************************************************************************)
(* What the session layer is meant to guarantee.  The first part holds.    *)
(* The second states what a comment or document of the repository says and *)
(* the code does not do in every interleaving; the README tells for each   *)
(* of those which run, or which instance, shows it.                        *)
(***************************************************************************)
EXTENDS Broker

\* Connections that have attached and have not left their task yet.
Attached(c) == conn[c].pc \notin {"free", "replace", "attach", "bye", "closed"}

\* The connection whose epoch is the session's own.
Current(c) == Attached(c) /\ conn[c].epoch = sess[conn[c].sess].epoch

Live(t) == task[t].pc \notin {"free", "dead"}

-----------------------------------------------------------------------------
(***************************************************************************)
(* A superseded connection never takes the sink away from its successor    *)
(* (the epoch check of detach_conn and the same_channel checks of deliver  *)
(* and evict_slow): a session loses its sink only because the connection   *)
(* behind it has ended, has lost its writer or is the very one a delivery  *)
(* timed out on, because a newer one attaches, or because the process dies. *)
(***************************************************************************)
LosesSinkForCause ==
    \A s \in Sessions : \A c \in Conns :
        (sess[s].sink = c /\ sess'[s].sink # c) =>
            \/ conn[c].pc = "ended"
            \/ Closed(c)
            \/ SlowGrace /\ \E t \in Tasks : task[t].pc = "timeout" /\ task[t].tx = c
            \/ sess'[s].epoch > sess[s].epoch
            \/ node'.state = "down"

SinkLostForCause == [][LosesSinkForCause]_vars

(***************************************************************************)
(* The sink is the channel of the connection that attached last, and no    *)
(* connection that attached to the session earlier has a sink anywhere:    *)
(* after a takeover live messages go to the winner only.                   *)
(***************************************************************************)
SinkIsCurrent ==
    \A s \in Sessions : sess[s].sink # None =>
        LET c == sess[s].sink
        IN  /\ conn[c].sess = s
            /\ conn[c].epoch = sess[s].epoch
            /\ \A d \in Conns \ {c} :
                  Attached(d) /\ conn[d].sess = s => conn[d].epoch < conn[c].epoch

(***************************************************************************)
(* Nothing is stranded in the offline queue of a connected session: the    *)
(* queue is drained by attach_conn only, so a message queued behind a live *)
(* sink would wait for the next reconnect (deliver's second look at the    *)
(* sink under the lock is what prevents it).                               *)
(***************************************************************************)
QueueOnlyOffline ==
    \A s \in Sessions : sess[s].queue # << >> => sess[s].sink = None

(***************************************************************************)
(* The offline queue, in memory and on disk, never holds more than         *)
(* max_queued_per_session messages (deliver drops the oldest first,        *)
(* load_queue cuts what it reads).                                         *)
(***************************************************************************)
Bounded(q) == Len(q) <= MaxQueue

QueueBounded == Bounded(disk.queue) /\ \A s \in Sessions : Bounded(sess[s].queue)

(***************************************************************************)
(* The queue of a session with one subscription keeps publication order,   *)
(* in memory and on disk, through evictions, retries and drop-oldest.      *)
(***************************************************************************)
Ordered(q) == \A i, j \in 1..Len(q) : i < j => q[i] < q[j]

QueueInOrder == Ordered(disk.queue) /\ \A s \in Sessions : Ordered(sess[s].queue)

(***************************************************************************)
(* No QoS 1 message is lost without a trace and none is delivered twice:   *)
(* what zenoh handed to the forwarding tasks of a session is waiting in    *)
(* their inboxes, in the hands of deliver, in the offline queue, counted   *)
(* in dropped, in a drained backlog, or was put into an outbound channel.  *)
(* (While the process lives and no subscription is aborted.)               *)
(***************************************************************************)
TasksOf(s) == {t \in Tasks : task[t].sess = s}

ConnsOf(s) == {c \in Conns : conn[c].sess = s}

Handed(s) ==
    UNION {{<<t, i>> : i \in 1..task[t].got} : t \in TasksOf(s)}

InTasks(s) ==
    UNION {{<<t, i>> : i \in 1..(Len(task[t].inbox) + IF task[t].msg = None THEN 0 ELSE 1)}
             : t \in TasksOf(s)}

InBacklog(s) == UNION {{<<c, i>> : i \in DOMAIN conn[c].backlog} : c \in ConnsOf(s)}

InChannel(s) ==
    UNION {{<<c, i>> : i \in {j \in DOMAIN conn[c].out : conn[c].out[j].kind \in {"live", "backlog"}}}
             : c \in ConnsOf(s)}

EveryMessageAccountedFor ==
    \A s \in Sessions :
        Cardinality(Handed(s)) =
            Cardinality(InTasks(s)) + Len(sess[s].queue) + sess[s].dropped
              + Cardinality(InBacklog(s)) + Cardinality(InChannel(s))

(***************************************************************************)
(* A persistent session with one QoS 1 subscription is a mailbox           *)
(* (module Mailbox), whatever connections take it over from each other,    *)
(* block, fail or are evicted: deliver and attach_conn between them lose,  *)
(* duplicate and reorder nothing on the way from the mesh to a connection. *)
(* The box is the offline queue, what deliver has in its hands and what    *)
(* waits for it, in this order.  (While the process lives, the session is  *)
(* not swept and the subscription is kept.)                                *)
(***************************************************************************)
InHand(k) == IF k.msg = None THEN << >> ELSE <<k.msg>>

Passed(c) ==
    {conn[c].backlog[i] : i \in DOMAIN conn[c].backlog}
      \cup {conn[c].out[i].msg : i \in {j \in DOMAIN conn[c].out : conn[c].out[j].msg # None}}

Box == INSTANCE Mailbox
    WITH Message <- Msgs, Capacity <- MaxQueue,
         box     <- sess[1].queue \o InHand(task[1]) \o task[1].inbox,
         handed  <- UNION {Passed(c) : c \in Conns},
         dropped <- sess[1].dropped

ImplementsMailbox == Box!Spec

(***************************************************************************)
(* The queue file never holds a message that was already handed to a       *)
(* connection as backlog, except until attach_conn's own delete: a restart *)
(* does not replay what a client has been sent.                            *)
(***************************************************************************)
NoReplayOfDrained ==
    \A s \in Sessions :
        (registry = s /\ sess[s].durable /\ \A c \in Conns : conn[c].pc # "discard")
            => disk.queue \in {<< >>, sess[s].queue}

(***************************************************************************)
(* While a session is registered and nothing discards stored state, its    *)
(* subscription file says exactly which subscriptions are active, at which *)
(* QoS: a restart brings back neither more nor less.                       *)
(***************************************************************************)
SubsFileMirrors ==
    \A s \in Sessions :
        registry = s /\ sess[s].durable => disk.subs = Entries(sess[s], QoSOf(task))

(***************************************************************************)
(* With cleanSession=1 only: the newest connection that is being served    *)
(* runs on the registered session, whatever older ones do while they shut  *)
(* down (the ptr_eq check of detach).                                      *)
(***************************************************************************)
NewestIsRegistered ==
    \A c \in Conns :
        (Attached(c) /\ conn[c].pc # "unmap" /\ c = made.conn) => registry = conn[c].sess

(***************************************************************************)
(* A forwarding task that nothing will stop belongs to a session that is   *)
(* registered or that still has a connection to clean up after it: clean   *)
(* sessions leave no subscriber behind in the mesh.                        *)
(***************************************************************************)
NoOrphanTask ==
    \A t \in Tasks :
        Live(t) /\ ~task[t].aborted =>
            \/ registry = task[t].sess
            \/ \E c \in Conns : Attached(c) /\ conn[c].sess = task[t].sess

(***************************************************************************)
(* deliver returns: a client that stops reading cannot stall a forwarding  *)
(* task for ever when a slow-consumer grace is configured.                 *)
(***************************************************************************)
DeliverReturns ==
    \A t \in Tasks :
        task[t].pc \in {"look", "send", "blocked", "timeout", "failed", "offline"}
            ~> task[t].pc \in {"recv", "dead", "free"}

(***************************************************************************)
(* "Seconds an offline persistent session (cleanSession=0) is kept before  *)
(* its subscriptions and queue are discarded" (config.rs): a registered    *)
(* session that no connection serves any more does not stay so for ever,   *)
(* once its sink is gone or a message is there to find out.  Without       *)
(* either a session whose connection failed inside serve keeps its sink,   *)
(* has no offline_since, and is not swept (LostExpires).  (While the       *)
(* process lives: a rehydrated session has no offline_since at all.)       *)
(***************************************************************************)
Lost(s) ==
    /\ registry = s
    /\ \/ sess[s].sink = None
       \/ \A c \in ConnsOf(s) : conn[c].pc = "closed"

\* deliver has, or will have, a message to put into the session's sink.
Delivering(s) ==
    \E t \in TasksOf(s) :
        ~task[t].aborted /\ (task[t].inbox # << >> \/ task[t].msg # None)

OfflineExpires ==
    \A s \in Sessions :
        (Lost(s) /\ (sess[s].sink = None \/ Delivering(s))) ~> ~Lost(s)

(***************************************************************************)
(* "Rehydrate replays them so an offline session's zenoh subscribers       *)
(* resume immediately after a node restart" (session.rs): a persisted      *)
(* subscription is active again, at its QoS, when the node is next up,     *)
(* unless the ACL of a restart denies it.                                  *)
(***************************************************************************)
Active(f, qos) ==
    /\ node.state = "up"
    /\ registry # None
    /\ sess[registry].subs[f] # None
    /\ task[sess[registry].subs[f]].qos = qos

RestartResumes ==
    \A f \in Filters, qos \in QoS :
        (node.state = "down" /\ <<f, qos>> \in disk.subs)
            ~> (Active(f, qos) \/ (node.state # "down" /\ f \notin node.acl))

-----------------------------------------------------------------------------
(***************************************************************************)
(* connection.rs: "Offline backlog drains first, before any live traffic": *)
(* in each connection's outbound stream CONNACK comes first, and no live   *)
(* message comes before a backlog message.                                 *)
(***************************************************************************)
BacklogFirst ==
    \A c \in Conns : \A i, j \in DOMAIN conn[c].out :
        i < j /\ conn[c].out[i].kind = "live" => conn[c].out[j].kind # "backlog"

(***************************************************************************)
(* session.rs: "Reconnecting with the same client id takes the session     *)
(* over: the old connection is kicked": a superseded connection ends.      *)
(***************************************************************************)
TakeoverKicks ==
    \A c \in Conns : (Attached(c) /\ ~Current(c)) ~> conn[c].pc = "closed"

(***************************************************************************)
(* PLAN.md: a client whose outbound queue stays full past the grace "is    *)
(* disconnected": an evicted connection ends.                              *)
(***************************************************************************)
EvictedDisconnects ==
    \A c \in Conns :
        (Current(c) /\ ~Closed(c) /\ sess[conn[c].sess].sink = None)
            ~> ~Current(c)

(***************************************************************************)
(* config.rs, as quoted for OfflineExpires, without its condition: every   *)
(* session that has lost its last connection expires or is taken up again. *)
(***************************************************************************)
LostExpires == \A s \in Sessions : Lost(s) ~> ~Lost(s)

(***************************************************************************)
(* session.rs, detach: persistent sessions "stay registered, queueing,     *)
(* until expiry": with no expiry configured, a cleanSession=0 connection   *)
(* that is being served runs on the registered session.                    *)
(***************************************************************************)
PersistentStaysRegistered ==
    \A c \in Conns :
        (Current(c) /\ ~conn[c].clean /\ c = made.conn /\ conn[c].pc = "select")
            => registry = conn[c].sess

(***************************************************************************)
(* PLAN.md: "Already-queued messages survive a node restart": what is in   *)
(* a registered session's offline queue is in its file.                    *)
(***************************************************************************)
QueuedSurvives ==
    \A s \in Sessions :
        registry = s /\ sess[s].durable /\ sess[s].queue # << >> => disk.queue = sess[s].queue

(***************************************************************************)
(* README.md: with data_dir, persistent sessions have their backlog and    *)
(* subscription metadata on disk: a cleanSession=0 connection is served by *)
(* a session that persists.                                                *)
(***************************************************************************)
PersistentIsDurable ==
    \A c \in Conns :
        (DataDir /\ Attached(c) /\ ~conn[c].clean) => sess[conn[c].sess].durable

(***************************************************************************)
(* session.rs, attach: "cleanSession=1 discards any stored state": no      *)
(* state file exists while a clean session is registered.                  *)
(***************************************************************************)
CleanDiscards ==
    registry # None /\ ~sess[registry].durable => disk = NoFiles

(***************************************************************************)
(* connection.rs: "Abnormal termination (error or keep-alive timeout)      *)
(* fires the Last Will": no connection ends with its will still armed.     *)
(***************************************************************************)
WillIsSettled ==
    \A c \in Conns : conn[c].pc = "closed" => conn[c].will # "armed"

(***************************************************************************)
(* PLAN.md: "A live dashboard should key client liveness off this": the    *)
(* last lifecycle event does not say disconnected while the session's      *)
(* current connection is being served.                                     *)
(***************************************************************************)
LastEventIsTrue ==
    (\E c \in Conns : Current(c) /\ conn[c].pc = "select") => lastEvent = "connect"

(***************************************************************************)
(* session.rs, sweep: "Drop offline sessions older than expiry": a session *)
(* that the sweeper destroys has no connection.                            *)
(***************************************************************************)
SweepSparesOnline == sweeper.pc # "idle" => sess[sweeper.sess].sink = None

=============================================================================
