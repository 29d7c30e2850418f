------------------------------- MODULE Broker -------------------------------
(***************************************************************************)
(* The processes of one Entmoot node that work on the session of one       *)
(* client id, and how their steps interleave:                              *)
(*                                                                         *)
(*   - one connection task per TCP connection of the client                *)
(*     (connection.rs: serve, Client::run, and its writer task), which     *)
(*     attaches to, uses and detaches from the session;                    *)
(*   - one forwarding task per subscription (session.rs:                   *)
(*     activate_subscription and deliver), owned by the session;           *)
(*   - the expiry sweeper (lib.rs), and startup rehydration after a crash. *)
(*                                                                         *)
(* An action ends where the code awaits or gives up a mutex; what happens  *)
(* inside one critical section is one action.                              *)
(***************************************************************************)
EXTENDS SessionState

CONSTANTS
    TopicClasses, \* each topic is known by the set of filters it matches
    ReqQoS,       \* the QoS values a SUBSCRIBE asks for
    CleanFlags,   \* the cleanSession flags a CONNECT carries
    Requests,     \* the packets a client sends, by how they are handled
    OutCap,       \* OUTBOUND_QUEUE: capacity of a connection's channel
    SlowGrace,    \* TRUE iff slow_consumer_grace_ms > 0
    Expiry,       \* TRUE iff session_expiry_secs > 0
    ZenohFails,   \* TRUE iff declaring a subscriber may fail at startup
    MaxReplies,   \* bound: packets a connection sends in answer to requests
    MaxCrashes    \* bound: times the node process dies

ASSUME BrokerAssumption ==
    /\ TopicClasses \subseteq SUBSET Filters
    /\ ReqQoS \subseteq {0, 1, 2}
    /\ CleanFlags \subseteq BOOLEAN
    /\ Requests \subseteq {"subscribe", "unsubscribe", "reply"}
    /\ OutCap \in Nat \ {0}
    /\ SlowGrace \in BOOLEAN
    /\ Expiry \in BOOLEAN
    /\ ZenohFails \in BOOLEAN
    /\ MaxReplies \in Nat
    /\ MaxCrashes \in Nat

VARIABLES
    registry,   \* SessionRegistry.sessions for this client id
    sess,       \* every SessionState object made since the node started
    conn,       \* every connection
    task,       \* every forwarding task spawned since the node started
    disk,       \* the client's two state files
    node,       \* life of the process: state, ACL in force, rehydration
    sweeper,    \* the sweep in progress
    made,       \* how many sessions, connections and tasks exist
    pubs,       \* messages published so far: the newest message
    crashes,    \* times the process died so far
    lastEvent   \* newest connect or disconnect event on $meta/clients/<node>/<client>

vars == <<registry, sess, conn, task, disk, node, sweeper, made, pubs, crashes,
          lastEvent>>

-----------------------------------------------------------------------------
(***************************************************************************)
(* A connection.  out is everything ever put into its outbound channel and *)
(* written how much of it the writer task has taken out; epoch, backlog    *)
(* and present are AttachOutcome's.  notified is a wakeup that the select  *)
(* of Client::run has not acted on yet.                                    *)
(***************************************************************************)
ConnPC == {"free", "replace", "attach", "discard", "connack", "hello", "drain",
           "select", "subscribe", "insert", "unsubscribe", "reply",
           "ended", "purge", "unmap", "bye", "closed"}

Packet == [kind : {"connack", "backlog", "live", "reply"}, msg : Msgs \cup {None}]

ConnRecord ==
    [pc       : ConnPC,
     clean    : BOOLEAN,
     sess     : Sessions \cup {None},
     epoch    : Nat,
     present  : BOOLEAN,
     backlog  : Seq(Msgs),
     out      : Seq(Packet),
     written  : Nat,
     writer   : {"none", "up", "aborting", "gone"},
     notified : BOOLEAN,
     will     : {"armed", "fired", "discarded"},
     filter   : Filters \cup {None},
     task     : Tasks \cup {None}]

FreeConn ==
    [pc |-> "free", clean |-> FALSE, sess |-> None, epoch |-> 0, present |-> FALSE,
     backlog |-> << >>, out |-> << >>, written |-> 0, writer |-> "none",
     notified |-> FALSE, will |-> "armed", filter |-> None, task |-> None]

\* A forwarding task: the loop around deliver, and deliver's own locals.
TaskPC == {"free", "recv", "look", "send", "blocked", "timeout", "failed", "offline",
           "dead"}

TaskRecord ==
    [pc      : TaskPC,
     sess    : Sessions \cup {None},
     filter  : Filters \cup {None},
     qos     : QoS,
     msg     : Msgs \cup {None},
     tx      : Conns \cup {None},
     inbox   : Seq(Msgs),
     got     : Nat,          \* samples zenoh has handed over in all
     aborted : BOOLEAN]

FreeTask ==
    [pc |-> "free", sess |-> None, filter |-> None, qos |-> 0, msg |-> None,
     tx |-> None, inbox |-> << >>, got |-> 0, aborted |-> FALSE]

NodeRecord ==
    [state : {"up", "down", "rehydrate"},
     acl   : SUBSET Filters,
     sess  : Sessions \cup {None},
     todo  : SUBSET (Filters \X QoS)]

TypeOK ==
    /\ registry \in Sessions \cup {None}
    /\ sess \in [Sessions -> SessionRecord]
    /\ conn \in [Conns -> ConnRecord]
    /\ task \in [Tasks -> TaskRecord]
    /\ disk \in DiskRecord
    /\ node \in NodeRecord
    /\ sweeper \in [pc : {"idle", "abort", "discard"}, sess : Sessions \cup {None}]
    /\ made \in [sess : 0..MaxSessions, conn : 0..MaxConns, task : 0..MaxTasks]
    /\ pubs \in 0..MaxMsgs
    /\ crashes \in 0..MaxCrashes
    /\ lastEvent \in {"none", "connect", "disconnect"}

Init ==
    /\ registry = None
    /\ sess = [s \in Sessions |-> new(FALSE, << >>)]
    /\ conn = [c \in Conns |-> FreeConn]
    /\ task = [t \in Tasks |-> FreeTask]
    /\ disk = NoFiles
    /\ node = [state |-> "up", acl |-> Filters, sess |-> None, todo |-> {}]
    /\ sweeper = [pc |-> "idle", sess |-> None]
    /\ made = [sess |-> 0, conn |-> 0, task |-> 0]
    /\ pubs = 0
    /\ crashes = 0
    /\ lastEvent = "none"

-----------------------------------------------------------------------------
(***************************************************************************)
(* What tokio promises.                                                    *)
(***************************************************************************)

\* Notify::notify_waiters wakes a connection waiting in its select, and
\* leaves no permit behind for one that is busy elsewhere.
notify_waiters(cs, c) ==
    [d \in Conns |-> IF d = c /\ cs[d].pc = "select"
                     THEN [cs[d] EXCEPT !.notified = TRUE]
                     ELSE cs[d]]

\* A bounded mpsc channel: send waits for room and fails once the writer
\* task, which owns the receiver, is gone.
Room(c) == Len(conn[c].out) - conn[c].written < OutCap

Closed(c) == conn[c].writer = "gone"

Put(c, kind, m) == Append(conn[c].out, [kind |-> kind, msg |-> m])

Dead(k) == [k EXCEPT !.pc = "dead", !.msg = None, !.tx = None,
                     !.inbox = << >>, !.aborted = TRUE]

\* JoinHandle::abort ends a task that waits, and one that runs at the next
\* await that makes it wait.
CancelTask(k) ==
    IF k.pc = "blocked" \/ (k.pc = "recv" /\ k.inbox = << >>)
    THEN Dead(k)
    ELSE [k EXCEPT !.aborted = TRUE]

\* Mutant: the join handle is dropped, which detaches the task.
Abort_detached(ts, T) == ts

Abort(ts, T) == [t \in Tasks |-> IF t \in T THEN CancelTask(ts[t]) ELSE ts[t]]

\* deliver has returned: back to recv_async, where an aborted task dies if
\* no sample is waiting.
Return(k) ==
    IF k.aborted /\ k.inbox = << >>
    THEN Dead(k)
    ELSE [k EXCEPT !.pc = "recv", !.msg = None, !.tx = None]

SubTasks(s) == {sess[s].subs[f] : f \in Filters} \ {None}

QoSOf(ts) == [t \in Tasks |-> ts[t].qos]

-----------------------------------------------------------------------------
(***************************************************************************)
(* Connecting: SessionRegistry::attach.  Its first part runs under the     *)
(* registry's mutex, attach_conn under the session's, and the queue file   *)
(* is deleted after both are released.                                     *)
(***************************************************************************)

\* Nobody holds the registry's mutex: a connection keeps it while it
\* replaces a session (every other use of it is one action).
RegistryFree == \A d \in Conns : conn[d].pc # "replace"

NewConn(c) ==
    /\ node.state = "up"
    /\ RegistryFree
    /\ made.conn < MaxConns
    /\ c = made.conn + 1

Attaching(cs, c, clean, s, present) ==
    [cs EXCEPT ![c] = [FreeConn EXCEPT !.pc = "attach", !.clean = clean, !.sess = s,
                                       !.present = present, !.writer = "up"]]

\* attach finds a session and cleanSession is 0.
AttachExisting(c) ==
    /\ NewConn(c)
    /\ FALSE \in CleanFlags
    /\ registry # None
    /\ conn' = Attaching(conn, c, FALSE, registry, TRUE)
    /\ made' = [made EXCEPT !.conn = c]
    /\ UNCHANGED <<registry, sess, task, disk, node, sweeper, pubs, crashes, lastEvent>>

\* attach finds none and makes one, from the files unless cleanSession is 1.
AttachNew(c, clean) ==
    LET n    == made.sess + 1
        kept == IF clean THEN NoFiles ELSE disk
    IN  /\ NewConn(c)
        /\ registry = None
        /\ n \in Sessions
        /\ disk' = kept
        /\ sess' = [sess EXCEPT ![n] = new(~clean /\ DataDir, kept.queue)]
        /\ conn' = Attaching(conn, c, clean, n, kept # NoFiles)
        /\ registry' = n
        /\ made' = [made EXCEPT !.conn = c, !.sess = n]
        /\ UNCHANGED <<task, node, sweeper, pubs, crashes, lastEvent>>

\* attach finds one and cleanSession is 1: kick_current and abort_subs ...
DiscardExisting(c) ==
    /\ NewConn(c)
    /\ TRUE \in CleanFlags
    /\ registry # None
    /\ made.sess < MaxSessions
    /\ sess' = [sess EXCEPT ![registry] = abort_subs(@)]
    /\ task' = Abort(task, SubTasks(registry))
    /\ conn' = [notify_waiters(conn, sess[registry].kick) EXCEPT
                   ![c] = [FreeConn EXCEPT !.pc = "replace", !.clean = TRUE, !.writer = "up"]]
    /\ made' = [made EXCEPT !.conn = c]
    /\ UNCHANGED <<registry, disk, node, sweeper, pubs, crashes, lastEvent>>

\* ... then, with the session's mutex free in between, the files go and a
\* new session takes its place.
ReplaceSession(c) ==
    LET n == made.sess + 1
    IN  /\ conn[c].pc = "replace"
        /\ n \in Sessions
        /\ disk' = NoFiles
        /\ sess' = [sess EXCEPT ![n] = new(FALSE, << >>)]
        /\ conn' = [conn EXCEPT ![c].pc = "attach", ![c].sess = n]
        /\ registry' = n
        /\ made' = [made EXCEPT !.sess = n]
        /\ UNCHANGED <<task, node, sweeper, pubs, crashes, lastEvent>>

\* attach_conn under the session's mutex: kick the previous connection,
\* take its place, drain the queue.
AttachConn(c) ==
    LET s == conn[c].sess
    IN  /\ conn[c].pc = "attach"
        /\ sess' = [sess EXCEPT ![s] = attach_conn(@, c)]
        /\ conn' = [notify_waiters(conn, sess[s].kick) EXCEPT
                       ![c].pc = "discard",
                       ![c].epoch = sess'[s].epoch,
                       ![c].backlog = sess[s].queue]
        /\ UNCHANGED <<registry, task, disk, node, sweeper, made, pubs, crashes, lastEvent>>

\* The end of attach_conn, after the mutex is released.
DiscardQueueFile(c) ==
    /\ conn[c].pc = "discard"
    /\ disk' = discard_queue_file(disk, sess[conn[c].sess])
    /\ conn' = [conn EXCEPT ![c].pc = "connack"]
    /\ UNCHANGED <<registry, sess, task, node, sweeper, made, pubs, crashes, lastEvent>>

-----------------------------------------------------------------------------
(***************************************************************************)
(* serve: CONNACK, the connect event, the backlog, then Client::run.       *)
(***************************************************************************)
SendConnAck(c) ==
    /\ conn[c].pc = "connack"
    /\ ~Closed(c)
    /\ Room(c)
    /\ conn' = [conn EXCEPT ![c].pc = "hello", ![c].out = Put(c, "connack", None)]
    /\ UNCHANGED <<registry, sess, task, disk, node, sweeper, made, pubs, crashes, lastEvent>>

ConnectEvent(c) ==
    /\ conn[c].pc = "hello"
    /\ conn' = [conn EXCEPT ![c].pc = "drain"]
    /\ lastEvent' = "connect"
    /\ UNCHANGED <<registry, sess, task, disk, node, sweeper, made, pubs, crashes>>

DrainBacklog(c) ==
    /\ conn[c].pc = "drain"
    /\ conn[c].backlog # << >>
    /\ ~Closed(c)
    /\ Room(c)
    /\ conn' = [conn EXCEPT ![c].backlog = Tail(@),
                            ![c].out = Put(c, "backlog", Head(conn[c].backlog))]
    /\ UNCHANGED <<registry, sess, task, disk, node, sweeper, made, pubs, crashes, lastEvent>>

EnterRun(c) ==
    /\ conn[c].pc = "drain"
    /\ conn[c].backlog = << >>
    /\ conn' = [conn EXCEPT ![c].pc = "select"]
    /\ UNCHANGED <<registry, sess, task, disk, node, sweeper, made, pubs, crashes, lastEvent>>

\* The writer is gone before Client::run: serve returns through `?', past
\* the will, detach and the disconnect event.
ServeFails(c) ==
    /\ \/ conn[c].pc = "connack"
       \/ conn[c].pc = "drain" /\ conn[c].backlog # << >>
    /\ Closed(c)
    /\ conn' = [conn EXCEPT ![c].pc = "closed"]
    /\ UNCHANGED <<registry, sess, task, disk, node, sweeper, made, pubs, crashes, lastEvent>>

-----------------------------------------------------------------------------
(***************************************************************************)
(* Client::run.  A packet is a SUBSCRIBE or UNSUBSCRIBE, handled filter by *)
(* filter before its answer, or any other, answered by zero or more        *)
(* packets; retained messages sent after a SUBACK count as answers.        *)
(* select takes either ready branch: reading a packet drops the wakeup.    *)
(***************************************************************************)
Replies(c) == Cardinality({i \in DOMAIN conn[c].out : conn[c].out[i].kind = "reply"})

ReadPacket(c, handler) ==
    /\ conn[c].pc = "select"
    /\ Replies(c) < MaxReplies
    /\ conn' = [conn EXCEPT ![c].pc = handler, ![c].notified = FALSE]
    /\ UNCHANGED <<registry, sess, task, disk, node, sweeper, made, pubs, crashes, lastEvent>>

\* activate_subscription up to the spawn of the forwarding task.
Spawn(ts, t, s, f, qos) ==
    [ts EXCEPT ![t] = [FreeTask EXCEPT !.pc = "recv", !.sess = s, !.filter = f, !.qos = qos]]

\* Acl::may_subscribe, for the client's identity.
may_subscribe(f) == f \in node.acl

\* Mutant: the requested QoS is granted as it is.
Granted_as_requested(req) == req

\* Client::subscribe grants at most QoS 1, and refuses (leaving everything
\* as it is) what the ACL forbids or zenoh fails to declare.
Granted(req) == IF req = 0 THEN 0 ELSE 1

Subscribe(c, f, req) ==
    LET t == made.task + 1
    IN  /\ conn[c].pc = "subscribe"
        /\ may_subscribe(f)
        /\ t \in Tasks
        /\ task' = Spawn(task, t, conn[c].sess, f, Granted(req))
        /\ made' = [made EXCEPT !.task = t]
        /\ conn' = [conn EXCEPT ![c].pc = "insert", ![c].filter = f, ![c].task = t]
        /\ UNCHANGED <<registry, sess, disk, node, sweeper, pubs, crashes, lastEvent>>

\* activate_subscription's last line.
InsertSub(c) ==
    LET s == conn[c].sess
        f == conn[c].filter
    IN  /\ conn[c].pc = "insert"
        /\ sess' = [sess EXCEPT ![s] = insert_sub(@, f, conn[c].task)]
        /\ task' = Abort(task, {sess[s].subs[f]})
        /\ disk' = persist_subs(disk, sess'[s], QoSOf(task))
        /\ conn' = [conn EXCEPT ![c].pc = "subscribe", ![c].filter = None, ![c].task = None]
        /\ UNCHANGED <<registry, node, sweeper, made, pubs, crashes, lastEvent>>

Unsubscribe(c, f) ==
    LET s == conn[c].sess
    IN  /\ conn[c].pc = "unsubscribe"
        /\ sess' = [sess EXCEPT ![s] = remove_sub(@, f)]
        /\ task' = Abort(task, {sess[s].subs[f]})
        /\ disk' = persist_subs(disk, sess'[s], QoSOf(task))
        /\ UNCHANGED <<registry, conn, node, sweeper, made, pubs, crashes, lastEvent>>

Reply(c) ==
    /\ conn[c].pc \in {"subscribe", "unsubscribe", "reply"}
    /\ ~Closed(c)
    /\ Room(c)
    /\ conn[c].pc = "reply" => Replies(c) < MaxReplies
    /\ conn' = [conn EXCEPT ![c].pc = "reply", ![c].out = Put(c, "reply", None)]
    /\ UNCHANGED <<registry, sess, task, disk, node, sweeper, made, pubs, crashes, lastEvent>>

Handled(c) ==
    /\ conn[c].pc = "reply"
    /\ conn' = [conn EXCEPT ![c].pc = "select"]
    /\ UNCHANGED <<registry, sess, task, disk, node, sweeper, made, pubs, crashes, lastEvent>>

(***************************************************************************)
(* The end of Client::run: a DISCONNECT discards the will; a failed read,  *)
(* the keep-alive, a protocol error, a failed answer or a kick fire it.    *)
(* The writer task is aborted, which takes effect when it is next polled.  *)
(***************************************************************************)
EndRun(c, will) ==
    /\ conn' = [conn EXCEPT ![c].pc = "ended", ![c].will = will, ![c].notified = FALSE,
                            ![c].writer = IF @ = "up" THEN "aborting" ELSE @]
    /\ UNCHANGED <<registry, sess, task, disk, node, sweeper, made, pubs, crashes, lastEvent>>

Disconnect(c) == conn[c].pc = "select" /\ EndRun(c, "discarded")

RunFails(c) ==
    /\ \/ conn[c].pc = "select"
       \/ conn[c].pc \in {"subscribe", "unsubscribe", "reply"} /\ Closed(c)
    /\ EndRun(c, "fired")

Kicked(c) == conn[c].pc = "select" /\ conn[c].notified /\ EndRun(c, "fired")

-----------------------------------------------------------------------------
(***************************************************************************)
(* SessionRegistry::detach, and the disconnect event after it.             *)
(***************************************************************************)
DetachConn(c) ==
    LET s     == conn[c].sess
        owner == OwnsSession(sess[s], conn[c].epoch)
        destroy == owner /\ conn[c].clean
    IN  /\ conn[c].pc = "ended"
        /\ sess' = [sess EXCEPT ![s] = detach_conn(@, conn[c].epoch)]
        /\ conn' = [conn EXCEPT ![c].pc = IF destroy THEN "purge" ELSE "bye"]
        /\ UNCHANGED <<registry, task, disk, node, sweeper, made, pubs, crashes, lastEvent>>

\* A clean session has no files, so discard_state_files does nothing here.
Purge(c) ==
    LET s == conn[c].sess
    IN  /\ conn[c].pc = "purge"
        /\ sess' = [sess EXCEPT ![s] = abort_subs(@)]
        /\ task' = Abort(task, SubTasks(s))
        /\ disk' = discard_state_files(disk, sess[s])
        /\ conn' = [conn EXCEPT ![c].pc = "unmap"]
        /\ UNCHANGED <<registry, node, sweeper, made, pubs, crashes, lastEvent>>

\* Mutant: whatever is registered under the client id goes.
RemoveEntry_any(s) == None

\* Only its own entry: a reconnect may have replaced it.
RemoveEntry(s) == IF registry = s THEN None ELSE registry

Unmap(c) ==
    /\ conn[c].pc = "unmap"
    /\ RegistryFree
    /\ registry' = RemoveEntry(conn[c].sess)
    /\ conn' = [conn EXCEPT ![c].pc = "bye"]
    /\ UNCHANGED <<sess, task, disk, node, sweeper, made, pubs, crashes, lastEvent>>

DisconnectEvent(c) ==
    /\ conn[c].pc = "bye"
    /\ conn' = [conn EXCEPT ![c].pc = "closed"]
    /\ lastEvent' = "disconnect"
    /\ UNCHANGED <<registry, sess, task, disk, node, sweeper, made, pubs, crashes>>

-----------------------------------------------------------------------------
(***************************************************************************)
(* The writer task: it passes packets to the socket at the client's pace,  *)
(* and ends when a write fails or when it is aborted (running at that      *)
(* moment, it goes on until it next waits).                                *)
(***************************************************************************)
Write(c) ==
    /\ conn[c].writer \in {"up", "aborting"}
    /\ conn[c].written < Len(conn[c].out)
    /\ conn' = [conn EXCEPT ![c].written = @ + 1]
    /\ UNCHANGED <<registry, sess, task, disk, node, sweeper, made, pubs, crashes, lastEvent>>

\* A write needs a packet to fail on.
WriteFails(c) ==
    /\ conn[c].writer = "up"
    /\ conn[c].written > 0
    /\ conn' = [conn EXCEPT ![c].writer = "gone"]
    /\ UNCHANGED <<registry, sess, task, disk, node, sweeper, made, pubs, crashes, lastEvent>>

WriterAborts(c) ==
    /\ conn[c].writer = "aborting"
    /\ conn' = [conn EXCEPT ![c].writer = "gone"]
    /\ UNCHANGED <<registry, sess, task, disk, node, sweeper, made, pubs, crashes, lastEvent>>

-----------------------------------------------------------------------------
(***************************************************************************)
(* The mesh and the forwarding tasks.  zenoh hands a published sample to   *)
(* every declared subscriber it matches; deliver is one loop iteration per *)
(* message, from reading the sink to Sent, Queued or Dropped.              *)
(***************************************************************************)
Publish(class) ==
    LET m == pubs + 1
    IN  /\ m \in Msgs
        /\ node.state # "down"
        /\ pubs' = m
        /\ task' = [t \in Tasks |->
                      IF task[t].pc \notin {"free", "dead"} /\ task[t].filter \in class
                      THEN [task[t] EXCEPT !.inbox = Append(@, m), !.got = @ + 1]
                      ELSE task[t]]
        /\ UNCHANGED <<registry, sess, conn, disk, node, sweeper, made, crashes, lastEvent>>

Receive(t) ==
    /\ task[t].pc = "recv"
    /\ task[t].inbox # << >>
    /\ task' = [task EXCEPT ![t].pc = "look", ![t].msg = Head(task[t].inbox),
                            ![t].inbox = Tail(@)]
    /\ UNCHANGED <<registry, sess, conn, disk, node, sweeper, made, pubs, crashes, lastEvent>>

\* deliver copies the sink; offline, QoS 0 is dropped without a lock.
Queues(k) == k.qos # 0 /\ MaxQueue # 0

ReadSink(t) ==
    LET sink == sess[task[t].sess].sink
    IN  /\ task[t].pc = "look"
        /\ task' = [task EXCEPT ![t] =
                      CASE sink # None -> [@ EXCEPT !.pc = "send", !.tx = sink]
                        [] sink = None /\ Queues(@) -> [@ EXCEPT !.pc = "offline"]
                        [] sink = None /\ ~Queues(@) -> Return(@)]
        /\ UNCHANGED <<registry, sess, conn, disk, node, sweeper, made, pubs, crashes, lastEvent>>

SendLive(t) ==
    LET c == task[t].tx
    IN  /\ task[t].pc \in {"send", "blocked"}
        /\ ~Closed(c)
        /\ Room(c)
        /\ conn' = [conn EXCEPT ![c].out = Put(c, "live", task[t].msg)]
        /\ task' = [task EXCEPT ![t] = Return(@)]
        /\ UNCHANGED <<registry, sess, disk, node, sweeper, made, pubs, crashes, lastEvent>>

SendWaits(t) ==
    LET c == task[t].tx
    IN  /\ task[t].pc = "send"
        /\ ~Closed(c)
        /\ ~Room(c)
        /\ task' = [task EXCEPT ![t] = IF @.aborted THEN Dead(@) ELSE [@ EXCEPT !.pc = "blocked"]]
        /\ UNCHANGED <<registry, sess, conn, disk, node, sweeper, made, pubs, crashes, lastEvent>>

SendClosed(t) ==
    /\ task[t].pc \in {"send", "blocked"}
    /\ Closed(task[t].tx)
    /\ task' = [task EXCEPT ![t].pc = "failed"]
    /\ UNCHANGED <<registry, sess, conn, disk, node, sweeper, made, pubs, crashes, lastEvent>>

\* send_timeout gives up ...
SendTimesOut(t) ==
    LET tx == task[t].tx
    IN  /\ SlowGrace
        /\ task[t].pc = "blocked"
        /\ ~Closed(tx)
        /\ ~Room(tx)
        /\ task' = [task EXCEPT ![t].pc = "timeout"]
        /\ UNCHANGED <<registry, sess, conn, disk, node, sweeper, made, pubs, crashes, lastEvent>>

\* ... and evict_slow follows, unless a newer connection is there by then.
EvictSlow(t) ==
    LET s  == task[t].sess
        tx == task[t].tx
    IN  /\ task[t].pc = "timeout"
        /\ sess' = [sess EXCEPT ![s] = take_offline(@, tx)]
        /\ conn' = IF SameChannel(sess[s], tx)
                   THEN notify_waiters(conn, sess[s].kick)
                   ELSE conn
        /\ task' = [task EXCEPT ![t].pc = "failed"]
        /\ UNCHANGED <<registry, disk, node, sweeper, made, pubs, crashes, lastEvent>>

\* Mutant: the message of the failed send is given up.
Retry_gives_up(k) == Return(k)

Retry(k) == [k EXCEPT !.pc = "look", !.tx = None]

\* After a failed send: clear the sink if nobody replaced it, and retry.
ClearSink(t) ==
    LET s == task[t].sess
    IN  /\ task[t].pc = "failed"
        /\ sess' = [sess EXCEPT ![s] = take_offline(@, task[t].tx)]
        /\ task' = [task EXCEPT ![t] = Retry(@)]
        /\ UNCHANGED <<registry, conn, disk, node, sweeper, made, pubs, crashes, lastEvent>>

\* Mutant: no second look at the sink.
StillOffline_unchecked(s) == TRUE

\* deliver's offline branch looks at the sink again under the lock.
StillOffline(s) == s.sink = None

Enqueue(t) ==
    LET s == task[t].sess
    IN  /\ task[t].pc = "offline"
        /\ IF StillOffline(sess[s])
           THEN /\ sess' = [sess EXCEPT ![s] = push_queue(@, task[t].msg)]
                /\ disk' = persist_queue(disk, sess'[s])
                /\ task' = [task EXCEPT ![t] = Return(@)]
           ELSE /\ task' = [task EXCEPT ![t].pc = "look"]
                /\ UNCHANGED <<sess, disk>>
        /\ UNCHANGED <<registry, conn, node, sweeper, made, pubs, crashes, lastEvent>>

\* The abort reaches a task whose poll had not started.
TaskAborts(t) ==
    /\ task[t].pc = "recv"
    /\ task[t].aborted
    /\ task' = [task EXCEPT ![t] = Dead(@)]
    /\ UNCHANGED <<registry, sess, conn, disk, node, sweeper, made, pubs, crashes, lastEvent>>

-----------------------------------------------------------------------------
(***************************************************************************)
(* SessionRegistry::sweep: unregister what has expired under the           *)
(* registry's mutex, then destroy it.                                      *)
(***************************************************************************)
SweepRetain ==
    /\ Expiry
    /\ node.state = "up"
    /\ RegistryFree
    /\ sweeper.pc = "idle"
    /\ registry # None
    /\ expired(sess[registry])
    /\ sweeper' = [pc |-> "abort", sess |-> registry]
    /\ registry' = None
    /\ UNCHANGED <<sess, conn, task, disk, node, made, pubs, crashes, lastEvent>>

SweepAbort ==
    LET s == sweeper.sess
    IN  /\ sweeper.pc = "abort"
        /\ sess' = [sess EXCEPT ![s] = abort_subs(@)]
        /\ task' = Abort(task, SubTasks(s))
        /\ sweeper' = [sweeper EXCEPT !.pc = "discard"]
        /\ UNCHANGED <<registry, conn, disk, node, made, pubs, crashes, lastEvent>>

SweepDiscard ==
    /\ sweeper.pc = "discard"
    /\ disk' = discard_state_files(disk, sess[sweeper.sess])
    /\ sweeper' = [pc |-> "idle", sess |-> None]
    /\ UNCHANGED <<registry, sess, conn, task, node, made, pubs, crashes, lastEvent>>

-----------------------------------------------------------------------------
(***************************************************************************)
(* The process dies: only the files stay.  It starts again with whatever   *)
(* ACL its configuration now holds, and rehydrates the session before it   *)
(* accepts connections.                                                    *)
(***************************************************************************)
Crash ==
    /\ node.state # "down"
    /\ crashes < MaxCrashes
    /\ crashes' = crashes + 1
    /\ node' = [state |-> "down", acl |-> {}, sess |-> None, todo |-> {}]
    /\ registry' = None
    /\ sess' = [s \in Sessions |-> new(FALSE, << >>)]
    /\ task' = [t \in Tasks |-> FreeTask]
    /\ conn' = [c \in Conns |-> IF c <= made.conn THEN [FreeConn EXCEPT !.pc = "closed"]
                                                  ELSE FreeConn]
    /\ sweeper' = [pc |-> "idle", sess |-> None]
    /\ made' = [made EXCEPT !.sess = 0, !.task = 0]
    /\ UNCHANGED <<disk, pubs, lastEvent>>

\* run, up to the load of the subscription file in rehydrate_one.
Restart(acl) ==
    /\ node.state = "down"
    /\ IF disk.subs = {}
       THEN /\ node' = [node EXCEPT !.state = "up", !.acl = acl]
            /\ UNCHANGED <<sess, made>>
       ELSE /\ 1 \in Sessions
            /\ node' = [state |-> "rehydrate", acl |-> acl, sess |-> 1, todo |-> disk.subs]
            /\ sess' = [sess EXCEPT ![1] = new(TRUE, disk.queue)]
            /\ made' = [made EXCEPT !.sess = 1]
    /\ UNCHANGED <<registry, conn, task, disk, sweeper, pubs, crashes, lastEvent>>

\* Mutant: the check runs before the persisted identity is known.
StillPermitted_never(f) == FALSE

\* rehydrate_one checks the ACL now in force.
StillPermitted(f) == may_subscribe(f)

\* One persisted filter passes the current ACL and activate_subscription
\* declares it, inserts it and saves the subscriptions activated so far.
Rehydrate(f, qos) ==
    LET t == made.task + 1
        s == node.sess
    IN  /\ node.state = "rehydrate"
        /\ <<f, qos>> \in node.todo
        /\ StillPermitted(f)
        /\ t \in Tasks
        /\ task' = Spawn(task, t, s, f, qos)
        /\ made' = [made EXCEPT !.task = t]
        /\ sess' = [sess EXCEPT ![s] = insert_sub(@, f, t)]
        /\ disk' = persist_subs(disk, sess'[s], QoSOf(task'))
        /\ node' = [node EXCEPT !.todo = @ \ {<<f, qos>>}]
        /\ UNCHANGED <<registry, conn, sweeper, pubs, crashes, lastEvent>>

\* The ACL no longer permits the filter, or zenoh fails to declare it.
RehydrateSkips(f, qos) ==
    /\ node.state = "rehydrate"
    /\ <<f, qos>> \in node.todo
    /\ ~StillPermitted(f) \/ ZenohFails
    /\ node' = [node EXCEPT !.todo = @ \ {<<f, qos>>}]
    /\ UNCHANGED <<registry, sess, conn, task, disk, sweeper, made, pubs, crashes, lastEvent>>

\* The end of rehydrate_one: reconcile the file, register the session.
RehydrateDone ==
    LET s == node.sess
    IN  /\ node.state = "rehydrate"
        /\ node.todo = {}
        /\ disk' = persist_subs(disk, sess[s], QoSOf(task))
        /\ registry' = s
        /\ node' = [node EXCEPT !.state = "up", !.sess = None]
        /\ UNCHANGED <<sess, conn, task, sweeper, made, pubs, crashes, lastEvent>>

-----------------------------------------------------------------------------
\* What connection c's own task does without waiting for its client.
ConnStep(c) ==
    \/ ReplaceSession(c) \/ AttachConn(c) \/ DiscardQueueFile(c)
    \/ SendConnAck(c) \/ ConnectEvent(c) \/ DrainBacklog(c) \/ EnterRun(c) \/ ServeFails(c)
    \/ \E f \in Filters, req \in ReqQoS : Subscribe(c, f, req)
    \/ InsertSub(c)
    \/ \E f \in Filters : Unsubscribe(c, f)
    \/ Reply(c) \/ Handled(c) \/ Kicked(c)
    \/ DetachConn(c) \/ Purge(c) \/ Unmap(c) \/ DisconnectEvent(c)

\* What the client and its network do.
ClientStep(c) ==
    \/ AttachExisting(c) \/ DiscardExisting(c)
    \/ \E clean \in CleanFlags : AttachNew(c, clean)
    \/ \E handler \in Requests : ReadPacket(c, handler)
    \/ Disconnect(c) \/ RunFails(c)
    \/ Write(c) \/ WriteFails(c)

TaskStep(t) ==
    \/ Receive(t) \/ ReadSink(t) \/ SendLive(t) \/ SendWaits(t) \/ SendClosed(t)
    \/ SendTimesOut(t) \/ EvictSlow(t) \/ ClearSink(t) \/ Enqueue(t) \/ TaskAborts(t)

SweepStep == SweepRetain \/ SweepAbort \/ SweepDiscard

StartupStep ==
    \/ \E acl \in SUBSET Filters : Restart(acl)
    \/ \E f \in Filters, qos \in QoS : Rehydrate(f, qos) \/ RehydrateSkips(f, qos)
    \/ RehydrateDone

Next ==
    \/ \E c \in Conns : ConnStep(c) \/ ClientStep(c) \/ WriterAborts(c)
    \/ \E t \in Tasks : TaskStep(t)
    \/ \E class \in TopicClasses : Publish(class)
    \/ SweepStep
    \/ Crash
    \/ StartupStep

Spec == Init /\ [][Next]_vars

(***************************************************************************)
(* Fairness: the runtime keeps scheduling every task that can run, timers  *)
(* fire (a send past its grace, the sweep), and the supervisor restarts a  *)
(* dead process.  Nothing is assumed of the client: it may stop reading or *)
(* sending for ever, and never connect again.                              *)
(***************************************************************************)
Fairness ==
    /\ \A c \in Conns : WF_vars(ConnStep(c)) /\ WF_vars(WriterAborts(c))
    /\ \A c \in Conns : WF_vars(Closed(c) /\ RunFails(c))
    /\ \A t \in Tasks : WF_vars(TaskStep(t))
    /\ WF_vars(SweepStep)
    /\ WF_vars(StartupStep)

FairSpec == Spec /\ Fairness

=============================================================================
