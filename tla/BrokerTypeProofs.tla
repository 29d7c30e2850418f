-------------------------- MODULE BrokerTypeProofs --------------------------
(***************************************************************************)
(* Type correctness of Broker, for every value of the constants.  TypeOK   *)
(* is not inductive by itself: a step of a connection or of a forwarding   *)
(* task uses the handles it holds (its session, its message, the channel   *)
(* it sends to), so they have to be there whenever its control state says  *)
(* so.  HandlesOK is that strengthening.                                   *)
(***************************************************************************)
EXTENDS BrokerProperties, TLAPS

ConnHandlesOK ==
    \A c \in Conns :
        /\ conn[c].pc \notin {"free", "closed", "replace"} => conn[c].sess \in Sessions
        /\ conn[c].pc = "insert" => conn[c].filter \in Filters /\ conn[c].task \in Tasks

TaskHandlesOK ==
    \A t \in Tasks :
        /\ task[t].pc \notin {"free", "dead"} => task[t].sess \in Sessions
        /\ task[t].pc \in {"look", "send", "blocked", "timeout", "failed", "offline"}
              => task[t].msg \in Msgs
        /\ task[t].pc \in {"send", "blocked", "timeout", "failed"} => task[t].tx \in Conns
        /\ task[t].pc = "offline" => MaxQueue # 0

NodeHandlesOK ==
    /\ sweeper.pc # "idle" => sweeper.sess \in Sessions
    /\ node.state = "rehydrate" => node.sess \in Sessions

HandlesOK == ConnHandlesOK /\ TaskHandlesOK /\ NodeHandlesOK

TypeInv == TypeOK /\ HandlesOK

-----------------------------------------------------------------------------
(***************************************************************************)
(* The methods of SessionState map sessions to sessions and files to files.*)
(***************************************************************************)

\* load_queue yields a queue.
LEMMA LoadQueueType ==
    ASSUME NEW file \in Seq(Msgs)
    PROVE  load_queue(file) \in Seq(Msgs)
  BY ConstantsAssumption DEF load_queue

\* SessionState::new yields a session.
LEMMA NewType ==
    ASSUME NEW durable \in BOOLEAN, NEW file \in Seq(Msgs)
    PROVE  new(durable, file) \in SessionRecord
  BY LoadQueueType DEF new, SessionRecord, NoSubs

\* Attaching, detaching and going offline keep the session well formed.
LEMMA AttachDetachType ==
    ASSUME NEW s \in SessionRecord, NEW c \in Conns, NEW epoch
    PROVE  /\ attach_conn(s, c) \in SessionRecord
           /\ detach_conn(s, epoch) \in SessionRecord
           /\ take_offline(s, c) \in SessionRecord
<1>1. attach_conn(s, c) \in SessionRecord
  <2>1. s.epoch + 1 \in Nat
    BY DEF SessionRecord
  <2>2. << >> \in Seq(Msgs)
    OBVIOUS
  <2> QED
    BY <2>1, <2>2 DEF attach_conn, SessionRecord
<1>2. detach_conn(s, epoch) \in SessionRecord
  BY DEF detach_conn, SessionRecord, None
<1>3. take_offline(s, c) \in SessionRecord
  BY DEF take_offline, SessionRecord, None
<1> QED
  BY <1>1, <1>2, <1>3

\* So do changes of its subscriptions.
LEMMA SubsType ==
    ASSUME NEW s \in SessionRecord, NEW f \in Filters, NEW t \in Tasks
    PROVE  insert_sub(s, f, t) \in SessionRecord
<1>1. [s.subs EXCEPT ![f] = t] \in [Filters -> Tasks \cup {None}]
  BY DEF SessionRecord
<1> QED
  BY <1>1 DEF insert_sub, SessionRecord

\* Removing one, or all of them.
LEMMA RemoveSubType ==
    ASSUME NEW s \in SessionRecord, NEW f \in Filters
    PROVE  remove_sub(s, f) \in SessionRecord
<1>1. [s.subs EXCEPT ![f] = None] \in [Filters -> Tasks \cup {None}]
  BY DEF SessionRecord
<1> QED
  BY <1>1 DEF remove_sub, SessionRecord

\* See RemoveSubType.
LEMMA AbortSubsType ==
    ASSUME NEW s \in SessionRecord
    PROVE  abort_subs(s) \in SessionRecord
<1>1. NoSubs \in [Filters -> Tasks \cup {None}]
  BY DEF NoSubs
<1> QED
  BY <1>1 DEF abort_subs, SessionRecord

\* deliver's push keeps the queue a queue; it is only reached when
\* MaxQueue is not 0, so the queue it shortens is not empty.
LEMMA PushType ==
    ASSUME NEW s \in SessionRecord, NEW m \in Msgs, MaxQueue # 0
    PROVE  push_queue(s, m) \in SessionRecord
<1>1. s.queue \in Seq(Msgs) /\ s.dropped + 1 \in Nat
  BY DEF SessionRecord
<1>2. Append(s.queue, m) \in Seq(Msgs)
  BY <1>1
<1>3. CASE Len(s.queue) >= MaxQueue
  <2>1. s.queue # << >>
    BY <1>1, <1>3, ConstantsAssumption
  <2>2. Append(Tail(s.queue), m) \in Seq(Msgs)
    BY <1>1, <2>1
  <2> QED
    BY <1>1, <1>3, <2>2 DEF push_queue, SessionRecord
<1>4. CASE ~(Len(s.queue) >= MaxQueue)
  BY <1>2, <1>4 DEF push_queue, SessionRecord
<1> QED
  BY <1>3, <1>4

\* The state files stay state files.
LEMMA DiskType ==
    ASSUME NEW d \in DiskRecord, NEW s \in SessionRecord, NEW qosOf \in [Tasks -> QoS]
    PROVE  /\ persist_queue(d, s) \in DiskRecord
           /\ persist_subs(d, s, qosOf) \in DiskRecord
           /\ discard_queue_file(d, s) \in DiskRecord
           /\ discard_state_files(d, s) \in DiskRecord
<1>1. Entries(s, qosOf) \subseteq Filters \X QoS
  BY DEF Entries, SessionRecord
<1>2. NoFiles \in DiskRecord
  BY DEF NoFiles, DiskRecord
<1>3. s.queue \in Seq(Msgs) /\ << >> \in Seq(Msgs)
  BY DEF SessionRecord
<1>4. persist_queue(d, s) \in DiskRecord
  BY <1>3 DEF persist_queue, DiskRecord
<1>5. persist_subs(d, s, qosOf) \in DiskRecord
  BY <1>1 DEF persist_subs, DiskRecord
<1>6. discard_queue_file(d, s) \in DiskRecord
  BY <1>3 DEF discard_queue_file, DiskRecord
<1>7. discard_state_files(d, s) \in DiskRecord
  BY <1>2 DEF discard_state_files
<1> QED
  BY <1>4, <1>5, <1>6, <1>7

-----------------------------------------------------------------------------
(***************************************************************************)
(* Tasks and connections.                                                  *)
(***************************************************************************)

\* What ends or restarts one iteration of a task keeps it a task.
LEMMA TaskType ==
    ASSUME NEW k \in TaskRecord
    PROVE  /\ Dead(k) \in TaskRecord
           /\ CancelTask(k) \in TaskRecord
           /\ Return(k) \in TaskRecord
           /\ Retry(k) \in TaskRecord
<1>1. << >> \in Seq(Msgs)
  OBVIOUS
<1>2. Dead(k) \in TaskRecord
  BY <1>1 DEF Dead, TaskRecord, TaskPC, None
<1>3. CancelTask(k) \in TaskRecord
  BY <1>2 DEF CancelTask, TaskRecord
<1>4. Return(k) \in TaskRecord
  <2>1. [k EXCEPT !.pc = "recv", !.msg = None, !.tx = None] \in TaskRecord
    BY DEF TaskRecord, TaskPC
  <2> QED
    BY <1>2, <2>1 DEF Return
<1>5. Retry(k) \in TaskRecord
  BY DEF Retry, TaskRecord, TaskPC, None
<1> QED
  BY <1>2, <1>3, <1>4, <1>5

\* Aborting tasks kills some and leaves the handles of the others alone.
LEMMA AbortType ==
    ASSUME NEW ts \in [Tasks -> TaskRecord], NEW T
    PROVE  /\ Abort(ts, T) \in [Tasks -> TaskRecord]
           /\ \A t \in Tasks :
                 /\ Abort(ts, T)[t].sess = ts[t].sess
                 /\ Abort(ts, T)[t].qos = ts[t].qos
                 /\ \/ Abort(ts, T)[t].pc = "dead"
                    \/ /\ Abort(ts, T)[t].pc = ts[t].pc
                       /\ Abort(ts, T)[t].msg = ts[t].msg
                       /\ Abort(ts, T)[t].tx = ts[t].tx
<1>1. \A t \in Tasks : CancelTask(ts[t]) \in TaskRecord
  BY TaskType
<1>2. Abort(ts, T) \in [Tasks -> TaskRecord]
  BY <1>1 DEF Abort
<1>3. ASSUME NEW t \in Tasks
      PROVE  /\ CancelTask(ts[t]).sess = ts[t].sess
             /\ CancelTask(ts[t]).qos = ts[t].qos
             /\ \/ CancelTask(ts[t]).pc = "dead"
                \/ /\ CancelTask(ts[t]).pc = ts[t].pc
                   /\ CancelTask(ts[t]).msg = ts[t].msg
                   /\ CancelTask(ts[t]).tx = ts[t].tx
  BY DEF CancelTask, Dead, TaskRecord
<1> QED
  BY <1>2, <1>3 DEF Abort

\* A kick sets nothing but notified.
LEMMA NotifyType ==
    ASSUME NEW cs \in [Conns -> ConnRecord], NEW c
    PROVE  /\ notify_waiters(cs, c) \in [Conns -> ConnRecord]
           /\ \A d \in Conns :
                 /\ notify_waiters(cs, c)[d].pc = cs[d].pc
                 /\ notify_waiters(cs, c)[d].sess = cs[d].sess
                 /\ notify_waiters(cs, c)[d].epoch = cs[d].epoch
                 /\ notify_waiters(cs, c)[d].writer = cs[d].writer
                 /\ notify_waiters(cs, c)[d].out = cs[d].out
                 /\ notify_waiters(cs, c)[d].written = cs[d].written
                 /\ notify_waiters(cs, c)[d].filter = cs[d].filter
                 /\ notify_waiters(cs, c)[d].task = cs[d].task
<1>1. \A d \in Conns : [cs[d] EXCEPT !.notified = TRUE] \in ConnRecord
  <2>1. ASSUME NEW r \in ConnRecord
        PROVE  [r EXCEPT !.notified = TRUE] \in ConnRecord
    BY DEF ConnRecord
  <2> QED
    BY <2>1
<1>2. notify_waiters(cs, c) \in [Conns -> ConnRecord]
  BY <1>1 DEF notify_waiters
<1>3. ASSUME NEW d \in Conns, NEW r \in ConnRecord, r = cs[d]
      PROVE  LET n == [r EXCEPT !.notified = TRUE]
             IN  /\ n.pc = r.pc /\ n.sess = r.sess /\ n.epoch = r.epoch
                 /\ n.writer = r.writer /\ n.out = r.out /\ n.written = r.written
                 /\ n.filter = r.filter /\ n.task = r.task
  BY DEF ConnRecord
<1> QED
  BY <1>2, <1>3 DEF notify_waiters

\* What is put into a channel is a packet.
LEMMA PutType ==
    ASSUME TypeOK, NEW c \in Conns, NEW m \in Msgs \cup {None},
           NEW kind \in {"connack", "backlog", "live", "reply"}
    PROVE  Put(c, kind, m) \in Seq(Packet)
<1>1. conn[c].out \in Seq(Packet)
  BY DEF TypeOK, ConnRecord
<1>2. [kind |-> kind, msg |-> m] \in Packet
  BY DEF Packet
<1> QED
  BY <1>1, <1>2 DEF Put

-----------------------------------------------------------------------------
(***************************************************************************)
(* TypeInv is inductive.  Actions are grouped by the state they touch.     *)
(***************************************************************************)

\* A new connection record is well formed.
LEMMA AttachingType ==
    ASSUME NEW cs \in [Conns -> ConnRecord], NEW c \in Conns, NEW clean \in BOOLEAN,
           NEW s \in Sessions, NEW present \in BOOLEAN
    PROVE  /\ Attaching(cs, c, clean, s, present) \in [Conns -> ConnRecord]
           /\ Attaching(cs, c, clean, s, present)[c].pc = "attach"
           /\ Attaching(cs, c, clean, s, present)[c].sess = s
           /\ \A d \in Conns \ {c} : Attaching(cs, c, clean, s, present)[d] = cs[d]
<1>1. << >> \in Seq(Msgs) /\ << >> \in Seq(Packet)
  OBVIOUS
<1> QED
  BY <1>1 DEF Attaching, FreeConn, ConnRecord, ConnPC, None

\* Steps of a connection that change only its own record.
LEMMA ConnLocalStep ==
    ASSUME TypeInv, NEW c \in Conns,
           \/ SendConnAck(c) \/ ConnectEvent(c) \/ DrainBacklog(c) \/ EnterRun(c)
           \/ ServeFails(c) \/ DisconnectEvent(c)
           \/ Reply(c) \/ Handled(c) \/ Disconnect(c) \/ RunFails(c) \/ Kicked(c)
           \/ \E handler \in Requests : ReadPacket(c, handler)
           \/ Write(c) \/ WriteFails(c) \/ WriterAborts(c)
    PROVE  TypeInv'
<1> USE DEF TypeInv
<1>c. conn[c] \in ConnRecord /\ conn \in [Conns -> ConnRecord]
  BY DEF TypeOK
<1>1. ASSUME conn' \in [Conns -> ConnRecord],
             \A d \in Conns \ {c} : conn'[d] = conn[d],
             conn'[c].sess = conn[c].sess,
             conn'[c].filter = conn[c].filter,
             conn'[c].task = conn[c].task,
             conn'[c].pc = "insert" => conn[c].pc = "insert",
             conn'[c].pc \notin {"free", "closed", "replace"}
               => conn[c].pc \notin {"free", "closed", "replace"},
             lastEvent' \in {"none", "connect", "disconnect"},
             UNCHANGED <<registry, sess, task, disk, node, sweeper, made, pubs, crashes>>
      PROVE  TypeInv'
  BY <1>1 DEF TypeOK, HandlesOK, ConnHandlesOK, TaskHandlesOK, NodeHandlesOK
<1>4. lastEvent \in {"none", "connect", "disconnect"}
  BY DEF TypeOK
<1>2. CASE SendConnAck(c)
  <2>1. Put(c, "connack", None) \in Seq(Packet)
    BY PutType
  <2> QED
    BY <1>c, <1>1, <1>2, <1>4, <2>1 DEF SendConnAck, ConnRecord, ConnPC
<1>3. CASE DrainBacklog(c)
  <2>1. conn[c].backlog \in Seq(Msgs) /\ conn[c].backlog # << >>
    BY <1>c, <1>3 DEF DrainBacklog, ConnRecord
  <2>2. Head(conn[c].backlog) \in Msgs /\ Tail(conn[c].backlog) \in Seq(Msgs)
    BY <2>1
  <2>3. Put(c, "backlog", Head(conn[c].backlog)) \in Seq(Packet)
    BY <2>2, PutType
  <2> QED
    BY <1>c, <1>1, <1>3, <1>4, <2>2, <2>3 DEF DrainBacklog, ConnRecord, ConnPC
<1>5. CASE Reply(c)
  <2>1. Put(c, "reply", None) \in Seq(Packet)
    BY PutType
  <2> QED
    BY <1>c, <1>1, <1>4, <1>5, <2>1 DEF Reply, ConnRecord, ConnPC
<1>6. ASSUME NEW handler \in Requests, ReadPacket(c, handler)
      PROVE  TypeInv'
  <2>1. handler \in {"subscribe", "unsubscribe", "reply"}
    BY <1>6, BrokerAssumption
  <2>2. [conn[c] EXCEPT !.pc = handler, !.notified = FALSE] \in ConnRecord
    BY <1>c, <2>1 DEF ConnRecord, ConnPC
  <2>3. conn' \in [Conns -> ConnRecord]
    BY <1>c, <1>6, <2>2 DEF ReadPacket
  <2>4. /\ conn'[c].pc = handler /\ conn'[c].sess = conn[c].sess
        /\ conn'[c].filter = conn[c].filter /\ conn'[c].task = conn[c].task
        /\ \A d \in Conns \ {c} : conn'[d] = conn[d]
    BY <1>c, <1>6 DEF ReadPacket, ConnRecord
  <2> QED
    BY <1>1, <1>4, <1>6, <2>1, <2>3, <2>4 DEF ReadPacket
<1>e. ASSUME NEW will \in {"fired", "discarded"}, EndRun(c, will),
             conn[c].pc \notin {"free", "closed", "replace"}
      PROVE  TypeInv'
  <2> DEFINE w == IF conn[c].writer = "up" THEN "aborting" ELSE conn[c].writer
             r == [conn[c] EXCEPT !.pc = "ended", !.will = will, !.notified = FALSE, !.writer = w]
  <2>1. w \in {"none", "up", "aborting", "gone"}
    BY <1>c DEF ConnRecord
  <2>2. conn' = [conn EXCEPT ![c] = r]
    BY <1>c, <1>e DEF EndRun
  <2> HIDE DEF w
  <2>3. /\ r \in ConnRecord
        /\ r.pc = "ended" /\ r.sess = conn[c].sess
        /\ r.filter = conn[c].filter /\ r.task = conn[c].task
    <3>1. ASSUME NEW q \in ConnRecord
          PROVE  [q EXCEPT !.pc = "ended", !.will = will, !.notified = FALSE, !.writer = w]
                   \in ConnRecord
      BY <2>1 DEF ConnRecord, ConnPC
    <3>2. r \in ConnRecord
      BY <1>c, <3>1
    <3> QED
      BY <1>c, <3>2 DEF ConnRecord
  <2> HIDE DEF r
  <2>4. /\ conn' \in [Conns -> ConnRecord]
        /\ conn'[c] = r
        /\ \A d \in Conns \ {c} : conn'[d] = conn[d]
    BY <1>c, <2>2, <2>3
  <2> QED
    BY <1>1, <1>4, <1>e, <2>3, <2>4 DEF EndRun
<1>7. CASE EnterRun(c)
  BY <1>c, <1>1, <1>4, <1>7 DEF EnterRun, ConnRecord, ConnPC
<1>8. CASE ServeFails(c)
  BY <1>c, <1>1, <1>4, <1>8 DEF ServeFails, ConnRecord, ConnPC
<1>9. CASE Handled(c)
  BY <1>c, <1>1, <1>4, <1>9 DEF Handled, ConnRecord, ConnPC
<1>10. CASE Disconnect(c)
  BY <1>e, <1>10 DEF Disconnect
<1>11. CASE RunFails(c)
  BY <1>e, <1>11 DEF RunFails
<1>12. CASE Kicked(c)
  BY <1>e, <1>12 DEF Kicked
<1>13. CASE Write(c)
  <2>1. conn[c].written + 1 \in Nat
    BY <1>c DEF ConnRecord
  <2> QED
    BY <1>c, <1>1, <1>4, <1>13, <2>1 DEF Write, ConnRecord, ConnPC
<1>14. CASE WriteFails(c) \/ WriterAborts(c)
  <2> DEFINE r == [conn[c] EXCEPT !.writer = "gone"]
  <2>1. /\ conn' = [conn EXCEPT ![c] = r]
        /\ UNCHANGED <<registry, sess, task, disk, node, sweeper, made, pubs, crashes, lastEvent>>
    BY <1>c, <1>14 DEF WriteFails, WriterAborts
  <2>2. /\ r \in ConnRecord /\ r.pc = conn[c].pc /\ r.sess = conn[c].sess
        /\ r.filter = conn[c].filter /\ r.task = conn[c].task
    BY <1>c DEF ConnRecord
  <2> HIDE DEF r
  <2>3. /\ conn' \in [Conns -> ConnRecord]
        /\ conn'[c] = r
        /\ \A d \in Conns \ {c} : conn'[d] = conn[d]
    BY <1>c, <2>1, <2>2
  <2> QED
    BY <1>1, <1>4, <2>1, <2>2, <2>3
<1>15. CASE ConnectEvent(c)
  BY <1>c, <1>1, <1>15 DEF ConnectEvent, ConnRecord, ConnPC
<1>16. CASE DisconnectEvent(c)
  BY <1>c, <1>1, <1>16 DEF DisconnectEvent, ConnRecord, ConnPC
<1> QED
  BY <1>2, <1>3, <1>5, <1>6, <1>7, <1>8, <1>9, <1>10, <1>11, <1>12, <1>13, <1>14, <1>15,
     <1>16

\* Aborting subscriptions leaves the tasks well formed.
LEMMA AbortHandles ==
    ASSUME TypeInv, NEW T, task' = Abort(task, T)
    PROVE  task' \in [Tasks -> TaskRecord] /\ TaskHandlesOK'
<1>1. task \in [Tasks -> TaskRecord]
  BY DEF TypeInv, TypeOK
<1> QED
  BY <1>1, AbortType DEF TypeInv, HandlesOK, TaskHandlesOK

\* SessionRegistry::attach, its part under the registry's mutex.
LEMMA AttachStep ==
    ASSUME TypeInv, NEW c \in Conns,
           \/ AttachExisting(c) \/ DiscardExisting(c) \/ ReplaceSession(c)
           \/ \E clean \in CleanFlags : AttachNew(c, clean)
    PROVE  TypeInv'
<1> USE DEF TypeInv
<1>t. /\ conn \in [Conns -> ConnRecord] /\ sess \in [Sessions -> SessionRecord]
      /\ task \in [Tasks -> TaskRecord] /\ disk \in DiskRecord
      /\ made \in [sess : 0..MaxSessions, conn : 0..MaxConns, task : 0..MaxTasks]
      /\ registry \in Sessions \cup {None}
  BY DEF TypeOK
<1>e. << >> \in Seq(Msgs) /\ << >> \in Seq(Packet)
  OBVIOUS
<1>n. made.conn < MaxConns /\ c = made.conn + 1 => c \in 0..MaxConns
  BY <1>t, ConstantsAssumption
<1>1. CASE AttachExisting(c)
  <2>1. registry \in Sessions
    BY <1>1, <1>t DEF AttachExisting
  <2>2. conn' = Attaching(conn, c, FALSE, registry, TRUE)
    BY <1>1 DEF AttachExisting
  <2>3. made' \in [sess : 0..MaxSessions, conn : 0..MaxConns, task : 0..MaxTasks]
    BY <1>1, <1>t, <1>n DEF AttachExisting, NewConn
  <2>4. conn' \in [Conns -> ConnRecord] /\ ConnHandlesOK'
    <3>1. /\ conn' \in [Conns -> ConnRecord]
          /\ conn'[c].pc = "attach" /\ conn'[c].sess = registry
          /\ \A d \in Conns \ {c} : conn'[d] = conn[d]
      BY <1>t, <1>e, <2>1, <2>2 DEF Attaching, FreeConn, ConnRecord, ConnPC, None
    <3> QED
      BY <2>1, <3>1 DEF HandlesOK, ConnHandlesOK
  <2> QED
    BY <1>1, <2>3, <2>4 DEF AttachExisting, TypeOK, HandlesOK, TaskHandlesOK, NodeHandlesOK
<1>2. ASSUME NEW clean \in CleanFlags, AttachNew(c, clean)
      PROVE  TypeInv'
  <2> DEFINE n     == made.sess + 1
             kept  == IF clean THEN NoFiles ELSE disk
             fresh == new(~clean /\ DataDir, kept.queue)
  <2>1. clean \in BOOLEAN /\ (~clean /\ DataDir) \in BOOLEAN
    BY BrokerAssumption, ConstantsAssumption
  <2>2. kept \in DiskRecord /\ kept.queue \in Seq(Msgs)
    BY <1>t DEF NoFiles, DiskRecord
  <2>3. fresh \in SessionRecord
    BY <2>1, <2>2, NewType
  <2>4. n \in Sessions /\ disk' = kept /\ registry' = n /\ NewConn(c)
    BY <1>2 DEF AttachNew
  <2>5. made' \in [sess : 0..MaxSessions, conn : 0..MaxConns, task : 0..MaxTasks]
    <3>1. n \in 0..MaxSessions
      BY <2>4, ConstantsAssumption DEF Sessions
    <3> QED
      BY <1>2, <1>t, <1>n, <2>4, <3>1 DEF AttachNew, NewConn
  <2>6. /\ sess' = [sess EXCEPT ![n] = fresh]
        /\ task' = task
        /\ conn' = Attaching(conn, c, clean, n, kept # NoFiles)
    BY <1>2 DEF AttachNew
  <2>7. conn' \in [Conns -> ConnRecord] /\ ConnHandlesOK'
    <3>1. /\ conn' \in [Conns -> ConnRecord]
          /\ conn'[c].pc = "attach" /\ conn'[c].sess = n
          /\ \A d \in Conns \ {c} : conn'[d] = conn[d]
      <4> DEFINE present == kept # NoFiles
      <4>1. present \in BOOLEAN
        OBVIOUS
      <4>2. conn' = Attaching(conn, c, clean, n, present)
        BY <2>6
      <4> HIDE DEF present, n
      <4> QED
        BY <1>t, <2>1, <2>4, <4>1, <4>2, AttachingType
    <3> QED
      BY <2>4, <3>1 DEF HandlesOK, ConnHandlesOK
  <2>8. sess' \in [Sessions -> SessionRecord]
    BY <1>t, <2>3, <2>6
  <2> QED
    BY <1>2, <2>2, <2>4, <2>5, <2>6, <2>7, <2>8
       DEF AttachNew, TypeOK, HandlesOK, TaskHandlesOK, NodeHandlesOK
<1>3. CASE DiscardExisting(c)
  <2> DEFINE cs == notify_waiters(conn, sess[registry].kick)
             r  == [FreeConn EXCEPT !.pc = "replace", !.clean = TRUE, !.writer = "up"]
  <2>0. registry \in Sessions /\ NewConn(c)
    BY <1>t, <1>3 DEF DiscardExisting
  <2>1. /\ cs \in [Conns -> ConnRecord]
        /\ \A d \in Conns : /\ cs[d].pc = conn[d].pc /\ cs[d].sess = conn[d].sess
                            /\ cs[d].filter = conn[d].filter /\ cs[d].task = conn[d].task
    BY <1>t, NotifyType
  <2>2. conn' = [cs EXCEPT ![c] = r]
    BY <1>3 DEF DiscardExisting
  <2>3. r \in ConnRecord /\ r.pc = "replace"
    BY <1>e DEF FreeConn, ConnRecord, ConnPC, None
  <2> HIDE DEF cs, r
  <2>4. /\ conn' \in [Conns -> ConnRecord]
        /\ conn'[c] = r
        /\ \A d \in Conns \ {c} : conn'[d] = cs[d]
    BY <2>1, <2>2, <2>3
  <2>5. ConnHandlesOK'
    BY <2>1, <2>3, <2>4 DEF HandlesOK, ConnHandlesOK
  <2>6. abort_subs(sess[registry]) \in SessionRecord
    BY <1>t, <2>0, AbortSubsType
  <2>7. sess' \in [Sessions -> SessionRecord]
    BY <1>3, <1>t, <2>6 DEF DiscardExisting
  <2>8. task' \in [Tasks -> TaskRecord] /\ TaskHandlesOK'
    BY <1>3, AbortHandles DEF DiscardExisting
  <2>9. made' \in [sess : 0..MaxSessions, conn : 0..MaxConns, task : 0..MaxTasks]
    BY <1>3, <1>t, <1>n, <2>0 DEF DiscardExisting, NewConn
  <2> QED
    BY <1>3, <2>4, <2>5, <2>7, <2>8, <2>9
       DEF DiscardExisting, TypeOK, HandlesOK, NodeHandlesOK
<1>4. CASE ReplaceSession(c)
  <2> DEFINE n == made.sess + 1
             r == [conn[c] EXCEPT !.pc = "attach", !.sess = n]
  <2>1. n \in Sessions /\ disk' = NoFiles /\ registry' = n
    BY <1>4 DEF ReplaceSession
  <2>2. conn' = [conn EXCEPT ![c] = r]
    BY <1>4, <1>t DEF ReplaceSession
  <2>3. n \in 0..MaxSessions
    BY <2>1, ConstantsAssumption DEF Sessions
  <2>4. made' \in [sess : 0..MaxSessions, conn : 0..MaxConns, task : 0..MaxTasks]
    BY <1>4, <1>t, <2>3 DEF ReplaceSession
  <2>5. sess' \in [Sessions -> SessionRecord]
    <3>1. new(FALSE, << >>) \in SessionRecord
      BY <1>e, NewType
    <3> QED
      BY <1>4, <1>t, <3>1 DEF ReplaceSession
  <2> HIDE DEF n
  <2>6. r \in ConnRecord /\ r.pc = "attach" /\ r.sess = n
    <3>1. ASSUME NEW q \in ConnRecord, NEW m \in Sessions
          PROVE  LET w == [q EXCEPT !.pc = "attach", !.sess = m]
                 IN  w \in ConnRecord /\ w.pc = "attach" /\ w.sess = m
      BY DEF ConnRecord, ConnPC
    <3> QED
      BY <1>t, <2>1, <3>1
  <2> HIDE DEF r
  <2>7. conn' \in [Conns -> ConnRecord] /\ ConnHandlesOK'
    BY <1>t, <2>1, <2>2, <2>6 DEF HandlesOK, ConnHandlesOK
  <2>8. disk' \in DiskRecord
    BY <1>e, <2>1 DEF NoFiles, DiskRecord
  <2> QED
    BY <1>4, <2>1, <2>4, <2>5, <2>7, <2>8
       DEF ReplaceSession, TypeOK, HandlesOK, TaskHandlesOK, NodeHandlesOK
<1> QED
  BY <1>1, <1>2, <1>3, <1>4

\* attach_conn, the subscription steps and detach.
LEMMA SessionStep ==
    ASSUME TypeInv, NEW c \in Conns,
           \/ AttachConn(c) \/ DiscardQueueFile(c)
           \/ \E f \in Filters, req \in ReqQoS : Subscribe(c, f, req)
           \/ InsertSub(c)
           \/ \E f \in Filters : Unsubscribe(c, f)
           \/ DetachConn(c) \/ Purge(c) \/ Unmap(c)
    PROVE  TypeInv'
<1> USE DEF TypeInv
<1> DEFINE s == conn[c].sess
<1>t. /\ conn \in [Conns -> ConnRecord] /\ sess \in [Sessions -> SessionRecord]
      /\ task \in [Tasks -> TaskRecord] /\ disk \in DiskRecord
      /\ made \in [sess : 0..MaxSessions, conn : 0..MaxConns, task : 0..MaxTasks]
      /\ registry \in Sessions \cup {None}
      /\ conn[c] \in ConnRecord
  BY DEF TypeOK
<1>s. conn[c].pc \notin {"free", "closed", "replace"} => s \in Sessions /\ sess[s] \in SessionRecord
  BY <1>t DEF HandlesOK, ConnHandlesOK
<1>q. QoSOf(task) \in [Tasks -> QoS]
  BY <1>t DEF QoSOf, TaskRecord
<1>a. s \in Sessions => abort_subs(sess[s]) \in SessionRecord
  BY <1>t, AbortSubsType
<1>1. CASE AttachConn(c)
  <2> DEFINE cs == notify_waiters(conn, sess[s].kick)
  <2>1. s \in Sessions /\ sess[s] \in SessionRecord
    BY <1>1, <1>s DEF AttachConn
  <2>2. attach_conn(sess[s], c) \in SessionRecord
    BY <2>1, AttachDetachType
  <2>3. sess' \in [Sessions -> SessionRecord]
    BY <1>1, <1>t, <2>2 DEF AttachConn
  <2>4. sess'[s].epoch \in Nat /\ sess[s].queue \in Seq(Msgs)
    BY <2>1, <2>3 DEF SessionRecord
  <2>5. /\ cs \in [Conns -> ConnRecord]
        /\ \A d \in Conns : /\ cs[d].pc = conn[d].pc /\ cs[d].sess = conn[d].sess
                            /\ cs[d].filter = conn[d].filter /\ cs[d].task = conn[d].task
    BY <1>t, NotifyType
  <2>6. conn' = [cs EXCEPT ![c].pc = "discard", ![c].epoch = sess'[s].epoch,
                           ![c].backlog = sess[s].queue]
    BY <1>1 DEF AttachConn
  <2> HIDE DEF cs
  <2>7. conn' \in [Conns -> ConnRecord]
    <3>1. ASSUME NEW r \in ConnRecord, NEW e \in Nat, NEW q \in Seq(Msgs)
          PROVE  [r EXCEPT !.pc = "discard", !.epoch = e, !.backlog = q] \in ConnRecord
      BY DEF ConnRecord, ConnPC
    <3>2. [cs[c] EXCEPT !.pc = "discard", !.epoch = sess'[s].epoch,
                        !.backlog = sess[s].queue] \in ConnRecord
      BY <2>4, <2>5, <3>1
    <3> QED
      BY <2>5, <2>6, <3>2
  <2>8. conn'[c].sess = s /\ conn'[c].pc = "discard" /\ \A d \in Conns \ {c} : conn'[d] = cs[d]
    BY <2>5, <2>6 DEF ConnRecord
  <2>9. ConnHandlesOK'
    BY <2>1, <2>5, <2>8 DEF HandlesOK, ConnHandlesOK
  <2> QED
    BY <1>1, <2>3, <2>7, <2>9 DEF AttachConn, TypeOK, HandlesOK, TaskHandlesOK, NodeHandlesOK
<1>2. CASE DiscardQueueFile(c)
  <2>1. disk' \in DiskRecord
    BY <1>2, <1>s, <1>t, <1>q, DiskType DEF DiscardQueueFile
  <2>2. conn' \in [Conns -> ConnRecord] /\ ConnHandlesOK'
    BY <1>2, <1>t DEF DiscardQueueFile, ConnRecord, ConnPC, HandlesOK, ConnHandlesOK
  <2> QED
    BY <1>2, <2>1, <2>2 DEF DiscardQueueFile, TypeOK, HandlesOK, TaskHandlesOK, NodeHandlesOK
<1>3. ASSUME NEW f \in Filters, NEW req \in ReqQoS, Subscribe(c, f, req)
      PROVE  TypeInv'
  <2> DEFINE t == made.task + 1
  <2>1. t \in Tasks /\ s \in Sessions /\ Granted(req) \in QoS
    BY <1>3, <1>s DEF Subscribe, Granted, QoS
  <2>2. << >> \in Seq(Msgs)
    OBVIOUS
  <2>3. task' \in [Tasks -> TaskRecord] /\ TaskHandlesOK'
    BY <1>3, <1>t, <2>1, <2>2
       DEF Subscribe, Spawn, FreeTask, TaskRecord, TaskPC, None, HandlesOK, TaskHandlesOK
  <2>4. conn' \in [Conns -> ConnRecord] /\ ConnHandlesOK'
    <3> DEFINE r == [conn[c] EXCEPT !.pc = "insert", !.filter = f, !.task = t]
    <3>1. conn' = [conn EXCEPT ![c] = r]
      BY <1>3, <1>t DEF Subscribe
    <3> HIDE DEF t
    <3>2. /\ r \in ConnRecord
          /\ r.pc = "insert" /\ r.sess = s /\ r.filter = f /\ r.task = t
      BY <1>t, <2>1 DEF ConnRecord, ConnPC
    <3> HIDE DEF r
    <3> QED
      BY <1>t, <2>1, <3>1, <3>2 DEF HandlesOK, ConnHandlesOK
  <2>5. made' \in [sess : 0..MaxSessions, conn : 0..MaxConns, task : 0..MaxTasks]
    <3>1. t \in 0..MaxTasks
      BY <2>1, ConstantsAssumption DEF Tasks
    <3> QED
      BY <1>3, <1>t, <3>1 DEF Subscribe
  <2> QED
    BY <1>3, <2>3, <2>4, <2>5 DEF Subscribe, TypeOK, HandlesOK, NodeHandlesOK
<1>4. CASE InsertSub(c)
  <2>1. s \in Sessions /\ conn[c].filter \in Filters /\ conn[c].task \in Tasks
    BY <1>4, <1>s DEF InsertSub, HandlesOK, ConnHandlesOK
  <2>2. insert_sub(sess[s], conn[c].filter, conn[c].task) \in SessionRecord
    BY <1>t, <2>1, SubsType
  <2>3. sess' \in [Sessions -> SessionRecord]
    BY <1>4, <1>t, <2>2 DEF InsertSub
  <2>4. disk' \in DiskRecord
    BY <1>4, <1>t, <1>q, <2>1, <2>3, DiskType DEF InsertSub
  <2>5. task' \in [Tasks -> TaskRecord] /\ TaskHandlesOK'
    BY <1>4, AbortHandles DEF InsertSub
  <2>6. conn' \in [Conns -> ConnRecord] /\ ConnHandlesOK'
    BY <1>4, <1>t, <2>1 DEF InsertSub, ConnRecord, ConnPC, None, HandlesOK, ConnHandlesOK
  <2> QED
    BY <1>4, <2>3, <2>4, <2>5, <2>6 DEF InsertSub, TypeOK, HandlesOK, NodeHandlesOK
<1>5. ASSUME NEW f \in Filters, Unsubscribe(c, f)
      PROVE  TypeInv'
  <2>1. s \in Sessions
    BY <1>5, <1>s DEF Unsubscribe
  <2>2. remove_sub(sess[s], f) \in SessionRecord
    BY <1>t, <2>1, RemoveSubType
  <2>3. sess' \in [Sessions -> SessionRecord]
    BY <1>5, <1>t, <2>2 DEF Unsubscribe
  <2>4. disk' \in DiskRecord
    BY <1>5, <1>t, <1>q, <2>1, <2>3, DiskType DEF Unsubscribe
  <2>5. task' \in [Tasks -> TaskRecord] /\ TaskHandlesOK'
    BY <1>5, AbortHandles DEF Unsubscribe
  <2> QED
    BY <1>5, <2>3, <2>4, <2>5
       DEF Unsubscribe, TypeOK, HandlesOK, ConnHandlesOK, NodeHandlesOK
<1>6. CASE DetachConn(c)
  <2>1. s \in Sessions /\ sess[s] \in SessionRecord
    BY <1>6, <1>s DEF DetachConn
  <2>2. detach_conn(sess[s], conn[c].epoch) \in SessionRecord
    BY <2>1, AttachDetachType
  <2>3. sess' \in [Sessions -> SessionRecord]
    BY <1>6, <1>t, <2>2 DEF DetachConn
  <2>4. conn' \in [Conns -> ConnRecord] /\ ConnHandlesOK'
    BY <1>6, <1>t, ZenonT(30) DEF DetachConn, ConnRecord, ConnPC, HandlesOK, ConnHandlesOK
  <2> QED
    BY <1>6, <2>3, <2>4 DEF DetachConn, TypeOK, HandlesOK, TaskHandlesOK, NodeHandlesOK
<1>7. CASE Purge(c)
  <2>1. s \in Sessions /\ sess[s] \in SessionRecord
    BY <1>7, <1>s DEF Purge
  <2>2. sess' \in [Sessions -> SessionRecord]
    BY <1>7, <1>t, <1>a, <2>1 DEF Purge
  <2>3. disk' \in DiskRecord
    BY <1>7, <1>t, <1>q, <2>1, DiskType DEF Purge
  <2>4. task' \in [Tasks -> TaskRecord] /\ TaskHandlesOK'
    BY <1>7, AbortHandles DEF Purge
  <2>5. conn' \in [Conns -> ConnRecord] /\ ConnHandlesOK'
    BY <1>7, <1>t DEF Purge, ConnRecord, ConnPC, HandlesOK, ConnHandlesOK
  <2> QED
    BY <1>7, <2>2, <2>3, <2>4, <2>5 DEF Purge, TypeOK, HandlesOK, NodeHandlesOK
<1>8. CASE Unmap(c)
  <2>1. conn' \in [Conns -> ConnRecord] /\ ConnHandlesOK'
    BY <1>8, <1>t DEF Unmap, ConnRecord, ConnPC, HandlesOK, ConnHandlesOK
  <2> QED
    BY <1>8, <1>t, <2>1
       DEF Unmap, RemoveEntry, TypeOK, HandlesOK, TaskHandlesOK, NodeHandlesOK
<1> QED
  BY <1>1, <1>2, <1>3, <1>4, <1>5, <1>6, <1>7, <1>8


\* The forwarding tasks and the mesh.
LEMMA DeliverStep ==
    ASSUME TypeInv, NEW t \in Tasks, TaskStep(t)
    PROVE  TypeInv'
<1> USE DEF TypeInv
<1> DEFINE k == task[t]
           s == task[t].sess
<1>t. /\ conn \in [Conns -> ConnRecord] /\ sess \in [Sessions -> SessionRecord]
      /\ task \in [Tasks -> TaskRecord] /\ disk \in DiskRecord /\ k \in TaskRecord
  BY DEF TypeOK
<1>h. /\ k.pc \notin {"free", "dead"} => s \in Sessions
      /\ k.pc \in {"look", "send", "blocked", "timeout", "failed", "offline"} => k.msg \in Msgs
      /\ k.pc \in {"send", "blocked", "timeout", "failed"} => k.tx \in Conns
      /\ k.pc = "offline" => MaxQueue # 0
  BY DEF HandlesOK, TaskHandlesOK
<1>r. /\ Return(k) \in TaskRecord /\ Return(k).sess = s /\ Return(k).pc \in {"recv", "dead"}
      /\ Dead(k) \in TaskRecord /\ Dead(k).sess = s /\ Dead(k).pc = "dead"
      /\ Retry(k) \in TaskRecord /\ Retry(k).sess = s /\ Retry(k).pc = "look"
      /\ Retry(k).msg = k.msg
  BY <1>t, TaskType DEF Return, Dead, Retry, TaskRecord
<1>1. ASSUME NEW r \in TaskRecord,
             task' = [task EXCEPT ![t] = r],
             r.pc \notin {"free", "dead"} => r.sess \in Sessions,
             r.pc \in {"look", "send", "blocked", "timeout", "failed", "offline"} => r.msg \in Msgs,
             r.pc \in {"send", "blocked", "timeout", "failed"} => r.tx \in Conns,
             r.pc = "offline" => MaxQueue # 0
      PROVE  task' \in [Tasks -> TaskRecord] /\ TaskHandlesOK'
  BY <1>1, <1>t DEF HandlesOK, TaskHandlesOK
<1>2. ASSUME task' \in [Tasks -> TaskRecord], TaskHandlesOK',
             sess' \in [Sessions -> SessionRecord], disk' \in DiskRecord,
             UNCHANGED <<registry, conn, node, sweeper, made, pubs, crashes, lastEvent>>
      PROVE  TypeInv'
  BY <1>2 DEF TypeOK, HandlesOK, ConnHandlesOK, NodeHandlesOK
<1>3. CASE Receive(t)
  <2>1. k.inbox \in Seq(Msgs) /\ k.inbox # << >>
    BY <1>3, <1>t DEF Receive, TaskRecord
  <2>2. Head(k.inbox) \in Msgs /\ Tail(k.inbox) \in Seq(Msgs)
    BY <2>1
  <2> DEFINE r == [k EXCEPT !.pc = "look", !.msg = Head(k.inbox), !.inbox = Tail(k.inbox)]
  <2>3. r \in TaskRecord /\ r.pc = "look" /\ r.sess = s /\ r.msg \in Msgs
    BY <1>t, <2>2 DEF TaskRecord, TaskPC
  <2>4. task' = [task EXCEPT ![t] = r] /\ s \in Sessions
    BY <1>3, <1>h, <1>t DEF Receive
  <2> HIDE DEF r
  <2>5. task' \in [Tasks -> TaskRecord] /\ TaskHandlesOK'
    BY <1>1, <2>3, <2>4
  <2> QED
    BY <1>2, <1>3, <1>t, <2>5 DEF Receive
<1>4. CASE ReadSink(t)
  <2> DEFINE sink == sess[s].sink
             r == CASE sink # None -> [k EXCEPT !.pc = "send", !.tx = sink]
                    [] sink = None /\ Queues(k) -> [k EXCEPT !.pc = "offline"]
                    [] sink = None /\ ~Queues(k) -> Return(k)
  <2>1. k.pc = "look" /\ s \in Sessions /\ k.msg \in Msgs /\ sink \in Conns \cup {None}
    BY <1>4, <1>h, <1>t DEF ReadSink, SessionRecord
  <2>2. task' = [task EXCEPT ![t] = r]
    BY <1>4 DEF ReadSink
  <2>3. task' \in [Tasks -> TaskRecord] /\ TaskHandlesOK'
    <3>1. CASE sink # None
      <4>1. r = [k EXCEPT !.pc = "send", !.tx = sink]
        BY <3>1
      <4> HIDE DEF r
      <4>2. /\ r \in TaskRecord /\ r.pc = "send" /\ r.sess = s /\ r.msg = k.msg
            /\ r.tx \in Conns
        BY <1>t, <2>1, <3>1, <4>1 DEF TaskRecord, TaskPC
      <4> QED
        BY <1>1, <2>1, <2>2, <4>2
    <3>2. CASE sink = None /\ Queues(k)
      <4>1. r = [k EXCEPT !.pc = "offline"] /\ MaxQueue # 0
        BY <3>2 DEF Queues
      <4> HIDE DEF r
      <4>2. r \in TaskRecord /\ r.pc = "offline" /\ r.sess = s /\ r.msg = k.msg
        BY <1>t, <4>1 DEF TaskRecord, TaskPC
      <4> QED
        BY <1>1, <2>1, <2>2, <4>1, <4>2
    <3>3. CASE sink = None /\ ~Queues(k)
      <4>1. r = Return(k)
        BY <3>3
      <4> HIDE DEF r
      <4> QED
        BY <1>1, <1>r, <2>1, <2>2, <4>1
    <3> QED
      BY <3>1, <3>2, <3>3
  <2> QED
    BY <1>2, <1>4, <1>t, <2>3 DEF ReadSink
<1>5. CASE SendLive(t)
  <2>1. k.pc \in {"send", "blocked"} /\ s \in Sessions /\ k.msg \in Msgs /\ k.tx \in Conns
    BY <1>5, <1>h DEF SendLive
  <2>2. Put(k.tx, "live", k.msg) \in Seq(Packet)
    BY <2>1, PutType
  <2>3. conn' \in [Conns -> ConnRecord] /\ ConnHandlesOK'
    <3> DEFINE p == Put(k.tx, "live", k.msg)
    <3>1. conn' = [conn EXCEPT ![k.tx].out = p]
      BY <1>5 DEF SendLive
    <3>p. p \in Seq(Packet)
      BY <2>2
    <3> HIDE DEF p
    <3>2. conn' \in [Conns -> ConnRecord]
      <4>1. ASSUME NEW r \in ConnRecord, NEW o \in Seq(Packet)
            PROVE  [r EXCEPT !.out = o] \in ConnRecord
        BY DEF ConnRecord
      <4>2. [conn[k.tx] EXCEPT !.out = p] \in ConnRecord
        BY <1>t, <2>1, <3>p, <4>1
      <4> QED
        BY <1>t, <2>1, <3>1, <4>2
    <3>3. \A d \in Conns : /\ conn'[d].pc = conn[d].pc /\ conn'[d].sess = conn[d].sess
                           /\ conn'[d].filter = conn[d].filter /\ conn'[d].task = conn[d].task
      BY <1>t, <2>1, <3>1 DEF ConnRecord
    <3> QED
      BY <3>2, <3>3 DEF HandlesOK, ConnHandlesOK
  <2>4. task' \in [Tasks -> TaskRecord] /\ TaskHandlesOK'
    BY <1>1, <1>5, <1>r, <2>1 DEF SendLive
  <2> QED
    BY <1>5, <2>3, <2>4 DEF SendLive, TypeOK, HandlesOK, NodeHandlesOK
<1>6. CASE SendWaits(t)
  <2>1. k.pc = "send" /\ s \in Sessions /\ k.msg \in Msgs /\ k.tx \in Conns
    BY <1>6, <1>h DEF SendWaits
  <2>2. /\ [k EXCEPT !.pc = "blocked"] \in TaskRecord
        /\ [k EXCEPT !.pc = "blocked"].sess = s
        /\ [k EXCEPT !.pc = "blocked"].msg = k.msg
        /\ [k EXCEPT !.pc = "blocked"].tx = k.tx
        /\ [k EXCEPT !.pc = "blocked"].pc = "blocked"
    BY <1>t DEF TaskRecord, TaskPC
  <2>3. task' \in [Tasks -> TaskRecord] /\ TaskHandlesOK'
    <3>1. CASE k.aborted
      <4>1. task' = [task EXCEPT ![t] = Dead(k)]
        BY <1>6, <3>1 DEF SendWaits
      <4> QED
        BY <1>1, <1>r, <4>1
    <3>2. CASE ~k.aborted
      <4> DEFINE r == [k EXCEPT !.pc = "blocked"]
      <4>1. task' = [task EXCEPT ![t] = r]
        BY <1>6, <3>2 DEF SendWaits
      <4>2. r \in TaskRecord /\ r.sess = s /\ r.msg = k.msg /\ r.tx = k.tx /\ r.pc = "blocked"
        BY <2>2
      <4> HIDE DEF r
      <4> QED
        BY <1>1, <2>1, <4>1, <4>2
    <3> QED
      BY <3>1, <3>2
  <2> QED
    BY <1>2, <1>6, <1>t, <2>3 DEF SendWaits
<1>f. ASSUME k.pc \in {"send", "blocked", "timeout"}, task' = [task EXCEPT ![t].pc = "failed"]
      PROVE  task' \in [Tasks -> TaskRecord] /\ TaskHandlesOK'
  <2>1. s \in Sessions /\ k.msg \in Msgs /\ k.tx \in Conns
    BY <1>f, <1>h
  <2> QED
    BY <1>f, <1>t, <2>1 DEF TaskRecord, TaskPC, HandlesOK, TaskHandlesOK
<1>7. CASE SendClosed(t)
  BY <1>2, <1>7, <1>f, <1>t DEF SendClosed
<1>8. CASE EvictSlow(t)
  <2>1. k.pc = "timeout" /\ s \in Sessions /\ k.tx \in Conns
    BY <1>8, <1>h DEF EvictSlow
  <2>2. sess' \in [Sessions -> SessionRecord]
    <3>1. take_offline(sess[s], k.tx) \in SessionRecord
      BY <1>t, <2>1, AttachDetachType
    <3> QED
      BY <1>8, <1>t, <3>1 DEF EvictSlow
  <2>3. conn' \in [Conns -> ConnRecord] /\ ConnHandlesOK'
    <3>1. CASE conn' = conn
      BY <1>t, <3>1 DEF HandlesOK, ConnHandlesOK
    <3>2. CASE conn' = notify_waiters(conn, sess[s].kick)
      <4>1. /\ conn' \in [Conns -> ConnRecord]
            /\ \A d \in Conns : /\ conn'[d].pc = conn[d].pc /\ conn'[d].sess = conn[d].sess
                                /\ conn'[d].filter = conn[d].filter
                                /\ conn'[d].task = conn[d].task
        BY <1>t, <3>2, NotifyType
      <4> QED
        BY <4>1 DEF HandlesOK, ConnHandlesOK
    <3> QED
      BY <1>8, <3>1, <3>2 DEF EvictSlow
  <2>4. task' \in [Tasks -> TaskRecord] /\ TaskHandlesOK'
    BY <1>8, <1>f, <2>1 DEF EvictSlow
  <2> QED
    BY <1>8, <2>2, <2>3, <2>4 DEF EvictSlow, TypeOK, HandlesOK, NodeHandlesOK
<1>9. CASE ClearSink(t)
  <2>1. k.pc = "failed" /\ s \in Sessions /\ k.msg \in Msgs /\ k.tx \in Conns
    BY <1>9, <1>h DEF ClearSink
  <2>2. take_offline(sess[s], k.tx) \in SessionRecord
    BY <1>t, <2>1, AttachDetachType
  <2>3. sess' \in [Sessions -> SessionRecord]
    BY <1>9, <1>t, <2>2 DEF ClearSink
  <2>4. task' \in [Tasks -> TaskRecord] /\ TaskHandlesOK'
    BY <1>1, <1>9, <1>r, <2>1 DEF ClearSink
  <2> QED
    BY <1>2, <1>9, <1>t, <2>3, <2>4 DEF ClearSink
<1>10. CASE Enqueue(t)
  <2>1. k.pc = "offline" /\ s \in Sessions /\ k.msg \in Msgs /\ MaxQueue # 0
    BY <1>10, <1>h DEF Enqueue
  <2>2. CASE StillOffline(sess[s])
    <3>1. push_queue(sess[s], k.msg) \in SessionRecord
      BY <1>t, <2>1, PushType
    <3>2. sess' \in [Sessions -> SessionRecord]
      BY <1>10, <1>t, <2>2, <3>1 DEF Enqueue
    <3>3. disk' \in DiskRecord
      <4>1. QoSOf(task) \in [Tasks -> QoS]
        BY <1>t DEF QoSOf, TaskRecord
      <4> QED
        BY <1>10, <1>t, <2>1, <2>2, <3>2, <4>1, DiskType DEF Enqueue
    <3>4. task' \in [Tasks -> TaskRecord] /\ TaskHandlesOK'
      BY <1>1, <1>10, <1>r, <2>1, <2>2 DEF Enqueue
    <3> QED
      BY <1>2, <1>10, <3>2, <3>3, <3>4 DEF Enqueue
  <2>3. CASE ~StillOffline(sess[s])
    <3>1. task' = [task EXCEPT ![t].pc = "look"] /\ UNCHANGED <<sess, disk>>
      BY <1>10, <2>3 DEF Enqueue
    <3>2. task' \in [Tasks -> TaskRecord] /\ TaskHandlesOK'
      BY <1>t, <2>1, <3>1 DEF TaskRecord, TaskPC, HandlesOK, TaskHandlesOK
    <3> QED
      BY <1>2, <1>10, <1>t, <3>1, <3>2 DEF Enqueue
  <2> QED
    BY <2>2, <2>3
<1>11. CASE TaskAborts(t)
  <2>1. task' \in [Tasks -> TaskRecord] /\ TaskHandlesOK'
    BY <1>1, <1>11, <1>r DEF TaskAborts
  <2> QED
    BY <1>2, <1>11, <1>t, <2>1 DEF TaskAborts
<1>12. CASE SendTimesOut(t)
  <2>1. s \in Sessions /\ k.msg \in Msgs /\ k.tx \in Conns
    BY <1>12, <1>h DEF SendTimesOut
  <2>2. task' \in [Tasks -> TaskRecord] /\ TaskHandlesOK'
    BY <1>12, <1>t, <2>1 DEF SendTimesOut, TaskRecord, TaskPC, HandlesOK, TaskHandlesOK
  <2> QED
    BY <1>2, <1>12, <1>t, <2>2 DEF SendTimesOut
<1> QED
  BY <1>3, <1>4, <1>5, <1>6, <1>7, <1>8, <1>9, <1>10, <1>11, <1>12 DEF TaskStep


\* The mesh hands out a sample.
LEMMA PublishStep ==
    ASSUME TypeInv, NEW class \in TopicClasses, Publish(class)
    PROVE  TypeInv'
<1> USE DEF TypeInv
<1> DEFINE m == pubs + 1
<1>1. task \in [Tasks -> TaskRecord] /\ m \in Msgs /\ m \in 0..MaxMsgs
  <2>1. task \in [Tasks -> TaskRecord] /\ m \in Msgs
    BY DEF Publish, TypeOK
  <2> QED
    BY <2>1, ConstantsAssumption DEF Msgs
<1>2. ASSUME NEW k \in TaskRecord
      PROVE  LET r == [k EXCEPT !.inbox = Append(k.inbox, m), !.got = k.got + 1]
             IN  /\ r \in TaskRecord /\ r.pc = k.pc /\ r.sess = k.sess
                 /\ r.msg = k.msg /\ r.tx = k.tx
  <2>1. Append(k.inbox, m) \in Seq(Msgs) /\ k.got + 1 \in Nat
    BY <1>1 DEF TaskRecord
  <2> HIDE DEF m
  <2> QED
    BY <2>1 DEF TaskRecord
<1>3. task' \in [Tasks -> TaskRecord]
  BY <1>1, <1>2 DEF Publish
<1>4. \A t \in Tasks : /\ task'[t].pc = task[t].pc /\ task'[t].sess = task[t].sess
                       /\ task'[t].msg = task[t].msg /\ task'[t].tx = task[t].tx
  BY <1>1, <1>2 DEF Publish
<1>5. TaskHandlesOK'
  BY <1>4 DEF HandlesOK, TaskHandlesOK
<1> QED
  BY <1>1, <1>3, <1>5 DEF Publish, TypeOK, HandlesOK, ConnHandlesOK, NodeHandlesOK

\* The sweeper.
LEMMA SweepTypeStep ==
    ASSUME TypeInv, SweepStep
    PROVE  TypeInv'
<1> USE DEF TypeInv
<1>t. /\ sess \in [Sessions -> SessionRecord] /\ task \in [Tasks -> TaskRecord]
      /\ disk \in DiskRecord /\ registry \in Sessions \cup {None}
      /\ sweeper \in [pc : {"idle", "abort", "discard"}, sess : Sessions \cup {None}]
  BY DEF TypeOK
<1>1. CASE SweepRetain
  BY <1>1, <1>t
     DEF SweepRetain, TypeOK, HandlesOK, ConnHandlesOK, TaskHandlesOK, NodeHandlesOK
<1>2. CASE SweepAbort
  <2>1. sweeper.sess \in Sessions
    BY <1>2 DEF SweepAbort, HandlesOK, NodeHandlesOK
  <2>2. abort_subs(sess[sweeper.sess]) \in SessionRecord
    BY <1>t, <2>1, AbortSubsType
  <2>3. sess' \in [Sessions -> SessionRecord]
    BY <1>2, <1>t, <2>2 DEF SweepAbort
  <2>4. task' \in [Tasks -> TaskRecord] /\ TaskHandlesOK'
    BY <1>2, AbortHandles DEF SweepAbort
  <2> QED
    BY <1>2, <1>t, <2>1, <2>3, <2>4
       DEF SweepAbort, TypeOK, HandlesOK, ConnHandlesOK, NodeHandlesOK
<1>3. CASE SweepDiscard
  <2>1. sweeper.sess \in Sessions /\ sess[sweeper.sess] \in SessionRecord
    BY <1>3, <1>t DEF SweepDiscard, HandlesOK, NodeHandlesOK
  <2>2. disk' \in DiskRecord
    <3>1. QoSOf(task) \in [Tasks -> QoS]
      BY <1>t DEF QoSOf, TaskRecord
    <3> QED
      BY <1>3, <1>t, <2>1, <3>1, DiskType DEF SweepDiscard
  <2> QED
    BY <1>3, <2>2
       DEF SweepDiscard, TypeOK, HandlesOK, ConnHandlesOK, TaskHandlesOK, NodeHandlesOK
<1> QED
  BY <1>1, <1>2, <1>3 DEF SweepStep

\* What a process starts from: used for Init and for a crash.
LEMMA FreshType ==
    /\ new(FALSE, << >>) \in SessionRecord
    /\ FreeConn \in ConnRecord
    /\ [FreeConn EXCEPT !.pc = "closed"] \in ConnRecord
    /\ FreeTask \in TaskRecord
    /\ NoFiles \in DiskRecord
<1>1. << >> \in Seq(Msgs) /\ << >> \in Seq(Packet)
  OBVIOUS
<1>2. new(FALSE, << >>) \in SessionRecord
  BY <1>1 DEF new, SessionRecord, NoSubs
<1>3. FreeConn \in ConnRecord /\ [FreeConn EXCEPT !.pc = "closed"] \in ConnRecord
  BY <1>1 DEF FreeConn, ConnRecord, ConnPC, None
<1>4. FreeTask \in TaskRecord /\ NoFiles \in DiskRecord
  BY <1>1 DEF FreeTask, TaskRecord, TaskPC, None, QoS, NoFiles, DiskRecord
<1> QED
  BY <1>2, <1>3, <1>4

\* The process dies.
LEMMA CrashStep ==
    ASSUME TypeInv, Crash
    PROVE  TypeInv'
<1>1. /\ sess' \in [Sessions -> SessionRecord]
      /\ conn' \in [Conns -> ConnRecord]
      /\ task' \in [Tasks -> TaskRecord]
  BY FreshType DEF Crash
<1>2. made' \in [sess : 0..MaxSessions, conn : 0..MaxConns, task : 0..MaxTasks]
  <2>1. /\ made \in [sess : 0..MaxSessions, conn : 0..MaxConns, task : 0..MaxTasks]
        /\ made' = [made EXCEPT !.sess = 0, !.task = 0]
    BY DEF Crash, TypeInv, TypeOK
  <2>2. 0 \in 0..MaxSessions /\ 0 \in 0..MaxTasks
    BY ConstantsAssumption
  <2> QED
    BY <2>1, <2>2
<1>3. crashes' \in 0..MaxCrashes
  BY BrokerAssumption DEF Crash, TypeInv, TypeOK
<1>4. node' \in NodeRecord /\ NodeHandlesOK'
  BY DEF Crash, NodeRecord, NodeHandlesOK
<1>5. ConnHandlesOK'
  BY DEF Crash, ConnHandlesOK, FreeConn
<1>6. TaskHandlesOK'
  BY DEF Crash, TaskHandlesOK, FreeTask
<1> QED
  BY <1>1, <1>2, <1>3, <1>4, <1>5, <1>6 DEF Crash, TypeInv, TypeOK, HandlesOK

\* It starts again.
LEMMA StartupTypeStep ==
    ASSUME TypeInv, StartupStep
    PROVE  TypeInv'
<1> USE DEF TypeInv
<1>t. /\ sess \in [Sessions -> SessionRecord] /\ task \in [Tasks -> TaskRecord]
      /\ disk \in DiskRecord /\ node \in NodeRecord
      /\ made \in [sess : 0..MaxSessions, conn : 0..MaxConns, task : 0..MaxTasks]
  BY DEF TypeOK
<1>d. disk.queue \in Seq(Msgs) /\ disk.subs \in SUBSET (Filters \X QoS)
  BY <1>t DEF DiskRecord
<1>1. ASSUME NEW acl \in SUBSET Filters, Restart(acl)
      PROVE  TypeInv'
  <2>1. CASE disk.subs = {}
    <3>1. node' \in NodeRecord /\ node'.state = "up"
      BY <1>1, <1>t, <2>1 DEF Restart, NodeRecord
    <3> QED
      BY <1>1, <2>1, <3>1
         DEF Restart, TypeOK, HandlesOK, ConnHandlesOK, TaskHandlesOK, NodeHandlesOK
  <2>2. CASE disk.subs # {}
    <3>0. 1 \in Sessions /\ 1 \in 0..MaxSessions
      <4>1. 1 \in Sessions
        BY <1>1, <2>2 DEF Restart
      <4> QED
        BY <4>1, ConstantsAssumption DEF Sessions
    <3>1. node' \in NodeRecord /\ node'.sess \in Sessions
      <4>1. node' = [state |-> "rehydrate", acl |-> acl, sess |-> 1, todo |-> disk.subs]
        BY <1>1, <2>2 DEF Restart
      <4> QED
        BY <1>d, <3>0, <4>1 DEF NodeRecord
    <3>2. new(TRUE, disk.queue) \in SessionRecord
      <4>1. load_queue(disk.queue) \in Seq(Msgs)
        BY <1>d, LoadQueueType
      <4> QED
        BY <4>1 DEF new, SessionRecord, NoSubs
    <3>3. sess' \in [Sessions -> SessionRecord]
      BY <1>1, <1>t, <2>2, <3>0, <3>2 DEF Restart
    <3>4. made' \in [sess : 0..MaxSessions, conn : 0..MaxConns, task : 0..MaxTasks]
      BY <1>1, <1>t, <2>2, <3>0 DEF Restart
    <3> QED
      BY <1>1, <3>1, <3>3, <3>4
         DEF Restart, TypeOK, HandlesOK, ConnHandlesOK, TaskHandlesOK, NodeHandlesOK
  <2> QED
    BY <2>1, <2>2
<1>2. ASSUME NEW f \in Filters, NEW qos \in QoS, Rehydrate(f, qos)
      PROVE  TypeInv'
  <2> DEFINE t == made.task + 1
             s == node.sess
  <2>1. t \in Tasks /\ s \in Sessions /\ sess[s] \in SessionRecord
    BY <1>2, <1>t DEF Rehydrate, HandlesOK, NodeHandlesOK
  <2>2. << >> \in Seq(Msgs)
    OBVIOUS
  <2>3. task' \in [Tasks -> TaskRecord] /\ TaskHandlesOK'
    BY <1>2, <1>t, <2>1, <2>2
       DEF Rehydrate, Spawn, FreeTask, TaskRecord, TaskPC, None, HandlesOK, TaskHandlesOK
  <2>4. insert_sub(sess[s], f, t) \in SessionRecord
    BY <2>1, SubsType
  <2>5. sess' \in [Sessions -> SessionRecord]
    BY <1>2, <1>t, <2>4 DEF Rehydrate
  <2>6. disk' \in DiskRecord
    <3>1. QoSOf(task') \in [Tasks -> QoS]
      BY <2>3 DEF QoSOf, TaskRecord
    <3> QED
      BY <1>2, <1>t, <2>1, <2>5, <3>1, DiskType DEF Rehydrate
  <2>7. made' \in [sess : 0..MaxSessions, conn : 0..MaxConns, task : 0..MaxTasks]
    <3>1. t \in 0..MaxTasks
      BY <2>1, ConstantsAssumption DEF Tasks
    <3> QED
      BY <1>2, <1>t, <3>1 DEF Rehydrate
  <2>8. node' \in NodeRecord /\ node'.sess = node.sess /\ node'.state = node.state
    BY <1>2, <1>t DEF Rehydrate, NodeRecord
  <2> QED
    BY <1>2, <2>3, <2>5, <2>6, <2>7, <2>8
       DEF Rehydrate, TypeOK, HandlesOK, ConnHandlesOK, NodeHandlesOK
<1>3. ASSUME NEW f \in Filters, NEW qos \in QoS, RehydrateSkips(f, qos)
      PROVE  TypeInv'
  <2>1. node' \in NodeRecord /\ node'.sess = node.sess /\ node'.state = node.state
    BY <1>3, <1>t DEF RehydrateSkips, NodeRecord
  <2> QED
    BY <1>3, <2>1
       DEF RehydrateSkips, TypeOK, HandlesOK, ConnHandlesOK, TaskHandlesOK, NodeHandlesOK
<1>4. CASE RehydrateDone
  <2>1. node.sess \in Sessions /\ sess[node.sess] \in SessionRecord
    BY <1>4, <1>t DEF RehydrateDone, HandlesOK, NodeHandlesOK
  <2>2. disk' \in DiskRecord
    <3>1. QoSOf(task) \in [Tasks -> QoS]
      BY <1>t DEF QoSOf, TaskRecord
    <3> QED
      BY <1>4, <1>t, <2>1, <3>1, DiskType DEF RehydrateDone
  <2>3. node' \in NodeRecord /\ node'.state = "up"
    BY <1>4, <1>t DEF RehydrateDone, NodeRecord, None
  <2> QED
    BY <1>4, <2>1, <2>2, <2>3
       DEF RehydrateDone, TypeOK, HandlesOK, ConnHandlesOK, TaskHandlesOK, NodeHandlesOK
<1> QED
  BY <1>1, <1>2, <1>3, <1>4 DEF StartupStep

-----------------------------------------------------------------------------
\* The initial states are well formed.
LEMMA TypeInit == Init => TypeInv
<1> SUFFICES ASSUME Init PROVE TypeInv
  OBVIOUS
<1>1. TypeOK
  <2>1. /\ sess \in [Sessions -> SessionRecord] /\ conn \in [Conns -> ConnRecord]
        /\ task \in [Tasks -> TaskRecord] /\ disk \in DiskRecord
    BY FreshType DEF Init
  <2>2. node \in NodeRecord
    BY DEF Init, NodeRecord
  <2>3. /\ 0 \in 0..MaxSessions /\ 0 \in 0..MaxConns /\ 0 \in 0..MaxTasks
        /\ 0 \in 0..MaxMsgs /\ 0 \in 0..MaxCrashes
    BY ConstantsAssumption, BrokerAssumption
  <2>4. made \in [sess : 0..MaxSessions, conn : 0..MaxConns, task : 0..MaxTasks]
    BY <2>3 DEF Init
  <2> QED
    BY <2>1, <2>2, <2>3, <2>4 DEF Init, TypeOK
<1>2. HandlesOK
  BY DEF Init, HandlesOK, ConnHandlesOK, TaskHandlesOK, NodeHandlesOK, FreeConn, FreeTask
<1> QED
  BY <1>1, <1>2 DEF TypeInv

\* Every step keeps the state well formed.
LEMMA TypeNext == TypeInv /\ [Next]_vars => TypeInv'
<1> SUFFICES ASSUME TypeInv, [Next]_vars PROVE TypeInv'
  OBVIOUS
<1>1. ASSUME NEW c \in Conns, ConnStep(c) PROVE TypeInv'
  BY <1>1, ConnLocalStep, AttachStep, SessionStep DEF ConnStep
<1>2. ASSUME NEW c \in Conns, ClientStep(c) PROVE TypeInv'
  BY <1>2, ConnLocalStep, AttachStep DEF ClientStep
<1>3. ASSUME NEW c \in Conns, WriterAborts(c) PROVE TypeInv'
  BY <1>3, ConnLocalStep
<1>4. CASE UNCHANGED vars
  BY <1>4 DEF vars, TypeInv, TypeOK, HandlesOK, ConnHandlesOK, TaskHandlesOK, NodeHandlesOK
<1> QED
  BY <1>1, <1>2, <1>3, <1>4, DeliverStep, PublishStep, SweepTypeStep, CrashStep,
     StartupTypeStep DEF Next

(***************************************************************************)
(* In every reachable state every variable of the node has its type and    *)
(* every process holds the handles its next step uses: no connection or    *)
(* forwarding task acts on a session, channel or message it does not have. *)
(***************************************************************************)
THEOREM TypeCorrect == Spec => [](TypeOK /\ HandlesOK)
<1>1. Init => TypeInv
  BY TypeInit
<1>2. TypeInv /\ [Next]_vars => TypeInv'
  BY TypeNext
<1>3. TypeInv => TypeOK /\ HandlesOK
  BY DEF TypeInv
<1> QED
  BY <1>1, <1>2, <1>3, PTL DEF Spec

=============================================================================
