------------------------- MODULE BrokerFenceProofs -------------------------
(***************************************************************************)
(* Fencing of superseded connections, for every value of the constants.    *)
(* The epoch of a session grows with every attach_conn, so the connections *)
(* that ever attached to one session have different epochs, and the sink   *)
(* belongs to the one whose epoch is the session's.  From there: clients   *)
(* that always ask for a clean session leave no forwarding task behind and *)
(* are served by the registered session, and with one subscription the     *)
(* offline queue keeps publication order.  Where, besides, nothing takes   *)
(* it away, the session implements Mailbox and no message is unaccounted   *)
(* for.                                                                    *)
(***************************************************************************)
EXTENDS BrokerQueueProofs, SequenceTheorems, FiniteSetTheorems

\* Connections that went through attach_conn in this life of the process,
\* the ones that have ended included.
Joined(c) == conn[c].pc \notin {"free", "replace", "attach"} /\ conn[c].sess # None

\* Handles name only sessions and connections that have been made.
MadeOK ==
    /\ registry <= made.sess
    /\ node.sess <= made.sess
    /\ node.state = "down" => made.sess = 0 /\ \A c \in Conns : conn[c].pc # "replace"
    /\ \A c \in Conns : conn[c].sess <= made.sess
    /\ \A c \in Conns : c > made.conn => conn[c].pc = "free"

EpochsOK ==
    /\ \A c \in Conns : Joined(c) => conn[c].epoch <= sess[conn[c].sess].epoch
    /\ \A c, d \in Conns :
          c # d /\ Joined(c) /\ Joined(d) /\ conn[c].sess = conn[d].sess
             => conn[c].epoch # conn[d].epoch

SinksOK ==
    \A s \in Sessions : sess[s].sink # None =>
        /\ Joined(sess[s].sink)
        /\ conn[sess[s].sink].sess = s
        /\ conn[sess[s].sink].epoch = sess[s].epoch

\* A task sends to a channel that was a sink, and finds it closed or
\* replaced when the send has failed.
SendOK(t) ==
    /\ task[t].pc \in {"send", "blocked", "timeout", "failed"} => Joined(task[t].tx)
    /\ task[t].pc = "failed" => Closed(task[t].tx) \/ sess[task[t].sess].sink # task[t].tx
    /\ task[t].pc = "timeout" => SlowGrace

SendsOK == \A t \in Tasks : SendOK(t)

FenceInv == MadeOK /\ EpochsOK /\ SinksOK /\ SendsOK

-----------------------------------------------------------------------------
(***************************************************************************)
(* Most steps leave alone what the invariant is about.                     *)
(***************************************************************************)
ConnFrame ==
    \A d \in Conns :
        /\ conn'[d].sess = conn[d].sess
        /\ conn'[d].epoch = conn[d].epoch
        /\ conn'[d].pc = "free" <=> conn[d].pc = "free"
        /\ conn'[d].pc \in {"free", "replace", "attach"}
              <=> conn[d].pc \in {"free", "replace", "attach"}
        /\ conn'[d].pc = "replace" => conn[d].pc = "replace"
        /\ conn[d].writer = "gone" => conn'[d].writer = "gone"

SessFrame ==
    \A s \in Sessions :
        sess'[s].epoch = sess[s].epoch /\ sess'[s].sink \in {sess[s].sink, None}

TaskFrame ==
    \A t \in Tasks : task'[t].pc \in {"send", "blocked", "timeout", "failed"} =>
        task'[t].pc = task[t].pc /\ task'[t].tx = task[t].tx /\ task'[t].sess = task[t].sess

NodeFrame ==
    /\ made'.sess = made.sess /\ made'.conn = made.conn
    /\ registry' <= made.sess
    /\ node'.sess <= made.sess
    /\ node'.state = "down" => node.state = "down"

\* Steps that change no epoch and install no sink.
LEMMA FrameFence ==
    ASSUME TypeInv, FenceInv, ConnFrame, SessFrame, NodeFrame
    PROVE  /\ MadeOK' /\ EpochsOK' /\ SinksOK'
           /\ \A c \in Conns : Joined(c)' <=> Joined(c)
<1>t. /\ \A c \in Conns : conn[c].sess \in Sessions \cup {None}
      /\ \A s \in Sessions : sess[s].sink \in Conns \cup {None}
  BY DEF TypeInv, TypeOK, ConnRecord, SessionRecord
<1>1. \A c \in Conns : Joined(c)' <=> Joined(c)
  BY DEF Joined, ConnFrame
<1>2. MadeOK'
  BY DEF FenceInv, MadeOK, ConnFrame, NodeFrame
<1>3. EpochsOK'
  <2>1. \A c \in Conns : Joined(c) => conn[c].sess \in Sessions
    BY <1>t DEF Joined
  <2> QED
    BY <1>1, <2>1 DEF FenceInv, EpochsOK, ConnFrame, SessFrame
<1>4. SinksOK'
  <2> SUFFICES ASSUME NEW s \in Sessions, sess'[s].sink # None
               PROVE  /\ Joined(sess[s].sink)'
                      /\ conn'[sess'[s].sink].sess = s
                      /\ conn'[sess'[s].sink].epoch = sess'[s].epoch
    BY DEF SinksOK
  <2>1. sess'[s].sink = sess[s].sink /\ sess[s].sink \in Conns /\ sess'[s].epoch = sess[s].epoch
    BY <1>t DEF SessFrame
  <2>2. /\ Joined(sess[s].sink) /\ conn[sess[s].sink].sess = s
        /\ conn[sess[s].sink].epoch = sess[s].epoch
    BY <2>1 DEF FenceInv, SinksOK
  <2>3. conn'[sess[s].sink].sess = s /\ conn'[sess[s].sink].epoch = sess[s].epoch
    BY <2>1, <2>2 DEF ConnFrame
  <2>4. Joined(sess[s].sink)'
    <3>1. conn'[sess[s].sink].pc \notin {"free", "replace", "attach"}
      BY <2>1, <2>2 DEF ConnFrame, Joined
    <3> QED
      BY <2>1, <2>2, <2>3, <3>1 DEF Joined
  <2> QED
    BY <2>1, <2>3, <2>4
<1> QED
  BY <1>1, <1>2, <1>3, <1>4

\* A task that moreover starts and fails no send.
LEMMA FrameSend ==
    ASSUME TypeInv, FenceInv, ConnFrame, SessFrame, NEW t \in Tasks,
           task'[t].pc \in {"send", "blocked", "timeout", "failed"} =>
              task'[t].pc = task[t].pc /\ task'[t].tx = task[t].tx /\ task'[t].sess = task[t].sess
    PROVE  SendOK(t)'
<1>t. /\ task[t].pc \in {"send", "blocked", "timeout", "failed"} =>
            task[t].tx \in Conns /\ task[t].sess \in Sessions
      /\ \A c \in Conns : c # None
  BY DEF TypeInv, HandlesOK, TaskHandlesOK, Conns, None
<1> SUFFICES ASSUME task'[t].pc \in {"send", "blocked", "timeout", "failed"}
             PROVE  /\ Joined(task[t].tx)'
                    /\ task'[t].pc = "failed" =>
                          Closed(task[t].tx)' \/ sess'[task'[t].sess].sink # task'[t].tx
                    /\ task'[t].pc = "timeout" => SlowGrace
  BY DEF SendOK
<1> DEFINE tx == task[t].tx
<1>1. /\ task'[t].pc = task[t].pc /\ task'[t].tx = tx /\ task'[t].sess = task[t].sess
      /\ tx \in Conns /\ task[t].sess \in Sessions
  BY <1>t
<1>2. Joined(task[t].tx)'
  <2>1. Joined(tx)
    BY <1>1 DEF FenceInv, SendsOK, SendOK
  <2>2. conn'[tx].pc \notin {"free", "replace", "attach"} /\ conn'[tx].sess # None
    BY <1>1, <2>1 DEF Joined, ConnFrame
  <2> QED
    BY <1>1, <2>2 DEF Joined
<1>3. ASSUME task'[t].pc = "failed"
      PROVE  Closed(task[t].tx)' \/ sess'[task'[t].sess].sink # task'[t].tx
  <2>1. CASE Closed(tx)
    BY <1>1, <2>1 DEF Closed, ConnFrame
  <2>2. CASE sess[task[t].sess].sink # tx
    BY <1>1, <1>t, <2>2 DEF SessFrame
  <2> QED
    BY <1>1, <1>3, <2>1, <2>2 DEF FenceInv, SendsOK, SendOK
<1>4. task'[t].pc = "timeout" => SlowGrace
  BY <1>1 DEF FenceInv, SendsOK, SendOK
<1> QED
  BY <1>2, <1>3, <1>4

\* All tasks.
LEMMA FrameSends ==
    ASSUME TypeInv, FenceInv, ConnFrame, SessFrame, TaskFrame
    PROVE  SendsOK'
  BY FrameSend DEF TaskFrame, SendsOK

\* FenceInv and stuttering of what it is about.
LEMMA NodeStays ==
    ASSUME TypeInv, FenceInv, made' = made, registry' = registry, node' = node
    PROVE  NodeFrame
  BY DEF FenceInv, MadeOK, NodeFrame

\* Steps that change the record of one connection.
LEMMA LocalConnFrame ==
    ASSUME NEW c \in Conns,
           \A d \in Conns \ {c} : conn'[d] = conn[d],
           conn'[c].sess = conn[c].sess, conn'[c].epoch = conn[c].epoch,
           conn[c].pc \notin {"free", "replace", "attach"}, conn'[c].pc \notin {"free", "replace", "attach"},
           conn[c].writer = "gone" => conn'[c].writer = "gone"
    PROVE  ConnFrame
  BY DEF ConnFrame

\* See LocalConnFrame.
LEMMA RecordConnFrame ==
    ASSUME TypeInv, NEW c \in Conns, NEW r, conn' = [conn EXCEPT ![c] = r],
           r.sess = conn[c].sess, r.epoch = conn[c].epoch,
           conn[c].pc \notin {"free", "replace", "attach"}, r.pc \notin {"free", "replace", "attach"},
           conn[c].writer = "gone" => r.writer = "gone"
    PROVE  ConnFrame
<1>1. conn'[c] = r /\ \A d \in Conns \ {c} : conn'[d] = conn[d]
  BY DEF TypeInv, TypeOK
<1> QED
  BY <1>1, LocalConnFrame

-----------------------------------------------------------------------------
(***************************************************************************)
(* One lemma per group of actions.                                         *)
(***************************************************************************)

\* Steps of a connection that change only its own record.
LEMMA FenceLocal ==
    ASSUME TypeInv, FenceInv, NEW c \in Conns,
           \/ SendConnAck(c) \/ ConnectEvent(c) \/ DrainBacklog(c) \/ EnterRun(c)
           \/ ServeFails(c) \/ DisconnectEvent(c)
           \/ Reply(c) \/ Handled(c) \/ Disconnect(c) \/ RunFails(c) \/ Kicked(c)
           \/ \E handler \in Requests : ReadPacket(c, handler)
           \/ Write(c) \/ WriteFails(c) \/ WriterAborts(c)
           \/ DiscardQueueFile(c)
    PROVE  FenceInv' /\ sess' = sess
<1>t. conn \in [Conns -> ConnRecord]
  BY DEF TypeInv, TypeOK
<1>1. UNCHANGED <<registry, sess, task, node, made>>
  BY DEF SendConnAck, ConnectEvent, DisconnectEvent, DrainBacklog, EnterRun, ServeFails, Reply, Handled, Disconnect,
     RunFails, Kicked, EndRun, ReadPacket, Write, WriteFails, WriterAborts, DiscardQueueFile
<1>2. ConnFrame
  <2>1. CASE SendConnAck(c)
    <3> DEFINE o == Put(c, "connack", None)
               r == [conn[c] EXCEPT !.pc = "hello", !.out = o]
    <3>1. conn' = [conn EXCEPT ![c] = r] /\ conn[c].pc \notin {"free", "replace", "attach"}
      BY <1>t, <2>1 DEF SendConnAck
    <3> HIDE DEF o
    <3>2. /\ r.sess = conn[c].sess /\ r.epoch = conn[c].epoch
          /\ r.pc = "hello" /\ r.writer = conn[c].writer
      BY <1>t DEF ConnRecord
    <3> HIDE DEF r
    <3> QED
      BY <3>1, <3>2, RecordConnFrame
  <2>2. CASE DrainBacklog(c)
    <3> DEFINE b == Tail(conn[c].backlog)
               o == Put(c, "backlog", Head(conn[c].backlog))
               r == [conn[c] EXCEPT !.backlog = b, !.out = o]
    <3>1. conn' = [conn EXCEPT ![c] = r] /\ conn[c].pc \notin {"free", "replace", "attach"}
      BY <1>t, <2>2 DEF DrainBacklog
    <3> HIDE DEF b, o
    <3>2. /\ r.sess = conn[c].sess /\ r.epoch = conn[c].epoch
          /\ r.pc = conn[c].pc /\ r.writer = conn[c].writer
      BY <1>t DEF ConnRecord
    <3> HIDE DEF r
    <3> QED
      BY <3>1, <3>2, RecordConnFrame
  <2>3. CASE EnterRun(c)
    <3> DEFINE r == [conn[c] EXCEPT !.pc = "select"]
    <3>1. conn' = [conn EXCEPT ![c] = r] /\ conn[c].pc \notin {"free", "replace", "attach"}
      BY <1>t, <2>3 DEF EnterRun
    <3>2. /\ r.sess = conn[c].sess /\ r.epoch = conn[c].epoch
          /\ r.pc = "select" /\ r.writer = conn[c].writer
      BY <1>t DEF ConnRecord
    <3> HIDE DEF r
    <3> QED
      BY <3>1, <3>2, RecordConnFrame
  <2>4. CASE ServeFails(c)
    <3> DEFINE r == [conn[c] EXCEPT !.pc = "closed"]
    <3>1. conn' = [conn EXCEPT ![c] = r] /\ conn[c].pc \notin {"free", "replace", "attach"}
      BY <1>t, <2>4 DEF ServeFails
    <3>2. /\ r.sess = conn[c].sess /\ r.epoch = conn[c].epoch
          /\ r.pc = "closed" /\ r.writer = conn[c].writer
      BY <1>t DEF ConnRecord
    <3> HIDE DEF r
    <3> QED
      BY <3>1, <3>2, RecordConnFrame
  <2>5. CASE DiscardQueueFile(c)
    <3> DEFINE r == [conn[c] EXCEPT !.pc = "connack"]
    <3>1. conn' = [conn EXCEPT ![c] = r] /\ conn[c].pc \notin {"free", "replace", "attach"}
      BY <1>t, <2>5 DEF DiscardQueueFile
    <3>2. /\ r.sess = conn[c].sess /\ r.epoch = conn[c].epoch
          /\ r.pc = "connack" /\ r.writer = conn[c].writer
      BY <1>t DEF ConnRecord
    <3> HIDE DEF r
    <3> QED
      BY <3>1, <3>2, RecordConnFrame
  <2>6. CASE Reply(c)
    <3> DEFINE o == Put(c, "reply", None)
               r == [conn[c] EXCEPT !.pc = "reply", !.out = o]
    <3>1. conn' = [conn EXCEPT ![c] = r] /\ conn[c].pc \notin {"free", "replace", "attach"}
      BY <1>t, <2>6 DEF Reply
    <3> HIDE DEF o
    <3>2. /\ r.sess = conn[c].sess /\ r.epoch = conn[c].epoch
          /\ r.pc = "reply" /\ r.writer = conn[c].writer
      BY <1>t DEF ConnRecord
    <3> HIDE DEF r
    <3> QED
      BY <3>1, <3>2, RecordConnFrame
  <2>7. CASE Handled(c)
    <3> DEFINE r == [conn[c] EXCEPT !.pc = "select"]
    <3>1. conn' = [conn EXCEPT ![c] = r] /\ conn[c].pc \notin {"free", "replace", "attach"}
      BY <1>t, <2>7 DEF Handled
    <3>2. /\ r.sess = conn[c].sess /\ r.epoch = conn[c].epoch
          /\ r.pc = "select" /\ r.writer = conn[c].writer
      BY <1>t DEF ConnRecord
    <3> HIDE DEF r
    <3> QED
      BY <3>1, <3>2, RecordConnFrame
  <2>8. ASSUME NEW will, EndRun(c, will), conn[c].pc \notin {"free", "replace", "attach"}
        PROVE  ConnFrame
    <3> DEFINE w == IF conn[c].writer = "up" THEN "aborting" ELSE conn[c].writer
               r == [conn[c] EXCEPT !.pc = "ended", !.will = will, !.notified = FALSE, !.writer = w]
    <3>1. conn' = [conn EXCEPT ![c] = r]
      BY <1>t, <2>8 DEF EndRun
    <3>2. conn[c].writer = "gone" => w = "gone"
      OBVIOUS
    <3> HIDE DEF w
    <3>3. /\ r.sess = conn[c].sess /\ r.epoch = conn[c].epoch
          /\ r.pc = "ended" /\ r.writer = w
      BY <1>t DEF ConnRecord
    <3> HIDE DEF r
    <3> QED
      BY <2>8, <3>1, <3>2, <3>3, RecordConnFrame
  <2>9. CASE Disconnect(c) \/ RunFails(c) \/ Kicked(c)
    BY <2>8, <2>9 DEF Disconnect, RunFails, Kicked
  <2>10. ASSUME NEW handler \in Requests, ReadPacket(c, handler)
         PROVE  ConnFrame
    <3> DEFINE r == [conn[c] EXCEPT !.pc = handler, !.notified = FALSE]
    <3>1. conn' = [conn EXCEPT ![c] = r] /\ conn[c].pc = "select"
      BY <1>t, <2>10 DEF ReadPacket
    <3>2. /\ r.sess = conn[c].sess /\ r.epoch = conn[c].epoch
          /\ r.pc = handler /\ r.writer = conn[c].writer
      BY <1>t DEF ConnRecord
    <3>3. handler \notin {"free", "replace", "attach"}
      BY BrokerAssumption
    <3> HIDE DEF r
    <3> QED
      BY <3>1, <3>2, <3>3, RecordConnFrame
  <2>11. CASE Write(c)
    BY <1>t, <2>11 DEF ConnRecord, ConnFrame, Write
  <2>12. CASE WriteFails(c)
    BY <1>t, <2>12 DEF ConnRecord, ConnFrame, WriteFails
  <2>13. CASE WriterAborts(c)
    BY <1>t, <2>13 DEF ConnRecord, ConnFrame, WriterAborts
  <2>14. CASE ConnectEvent(c)
    <3> DEFINE r == [conn[c] EXCEPT !.pc = "drain"]
    <3>1. conn' = [conn EXCEPT ![c] = r] /\ conn[c].pc \notin {"free", "replace", "attach"}
      BY <1>t, <2>14 DEF ConnectEvent
    <3>2. /\ r.sess = conn[c].sess /\ r.epoch = conn[c].epoch
          /\ r.pc = "drain" /\ r.writer = conn[c].writer
      BY <1>t DEF ConnRecord
    <3> HIDE DEF r
    <3> QED
      BY <3>1, <3>2, RecordConnFrame
  <2>15. CASE DisconnectEvent(c)
    <3> DEFINE r == [conn[c] EXCEPT !.pc = "closed"]
    <3>1. conn' = [conn EXCEPT ![c] = r] /\ conn[c].pc \notin {"free", "replace", "attach"}
      BY <1>t, <2>15 DEF DisconnectEvent
    <3>2. /\ r.sess = conn[c].sess /\ r.epoch = conn[c].epoch
          /\ r.pc = "closed" /\ r.writer = conn[c].writer
      BY <1>t DEF ConnRecord
    <3> HIDE DEF r
    <3> QED
      BY <3>1, <3>2, RecordConnFrame
  <2> QED
    BY <2>1, <2>2, <2>3, <2>4, <2>5, <2>6, <2>7, <2>9, <2>10, <2>11, <2>12, <2>13, <2>14,
       <2>15
<1>3. SessFrame /\ TaskFrame
  BY <1>1 DEF SessFrame, TaskFrame
<1> QED
  BY <1>1, <1>2, <1>3, NodeStays, FrameFence, FrameSends DEF FenceInv

\* Subscribing, unsubscribing and the end of a clean session.
LEMMA FenceSubs ==
    ASSUME TypeInv, FenceInv, NEW c \in Conns,
           \/ \E f \in Filters, req \in ReqQoS : Subscribe(c, f, req)
           \/ InsertSub(c)
           \/ \E f \in Filters : Unsubscribe(c, f)
           \/ Purge(c) \/ Unmap(c)
    PROVE  FenceInv' /\ \A s \in Sessions : sess'[s].sink = sess[s].sink
<1>t. /\ conn \in [Conns -> ConnRecord] /\ sess \in [Sessions -> SessionRecord]
      /\ task \in [Tasks -> TaskRecord] /\ made \in [sess : 0..MaxSessions, conn : 0..MaxConns, task : 0..MaxTasks]
      /\ conn[c].pc \notin {"free", "closed", "replace"} => conn[c].sess \in Sessions
  BY DEF TypeInv, TypeOK, HandlesOK, ConnHandlesOK
<1>m. registry <= made.sess /\ node.sess <= made.sess /\ None <= made.sess
  BY <1>t DEF FenceInv, MadeOK, None
<1>1. ASSUME ConnFrame, SessFrame, TaskFrame, NodeFrame
      PROVE  FenceInv'
  BY <1>1, FrameFence, FrameSends DEF FenceInv
<1>2. ASSUME NEW f \in Filters, NEW req \in ReqQoS, Subscribe(c, f, req)
      PROVE  FenceInv' /\ sess' = sess
  <2>1. ConnFrame
    <3> DEFINE n == made.task + 1
               r == [conn[c] EXCEPT !.pc = "insert", !.filter = f, !.task = n]
    <3>1. conn' = [conn EXCEPT ![c] = r] /\ conn[c].pc = "subscribe"
      BY <1>2, <1>t DEF Subscribe
    <3> HIDE DEF n
    <3>2. /\ r.sess = conn[c].sess /\ r.epoch = conn[c].epoch
          /\ r.pc = "insert" /\ r.writer = conn[c].writer
      BY <1>t DEF ConnRecord
    <3> HIDE DEF r
    <3> QED
      BY <3>1, <3>2, RecordConnFrame
  <2>2. SessFrame /\ sess' = sess
    BY <1>2 DEF Subscribe, SessFrame
  <2>3. TaskFrame
    BY <1>2, <1>t DEF Subscribe, Spawn, FreeTask, TaskFrame
  <2>4. NodeFrame
    BY <1>2, <1>t, <1>m DEF Subscribe, NodeFrame
  <2> QED
    BY <1>1, <2>1, <2>2, <2>3, <2>4
<1>3. ASSUME NEW r, NEW T, conn[c].sess \in Sessions,
             r.sink = sess[conn[c].sess].sink, r.epoch = sess[conn[c].sess].epoch,
             sess' = [sess EXCEPT ![conn[c].sess] = r], task' = Abort(task, T),
             UNCHANGED <<registry, node, made>>, ConnFrame
      PROVE  FenceInv' /\ \A s \in Sessions : sess'[s].sink = sess[s].sink
  <2>1. \A s \in Sessions : sess'[s].sink = sess[s].sink /\ sess'[s].epoch = sess[s].epoch
    BY <1>3, <1>t
  <2>2. TaskFrame
    BY <1>3, <1>t, AbortType DEF TaskFrame
  <2>3. NodeFrame
    BY <1>3, NodeStays
  <2> QED
    BY <1>1, <1>3, <2>1, <2>2, <2>3 DEF SessFrame
<1>4. CASE InsertSub(c)
  <2> DEFINE r == insert_sub(sess[conn[c].sess], conn[c].filter, conn[c].task)
             T == {sess[conn[c].sess].subs[conn[c].filter]}
  <2>1. /\ conn[c].sess \in Sessions /\ sess' = [sess EXCEPT ![conn[c].sess] = r]
        /\ task' = Abort(task, T) /\ UNCHANGED <<registry, node, made>>
    BY <1>4, <1>t DEF InsertSub
  <2>2. r.sink = sess[conn[c].sess].sink /\ r.epoch = sess[conn[c].sess].epoch
    BY <1>t, <2>1, SubsKeep
  <2>3. ConnFrame
    <3> DEFINE q == [conn[c] EXCEPT !.pc = "subscribe", !.filter = None, !.task = None]
    <3>1. conn' = [conn EXCEPT ![c] = q] /\ conn[c].pc = "insert"
      BY <1>4, <1>t DEF InsertSub
    <3>2. /\ q.sess = conn[c].sess /\ q.epoch = conn[c].epoch
          /\ q.pc = "subscribe" /\ q.writer = conn[c].writer
      BY <1>t DEF ConnRecord
    <3> HIDE DEF q
    <3> QED
      BY <3>1, <3>2, RecordConnFrame
  <2> HIDE DEF r, T
  <2> QED
    BY <1>3, <2>1, <2>2, <2>3
<1>5. ASSUME NEW f \in Filters, Unsubscribe(c, f)
      PROVE  FenceInv' /\ \A s \in Sessions : sess'[s].sink = sess[s].sink
  <2> DEFINE r == remove_sub(sess[conn[c].sess], f)
             T == {sess[conn[c].sess].subs[f]}
  <2>1. /\ conn[c].sess \in Sessions /\ sess' = [sess EXCEPT ![conn[c].sess] = r]
        /\ task' = Abort(task, T) /\ UNCHANGED <<registry, node, made>>
    BY <1>5, <1>t DEF Unsubscribe
  <2>2. r.sink = sess[conn[c].sess].sink /\ r.epoch = sess[conn[c].sess].epoch
    BY <1>t, <2>1, SubsKeep
  <2>3. ConnFrame
    BY <1>5 DEF Unsubscribe, ConnFrame
  <2> HIDE DEF r, T
  <2> QED
    BY <1>3, <2>1, <2>2, <2>3
<1>6. CASE Purge(c)
  <2> DEFINE r == abort_subs(sess[conn[c].sess])
             T == SubTasks(conn[c].sess)
  <2>1. /\ conn[c].sess \in Sessions /\ sess' = [sess EXCEPT ![conn[c].sess] = r]
        /\ task' = Abort(task, T) /\ UNCHANGED <<registry, node, made>>
    BY <1>6, <1>t DEF Purge
  <2>2. r.sink = sess[conn[c].sess].sink /\ r.epoch = sess[conn[c].sess].epoch
    BY <1>t, <2>1, SubsKeep
  <2>3. ConnFrame
    <3> DEFINE q == [conn[c] EXCEPT !.pc = "unmap"]
    <3>1. conn' = [conn EXCEPT ![c] = q] /\ conn[c].pc = "purge"
      BY <1>6, <1>t DEF Purge
    <3>2. /\ q.sess = conn[c].sess /\ q.epoch = conn[c].epoch
          /\ q.pc = "unmap" /\ q.writer = conn[c].writer
      BY <1>t DEF ConnRecord
    <3> HIDE DEF q
    <3> QED
      BY <3>1, <3>2, RecordConnFrame
  <2> HIDE DEF r, T
  <2> QED
    BY <1>3, <2>1, <2>2, <2>3
<1>7. CASE Unmap(c)
  <2>1. ConnFrame
    <3> DEFINE q == [conn[c] EXCEPT !.pc = "bye"]
    <3>1. conn' = [conn EXCEPT ![c] = q] /\ conn[c].pc = "unmap"
      BY <1>7, <1>t DEF Unmap
    <3>2. /\ q.sess = conn[c].sess /\ q.epoch = conn[c].epoch
          /\ q.pc = "bye" /\ q.writer = conn[c].writer
      BY <1>t DEF ConnRecord
    <3> HIDE DEF q
    <3> QED
      BY <3>1, <3>2, RecordConnFrame
  <2>2. SessFrame /\ TaskFrame /\ sess' = sess
    BY <1>7 DEF Unmap, SessFrame, TaskFrame
  <2>3. NodeFrame
    BY <1>7, <1>m DEF Unmap, RemoveEntry, NodeFrame, FenceInv, MadeOK
  <2> QED
    BY <1>1, <2>1, <2>2, <2>3
<1> QED
  BY <1>2, <1>4, <1>5, <1>6, <1>7

\* A connection arrives, with or without a new session: it has not joined,
\* nobody else is touched, and a session not made yet has no sink.
LEMMA FenceArrive ==
    ASSUME TypeInv, FenceInv, NEW c \in Conns, ~Joined(c),
           made'.conn \in Nat, made'.conn >= made.conn, c <= made'.conn,
           made'.sess \in Nat, made'.sess >= made.sess,
           conn'[c].pc \in {"replace", "attach"}, conn'[c].sess <= made'.sess,
           \A d \in Conns \ {c} :
              /\ conn'[d].sess = conn[d].sess /\ conn'[d].epoch = conn[d].epoch
              /\ conn'[d].pc = conn[d].pc /\ conn'[d].writer = conn[d].writer,
           registry' <= made'.sess, node' = node, node.state # "down",
           \A s \in Sessions : s <= made.sess =>
              sess'[s].epoch = sess[s].epoch /\ sess'[s].sink = sess[s].sink,
           \A s \in Sessions : s > made.sess => sess'[s].sink \in {sess[s].sink, None},
           TaskFrame
    PROVE  FenceInv' /\ \A s \in Sessions : sess'[s].sink = sess[s].sink
<1>t. /\ \A d \in Conns : conn[d].sess \in Sessions \cup {None}
      /\ \A s \in Sessions : sess[s].sink \in Conns \cup {None}
      /\ made.sess \in Nat /\ made.conn \in Nat /\ node.sess \in Nat
      /\ \A t \in Tasks : task[t].pc \in {"send", "blocked", "timeout", "failed"} =>
            task[t].tx \in Conns /\ task[t].sess \in Sessions
      /\ Sessions \subseteq Nat /\ Conns \subseteq Nat /\ None = 0 /\ 0 \notin Conns
  <2>1. /\ Sessions \subseteq Nat /\ Conns \subseteq Nat /\ None = 0 /\ 0 \notin Conns
        /\ None \in Nat /\ 0..MaxSessions \subseteq Nat /\ 0..MaxConns \subseteq Nat
    BY DEF Sessions, Conns, None
  <2>2. /\ \A d \in Conns : conn[d].sess \in Sessions \cup {None}
        /\ \A s \in Sessions : sess[s].sink \in Conns \cup {None}
    BY DEF TypeInv, TypeOK, ConnRecord, SessionRecord
  <2>3. made.sess \in 0..MaxSessions /\ made.conn \in 0..MaxConns /\ node.sess \in Sessions \cup {None}
    BY DEF TypeInv, TypeOK, NodeRecord
  <2>4. \A t \in Tasks : task[t].pc \in {"send", "blocked", "timeout", "failed"} =>
           task[t].tx \in Conns /\ task[t].sess \in Sessions
    BY DEF TypeInv, HandlesOK, TaskHandlesOK
  <2>5. made.sess \in Nat /\ made.conn \in Nat /\ node.sess \in Nat
    BY <2>1, <2>3
  <2> QED
    BY <2>1, <2>2, <2>4, <2>5
<1>1. /\ ~Joined(c)
      /\ \A d \in Conns : conn[d].sess <= made.sess
      /\ \A d \in Conns : d > made.conn => conn[d].pc = "free"
      /\ node.sess <= made.sess
  BY <1>t DEF FenceInv, MadeOK, Joined
<1>2. \A s \in Sessions : s > made.sess => sess[s].sink = None
  <2> SUFFICES ASSUME NEW s \in Sessions, s > made.sess, sess[s].sink # None PROVE FALSE
    OBVIOUS
  <2>1. sess[s].sink \in Conns /\ conn[sess[s].sink].sess = s
    BY <1>t DEF FenceInv, SinksOK
  <2>2. s <= made.sess
    BY <1>1, <2>1
  <2> QED
    BY <1>t, <2>2
<1>3. \A s \in Sessions : sess'[s].sink = sess[s].sink
  BY <1>t, <1>2
<1>4. \A d \in Conns : Joined(d)' <=> Joined(d)
  <2>1. ~Joined(c)'
    BY DEF Joined
  <2> QED
    BY <1>1, <2>1 DEF Joined
<1>5. MadeOK'
  <2>1. ASSUME NEW d \in Conns PROVE conn'[d].sess <= made'.sess
    <3>1. CASE d = c
      BY <3>1
    <3>2. CASE d # c
      <4>0. conn[d].sess \in Sessions \cup {None} /\ conn[d].sess <= made.sess
        BY <1>t, <1>1
      <4>1. conn'[d].sess = conn[d].sess
        BY <3>2
      <4>3. conn[d].sess \in Nat
        BY <4>0 DEF Sessions, None
      <4>2. \A i, j, k \in Nat : i <= j /\ k >= j => i <= k
        OBVIOUS
      <4> QED
        BY <1>t, <4>0, <4>1, <4>2, <4>3
    <3> QED
      BY <3>1, <3>2
  <2>2. ASSUME NEW d \in Conns, d > made'.conn PROVE conn'[d].pc = "free"
    <3>1. d # c /\ d > made.conn
      BY <1>t, <2>2
    <3> QED
      BY <1>1, <3>1
  <2> QED
    BY <1>t, <1>1, <2>1, <2>2 DEF MadeOK
<1>6. EpochsOK'
  <2>1. \A d \in Conns : Joined(d) =>
           /\ d # c /\ conn[d].sess \in Sessions /\ conn'[d].sess = conn[d].sess
           /\ conn'[d].epoch = conn[d].epoch
           /\ sess'[conn[d].sess].epoch = sess[conn[d].sess].epoch
    BY <1>t, <1>1 DEF Joined
  <2> QED
    BY <1>4, <2>1 DEF FenceInv, EpochsOK
<1>7. SinksOK'
  <2> SUFFICES ASSUME NEW s \in Sessions, sess'[s].sink # None
               PROVE  /\ Joined(sess[s].sink)'
                      /\ conn'[sess'[s].sink].sess = s
                      /\ conn'[sess'[s].sink].epoch = sess'[s].epoch
    BY DEF SinksOK
  <2> DEFINE d == sess[s].sink
  <2>1. sess'[s].sink = d /\ d \in Conns /\ s <= made.sess /\ sess'[s].epoch = sess[s].epoch
    BY <1>t, <1>2, <1>3
  <2>2. Joined(d) /\ conn[d].sess = s /\ conn[d].epoch = sess[s].epoch
    BY <2>1 DEF FenceInv, SinksOK
  <2>3. d # c
    BY <1>1, <2>2
  <2>4. conn'[d].sess = s /\ conn'[d].epoch = sess[s].epoch /\ conn'[d].pc = conn[d].pc
    BY <2>1, <2>2, <2>3
  <2>5. Joined(sess[s].sink)'
    BY <2>1, <2>2, <2>4 DEF Joined
  <2> QED
    BY <2>1, <2>4, <2>5
<1>8. SendsOK'
  <2> SUFFICES ASSUME NEW t \in Tasks, task'[t].pc \in {"send", "blocked", "timeout", "failed"}
               PROVE  /\ Joined(task[t].tx)'
                      /\ task'[t].pc = "failed" =>
                            Closed(task[t].tx)' \/ sess'[task'[t].sess].sink # task'[t].tx
                      /\ task'[t].pc = "timeout" => SlowGrace
    BY DEF SendsOK, SendOK
  <2> DEFINE tx == task[t].tx
  <2>1. /\ task'[t].pc = task[t].pc /\ task'[t].tx = tx /\ task'[t].sess = task[t].sess
        /\ tx \in Conns /\ task[t].sess \in Sessions
    BY <1>t DEF TaskFrame
  <2>2. Joined(tx) /\ tx # c
    BY <1>1, <2>1 DEF FenceInv, SendsOK, SendOK
  <2>3. /\ conn'[tx].sess = conn[tx].sess /\ conn'[tx].pc = conn[tx].pc
        /\ conn'[tx].writer = conn[tx].writer
    BY <2>1, <2>2
  <2>4. Joined(task[t].tx)'
    BY <2>1, <2>2, <2>3 DEF Joined
  <2>5. task'[t].pc = "failed" => Closed(task[t].tx)' \/ sess'[task'[t].sess].sink # task'[t].tx
    <3>1. task[t].pc = "failed" => conn[tx].writer = "gone" \/ sess[task[t].sess].sink # tx
      BY DEF FenceInv, SendsOK, SendOK, Closed
    <3>2. sess'[task[t].sess].sink = sess[task[t].sess].sink
      BY <1>3, <2>1
    <3> QED
      BY <2>1, <2>3, <3>1, <3>2 DEF Closed
  <2>6. task'[t].pc = "timeout" => SlowGrace
    BY <2>1 DEF FenceInv, SendsOK, SendOK
  <2> QED
    BY <2>4, <2>5, <2>6
<1> QED
  BY <1>3, <1>5, <1>6, <1>7, <1>8 DEF FenceInv

\* SessionRegistry::attach, its part under the registry's mutex.
LEMMA FenceAttach ==
    ASSUME TypeInv, FenceInv, NEW c \in Conns,
           \/ AttachExisting(c) \/ DiscardExisting(c) \/ ReplaceSession(c)
           \/ \E clean \in CleanFlags : AttachNew(c, clean)
    PROVE  FenceInv' /\ \A s \in Sessions : sess'[s].sink = sess[s].sink
<1>t. /\ conn \in [Conns -> ConnRecord] /\ sess \in [Sessions -> SessionRecord]
      /\ task \in [Tasks -> TaskRecord] /\ disk \in DiskRecord
      /\ made \in [sess : 0..MaxSessions, conn : 0..MaxConns, task : 0..MaxTasks]
      /\ registry \in Sessions \cup {None} /\ registry <= made.sess
      /\ Sessions \subseteq Nat /\ made.sess \in Nat
  BY DEF TypeInv, TypeOK, FenceInv, MadeOK, Sessions
<1>n. ASSUME c = made.conn + 1
      PROVE  /\ ~Joined(c) /\ c \in Nat /\ c >= made.conn /\ c <= c
  <2>1. made.conn \in Nat
    BY <1>t
  <2>2. conn[c].pc = "free"
    BY <1>n, <2>1 DEF FenceInv, MadeOK
  <2> QED
    BY <1>n, <2>1, <2>2 DEF Joined
<1>1. CASE AttachExisting(c)
  <2>1. /\ node.state = "up" /\ c = made.conn + 1 /\ made' = [made EXCEPT !.conn = c]
        /\ conn' = Attaching(conn, c, FALSE, registry, TRUE) /\ registry \in Sessions
        /\ UNCHANGED <<registry, sess, task, node>>
    BY <1>1, <1>t DEF AttachExisting, NewConn
  <2>2. made'.conn = c /\ made'.sess = made.sess
    BY <1>t, <2>1
  <2>3. /\ conn'[c].pc = "attach" /\ conn'[c].sess = registry
        /\ \A d \in Conns \ {c} : conn'[d] = conn[d]
    <3> DEFINE no == FALSE
               yes == TRUE
    <3>1. conn' = Attaching(conn, c, no, registry, yes) /\ no \in BOOLEAN /\ yes \in BOOLEAN
      BY <2>1
    <3>2. registry \in Sessions /\ conn \in [Conns -> ConnRecord]
      BY <1>t, <2>1
    <3> HIDE DEF no, yes
    <3> QED
      BY <3>1, <3>2, AttachingType
  <2>4. TaskFrame
    BY <2>1 DEF TaskFrame
  <2>5. made'.sess \in Nat /\ made'.sess >= made.sess /\ registry' <= made'.sess
    BY <1>t, <2>1, <2>2
  <2>6. /\ conn'[c].sess <= made'.sess /\ sess' = sess /\ node' = node
        /\ node.state = "up" /\ c = made.conn + 1
    BY <1>t, <2>1, <2>2, <2>3
  <2>7. \A d \in Conns \ {c} :
           /\ conn'[d].sess = conn[d].sess /\ conn'[d].epoch = conn[d].epoch
           /\ conn'[d].pc = conn[d].pc /\ conn'[d].writer = conn[d].writer
    BY <2>3
  <2>8. ~Joined(c) /\ made'.conn \in Nat /\ made'.conn >= made.conn /\ c <= made'.conn
    BY <1>n, <2>1, <2>2
  <2> QED
    BY <2>3, <2>4, <2>5, <2>6, <2>7, <2>8, FenceArrive
<1>2. ASSUME NEW clean \in CleanFlags, AttachNew(c, clean)
      PROVE  FenceInv' /\ \A s \in Sessions : sess'[s].sink = sess[s].sink
  <2> DEFINE n     == made.sess + 1
             kept  == IF clean THEN NoFiles ELSE disk
             file  == kept.queue
             durable == ~clean /\ DataDir
             fresh == new(durable, file)
  <2>1. /\ node.state = "up" /\ c = made.conn + 1 /\ n \in Sessions
        /\ made' = [made EXCEPT !.conn = c, !.sess = n] /\ registry' = n /\ node' = node
    BY <1>2 DEF AttachNew, NewConn
  <2>2. made'.conn = c /\ made'.sess = n
    BY <1>t, <2>1
  <2>3. fresh.sink = None
    <3>1. durable \in BOOLEAN /\ file \in Seq(Msgs) /\ clean \in BOOLEAN
      BY <1>t, BrokerAssumption, ConstantsAssumption DEF NoFiles, DiskRecord
    <3> HIDE DEF durable, file
    <3> QED
      BY <3>1, NewKeepsBound
  <2>c. clean \in BOOLEAN
    BY BrokerAssumption
  <2> DEFINE present == kept # NoFiles
  <2>4. /\ sess' = [sess EXCEPT ![n] = fresh] /\ task' = task
        /\ conn' = Attaching(conn, c, clean, n, present)
    BY <1>2 DEF AttachNew
  <2>p. present \in BOOLEAN
    OBVIOUS
  <2>5. n \in Nat /\ n > made.sess /\ n >= made.sess /\ n <= n
    BY <1>t
  <2> HIDE DEF present, fresh, n
  <2>6. /\ conn'[c].pc = "attach" /\ conn'[c].sess = n
        /\ \A d \in Conns \ {c} : conn'[d] = conn[d]
    BY <1>t, <2>1, <2>c, <2>4, <2>p, AttachingType
  <2>7. sess'[n] = fresh /\ \A s \in Sessions \ {n} : sess'[s] = sess[s]
    BY <1>t, <2>1, <2>4
  <2>8. TaskFrame
    BY <2>4 DEF TaskFrame
  <2>9. /\ \A s \in Sessions : s <= made.sess =>
             sess'[s].epoch = sess[s].epoch /\ sess'[s].sink = sess[s].sink
        /\ \A s \in Sessions : s > made.sess => sess'[s].sink \in {sess[s].sink, None}
    <3>1. \A s \in Sessions : s <= made.sess => s # n
      BY <1>t, <2>5
    <3> QED
      BY <2>3, <2>7, <3>1
  <2>10. ~Joined(c) /\ made'.conn \in Nat /\ made'.conn >= made.conn /\ c <= made'.conn
    BY <1>n, <2>1, <2>2
  <2> QED
    BY <2>1, <2>2, <2>5, <2>6, <2>8, <2>9, <2>10, FenceArrive
<1>3. CASE DiscardExisting(c)
  <2> DEFINE r  == abort_subs(sess[registry])
             cs == notify_waiters(conn, sess[registry].kick)
             q  == [FreeConn EXCEPT !.pc = "replace", !.clean = TRUE, !.writer = "up"]
             T  == SubTasks(registry)
  <2>1. /\ registry \in Sessions /\ sess' = [sess EXCEPT ![registry] = r]
        /\ task' = Abort(task, T) /\ conn' = [cs EXCEPT ![c] = q]
        /\ made' = [made EXCEPT !.conn = c] /\ UNCHANGED <<registry, node>>
        /\ node.state = "up" /\ c = made.conn + 1
    BY <1>3, <1>t DEF DiscardExisting, NewConn
  <2>2. /\ cs \in [Conns -> ConnRecord]
        /\ \A d \in Conns :
              /\ cs[d].sess = conn[d].sess /\ cs[d].epoch = conn[d].epoch
              /\ cs[d].pc = conn[d].pc /\ cs[d].writer = conn[d].writer
    BY <1>t, NotifyType
  <2>3. r.sink = sess[registry].sink /\ r.epoch = sess[registry].epoch
    BY <1>t, <2>1, SubsKeep
  <2>4. TaskFrame
    BY <1>t, <2>1, AbortType DEF TaskFrame
  <2>5. q.pc = "replace" /\ q.sess = 0
    BY DEF FreeConn, None
  <2> HIDE DEF cs, r, q
  <2>6. /\ conn'[c] = q
        /\ \A d \in Conns \ {c} : conn'[d] = cs[d]
    BY <2>1, <2>2
  <2>7. \A s \in Sessions : sess'[s].epoch = sess[s].epoch /\ sess'[s].sink = sess[s].sink
    BY <1>t, <2>1, <2>3
  <2>8. \A d \in Conns \ {c} :
           /\ conn'[d].sess = conn[d].sess /\ conn'[d].epoch = conn[d].epoch
           /\ conn'[d].pc = conn[d].pc /\ conn'[d].writer = conn[d].writer
    BY <2>2, <2>6
  <2>9. made'.conn = c /\ made'.sess = made.sess
    BY <1>t, <2>1
  <2>10. ~Joined(c) /\ made'.conn \in Nat /\ made'.conn >= made.conn /\ c <= made'.conn
    BY <1>n, <2>1, <2>9
  <2>11. /\ made'.sess \in Nat /\ made'.sess >= made.sess /\ registry' <= made'.sess
         /\ conn'[c].sess <= made'.sess
    BY <1>t, <2>1, <2>5, <2>6, <2>9
  <2> QED
    BY <2>1, <2>4, <2>5, <2>6, <2>7, <2>8, <2>10, <2>11, FenceArrive
<1>4. CASE ReplaceSession(c)
  <2> DEFINE n == made.sess + 1
             r == new(FALSE, << >>)
             q == [conn[c] EXCEPT !.pc = "attach", !.sess = n]
  <2>1. /\ n \in Sessions /\ sess' = [sess EXCEPT ![n] = r] /\ conn' = [conn EXCEPT ![c] = q]
        /\ registry' = n /\ made' = [made EXCEPT !.sess = n] /\ conn[c].pc = "replace"
        /\ UNCHANGED <<task, node>>
    BY <1>4, <1>t DEF ReplaceSession
  <2>2. r.sink = None
    BY DEF new
  <2>3. n \in Nat /\ n > made.sess /\ n >= made.sess /\ n <= n
    BY <1>t
  <2> HIDE DEF r, n
  <2>4. q.pc = "attach" /\ q.sess = n
    BY <1>t DEF ConnRecord
  <2> HIDE DEF q
  <2>5. conn'[c] = q /\ \A d \in Conns \ {c} : conn'[d] = conn[d]
    BY <1>t, <2>1
  <2>6. sess'[n] = r /\ \A s \in Sessions \ {n} : sess'[s] = sess[s]
    BY <1>t, <2>1
  <2>7. /\ \A s \in Sessions : s <= made.sess =>
             sess'[s].epoch = sess[s].epoch /\ sess'[s].sink = sess[s].sink
        /\ \A s \in Sessions : s > made.sess => sess'[s].sink \in {sess[s].sink, None}
    <3>1. \A s \in Sessions : s <= made.sess => s # n
      BY <1>t, <2>3
    <3> QED
      BY <2>2, <2>6, <3>1
  <2>8. TaskFrame
    BY <2>1 DEF TaskFrame
  <2>9. made'.sess = n /\ made'.conn = made.conn
    BY <1>t, <2>1
  <2>10. ~Joined(c) /\ node.state # "down"
    BY <2>1 DEF Joined, FenceInv, MadeOK
  <2>11. made'.conn \in Nat /\ made'.conn >= made.conn /\ c <= made'.conn
    <3>1. ~(c > made.conn)
      BY <2>1 DEF FenceInv, MadeOK
    <3> QED
      BY <1>t, <2>9, <3>1 DEF Conns
  <2>12. /\ made'.sess \in Nat /\ made'.sess >= made.sess /\ registry' <= made'.sess
         /\ conn'[c].sess <= made'.sess /\ conn'[c].pc = "attach"
    BY <2>1, <2>3, <2>4, <2>5, <2>9
  <2> QED
    BY <2>1, <2>5, <2>7, <2>8, <2>10, <2>11, <2>12, FenceArrive
<1> QED
  BY <1>1, <1>2, <1>3, <1>4

\* attach_conn: the new epoch is larger than that of every connection that
\* joined the session before.
LEMMA FenceJoin ==
    ASSUME TypeInv, FenceInv, NEW c \in Conns, AttachConn(c)
    PROVE  FenceInv' /\ \A q \in Sessions : sess'[q].sink = sess[q].sink \/ sess'[q].epoch > sess[q].epoch
<1> DEFINE s == conn[c].sess
           e == sess[s].epoch + 1
<1>t. /\ conn \in [Conns -> ConnRecord] /\ sess \in [Sessions -> SessionRecord]
      /\ s \in Sessions /\ conn[c].pc = "attach"
      /\ \A t \in Tasks : task[t].pc \in {"send", "blocked", "timeout", "failed"} =>
            task[t].tx \in Conns /\ task[t].sess \in Sessions
  BY DEF AttachConn, TypeInv, TypeOK, HandlesOK, ConnHandlesOK, TaskHandlesOK
<1>n. /\ s # None /\ c # None /\ sess[s].epoch \in Nat /\ e > sess[s].epoch
      /\ \A d \in Conns : conn[d].epoch \in Nat
  <2>1. s # None /\ c # None
    BY <1>t DEF Sessions, Conns, None
  <2>2. sess[s].epoch \in Nat /\ \A d \in Conns : conn[d].epoch \in Nat
    BY <1>t DEF SessionRecord, ConnRecord
  <2>3. \A i \in Nat : i + 1 > i
    OBVIOUS
  <2> QED
    BY <2>1, <2>2, <2>3
<1>1. /\ sess'[s].sink = c /\ sess'[s].epoch = e
      /\ \A q \in Sessions \ {s} : sess'[q] = sess[q]
  <2>1. sess' = [sess EXCEPT ![s] = attach_conn(sess[s], c)]
    BY DEF AttachConn
  <2>2. attach_conn(sess[s], c).sink = c /\ attach_conn(sess[s], c).epoch = e
    BY <1>t DEF attach_conn, SessionRecord
  <2> QED
    BY <1>t, <2>1, <2>2
<1>2. /\ conn'[c].pc = "discard" /\ conn'[c].sess = s /\ conn'[c].epoch = e
      /\ conn'[c].writer = conn[c].writer
      /\ \A d \in Conns \ {c} :
            /\ conn'[d].sess = conn[d].sess /\ conn'[d].epoch = conn[d].epoch
            /\ conn'[d].pc = conn[d].pc /\ conn'[d].writer = conn[d].writer
  <2> DEFINE cs == notify_waiters(conn, sess[s].kick)
             b  == sess[s].queue
             n  == sess'[s].epoch
             r  == [cs[c] EXCEPT !.pc = "discard", !.epoch = n, !.backlog = b]
  <2>1. /\ cs \in [Conns -> ConnRecord]
        /\ \A d \in Conns :
              /\ cs[d].sess = conn[d].sess /\ cs[d].epoch = conn[d].epoch
              /\ cs[d].pc = conn[d].pc /\ cs[d].writer = conn[d].writer
    BY <1>t, NotifyType
  <2>2. conn' = [cs EXCEPT ![c].pc = "discard", ![c].epoch = n, ![c].backlog = b]
    BY DEF AttachConn
  <2> HIDE DEF cs, n, b
  <2>3. conn' = [cs EXCEPT ![c] = r]
    BY <2>1, <2>2
  <2>4. r.pc = "discard" /\ r.epoch = n /\ r.sess = cs[c].sess /\ r.writer = cs[c].writer
    BY <2>1 DEF ConnRecord
  <2> HIDE DEF r
  <2>5. conn'[c] = r /\ \A d \in Conns \ {c} : conn'[d] = cs[d]
    BY <2>1, <2>3
  <2>6. n = e
    BY <1>1 DEF n
  <2> QED
    BY <2>1, <2>4, <2>5, <2>6
<1>3. UNCHANGED <<registry, task, node, made>>
  BY DEF AttachConn
<1> HIDE DEF e
<1>j. /\ Joined(c)' /\ ~Joined(c)
      /\ \A d \in Conns \ {c} : Joined(d)' <=> Joined(d)
  BY <1>t, <1>n, <1>2 DEF Joined
<1>4. MadeOK'
  <2>1. \A d \in Conns : conn'[d].sess = conn[d].sess
    BY <1>2
  <2>2. \A d \in Conns : /\ conn[d].pc = "free" => conn'[d].pc = "free"
                         /\ conn'[d].pc = "replace" => conn[d].pc = "replace"
    BY <1>2, <1>t
  <2> QED
    BY <1>3, <2>1, <2>2 DEF FenceInv, MadeOK
<1>5. EpochsOK'
  <2>1. ASSUME NEW d \in Conns, Joined(d), conn[d].sess = s PROVE conn[d].epoch < e
    <3>1. conn[d].epoch <= sess[s].epoch
      BY <2>1 DEF FenceInv, EpochsOK
    <3> QED
      BY <1>n, <3>1 DEF e
  <2>2. ASSUME NEW d \in Conns, Joined(d)' PROVE conn'[d].epoch <= sess'[conn'[d].sess].epoch
    <3>1. CASE d = c
      BY <1>1, <1>2, <1>n, <3>1 DEF e
    <3>2. CASE d # c /\ conn[d].sess = s
      <4>1. conn'[d].epoch = conn[d].epoch /\ conn'[d].sess = s /\ Joined(d)
        BY <1>2, <1>j, <2>2, <3>2
      <4>2. conn[d].epoch < e /\ conn[d].epoch \in Nat /\ e \in Nat
        BY <1>n, <2>1, <3>2, <4>1 DEF e
      <4> QED
        BY <1>1, <4>1, <4>2
    <3>3. CASE d # c /\ conn[d].sess # s
      <4>1. conn'[d].epoch = conn[d].epoch /\ conn'[d].sess = conn[d].sess /\ Joined(d)
        BY <1>2, <1>j, <2>2, <3>3
      <4>2. conn[d].sess \in Sessions
        BY <1>t, <4>1 DEF Joined, ConnRecord
      <4>3. sess'[conn[d].sess] = sess[conn[d].sess]
        BY <1>1, <3>3, <4>2
      <4> QED
        BY <4>1, <4>3 DEF FenceInv, EpochsOK
    <3> QED
      BY <3>1, <3>2, <3>3
  <2>3. ASSUME NEW a \in Conns, NEW d \in Conns, a # d, Joined(a)', Joined(d)',
               conn'[a].sess = conn'[d].sess
        PROVE  conn'[a].epoch # conn'[d].epoch
    <3>1. \A x \in Conns \ {c} : Joined(x)' /\ conn'[x].sess = s =>
             conn'[x].epoch \in Nat /\ conn'[x].epoch < e
      BY <1>2, <1>j, <1>n, <2>1
    <3>2. CASE a = c \/ d = c
      BY <1>2, <1>n, <2>3, <3>1, <3>2 DEF e
    <3>3. CASE a # c /\ d # c
      BY <1>2, <1>j, <2>3, <3>3 DEF FenceInv, EpochsOK
    <3> QED
      BY <3>2, <3>3
  <2> QED
    BY <2>2, <2>3 DEF EpochsOK
<1>6. SinksOK'
  <2> SUFFICES ASSUME NEW q \in Sessions, sess'[q].sink # None
               PROVE  /\ Joined(sess[q].sink)'
                      /\ conn'[sess'[q].sink].sess = q
                      /\ conn'[sess'[q].sink].epoch = sess'[q].epoch
    BY DEF SinksOK
  <2>1. CASE q = s
    <3>1. sess'[q].sink = c /\ sess'[q].epoch = e
      BY <1>1, <2>1
    <3>2. Joined(sess[q].sink)'
      BY <1>2, <1>n, <3>1 DEF Joined
    <3> QED
      BY <1>2, <2>1, <3>1, <3>2
  <2>2. CASE q # s
    <3> DEFINE d == sess[q].sink
    <3>1. sess'[q] = sess[q] /\ d \in Conns
      BY <1>1, <1>t, <2>2 DEF SessionRecord
    <3>2. Joined(d) /\ conn[d].sess = q /\ conn[d].epoch = sess[q].epoch
      BY <3>1 DEF FenceInv, SinksOK
    <3>3. d # c
      BY <1>j, <3>2
    <3>4. conn'[d].sess = q /\ conn'[d].epoch = sess[q].epoch /\ conn'[d].pc = conn[d].pc
      BY <1>2, <3>1, <3>2, <3>3
    <3>5. Joined(sess[q].sink)'
      BY <3>1, <3>2, <3>4 DEF Joined
    <3> QED
      BY <3>1, <3>4, <3>5
  <2> QED
    BY <2>1, <2>2
<1>7. SendsOK'
  <2> SUFFICES ASSUME NEW t \in Tasks, task[t].pc \in {"send", "blocked", "timeout", "failed"}
               PROVE  /\ Joined(task[t].tx)'
                      /\ task[t].pc = "failed" =>
                            Closed(task[t].tx)' \/ sess'[task[t].sess].sink # task[t].tx
                      /\ task[t].pc = "timeout" => SlowGrace
    BY <1>3 DEF SendsOK, SendOK
  <2> DEFINE tx == task[t].tx
  <2>1. /\ Joined(tx) /\ tx # c /\ tx \in Conns /\ task[t].sess \in Sessions
        /\ task[t].pc = "failed" => conn[tx].writer = "gone" \/ sess[task[t].sess].sink # tx
        /\ task[t].pc = "timeout" => SlowGrace
    BY <1>t, <1>j DEF FenceInv, SendsOK, SendOK, Closed
  <2>2. /\ conn'[tx].sess = conn[tx].sess /\ conn'[tx].pc = conn[tx].pc
        /\ conn'[tx].writer = conn[tx].writer
    BY <1>2, <2>1
  <2>3. Joined(task[t].tx)'
    BY <1>3, <2>1, <2>2 DEF Joined
  <2>4. sess[task[t].sess].sink # tx => sess'[task[t].sess].sink # tx
    BY <1>1, <2>1
  <2> QED
    BY <1>3, <2>1, <2>2, <2>3, <2>4 DEF Closed
<1>8. \A q \in Sessions : sess'[q].sink = sess[q].sink \/ sess'[q].epoch > sess[q].epoch
  BY <1>1, <1>n
<1> QED
  BY <1>4, <1>5, <1>6, <1>7, <1>8 DEF FenceInv

\* detach_conn: a connection whose epoch is the session's is the one behind
\* the sink.
LEMMA FenceDetach ==
    ASSUME TypeInv, FenceInv, NEW c \in Conns, DetachConn(c)
    PROVE  /\ FenceInv'
           /\ \A q \in Sessions : sess'[q].sink # sess[q].sink => sess[q].sink = c
<1> DEFINE s == conn[c].sess
           r == detach_conn(sess[s], conn[c].epoch)
<1>t. /\ conn \in [Conns -> ConnRecord] /\ sess \in [Sessions -> SessionRecord]
      /\ s \in Sessions /\ conn[c].pc = "ended" /\ sess[s] \in SessionRecord
  BY DEF DetachConn, TypeInv, TypeOK, HandlesOK, ConnHandlesOK
<1>1. sess' = [sess EXCEPT ![s] = r] /\ UNCHANGED <<registry, task, node, made>>
  BY DEF DetachConn
<1>2. r.epoch = sess[s].epoch /\ r.sink = IF sess[s].epoch = conn[c].epoch THEN None ELSE sess[s].sink
  BY <1>t, OfflineKeeps
<1>3. ConnFrame
  <2> DEFINE p == IF OwnsSession(sess[s], conn[c].epoch) /\ conn[c].clean THEN "purge" ELSE "bye"
             k == [conn[c] EXCEPT !.pc = p]
  <2>1. conn' = [conn EXCEPT ![c] = k]
    BY <1>t DEF DetachConn
  <2>2. p \notin {"free", "replace", "attach"}
    OBVIOUS
  <2> HIDE DEF p
  <2>3. k.pc = p /\ k.sess = conn[c].sess /\ k.epoch = conn[c].epoch /\ k.writer = conn[c].writer
    BY <1>t DEF ConnRecord
  <2> HIDE DEF k
  <2> QED
    BY <1>t, <2>1, <2>2, <2>3, RecordConnFrame
<1> HIDE DEF r
<1>4. sess'[s] = r /\ \A q \in Sessions \ {s} : sess'[q] = sess[q]
  BY <1>1, <1>t
<1>5. SessFrame
  BY <1>2, <1>4 DEF SessFrame
<1>6. TaskFrame /\ NodeFrame
  BY <1>1, NodeStays DEF TaskFrame
<1>7. FenceInv'
  BY <1>3, <1>5, <1>6, FrameFence, FrameSends DEF FenceInv
<1>8. ASSUME NEW q \in Sessions, sess'[q].sink # sess[q].sink
      PROVE  sess[q].sink = c
  <2>1. q = s /\ sess[s].epoch = conn[c].epoch
    BY <1>2, <1>4, <1>8
  <2> DEFINE d == sess[s].sink
  <2>2. d # None /\ d \in Conns
    BY <1>2, <1>4, <1>8, <1>t, <2>1 DEF SessionRecord
  <2>3. Joined(d) /\ conn[d].sess = s /\ conn[d].epoch = conn[c].epoch
    BY <1>t, <2>1, <2>2 DEF FenceInv, SinksOK
  <2>4. Joined(c)
    BY <1>t DEF Joined, Sessions, None
  <2> QED
    BY <2>1, <2>2, <2>3, <2>4 DEF FenceInv, EpochsOK
<1> QED
  BY <1>7, <1>8

\* Steps of one forwarding task.
LEMMA FenceTask ==
    ASSUME TypeInv, FenceInv, ConnFrame, SessFrame, NodeFrame, NEW t \in Tasks,
           \A u \in Tasks \ {t} : task'[u] = task[u],
           task'[t].pc \in {"send", "blocked", "timeout", "failed"} =>
              task'[t].tx \in Conns /\ Joined(task'[t].tx),
           task'[t].pc = "failed" =>
              \/ conn'[task'[t].tx].writer = "gone"
              \/ sess'[task'[t].sess].sink # task'[t].tx,
           task'[t].pc = "timeout" => SlowGrace
    PROVE  FenceInv'
<1>1. \A u \in Tasks \ {t} : SendOK(u)'
  BY FrameSend
<1>2. SendOK(t)'
  <2>1. task'[t].pc \in {"send", "blocked", "timeout", "failed"} =>
           /\ conn'[task'[t].tx].pc \notin {"free", "replace", "attach"}
           /\ conn'[task'[t].tx].sess # None
    BY DEF ConnFrame, Joined
  <2> QED
    BY <2>1 DEF SendOK, Joined, Closed
<1> QED
  BY <1>1, <1>2, FrameFence DEF FenceInv, SendsOK

\* Ending an iteration, or the task, leaves no send behind.
LEMMA NoSend ==
    ASSUME NEW k \in TaskRecord
    PROVE  /\ Dead(k).pc = "dead" /\ Return(k).pc \in {"recv", "dead"}
           /\ Retry(k).pc = "look"
<1>1. Dead(k).pc = "dead"
  BY DEF Dead, TaskRecord
<1>2. Return(k).pc \in {"recv", "dead"}
  BY <1>1 DEF Return, TaskRecord
<1>3. Retry(k).pc = "look"
  BY DEF Retry, TaskRecord
<1> QED
  BY <1>1, <1>2, <1>3

\* deliver, from reading the sink to Sent, Queued or Dropped.
LEMMA FenceDeliver ==
    ASSUME TypeInv, FenceInv, NEW t \in Tasks, TaskStep(t)
    PROVE  /\ FenceInv'
           /\ \A s \in Sessions : sess'[s].sink # sess[s].sink =>
                 \/ Closed(sess[s].sink)
                 \/ SlowGrace /\ task[t].pc = "timeout" /\ task[t].tx = sess[s].sink
<1> DEFINE k  == task[t]
           s  == task[t].sess
           tx == task[t].tx
<1>t. /\ conn \in [Conns -> ConnRecord] /\ sess \in [Sessions -> SessionRecord]
      /\ task \in [Tasks -> TaskRecord] /\ k \in TaskRecord
  BY DEF TypeInv, TypeOK
<1>h. /\ k.pc \notin {"free", "dead"} => s \in Sessions
      /\ k.pc \in {"send", "blocked", "timeout", "failed"} => tx \in Conns /\ Joined(tx)
      /\ k.pc = "failed" => Closed(tx) \/ sess[s].sink # tx
      /\ k.pc = "timeout" => SlowGrace
      /\ \A c \in Conns : c # None
  BY DEF TypeInv, HandlesOK, TaskHandlesOK, FenceInv, SendsOK, SendOK, Conns, None
<1>n. NodeFrame
  <2>1. made' = made /\ registry' = registry /\ node' = node
    BY DEF TaskStep, Receive, ReadSink, SendLive, SendWaits, SendClosed, SendTimesOut,
       EvictSlow, ClearSink, Enqueue, TaskAborts
  <2> QED
    BY <2>1, NodeStays
<1>s. sess' = sess => SessFrame
  BY DEF SessFrame
<1>c. conn' = conn => ConnFrame
  BY DEF ConnFrame
<1>1. ASSUME NEW r, task' = [task EXCEPT ![t] = r], r.pc \notin {"send", "blocked", "timeout", "failed"},
             ConnFrame, SessFrame
      PROVE  FenceInv'
  <2>1. task'[t] = r /\ \A u \in Tasks \ {t} : task'[u] = task[u]
    BY <1>1, <1>t
  <2> QED
    BY <1>1, <1>n, <2>1, FenceTask
<1>2. CASE Receive(t)
  <2>1. conn' = conn /\ sess' = sess /\ task'[t].pc = "look"
        /\ \A u \in Tasks \ {t} : task'[u] = task[u]
    BY <1>2, <1>t DEF Receive, TaskRecord
  <2> QED
    BY <1>c, <1>s, <1>n, <2>1, FenceTask
<1>3. CASE ReadSink(t)
  <2>0. conn' = conn /\ sess' = sess /\ s \in Sessions /\ k.pc = "look"
    BY <1>3, <1>h DEF ReadSink
  <2>1. CASE sess[s].sink # None
    <3>1. task' = [task EXCEPT ![t] = [k EXCEPT !.pc = "send", !.tx = sess[s].sink]]
      BY <1>3, <2>1 DEF ReadSink
    <3>2. /\ task'[t].pc = "send" /\ task'[t].tx = sess[s].sink
          /\ \A u \in Tasks \ {t} : task'[u] = task[u]
      BY <1>t, <3>1 DEF TaskRecord
    <3>3. sess[s].sink \in Conns /\ Joined(sess[s].sink)
      BY <1>t, <2>0, <2>1 DEF FenceInv, SinksOK, SessionRecord
    <3> QED
      BY <1>c, <1>s, <1>n, <2>0, <3>2, <3>3, FenceTask
  <2>2. CASE sess[s].sink = None /\ Queues(k)
    <3>1. task' = [task EXCEPT ![t] = [k EXCEPT !.pc = "offline"]]
      BY <1>3, <2>2 DEF ReadSink
    <3>2. [k EXCEPT !.pc = "offline"].pc = "offline"
      BY <1>t DEF TaskRecord
    <3> QED
      BY <1>1, <1>c, <1>s, <2>0, <3>1, <3>2
  <2>3. CASE sess[s].sink = None /\ ~Queues(k)
    <3>1. task' = [task EXCEPT ![t] = Return(k)]
      BY <1>3, <2>3 DEF ReadSink
    <3> QED
      BY <1>1, <1>c, <1>s, <1>t, <2>0, <3>1, NoSend
  <2> QED
    BY <2>0, <2>1, <2>2, <2>3
<1>4. CASE SendLive(t)
  <2>1. /\ sess' = sess /\ task' = [task EXCEPT ![t] = Return(k)]
        /\ tx \in Conns /\ conn' = [conn EXCEPT ![tx].out = Put(tx, "live", k.msg)]
    BY <1>4, <1>h DEF SendLive
  <2>2. ConnFrame
    BY <1>t, <2>1 DEF ConnFrame, ConnRecord
  <2> QED
    BY <1>1, <1>s, <1>t, <2>1, <2>2, NoSend
<1>5. CASE SendWaits(t)
  <2>0. conn' = conn /\ sess' = sess /\ k.pc = "send" /\ tx \in Conns /\ Joined(tx)
    BY <1>5, <1>h DEF SendWaits
  <2>1. CASE k.aborted
    <3>1. task' = [task EXCEPT ![t] = Dead(k)]
      BY <1>5, <2>1 DEF SendWaits
    <3> QED
      BY <1>1, <1>c, <1>s, <1>t, <2>0, <3>1, NoSend
  <2>2. CASE ~k.aborted
    <3>1. task' = [task EXCEPT ![t] = [k EXCEPT !.pc = "blocked"]]
      BY <1>5, <2>2 DEF SendWaits
    <3>2. /\ task'[t].pc = "blocked" /\ task'[t].tx = tx
          /\ \A u \in Tasks \ {t} : task'[u] = task[u]
      BY <1>t, <3>1 DEF TaskRecord
    <3> QED
      BY <1>c, <1>s, <1>n, <2>0, <3>2, FenceTask
  <2> QED
    BY <2>0, <2>1, <2>2
<1>6. CASE SendClosed(t)
  <2>1. /\ conn' = conn /\ sess' = sess /\ tx \in Conns /\ Joined(tx)
        /\ conn[tx].writer = "gone"
    BY <1>6, <1>h DEF SendClosed, Closed
  <2>2. /\ task'[t].pc = "failed" /\ task'[t].tx = tx
        /\ \A u \in Tasks \ {t} : task'[u] = task[u]
    BY <1>t, <1>6 DEF SendClosed, TaskRecord
  <2> QED
    BY <1>c, <1>s, <1>n, <2>1, <2>2, FenceTask
<1>o. ASSUME sess' = [sess EXCEPT ![s] = take_offline(sess[s], tx)], s \in Sessions, tx \in Conns
      PROVE  /\ SessFrame
             /\ sess'[s].sink # tx
             /\ \A q \in Sessions : sess'[q].sink # sess[q].sink => sess[q].sink = tx /\ q = s
  <2> DEFINE r == take_offline(sess[s], tx)
  <2>1. r.epoch = sess[s].epoch /\ r.sink = IF sess[s].sink = tx THEN None ELSE sess[s].sink
    BY <1>o, <1>t, OfflineKeeps
  <2> HIDE DEF r
  <2>2. sess'[s] = r /\ \A q \in Sessions \ {s} : sess'[q] = sess[q]
    BY <1>o, <1>t DEF r
  <2> QED
    BY <1>h, <1>o, <2>1, <2>2 DEF SessFrame
<1>7. CASE EvictSlow(t)
  <2>1. /\ s \in Sessions /\ tx \in Conns /\ Joined(tx) /\ SlowGrace /\ k.pc = "timeout"
        /\ sess' = [sess EXCEPT ![s] = take_offline(sess[s], tx)]
        /\ conn' \in {notify_waiters(conn, sess[s].kick), conn}
    BY <1>7, <1>h DEF EvictSlow
  <2>2. ConnFrame
    <3>1. CASE conn' = notify_waiters(conn, sess[s].kick)
      BY <1>t, <3>1, NotifyType, SMTT(30) DEF ConnFrame
    <3> QED
      BY <1>c, <2>1, <3>1
  <2>3. /\ task'[t].pc = "failed" /\ task'[t].tx = tx /\ task'[t].sess = s
        /\ \A u \in Tasks \ {t} : task'[u] = task[u]
    BY <1>t, <1>7 DEF EvictSlow, TaskRecord
  <2>4. FenceInv'
    BY <1>o, <1>n, <2>1, <2>2, <2>3, FenceTask
  <2> QED
    BY <1>o, <2>1, <2>4
<1>8. CASE ClearSink(t)
  <2>1. /\ s \in Sessions /\ tx \in Conns /\ conn' = conn
        /\ Closed(tx) \/ sess[s].sink # tx
        /\ sess' = [sess EXCEPT ![s] = take_offline(sess[s], tx)]
        /\ task' = [task EXCEPT ![t] = Retry(k)]
    BY <1>8, <1>h DEF ClearSink
  <2>2. FenceInv'
    BY <1>1, <1>c, <1>o, <1>t, <2>1, NoSend
  <2> QED
    BY <1>o, <2>1, <2>2
<1>9. CASE Enqueue(t)
  <2>0. s \in Sessions /\ conn' = conn /\ k.pc = "offline"
    BY <1>9, <1>h DEF Enqueue
  <2>1. CASE sess[s].sink = None
    <3> DEFINE r == push_queue(sess[s], k.msg)
    <3>1. sess' = [sess EXCEPT ![s] = r] /\ task' = [task EXCEPT ![t] = Return(k)]
      BY <1>9, <2>1 DEF Enqueue, StillOffline
    <3>2. r.sink = sess[s].sink /\ r.epoch = sess[s].epoch
      BY <1>t, <2>0 DEF push_queue, SessionRecord
    <3> HIDE DEF r
    <3>3. \A q \in Sessions : sess'[q].sink = sess[q].sink /\ sess'[q].epoch = sess[q].epoch
      BY <1>t, <2>0, <3>1, <3>2
    <3>4. SessFrame
      BY <3>3 DEF SessFrame
    <3> QED
      BY <1>1, <1>c, <1>t, <2>0, <3>1, <3>3, <3>4, NoSend
  <2>2. CASE sess[s].sink # None
    <3>1. sess' = sess /\ task'[t].pc = "look" /\ \A u \in Tasks \ {t} : task'[u] = task[u]
      BY <1>9, <1>t, <2>2 DEF Enqueue, StillOffline, TaskRecord
    <3> QED
      BY <1>c, <1>s, <1>n, <2>0, <3>1, FenceTask
  <2> QED
    BY <2>1, <2>2
<1>10. CASE TaskAborts(t)
  <2>1. conn' = conn /\ sess' = sess /\ task' = [task EXCEPT ![t] = Dead(k)]
    BY <1>10 DEF TaskAborts
  <2> QED
    BY <1>1, <1>c, <1>s, <1>t, <2>1, NoSend
<1>11. CASE SendTimesOut(t)
  <2>1. conn' = conn /\ sess' = sess /\ tx \in Conns /\ Joined(tx) /\ SlowGrace
    BY <1>11, <1>h DEF SendTimesOut
  <2>2. /\ task'[t].pc = "timeout" /\ task'[t].tx = tx
        /\ \A u \in Tasks \ {t} : task'[u] = task[u]
    BY <1>t, <1>11 DEF SendTimesOut, TaskRecord
  <2> QED
    BY <1>c, <1>s, <1>n, <2>1, <2>2, FenceTask
<1> QED
  BY <1>2, <1>3, <1>4, <1>5, <1>6, <1>7, <1>8, <1>9, <1>10, <1>11 DEF TaskStep

\* Publication, and the sweeper.
LEMMA FenceMesh ==
    ASSUME TypeInv, FenceInv, SweepStep \/ \E class \in TopicClasses : Publish(class)
    PROVE  FenceInv' /\ \A s \in Sessions : sess'[s].sink = sess[s].sink
<1>t. /\ sess \in [Sessions -> SessionRecord] /\ task \in [Tasks -> TaskRecord]
      /\ sweeper.pc # "idle" => sweeper.sess \in Sessions
      /\ registry <= made.sess /\ node.sess <= made.sess /\ None <= made.sess
  BY DEF TypeInv, TypeOK, HandlesOK, NodeHandlesOK, FenceInv, MadeOK, None
<1>c. conn' = conn
  BY DEF SweepStep, SweepRetain, SweepAbort, SweepDiscard, Publish
<1>f. ConnFrame
  BY <1>c DEF ConnFrame
<1>1. ASSUME TaskFrame, SessFrame, NodeFrame PROVE FenceInv'
  BY <1>1, <1>f, FrameFence, FrameSends DEF FenceInv
<1>2. ASSUME NEW class \in TopicClasses, Publish(class)
      PROVE  FenceInv' /\ sess' = sess
  <2>1. sess' = sess /\ made' = made /\ registry' = registry /\ node' = node
    BY <1>2 DEF Publish
  <2>2. TaskFrame
    <3>1. ASSUME NEW t \in Tasks
          PROVE  task'[t].pc = task[t].pc /\ task'[t].tx = task[t].tx /\ task'[t].sess = task[t].sess
      <4> DEFINE m == pubs + 1
                 r == [task[t] EXCEPT !.inbox = Append(task[t].inbox, m), !.got = task[t].got + 1]
      <4>1. task'[t] = r \/ task'[t] = task[t]
        BY <1>2 DEF Publish
      <4>2. ASSUME NEW k \in TaskRecord, NEW b, NEW g
            PROVE  LET q == [k EXCEPT !.inbox = b, !.got = g]
                   IN  q.pc = k.pc /\ q.tx = k.tx /\ q.sess = k.sess
        BY DEF TaskRecord
      <4>3. r.pc = task[t].pc /\ r.tx = task[t].tx /\ r.sess = task[t].sess
        BY <1>t, <4>2
      <4> HIDE DEF r
      <4> QED
        BY <4>1, <4>3
    <3> QED
      BY <3>1 DEF TaskFrame
  <2> QED
    BY <1>1, <2>1, <2>2, NodeStays DEF SessFrame
<1>3. CASE SweepRetain
  <2>1. sess' = sess /\ task' = task /\ made' = made /\ node' = node /\ registry' = None
    BY <1>3 DEF SweepRetain
  <2>2. NodeFrame
    BY <1>t, <2>1 DEF NodeFrame
  <2> QED
    BY <1>1, <2>1, <2>2 DEF SessFrame, TaskFrame
<1>4. CASE SweepAbort
  <2> DEFINE s == sweeper.sess
             r == abort_subs(sess[s])
             T == SubTasks(s)
  <2>1. /\ s \in Sessions /\ sess' = [sess EXCEPT ![s] = r] /\ task' = Abort(task, T)
        /\ made' = made /\ node' = node /\ registry' = registry
    BY <1>4, <1>t DEF SweepAbort
  <2>2. r.sink = sess[s].sink /\ r.epoch = sess[s].epoch
    BY <1>t, <2>1, SubsKeep
  <2>3. TaskFrame
    BY <1>t, <2>1, AbortType DEF TaskFrame
  <2> HIDE DEF r
  <2>4. \A q \in Sessions : sess'[q].sink = sess[q].sink /\ sess'[q].epoch = sess[q].epoch
    BY <1>t, <2>1, <2>2
  <2>5. SessFrame
    BY <2>4 DEF SessFrame
  <2> QED
    BY <1>1, <2>1, <2>3, <2>4, <2>5, NodeStays
<1>5. CASE SweepDiscard
  <2>1. sess' = sess /\ task' = task /\ made' = made /\ node' = node /\ registry' = registry
    BY <1>5 DEF SweepDiscard
  <2> QED
    BY <1>1, <2>1, NodeStays DEF SessFrame, TaskFrame
<1> QED
  BY <1>2, <1>3, <1>4, <1>5 DEF SweepStep

\* Nobody has joined a session when the process has just died.
LEMMA FenceCrash ==
    ASSUME TypeInv, FenceInv, Crash
    PROVE  FenceInv' /\ node'.state = "down"
<1>t. /\ made \in [sess : 0..MaxSessions, conn : 0..MaxConns, task : 0..MaxTasks]
      /\ made.conn \in Nat /\ Conns \subseteq Nat
  BY DEF TypeInv, TypeOK, Conns
<1>1. /\ made'.sess = 0 /\ made'.conn = made.conn
      /\ registry' = 0 /\ node'.sess = 0 /\ node'.state = "down"
  BY <1>t DEF Crash, None
<1>2. \A c \in Conns : /\ conn'[c].sess = 0 /\ conn'[c].pc # "replace"
                       /\ c > made.conn => conn'[c].pc = "free"
  BY <1>t DEF Crash, FreeConn, None
<1>3. \A s \in Sessions : sess'[s].sink = None
  BY DEF Crash, new
<1>4. \A t \in Tasks : task'[t].pc = "free"
  BY DEF Crash, FreeTask
<1>5. \A c \in Conns : ~Joined(c)'
  BY <1>2 DEF Joined, None
<1> QED
  BY <1>1, <1>2, <1>3, <1>4, <1>5 DEF FenceInv, MadeOK, EpochsOK, SinksOK, SendsOK, SendOK

\* Rehydration makes session 1 before any connection exists.
LEMMA FenceStartup ==
    ASSUME TypeInv, FenceInv, StartupStep
    PROVE  FenceInv' /\ \A s \in Sessions : sess'[s].sink = sess[s].sink
<1>t. /\ sess \in [Sessions -> SessionRecord] /\ task \in [Tasks -> TaskRecord]
      /\ disk \in DiskRecord /\ node \in NodeRecord
      /\ made \in [sess : 0..MaxSessions, conn : 0..MaxConns, task : 0..MaxTasks]
      /\ node.state = "rehydrate" => node.sess \in Sessions
      /\ registry <= made.sess /\ node.sess <= made.sess /\ None <= made.sess
  BY DEF TypeInv, TypeOK, HandlesOK, NodeHandlesOK, FenceInv, MadeOK, None
<1>c. conn' = conn
  BY DEF StartupStep, Restart, Rehydrate, RehydrateSkips, RehydrateDone
<1>f. ConnFrame
  BY <1>c DEF ConnFrame
<1>1. ASSUME TaskFrame, SessFrame, NodeFrame PROVE FenceInv'
  BY <1>1, <1>f, FrameFence, FrameSends DEF FenceInv
<1>2. ASSUME NEW acl \in SUBSET Filters, Restart(acl)
      PROVE  FenceInv' /\ \A s \in Sessions : sess'[s].sink = sess[s].sink
  <2>1. CASE disk.subs = {}
    <3>1. /\ sess' = sess /\ task' = task /\ made' = made /\ registry' = registry
          /\ node' = [node EXCEPT !.state = "up", !.acl = acl]
      BY <1>2, <2>1 DEF Restart
    <3>2. node'.sess = node.sess /\ node'.state = "up"
      BY <1>t, <3>1 DEF NodeRecord
    <3>3. NodeFrame
      BY <1>t, <3>1, <3>2 DEF NodeFrame
    <3> QED
      BY <1>1, <3>1, <3>3 DEF SessFrame, TaskFrame
  <2>2. CASE disk.subs # {}
    <3>1. /\ 1 \in Sessions /\ sess' = [sess EXCEPT ![1] = new(TRUE, disk.queue)]
          /\ made' = [made EXCEPT !.sess = 1] /\ task' = task /\ registry' = registry
          /\ node' = [state |-> "rehydrate", acl |-> acl, sess |-> 1, todo |-> disk.subs]
          /\ node.state = "down"
      BY <1>2, <2>2 DEF Restart
    <3>2. made.sess = 0 /\ made'.sess = 1 /\ made'.conn = made.conn
      BY <1>t, <3>1 DEF FenceInv, MadeOK
    <3>3. \A c \in Conns : conn[c].sess \in Sessions \cup {None} /\ conn[c].sess <= 0
      BY <3>2 DEF FenceInv, MadeOK, TypeInv, TypeOK, ConnRecord
    <3>4. \A c \in Conns : conn[c].sess = None
      BY <3>3 DEF Sessions, None
    <3>5. \A c \in Conns : ~Joined(c) /\ ~Joined(c)'
      BY <1>c, <3>4 DEF Joined
    <3>6. \A s \in Sessions : sess[s].sink = None /\ sess'[s].sink = None
      <4>1. \A s \in Sessions : sess[s].sink = None
        <5> SUFFICES ASSUME NEW s \in Sessions, sess[s].sink # None PROVE FALSE
          OBVIOUS
        <5>1. sess[s].sink \in Conns /\ Joined(sess[s].sink)
          BY <1>t DEF FenceInv, SinksOK, SessionRecord
        <5> QED
          BY <3>5, <5>1
      <4>2. new(TRUE, disk.queue).sink = None
        BY DEF new
      <4> QED
        BY <1>t, <3>1, <4>1, <4>2
    <3>7. MadeOK'
      <4>1. registry' <= 1 /\ node'.sess <= 1 /\ node'.state = "rehydrate"
        <5>1. registry \in Sessions \cup {None} /\ registry <= 0
          BY <1>t, <3>2 DEF TypeInv, TypeOK
        <5>2. registry = 0
          BY <5>1 DEF Sessions, None
        <5> QED
          BY <3>1, <5>2
      <4>2. \A c \in Conns : conn'[c].sess <= 1
        BY <1>c, <3>4 DEF None
      <4> QED
        BY <1>c, <3>2, <4>1, <4>2 DEF MadeOK, FenceInv
    <3>8. SendsOK'
      <4>1. \A t \in Tasks : task[t].pc \notin {"send", "blocked", "timeout", "failed"}
        <5> SUFFICES ASSUME NEW t \in Tasks, task[t].pc \in {"send", "blocked", "timeout", "failed"}
                     PROVE  FALSE
          OBVIOUS
        <5>1. task[t].tx \in Conns /\ Joined(task[t].tx)
          BY DEF TypeInv, HandlesOK, TaskHandlesOK, FenceInv, SendsOK, SendOK
        <5> QED
          BY <3>5, <5>1
      <4> QED
        BY <3>1, <4>1 DEF SendsOK, SendOK
    <3> QED
      BY <3>5, <3>6, <3>7, <3>8 DEF FenceInv, EpochsOK, SinksOK
  <2> QED
    BY <2>1, <2>2
<1>3. ASSUME NEW f \in Filters, NEW qos \in QoS, Rehydrate(f, qos)
      PROVE  FenceInv' /\ \A s \in Sessions : sess'[s].sink = sess[s].sink
  <2> DEFINE s == node.sess
             n == made.task + 1
             r == insert_sub(sess[s], f, n)
  <2>1. /\ s \in Sessions /\ sess' = [sess EXCEPT ![s] = r] /\ registry' = registry
        /\ made' = [made EXCEPT !.task = n] /\ task' = Spawn(task, n, s, f, qos)
        /\ node' = [node EXCEPT !.todo = @ \ {<<f, qos>>}]
    BY <1>3, <1>t DEF Rehydrate
  <2>2. r.sink = sess[s].sink /\ r.epoch = sess[s].epoch
    BY <1>t, <2>1, SubsKeep
  <2>3. TaskFrame
    BY <1>t, <2>1 DEF Spawn, FreeTask, TaskFrame
  <2>4. NodeFrame
    <3>1. node'.sess = node.sess /\ node'.state = node.state
      BY <1>t, <2>1 DEF NodeRecord
    <3>2. made'.sess = made.sess /\ made'.conn = made.conn
      BY <1>t, <2>1
    <3> QED
      BY <1>t, <2>1, <3>1, <3>2 DEF NodeFrame
  <2> HIDE DEF r
  <2>5. \A q \in Sessions : sess'[q].sink = sess[q].sink /\ sess'[q].epoch = sess[q].epoch
    BY <1>t, <2>1, <2>2
  <2>6. SessFrame
    BY <2>5 DEF SessFrame
  <2> QED
    BY <1>1, <2>3, <2>4, <2>5, <2>6
<1>4. ASSUME NEW f \in Filters, NEW qos \in QoS, RehydrateSkips(f, qos)
      PROVE  FenceInv' /\ sess' = sess
  <2>1. /\ sess' = sess /\ task' = task /\ made' = made /\ registry' = registry
        /\ node' = [node EXCEPT !.todo = @ \ {<<f, qos>>}]
    BY <1>4 DEF RehydrateSkips
  <2>2. node'.sess = node.sess /\ node'.state = node.state
    BY <1>t, <2>1 DEF NodeRecord
  <2>3. NodeFrame
    BY <1>t, <2>1, <2>2 DEF NodeFrame
  <2> QED
    BY <1>1, <2>1, <2>3 DEF SessFrame, TaskFrame
<1>5. CASE RehydrateDone
  <2>1. /\ sess' = sess /\ task' = task /\ made' = made /\ registry' = node.sess
        /\ node' = [node EXCEPT !.state = "up", !.sess = None]
    BY <1>5 DEF RehydrateDone
  <2>2. node'.sess = None /\ node'.state = "up"
    BY <1>t, <2>1 DEF NodeRecord
  <2>3. NodeFrame
    BY <1>t, <2>1, <2>2 DEF NodeFrame
  <2> QED
    BY <1>1, <2>1, <2>3 DEF SessFrame, TaskFrame
<1> QED
  BY <1>2, <1>3, <1>4, <1>5 DEF StartupStep

-----------------------------------------------------------------------------
(***************************************************************************)
(* The theorems.                                                           *)
(***************************************************************************)

\* The invariant holds at the start ...
LEMMA FenceInit == Init => FenceInv
<1> SUFFICES ASSUME Init PROVE FenceInv
  OBVIOUS
<1>1. /\ made.sess = 0 /\ made.conn = 0 /\ registry = 0 /\ node.sess = 0 /\ node.state = "up"
  BY DEF Init, None
<1>2. \A c \in Conns : conn[c].sess = 0 /\ conn[c].pc = "free" /\ ~Joined(c)
  BY DEF Init, FreeConn, Joined, None
<1>3. \A s \in Sessions : sess[s].sink = None
  BY DEF Init, new
<1>4. \A t \in Tasks : task[t].pc = "free"
  BY DEF Init, FreeTask
<1> QED
  BY <1>1, <1>2, <1>3, <1>4 DEF FenceInv, MadeOK, EpochsOK, SinksOK, SendsOK, SendOK

\* ... every step keeps it, and takes a sink away only for cause.
LEMMA FenceNext ==
    ASSUME TypeInv, FenceInv, [Next]_vars
    PROVE  FenceInv' /\ [LosesSinkForCause]_vars
<1>t. /\ \A s \in Sessions : sess[s].sink \in Conns \cup {None}
      /\ \A c \in Conns : c # None
  BY DEF TypeInv, TypeOK, SessionRecord, Conns, None
<1>k. ASSUME \A s \in Sessions : sess'[s].sink = sess[s].sink
      PROVE  LosesSinkForCause
  BY <1>k DEF LosesSinkForCause
<1>1. ASSUME NEW c \in Conns, ConnStep(c)
      PROVE  FenceInv' /\ LosesSinkForCause
  <2>1. CASE AttachConn(c)
    <3>1. /\ FenceInv'
          /\ \A q \in Sessions : sess'[q].sink = sess[q].sink \/ sess'[q].epoch > sess[q].epoch
      BY <2>1, FenceJoin
    <3> QED
      BY <3>1 DEF LosesSinkForCause
  <2>2. CASE DetachConn(c)
    <3>1. /\ FenceInv' /\ conn[c].pc = "ended"
          /\ \A q \in Sessions : sess'[q].sink # sess[q].sink => sess[q].sink = c
      BY <2>2, FenceDetach DEF DetachConn
    <3> QED
      BY <3>1 DEF LosesSinkForCause
  <2>3. CASE ~AttachConn(c) /\ ~DetachConn(c)
    <3>1. FenceInv' /\ \A s \in Sessions : sess'[s].sink = sess[s].sink
      BY <1>1, <2>3, FenceLocal, FenceAttach, FenceSubs DEF ConnStep
    <3> QED
      BY <1>k, <3>1
  <2> QED
    BY <2>1, <2>2, <2>3
<1>2. ASSUME NEW c \in Conns, ClientStep(c) \/ WriterAborts(c)
      PROVE  FenceInv' /\ LosesSinkForCause
  <2>1. FenceInv' /\ \A s \in Sessions : sess'[s].sink = sess[s].sink
    BY <1>2, FenceLocal, FenceAttach DEF ClientStep
  <2> QED
    BY <1>k, <2>1
<1>3. ASSUME NEW t \in Tasks, TaskStep(t)
      PROVE  FenceInv' /\ LosesSinkForCause
  <2>1. /\ FenceInv'
        /\ \A s \in Sessions : sess'[s].sink # sess[s].sink =>
              \/ Closed(sess[s].sink)
              \/ SlowGrace /\ task[t].pc = "timeout" /\ task[t].tx = sess[s].sink
    BY <1>3, FenceDeliver
  <2> QED
    BY <2>1 DEF LosesSinkForCause
<1>4. CASE SweepStep \/ \E class \in TopicClasses : Publish(class)
  BY <1>4, <1>k, FenceMesh
<1>5. CASE Crash
  BY <1>5, FenceCrash DEF LosesSinkForCause
<1>6. CASE StartupStep
  BY <1>6, <1>k, FenceStartup
<1>7. CASE UNCHANGED vars
  <2>1. UNCHANGED <<registry, sess, conn, task, node, made>>
    BY <1>7 DEF vars
  <2>2. ConnFrame /\ SessFrame /\ TaskFrame
    BY <2>1 DEF ConnFrame, SessFrame, TaskFrame
  <2> QED
    BY <1>7, <2>1, <2>2, NodeStays, FrameFence, FrameSends DEF FenceInv
<1>8. CASE Next
  <2>1. CASE \E c \in Conns : ConnStep(c) \/ ClientStep(c) \/ WriterAborts(c)
    BY <1>1, <1>2, <2>1
  <2>2. CASE \E t \in Tasks : TaskStep(t)
    BY <1>3, <2>2
  <2> QED
    BY <1>4, <1>5, <1>6, <1>8, <2>1, <2>2 DEF Next
<1> QED
  BY <1>7, <1>8

\* The invariant says who is behind the sink.
LEMMA FenceImplies ==
    ASSUME TypeInv, FenceInv
    PROVE  SinkIsCurrent
<1> SUFFICES ASSUME NEW s \in Sessions, sess[s].sink # None
             PROVE  LET c == sess[s].sink
                    IN  /\ conn[c].sess = s
                        /\ conn[c].epoch = sess[s].epoch
                        /\ \A d \in Conns \ {c} :
                              Attached(d) /\ conn[d].sess = s => conn[d].epoch < conn[c].epoch
  BY DEF SinkIsCurrent
<1> DEFINE c == sess[s].sink
<1>1. /\ c \in Conns /\ Joined(c) /\ conn[c].sess = s /\ conn[c].epoch = sess[s].epoch
      /\ sess[s].epoch \in Nat /\ \A d \in Conns : conn[d].epoch \in Nat
  <2>1. /\ c \in Conns /\ sess[s].epoch \in Nat /\ \A d \in Conns : conn[d].epoch \in Nat
    BY DEF TypeInv, TypeOK, SessionRecord, ConnRecord
  <2>2. Joined(c) /\ conn[c].sess = s /\ conn[c].epoch = sess[s].epoch
    BY DEF FenceInv, SinksOK
  <2> QED
    BY <2>1, <2>2
<1>2. ASSUME NEW d \in Conns \ {c}, Attached(d), conn[d].sess = s
      PROVE  conn[d].epoch < conn[c].epoch
  <2>1. Joined(d)
    BY <1>2 DEF Attached, Joined, Sessions, None
  <2>2. conn[d].epoch <= sess[s].epoch /\ conn[d].epoch # conn[c].epoch
    BY <1>1, <1>2, <2>1 DEF FenceInv, EpochsOK
  <2> QED
    BY <1>1, <2>2
<1> QED
  BY <1>1, <1>2

(***************************************************************************)
(* After a takeover the sink is the channel of the connection that         *)
(* attached last: no earlier connection of the session has an epoch as     *)
(* large, however the steps of attach, detach and deliver interleave.      *)
(***************************************************************************)
THEOREM Fencing == Spec => []SinkIsCurrent
<1>1. Init => TypeInv /\ FenceInv
  BY TypeInit, FenceInit
<1>2. TypeInv /\ FenceInv /\ [Next]_vars => TypeInv' /\ FenceInv'
  BY TypeNext, FenceNext
<1>3. TypeInv /\ FenceInv => SinkIsCurrent
  BY FenceImplies
<1> QED
  BY <1>1, <1>2, <1>3, PTL DEF Spec

(***************************************************************************)
(* The epoch check of detach_conn and the same_channel checks of deliver   *)
(* and evict_slow are enough: no stale connection and no stale send ever   *)
(* clears the sink of a connection that is healthy.                        *)
(***************************************************************************)
THEOREM SinkSafety == Spec => SinkLostForCause
<1>1. Init => TypeInv /\ FenceInv
  BY TypeInit, FenceInit
<1>2. TypeInv /\ FenceInv /\ [Next]_vars => TypeInv' /\ FenceInv'
  BY TypeNext, FenceNext
<1>3. TypeInv /\ FenceInv /\ [Next]_vars => [LosesSinkForCause]_vars
  BY FenceNext
<1> QED
  BY <1>1, <1>2, <1>3, PTL DEF Spec, SinkLostForCause

-----------------------------------------------------------------------------
(***************************************************************************)
(* Clients that only ever connect with cleanSession=1.  Each connection    *)
(* makes a session of its own, so it owns it to the end: it is the one     *)
(* that destroys it, and with it every subscription made through it.       *)
(***************************************************************************)
CleanOnly == CleanFlags \subseteq {TRUE}

NothingStored ==
    /\ node.state # "rehydrate"
    /\ disk.subs = {}
    /\ \A s \in Sessions : ~sess[s].durable

OwnSession ==
    /\ \A c \in Conns : conn[c].pc \notin {"free", "closed"} => conn[c].clean
    /\ \A c, d \in Conns : c # d /\ conn[c].sess # None => conn[c].sess # conn[d].sess
    /\ \A c \in Conns : conn[c].pc = "replace" => c = made.conn
    /\ \A c \in Conns : Attached(c) => conn[c].epoch = sess[conn[c].sess].epoch

\* Connection c will abort task t, or has it still to enter.
Tending == Running \cup {"ended", "purge"}

Owns(c, t) ==
    /\ conn[c].sess = task[t].sess
    /\ conn[c].pc \in Tending
    /\ task[t].filter \in Filters
    /\ \/ sess[conn[c].sess].subs[task[t].filter] = t
       \/ conn[c].pc = "insert" /\ conn[c].task = t /\ conn[c].filter = task[t].filter

Owned == \A t \in Tasks : Live(t) /\ ~task[t].aborted => \E c \in Conns : Owns(c, t)

CleanInv == NothingStored /\ OwnSession /\ Owned

\* Steps that keep sessions, tasks and who serves whom.
LEMMA CleanFrame ==
    ASSUME TypeInv, CleanInv, made'.conn = made.conn, node'.state # "rehydrate",
           disk'.subs = disk.subs,
           \A q \in Sessions : KeepsSess(q),
           \A u \in Tasks : KeepsTask(u),
           \A d \in Conns :
              /\ KeepsConn(d)
              /\ conn'[d].pc \notin {"free", "closed"} => conn[d].pc \notin {"free", "closed"}
              /\ conn'[d].pc = "replace" => conn[d].pc = "replace"
              /\ Attached(d)' => Attached(d)
              /\ conn[d].pc \in Tending => conn'[d].pc \in Tending
              /\ conn[d].pc = "insert" => conn'[d].pc = "insert"
    PROVE  CleanInv'
<1>t. \A d \in Conns : conn[d].pc \notin {"free", "closed", "replace"} => conn[d].sess \in Sessions
  BY DEF TypeInv, HandlesOK, ConnHandlesOK
<1>1. NothingStored'
  BY DEF CleanInv, NothingStored, KeepsSess
<1>2. OwnSession'
  <2>1. ASSUME NEW d \in Conns, Attached(d)'
        PROVE  conn'[d].epoch = sess'[conn'[d].sess].epoch
    <3>1. Attached(d)
      BY <2>1
    <3>2. conn[d].sess \in Sessions /\ conn[d].epoch = sess[conn[d].sess].epoch
      BY <1>t, <3>1 DEF CleanInv, OwnSession, Attached
    <3> QED
      BY <3>2 DEF KeepsConn, KeepsSess
  <2>2. \A d \in Conns : conn'[d].sess = conn[d].sess /\ conn'[d].clean = conn[d].clean
    BY DEF KeepsConn
  <2> QED
    BY <2>1, <2>2 DEF CleanInv, OwnSession
<1>3. Owned'
  <2> SUFFICES ASSUME NEW t \in Tasks, Live(t)', ~task'[t].aborted
               PROVE  \E c \in Conns : Owns(c, t)'
    BY DEF Owned
  <2>1. Live(t) /\ ~task[t].aborted
    BY DEF KeepsTask
  <2>2. PICK c \in Conns : Owns(c, t)
    BY <2>1 DEF CleanInv, Owned
  <2>3. conn[c].sess \in Sessions
    BY <1>t, <2>2 DEF Owns, Tending, Running
  <2>4. /\ conn'[c].sess = conn[c].sess /\ conn'[c].task = conn[c].task
        /\ conn'[c].filter = conn[c].filter
        /\ task'[t].sess = task[t].sess /\ task'[t].filter = task[t].filter
        /\ sess'[conn[c].sess].subs = sess[conn[c].sess].subs
        /\ conn'[c].pc \in Tending /\ (conn[c].pc = "insert" => conn'[c].pc = "insert")
    BY <2>2, <2>3 DEF KeepsConn, KeepsTask, KeepsSess, Owns
  <2>5. Owns(c, t)'
    BY <2>2, <2>4 DEF Owns
  <2> QED
    BY <2>5
<1> QED
  BY <1>1, <1>2, <1>3 DEF CleanInv

\* Destroying a session's subscriptions aborts the tasks behind them.
LEMMA OwnedAbort ==
    ASSUME TypeInv, CleanInv, NEW s \in Sessions, task' = Abort(task, SubTasks(s)),
           \A q \in Sessions \ {s} : sess'[q].subs = sess[q].subs,
           \A d \in Conns : conn[d].pc \in Tending =>
              /\ KeepsConn(d)
              /\ conn'[d].pc \in Tending \/ conn[d].sess = s
              /\ conn[d].pc = "insert" => conn'[d].pc = "insert"
    PROVE  Owned'
<1>t. \A d \in Conns : conn[d].pc \notin {"free", "closed", "replace"} => conn[d].sess \in Sessions
  BY DEF TypeInv, HandlesOK, ConnHandlesOK
<1> SUFFICES ASSUME NEW t \in Tasks, Live(t)', ~task'[t].aborted
             PROVE  \E c \in Conns : Owns(c, t)'
  BY DEF Owned
<1>1. /\ \A u \in Tasks : KeepsTask(u)
      /\ \A u \in SubTasks(s) \cap Tasks : task'[u].aborted
  BY AbortEffect
<1>2. Live(t) /\ ~task[t].aborted
  BY <1>1 DEF KeepsTask
<1>3. PICK c \in Conns : Owns(c, t)
  BY <1>2 DEF CleanInv, Owned
<1>4. conn[c].sess \in Sessions /\ t # None /\ conn[c].pc \in Tending
  BY <1>t, <1>3 DEF Owns, Tending, Running, Tasks, None
<1>5. /\ conn'[c].sess = conn[c].sess /\ conn'[c].task = conn[c].task
      /\ conn'[c].filter = conn[c].filter
      /\ task'[t].sess = task[t].sess /\ task'[t].filter = task[t].filter
  BY <1>1, <1>4 DEF KeepsConn, KeepsTask
<1>6. CASE conn[c].pc = "insert" /\ conn[c].task = t /\ conn[c].filter = task[t].filter
  <2>1. conn'[c].pc = "insert" /\ conn'[c].pc \in Tending
    BY <1>4, <1>6 DEF Tending, Running
  <2> QED
    BY <1>3, <1>5, <1>6, <2>1 DEF Owns
<1>7. CASE sess[conn[c].sess].subs[task[t].filter] = t
  <2>1. conn[c].sess # s
    <3>1. ASSUME conn[c].sess = s PROVE t \in SubTasks(s)
      BY <1>3, <1>4, <1>7, <3>1 DEF SubTasks, Owns
    <3> QED
      BY <1>1, <3>1
  <2>2. sess'[conn[c].sess].subs = sess[conn[c].sess].subs /\ conn'[c].pc \in Tending
    BY <1>4, <2>1
  <2> QED
    BY <1>3, <1>5, <1>7, <2>2 DEF Owns
<1> QED
  BY <1>3, <1>6, <1>7 DEF Owns

\* Steps of a connection that change only its own record.
LEMMA CleanLocal ==
    ASSUME TypeInv, CleanInv, NEW c \in Conns,
           \/ SendConnAck(c) \/ ConnectEvent(c) \/ DrainBacklog(c) \/ EnterRun(c)
           \/ ServeFails(c) \/ DisconnectEvent(c)
           \/ Reply(c) \/ Handled(c) \/ Disconnect(c) \/ RunFails(c) \/ Kicked(c)
           \/ \E handler \in Requests : ReadPacket(c, handler)
           \/ Write(c) \/ WriteFails(c) \/ WriterAborts(c)
    PROVE  CleanInv'
<1>1. /\ UNCHANGED <<registry, sess, task, disk, node, sweeper, made>>
      /\ \A d \in Conns : KeepsConn(d) /\ Moves(conn[d].pc, conn'[d].pc)
  BY LocalEffect
<1>2. ASSUME NEW d \in Conns
      PROVE  /\ KeepsConn(d)
             /\ conn'[d].pc \notin {"free", "closed"} => conn[d].pc \notin {"free", "closed"}
             /\ conn'[d].pc = "replace" => conn[d].pc = "replace"
             /\ Attached(d)' => Attached(d)
             /\ conn[d].pc \in Tending => conn'[d].pc \in Tending
             /\ conn[d].pc = "insert" => conn'[d].pc = "insert"
  BY <1>1 DEF Moves, Attached, Tending, Running, Greeting
<1>3. (\A q \in Sessions : KeepsSess(q)) /\ (\A u \in Tasks : KeepsTask(u))
  BY <1>1 DEF KeepsSess, KeepsTask, Live
<1>4. node.state # "rehydrate"
  BY DEF CleanInv, NothingStored
<1> QED
  BY <1>1, <1>2, <1>3, <1>4, CleanFrame

\* The forwarding tasks and the mesh.
LEMMA CleanTask ==
    ASSUME TypeInv, CleanInv,
           (\E t \in Tasks : TaskStep(t)) \/ \E class \in TopicClasses : Publish(class)
    PROVE  CleanInv'
<1>1. /\ UNCHANGED <<node, made>> /\ disk'.subs = disk.subs
      /\ \A d \in Conns : KeepsConn(d) /\ conn'[d].pc = conn[d].pc
      /\ \A q \in Sessions : KeepsSess(q)
      /\ \A u \in Tasks : KeepsTask(u)
  <2>1. CASE \E t \in Tasks : TaskStep(t)
    BY <2>1, TaskEffect
  <2>2. CASE \E class \in TopicClasses : Publish(class)
    <3>1. /\ UNCHANGED <<registry, sess, conn, disk, node, sweeper, made>>
          /\ \A u \in Tasks : KeepsTask(u)
      BY <2>2, PublishEffect
    <3> QED
      BY <3>1 DEF KeepsConn, KeepsSess
  <2> QED
    BY <2>1, <2>2
<1>2. node.state # "rehydrate"
  BY DEF CleanInv, NothingStored
<1> QED
  BY <1>1, <1>2, CleanFrame DEF Attached

\* A connection takes its place in its new session, whose epoch no other
\* connection has.
LEMMA CleanAttach ==
    ASSUME TypeInv, CleanInv, NEW c \in Conns, AttachConn(c)
    PROVE  CleanInv'
<1> DEFINE s == conn[c].sess
           r == attach_conn(sess[s], c)
           k == sess[s].kick
           e == sess'[s].epoch
           b == sess[s].queue
           w == notify_waiters(conn, k)
           x == [w[c] EXCEPT !.pc = "discard", !.epoch = e, !.backlog = b]
<1>t. /\ conn \in [Conns -> ConnRecord] /\ sess \in [Sessions -> SessionRecord]
      /\ \A d \in Conns : conn[d].pc \notin {"free", "closed", "replace"} => conn[d].sess \in Sessions
  BY DEF TypeInv, TypeOK, HandlesOK, ConnHandlesOK
<1>k. NothingStored /\ OwnSession /\ Owned
  BY DEF CleanInv
<1>1. /\ UNCHANGED <<registry, task, disk, node, sweeper, made>>
      /\ conn[c].pc = "attach" /\ s \in Sessions /\ s # None
      /\ sess' = [sess EXCEPT ![s] = r]
      /\ conn' = [w EXCEPT ![c].pc = "discard", ![c].epoch = e, ![c].backlog = b]
  <2>1. /\ UNCHANGED <<registry, task, disk, node, sweeper, made>> /\ conn[c].pc = "attach"
        /\ conn' = [w EXCEPT ![c].pc = "discard", ![c].epoch = e, ![c].backlog = b]
    BY DEF AttachConn
  <2>2. s \in Sessions /\ s # None
    <3>1. s \in Sessions
      BY <1>t, <2>1
    <3> HIDE DEF s
    <3> QED
      BY <3>1, ConstantsAssumption DEF Sessions, None
  <2>3. sess' = [sess EXCEPT ![s] = r]
    BY <1>t, <2>2 DEF AttachConn
  <2> QED
    BY <2>1, <2>2, <2>3
<1>2. r.subs = sess[s].subs /\ r.durable = sess[s].durable
  <2>1. sess[s] \in SessionRecord
    BY <1>t, <1>1
  <2> QED
    BY <2>1 DEF attach_conn, SessionRecord
<1>3. w \in [Conns -> ConnRecord] /\ \A d \in Conns :
          /\ w[d].pc = conn[d].pc /\ w[d].sess = conn[d].sess /\ w[d].epoch = conn[d].epoch
          /\ w[d].filter = conn[d].filter /\ w[d].task = conn[d].task
          /\ w[d].clean = conn[d].clean
  <2> HIDE DEF k
  <2>1. ASSUME NEW y \in ConnRecord
        PROVE  [y EXCEPT !.notified = TRUE].clean = y.clean
    BY DEF ConnRecord
  <2>2. \A d \in Conns : notify_waiters(conn, k)[d].clean = conn[d].clean
    BY <1>t, <2>1 DEF notify_waiters
  <2> QED
    BY <1>t, <2>2, NotifyType
<1> HIDE DEF k, e, b, r, w
<1>4. conn'[c] = x /\ \A d \in Conns \ {c} : conn'[d] = w[d]
  BY <1>1, <1>3
<1>5. /\ x.pc = "discard" /\ x.epoch = e /\ x.sess = w[c].sess /\ x.clean = w[c].clean
      /\ x.filter = w[c].filter /\ x.task = w[c].task
  BY <1>3 DEF ConnRecord
<1> HIDE DEF x
<1>6. sess'[s] = r /\ \A q \in Sessions \ {s} : sess'[q] = sess[q]
  BY <1>t, <1>1
<1>7. NothingStored'
  BY <1>k, <1>1, <1>2, <1>6 DEF NothingStored
<1>8. OwnSession'
  <2>1. \A d \in Conns : /\ conn'[d].sess = conn[d].sess /\ conn'[d].clean = conn[d].clean
                         /\ conn'[d].pc = conn[d].pc \/ d = c
    BY <1>3, <1>4, <1>5
  <2>2. ASSUME NEW d \in Conns, Attached(d)'
        PROVE  conn'[d].epoch = sess'[conn'[d].sess].epoch
    <3>1. CASE d = c
      BY <1>3, <1>4, <1>5, <3>1 DEF e
    <3>2. CASE d # c
      <4>1. conn'[d] = w[d] /\ Attached(d)
        BY <1>3, <1>4, <2>2, <3>2 DEF Attached
      <4>2. conn[d].epoch = sess[conn[d].sess].epoch /\ conn[d].sess \in Sessions
        BY <1>k, <1>t, <4>1 DEF OwnSession, Attached
      <4>3. conn[d].sess # s
        BY <1>k, <1>1, <3>2 DEF OwnSession
      <4> QED
        BY <1>3, <1>6, <4>1, <4>2, <4>3
    <3> QED
      BY <3>1, <3>2
  <2>3. \A d \in Conns : conn'[d].pc \notin {"free", "closed"} => conn'[d].clean
    BY <1>k, <1>1, <2>1 DEF OwnSession
  <2>4. \A d \in Conns : conn'[d].pc = "replace" => d = made'.conn
    <3>1. made' = made
      BY <1>1
    <3>2. conn'[c].pc = "discard"
      BY <1>4, <1>5
    <3>3. \A d \in Conns : conn'[d].pc = "replace" => conn[d].pc = "replace"
      BY <2>1, <3>2
    <3>4. \A d \in Conns : conn[d].pc = "replace" => d = made.conn
      BY <1>k DEF OwnSession
    <3> QED
      BY <3>1, <3>3, <3>4
  <2>5. \A d, g \in Conns : d # g /\ conn'[d].sess # None => conn'[d].sess # conn'[g].sess
    BY <1>k, <2>1 DEF OwnSession
  <2> QED
    BY <2>2, <2>3, <2>4, <2>5 DEF OwnSession
<1>9. Owned'
  <2> SUFFICES ASSUME NEW t \in Tasks, Live(t)', ~task'[t].aborted
               PROVE  \E d \in Conns : Owns(d, t)'
    BY DEF Owned
  <2>1. PICK d \in Conns : Owns(d, t)
    BY <1>k, <1>1 DEF Owned, Live
  <2>2. d # c
    BY <1>1, <2>1 DEF Owns, Tending, Running
  <2>3. conn[d].sess # s /\ conn[d].sess \in Sessions
    BY <1>k, <1>t, <1>1, <2>1, <2>2 DEF OwnSession, Owns, Tending, Running
  <2>4. /\ conn'[d] = w[d] /\ sess'[conn[d].sess] = sess[conn[d].sess] /\ task' = task
    BY <1>1, <1>4, <1>6, <2>2, <2>3
  <2>5. Owns(d, t)'
    BY <1>3, <2>1, <2>4 DEF Owns
  <2> QED
    BY <2>5
<1> QED
  BY <1>7, <1>8, <1>9 DEF CleanInv

\* The deletion of a queue file that is not there, detach_conn, which finds
\* itself the owner, and the removal from the registry.
LEMMA CleanLeave ==
    ASSUME TypeInv, CleanInv, NEW c \in Conns,
           DiscardQueueFile(c) \/ DetachConn(c) \/ Unmap(c)
    PROVE  CleanInv'
<1> DEFINE s == conn[c].sess
<1>t. /\ conn \in [Conns -> ConnRecord] /\ sess \in [Sessions -> SessionRecord]
      /\ conn[c].pc \notin {"free", "closed", "replace"} => s \in Sessions
  BY DEF TypeInv, TypeOK, HandlesOK, ConnHandlesOK
<1>k. NothingStored /\ OwnSession
  BY DEF CleanInv
<1>1. UNCHANGED <<task, node, sweeper, made>> /\ node.state # "rehydrate" /\ s \in Sessions
  BY <1>k, <1>t DEF DiscardQueueFile, DetachConn, Unmap, NothingStored
<1>2. disk' = disk
  <2>1. ~sess[s].durable
    BY <1>k, <1>1 DEF NothingStored
  <2> QED
    BY <2>1 DEF DiscardQueueFile, DetachConn, Unmap, discard_queue_file
<1>3. \A q \in Sessions : KeepsSess(q)
  <2>1. CASE sess' = sess
    BY <2>1 DEF KeepsSess
  <2>2. CASE DetachConn(c)
    <3> DEFINE r == detach_conn(sess[s], conn[c].epoch)
    <3>1. sess' = [sess EXCEPT ![s] = r]
      BY <2>2 DEF DetachConn
    <3>2. r.epoch = sess[s].epoch /\ r.subs = sess[s].subs /\ r.durable = sess[s].durable
      BY <1>t, <1>1 DEF detach_conn, SessionRecord
    <3> HIDE DEF r
    <3> QED
      BY <1>t, <1>1, <3>1, <3>2 DEF KeepsSess
  <2> QED
    BY <2>1, <2>2 DEF DiscardQueueFile, Unmap
<1>4. \A u \in Tasks : KeepsTask(u)
  BY <1>1 DEF KeepsTask, Live
<1>5. \/ conn[c].pc = "discard" /\ conn' = [conn EXCEPT ![c].pc = "connack"]
      \/ conn[c].pc = "ended" /\ conn' = [conn EXCEPT ![c].pc = "purge"]
      \/ conn[c].pc = "unmap" /\ conn' = [conn EXCEPT ![c].pc = "bye"]
  <2>1. CASE DetachConn(c)
    <3>1. conn[c].pc = "ended"
      BY <2>1 DEF DetachConn
    <3>2. conn[c].clean /\ OwnsSession(sess[s], conn[c].epoch)
      BY <1>k, <3>1 DEF OwnSession, Attached, OwnsSession
    <3> QED
      BY <2>1, <3>1, <3>2 DEF DetachConn
  <2>2. CASE DiscardQueueFile(c) \/ Unmap(c)
    BY <2>2 DEF DiscardQueueFile, Unmap
  <2> QED
    BY <2>1, <2>2
<1>6. ASSUME NEW d \in Conns
      PROVE  /\ KeepsConn(d)
             /\ conn'[d].pc \notin {"free", "closed"} => conn[d].pc \notin {"free", "closed"}
             /\ conn'[d].pc = "replace" => conn[d].pc = "replace"
             /\ Attached(d)' => Attached(d)
             /\ conn[d].pc \in Tending => conn'[d].pc \in Tending
             /\ conn[d].pc = "insert" => conn'[d].pc = "insert"
  <2>1. CASE d # c
    <3>1. conn'[d] = conn[d]
      BY <1>5, <1>t, <2>1
    <3> QED
      BY <3>1 DEF KeepsConn, Attached
  <2>2. CASE d = c
    <3>1. ASSUME NEW pc, conn' = [conn EXCEPT ![c].pc = pc]
          PROVE  KeepsConn(c) /\ conn'[c].pc = pc
      <4> DEFINE r == [conn[c] EXCEPT !.pc = pc]
      <4>1. conn'[c] = r
        BY <1>t, <3>1
      <4>2. /\ r.sess = conn[c].sess /\ r.epoch = conn[c].epoch /\ r.clean = conn[c].clean
            /\ r.filter = conn[c].filter /\ r.task = conn[c].task /\ r.pc = pc
        BY <1>t DEF ConnRecord
      <4> HIDE DEF r
      <4> QED
        BY <4>1, <4>2 DEF KeepsConn
    <3>2. /\ KeepsConn(c)
          /\ \/ conn[c].pc = "discard" /\ conn'[c].pc = "connack"
             \/ conn[c].pc = "ended" /\ conn'[c].pc = "purge"
             \/ conn[c].pc = "unmap" /\ conn'[c].pc = "bye"
      BY <1>5, <3>1
    <3> QED
      BY <2>2, <3>2 DEF Attached, Tending, Running
  <2> QED
    BY <2>1, <2>2
<1> QED
  BY <1>1, <1>2, <1>3, <1>4, <1>6, CleanFrame

\* A new connection and its new session.
LEMMA CleanArrive ==
    ASSUME TypeInv, FenceInv, CleanInv, NEW c \in Conns,
           AttachNew(c, TRUE) \/ ReplaceSession(c)
    PROVE  CleanInv'
<1> DEFINE n == made.sess + 1
           fresh == sess'[n]
<1>t. /\ conn \in [Conns -> ConnRecord] /\ sess \in [Sessions -> SessionRecord]
      /\ made \in [sess : 0..MaxSessions, conn : 0..MaxConns, task : 0..MaxTasks]
      /\ \A d \in Conns : conn[d].pc \notin {"free", "closed", "replace"} => conn[d].sess \in Sessions
      /\ \A d \in Conns : conn[d].sess \in Sessions \cup {None}
  BY DEF TypeInv, TypeOK, HandlesOK, ConnHandlesOK, ConnRecord
<1>k. NothingStored /\ OwnSession /\ Owned
  BY DEF CleanInv
<1>1. /\ UNCHANGED <<task, node, sweeper>> /\ n \in Sessions /\ registry' = n
      /\ disk' = NoFiles
      /\ conn[c].pc \in {"free", "replace"}
      /\ sess' = [sess EXCEPT ![n] = fresh]
      /\ fresh.durable = FALSE
  <2>1. CASE ReplaceSession(c)
    <3>1. sess' = [sess EXCEPT ![n] = new(FALSE, << >>)] /\ n \in Sessions
      BY <2>1 DEF ReplaceSession
    <3>2. sess'[n] = new(FALSE, << >>) /\ new(FALSE, << >>).durable = FALSE
      BY <1>t, <3>1 DEF new
    <3> QED
      BY <2>1, <3>1, <3>2 DEF ReplaceSession
  <2>2. CASE AttachNew(c, TRUE)
    <3>1. sess' = [sess EXCEPT ![n] = new(~TRUE /\ DataDir, NoFiles.queue)] /\ n \in Sessions
      BY <2>2, Zenon DEF AttachNew
    <3>2. new(~TRUE /\ DataDir, NoFiles.queue).durable = FALSE
      BY DEF new
    <3>3. sess'[n] = new(~TRUE /\ DataDir, NoFiles.queue)
      BY <1>t, <3>1
    <3>4. c = made.conn + 1 /\ made.conn \in Nat
      BY <1>t, <2>2 DEF AttachNew, NewConn
    <3>5. conn[c].pc = "free"
      BY <3>4 DEF FenceInv, MadeOK
    <3>6. UNCHANGED <<task, node, sweeper>> /\ registry' = n /\ disk' = NoFiles
      BY <2>2 DEF AttachNew
    <3> QED
      BY <3>1, <3>2, <3>3, <3>5, <3>6
  <2> QED
    BY <2>1, <2>2
<1>2. /\ conn'[c].pc = "attach" /\ conn'[c].sess = n /\ conn'[c].clean
      /\ \A d \in Conns \ {c} : conn'[d] = conn[d]
  <2>1. CASE ReplaceSession(c)
    <3> DEFINE r == [conn[c] EXCEPT !.pc = "attach", !.sess = n]
    <3>1. conn' = [conn EXCEPT ![c] = r] /\ conn[c].pc = "replace"
      BY <1>t, <2>1 DEF ReplaceSession
    <3>2. r.pc = "attach" /\ r.sess = n /\ r.clean = conn[c].clean
      BY <1>t DEF ConnRecord
    <3>3. conn[c].clean
      BY <1>k, <3>1 DEF OwnSession
    <3> HIDE DEF r
    <3> QED
      BY <1>t, <3>1, <3>2, <3>3
  <2>2. CASE AttachNew(c, TRUE)
    <3> DEFINE present == NoFiles # NoFiles
               r == [FreeConn EXCEPT !.pc = "attach", !.clean = TRUE, !.sess = n,
                                     !.present = present, !.writer = "up"]
    <3>1. conn' = [conn EXCEPT ![c] = r]
      BY <2>2, Zenon DEF AttachNew, Attaching
    <3> HIDE DEF present
    <3>2. r.pc = "attach" /\ r.sess = n /\ r.clean
      BY DEF FreeConn
    <3> HIDE DEF r
    <3> QED
      BY <1>t, <3>1, <3>2
  <2> QED
    BY <2>1, <2>2
<1>n. made.sess \in Nat /\ n = made.sess + 1 /\ \A d \in Conns : conn[d].sess # n
  BY <1>t DEF FenceInv, MadeOK, Sessions, None
<1>c. \A d \in Conns \ {c} : conn[d].pc # "replace"
  <2>1. CASE ReplaceSession(c)
    BY <1>k, <2>1 DEF OwnSession, ReplaceSession
  <2>2. CASE AttachNew(c, TRUE)
    BY <2>2 DEF AttachNew, NewConn, RegistryFree
  <2> QED
    BY <2>1, <2>2
<1> HIDE DEF n, fresh
<1>3. sess'[n] = fresh /\ \A q \in Sessions \ {n} : sess'[q] = sess[q]
  BY <1>t, <1>1
<1>4. NothingStored'
  BY <1>k, <1>1, <1>3 DEF NothingStored, NoFiles
<1>5. OwnSession'
  <2>1. ASSUME NEW d \in Conns, Attached(d)'
        PROVE  conn'[d].epoch = sess'[conn'[d].sess].epoch
    <3>1. d # c
      BY <1>2, <2>1 DEF Attached
    <3>2. conn'[d] = conn[d] /\ Attached(d)
      BY <1>2, <2>1, <3>1 DEF Attached
    <3>3. conn[d].epoch = sess[conn[d].sess].epoch /\ conn[d].sess \in Sessions
      BY <1>k, <1>t, <3>2 DEF OwnSession, Attached
    <3> QED
      BY <1>3, <1>n, <3>2, <3>3
  <2>2. \A d \in Conns : conn'[d].pc \notin {"free", "closed"} => conn'[d].clean
    BY <1>k, <1>2 DEF OwnSession
  <2>3. \A d \in Conns : conn'[d].pc # "replace"
    BY <1>c, <1>2
  <2>4. \A d, g \in Conns : d # g /\ conn'[d].sess # None => conn'[d].sess # conn'[g].sess
    BY <1>k, <1>2, <1>n DEF OwnSession
  <2> QED
    BY <2>1, <2>2, <2>3, <2>4 DEF OwnSession
<1>6. Owned'
  <2> SUFFICES ASSUME NEW t \in Tasks, Live(t)', ~task'[t].aborted
               PROVE  \E d \in Conns : Owns(d, t)'
    BY DEF Owned
  <2>1. PICK d \in Conns : Owns(d, t)
    BY <1>k, <1>1 DEF Owned, Live
  <2>2. d # c
    BY <1>1, <2>1 DEF Owns, Tending, Running
  <2>3. conn[d].sess # n /\ conn[d].sess \in Sessions
    BY <1>t, <1>n, <2>1 DEF Owns, Tending, Running
  <2>4. conn'[d] = conn[d] /\ sess'[conn[d].sess] = sess[conn[d].sess] /\ task' = task
    BY <1>1, <1>2, <1>3, <2>2, <2>3
  <2>5. Owns(d, t)'
    BY <2>1, <2>4 DEF Owns
  <2> QED
    BY <2>5
<1> QED
  BY <1>4, <1>5, <1>6 DEF CleanInv

\* A CONNECT that finds a session aborts its subscriptions, and the end of a
\* connection the ones of its own session.
LEMMA CleanDestroy ==
    ASSUME TypeInv, FenceInv, CleanInv,
           (\E c \in Conns : DiscardExisting(c) \/ Purge(c)) \/ SweepAbort
    PROVE  CleanInv'
<1>t. /\ conn \in [Conns -> ConnRecord] /\ sess \in [Sessions -> SessionRecord]
      /\ made \in [sess : 0..MaxSessions, conn : 0..MaxConns, task : 0..MaxTasks]
      /\ \A d \in Conns : conn[d].pc \notin {"free", "closed", "replace"} => conn[d].sess \in Sessions
      /\ registry \in Sessions \cup {None}
      /\ sweeper.pc # "idle" => sweeper.sess \in Sessions
  BY DEF TypeInv, TypeOK, HandlesOK, ConnHandlesOK, NodeHandlesOK
<1>k. NothingStored /\ OwnSession /\ Owned
  BY DEF CleanInv
<1>s. ASSUME NEW s \in Sessions, sess' = [sess EXCEPT ![s] = abort_subs(@)]
      PROVE  /\ \A q \in Sessions \ {s} : sess'[q].subs = sess[q].subs
             /\ \A q \in Sessions : /\ sess'[q].epoch = sess[q].epoch
                                    /\ sess'[q].durable = sess[q].durable
  <2> DEFINE r == abort_subs(sess[s])
  <2>1. sess' = [sess EXCEPT ![s] = r]
    BY <1>s
  <2>2. r.epoch = sess[s].epoch /\ r.durable = sess[s].durable
    BY <1>t DEF abort_subs, SessionRecord
  <2> HIDE DEF r
  <2> QED
    BY <1>t, <2>1, <2>2
<1>1. CASE SweepAbort
  <2> DEFINE s == sweeper.sess
  <2>1. /\ s \in Sessions /\ sess' = [sess EXCEPT ![s] = abort_subs(@)]
        /\ task' = Abort(task, SubTasks(s))
        /\ UNCHANGED <<registry, conn, disk, node, made>>
    BY <1>t, <1>1 DEF SweepAbort
  <2> HIDE DEF s
  <2>2. /\ \A q \in Sessions \ {s} : sess'[q].subs = sess[q].subs
        /\ \A q \in Sessions : /\ sess'[q].epoch = sess[q].epoch
                               /\ sess'[q].durable = sess[q].durable
    BY <1>s, <2>1
  <2>3. NothingStored'
    BY <1>k, <2>1, <2>2 DEF NothingStored
  <2>4. OwnSession'
    BY <1>k, <1>t, <2>1, <2>2 DEF OwnSession, Attached
  <2>5. Owned'
    BY <2>1, <2>2, OwnedAbort DEF KeepsConn
  <2> QED
    BY <2>3, <2>4, <2>5 DEF CleanInv
<1>2. ASSUME NEW c \in Conns, Purge(c)
      PROVE  CleanInv'
  <2> DEFINE s == conn[c].sess
             r == [conn[c] EXCEPT !.pc = "unmap"]
  <2>1. /\ conn[c].pc = "purge" /\ s \in Sessions
        /\ sess' = [sess EXCEPT ![s] = abort_subs(@)] /\ task' = Abort(task, SubTasks(s))
        /\ UNCHANGED <<registry, node, made>> /\ conn' = [conn EXCEPT ![c] = r]
    BY <1>t, <1>2 DEF Purge
  <2>2. disk' = disk
    <3>1. ~sess[s].durable
      BY <1>k, <2>1 DEF NothingStored
    <3> QED
      BY <1>2, <3>1 DEF Purge, discard_state_files
  <2>3. /\ r.sess = conn[c].sess /\ r.epoch = conn[c].epoch /\ r.clean = conn[c].clean
        /\ r.pc = "unmap" /\ r.filter = conn[c].filter /\ r.task = conn[c].task
    BY <1>t DEF ConnRecord
  <2> HIDE DEF r
  <2>4. conn'[c] = r /\ \A d \in Conns \ {c} : conn'[d] = conn[d]
    BY <1>t, <2>1
  <2>5. \A d \in Conns : KeepsConn(d)
    BY <2>3, <2>4 DEF KeepsConn
  <2>6. /\ \A q \in Sessions \ {s} : sess'[q].subs = sess[q].subs
        /\ \A q \in Sessions : /\ sess'[q].epoch = sess[q].epoch
                               /\ sess'[q].durable = sess[q].durable
    BY <1>s, <2>1
  <2>7. NothingStored'
    BY <1>k, <2>1, <2>2, <2>6 DEF NothingStored
  <2>8. OwnSession'
    <3>1. \A d \in Conns : /\ conn'[d].pc \notin {"free", "closed"} => conn[d].pc \notin {"free", "closed"}
                           /\ conn'[d].pc = "replace" => conn[d].pc = "replace"
                           /\ Attached(d)' => Attached(d)
      BY <2>1, <2>3, <2>4 DEF Attached
    <3>2. ASSUME NEW d \in Conns, Attached(d)'
          PROVE  conn'[d].epoch = sess'[conn'[d].sess].epoch
      <4>1. conn[d].sess \in Sessions /\ conn[d].epoch = sess[conn[d].sess].epoch
        BY <1>k, <1>t, <3>1, <3>2 DEF OwnSession, Attached
      <4> QED
        BY <2>5, <2>6, <4>1 DEF KeepsConn
    <3>3. made' = made
      BY <2>1
    <3> QED
      BY <1>k, <2>5, <3>1, <3>2, <3>3 DEF OwnSession, KeepsConn
  <2>9. Owned'
    <3>1. \A d \in Conns : conn[d].pc \in Tending =>
              /\ KeepsConn(d)
              /\ conn'[d].pc \in Tending \/ conn[d].sess = s
              /\ conn[d].pc = "insert" => conn'[d].pc = "insert"
      BY <2>1, <2>4, <2>5
    <3> QED
      BY <2>1, <2>6, <3>1, OwnedAbort
  <2> QED
    BY <2>7, <2>8, <2>9 DEF CleanInv
<1>3. ASSUME NEW c \in Conns, DiscardExisting(c)
      PROVE  CleanInv'
  <2> DEFINE s == registry
             k == sess[registry].kick
             w == notify_waiters(conn, k)
             r == [FreeConn EXCEPT !.pc = "replace", !.clean = TRUE, !.writer = "up"]
  <2>1. /\ s \in Sessions
        /\ sess' = [sess EXCEPT ![s] = abort_subs(@)] /\ task' = Abort(task, SubTasks(s))
        /\ UNCHANGED <<registry, disk, node>> /\ conn' = [w EXCEPT ![c] = r]
        /\ c = made.conn + 1 /\ RegistryFree
    BY <1>t, <1>3 DEF DiscardExisting, NewConn
  <2>2. made'.conn = c
    BY <1>t, <1>3 DEF DiscardExisting
  <2>3. conn[c].pc = "free" /\ made.conn \in Nat
    BY <1>t, <2>1 DEF FenceInv, MadeOK
  <2>4. w \in [Conns -> ConnRecord] /\ \A d \in Conns :
          /\ w[d].pc = conn[d].pc /\ w[d].sess = conn[d].sess /\ w[d].epoch = conn[d].epoch
          /\ w[d].filter = conn[d].filter /\ w[d].task = conn[d].task
          /\ w[d].clean = conn[d].clean
    <3> HIDE DEF k
    <3>1. ASSUME NEW y \in ConnRecord
          PROVE  [y EXCEPT !.notified = TRUE].clean = y.clean
      BY DEF ConnRecord
    <3>2. \A d \in Conns : notify_waiters(conn, k)[d].clean = conn[d].clean
      BY <1>t, <3>1 DEF notify_waiters
    <3> QED
      BY <1>t, <3>2, NotifyType
  <2>5. r.pc = "replace" /\ r.sess = None /\ r.clean
    BY DEF FreeConn
  <2> HIDE DEF r, w, k
  <2>6. conn'[c] = r /\ \A d \in Conns \ {c} : conn'[d] = w[d]
    BY <2>1, <2>4
  <2>7. /\ \A q \in Sessions \ {s} : sess'[q].subs = sess[q].subs
        /\ \A q \in Sessions : /\ sess'[q].epoch = sess[q].epoch
                               /\ sess'[q].durable = sess[q].durable
    BY <1>s, <2>1
  <2>8. NothingStored'
    BY <1>k, <2>1, <2>7 DEF NothingStored
  <2>9. \A d \in Conns \ {c} :
           /\ KeepsConn(d) /\ conn'[d].pc = conn[d].pc
    BY <2>4, <2>6 DEF KeepsConn
  <2>10. OwnSession'
    <3>1. ASSUME NEW d \in Conns, Attached(d)'
          PROVE  conn'[d].epoch = sess'[conn'[d].sess].epoch
      <4>1. d # c
        BY <2>5, <2>6, <3>1 DEF Attached
      <4>2. Attached(d)
        BY <2>9, <3>1, <4>1 DEF Attached
      <4>3. conn[d].sess \in Sessions /\ conn[d].epoch = sess[conn[d].sess].epoch
        BY <1>k, <1>t, <4>2 DEF OwnSession, Attached
      <4> QED
        BY <2>7, <2>9, <4>1, <4>3 DEF KeepsConn
    <3>2. \A d \in Conns : conn'[d].pc \notin {"free", "closed"} => conn'[d].clean
      BY <1>k, <2>5, <2>6, <2>9 DEF OwnSession, KeepsConn
    <3>3. \A d, g \in Conns : d # g /\ conn'[d].sess # None => conn'[d].sess # conn'[g].sess
      BY <1>k, <2>5, <2>6, <2>9 DEF OwnSession, KeepsConn
    <3>4. \A d \in Conns : conn'[d].pc = "replace" => d = made'.conn
      BY <2>1, <2>2, <2>9 DEF RegistryFree
    <3> QED
      BY <3>1, <3>2, <3>3, <3>4 DEF OwnSession
  <2>11. Owned'
    <3>1. \A d \in Conns : conn[d].pc \in Tending =>
              /\ KeepsConn(d)
              /\ conn'[d].pc \in Tending \/ conn[d].sess = s
              /\ conn[d].pc = "insert" => conn'[d].pc = "insert"
      BY <2>3, <2>9 DEF Tending, Running
    <3> QED
      BY <2>1, <2>7, <3>1, OwnedAbort
  <2> QED
    BY <2>8, <2>10, <2>11 DEF CleanInv
<1> QED
  BY <1>1, <1>2, <1>3

\* SUBSCRIBE and UNSUBSCRIBE: a task that leaves the table is aborted, and
\* one that is not in it yet is held by the connection that spawned it.
LEMMA CleanSubs ==
    ASSUME TypeInv, CleanInv, NEW c \in Conns,
           \/ \E f \in Filters, req \in ReqQoS : Subscribe(c, f, req)
           \/ InsertSub(c)
           \/ \E f \in Filters : Unsubscribe(c, f)
    PROVE  CleanInv'
<1> DEFINE s == conn[c].sess
<1>t. /\ conn \in [Conns -> ConnRecord] /\ disk \in DiskRecord
      /\ sess \in [Sessions -> SessionRecord] /\ task \in [Tasks -> TaskRecord]
      /\ \A d \in Conns : conn[d].pc \notin {"free", "closed", "replace"} => conn[d].sess \in Sessions
      /\ conn[c].pc = "insert" => conn[c].filter \in Filters /\ conn[c].task \in Tasks
      /\ made \in [sess : 0..MaxSessions, conn : 0..MaxConns, task : 0..MaxTasks]
  BY DEF TypeInv, TypeOK, HandlesOK, ConnHandlesOK
<1>k. NothingStored /\ OwnSession /\ Owned
  BY DEF CleanInv
<1>1. s \in Sessions /\ node' = node /\ ~sess[s].durable /\ s # None
      /\ conn[c].pc \in Running /\ made'.conn = made.conn
  <2>1. s \in Sessions /\ node' = node /\ conn[c].pc \in Running /\ made'.conn = made.conn
    BY <1>t DEF Subscribe, InsertSub, Unsubscribe, Running
  <2> QED
    BY <1>k, <2>1 DEF NothingStored, Sessions, None
\* What the three have in common.
<1>2. ASSUME NEW x, x.sess = s, x.epoch = conn[c].epoch, x.clean = conn[c].clean, x.pc \in Running,
             conn' = [conn EXCEPT ![c] = x],
             disk' = disk,
             \A q \in Sessions : sess'[q].epoch = sess[q].epoch /\ sess'[q].durable = sess[q].durable
      PROVE  NothingStored' /\ OwnSession'
  <2>1. conn'[c] = x /\ \A d \in Conns \ {c} : conn'[d] = conn[d]
    BY <1>t, <1>2
  <2>2. \A d \in Conns : /\ conn'[d].sess = conn[d].sess /\ conn'[d].epoch = conn[d].epoch
                         /\ conn'[d].clean = conn[d].clean
                         /\ conn'[d].pc = conn[d].pc \/ (d = c /\ conn'[d].pc \in Running)
    BY <1>2, <2>1
  <2>3. NothingStored'
    BY <1>k, <1>1, <1>2 DEF NothingStored
  <2>4. ASSUME NEW d \in Conns, Attached(d)'
        PROVE  conn'[d].epoch = sess'[conn'[d].sess].epoch
    <3>1. Attached(d)
      BY <1>1, <2>2, <2>4 DEF Attached, Running
    <3>2. conn[d].sess \in Sessions /\ conn[d].epoch = sess[conn[d].sess].epoch
      BY <1>k, <1>t, <3>1 DEF OwnSession, Attached
    <3> QED
      BY <1>2, <2>2, <3>2
  <2>5. \A d \in Conns : conn'[d].pc \notin {"free", "closed"} => conn'[d].clean
    BY <1>k, <1>1, <2>2 DEF OwnSession, Running
  <2>6. \A d \in Conns : conn'[d].pc = "replace" => d = made'.conn
    BY <1>k, <1>1, <2>2 DEF OwnSession, Running
  <2>7. \A d, g \in Conns : d # g /\ conn'[d].sess # None => conn'[d].sess # conn'[g].sess
    BY <1>k, <2>2 DEF OwnSession
  <2> QED
    BY <2>3, <2>4, <2>5, <2>6, <2>7 DEF OwnSession
<1>3. ASSUME NEW d \in Conns, d # c, conn[d].pc \in Tending
      PROVE  conn[d].sess \in Sessions \ {s}
  BY <1>k, <1>t, <1>1, <1>3 DEF OwnSession, Tending, Running
<1>4. ASSUME NEW f \in Filters, NEW req \in ReqQoS, Subscribe(c, f, req)
      PROVE  CleanInv'
  <2> DEFINE t == made.task + 1
             k == [FreeTask EXCEPT !.pc = "recv", !.sess = s, !.filter = f, !.qos = Granted(req)]
             x == [conn[c] EXCEPT !.pc = "insert", !.filter = f, !.task = t]
  <2>1. /\ t \in Tasks /\ task' = [task EXCEPT ![t] = k] /\ conn' = [conn EXCEPT ![c] = x]
        /\ sess' = sess /\ disk' = disk /\ conn[c].pc = "subscribe"
    BY <1>t, <1>4 DEF Subscribe, Spawn
  <2>2. /\ x.pc = "insert" /\ x.sess = s /\ x.epoch = conn[c].epoch /\ x.clean = conn[c].clean
        /\ x.filter = f /\ x.task = t
    BY <1>t DEF ConnRecord
  <2>3. k.sess = s /\ k.filter = f
    BY DEF FreeTask
  <2> HIDE DEF k, x, t
  <2>4. NothingStored' /\ OwnSession'
    <3>1. x.pc \in Running
      BY <2>2 DEF Running
    <3> QED
      BY <1>2, <2>1, <2>2, <3>1
  <2>5. conn'[c] = x /\ \A d \in Conns \ {c} : conn'[d] = conn[d]
    BY <1>t, <2>1
  <2>6. task'[t] = k /\ \A u \in Tasks \ {t} : task'[u] = task[u]
    BY <1>t, <2>1
  <2>7. Owned'
    <3> SUFFICES ASSUME NEW u \in Tasks, Live(u)', ~task'[u].aborted
                 PROVE  \E d \in Conns : Owns(d, u)'
      BY DEF Owned
    <3>1. CASE u = t
      <4>1. conn'[c].pc \in Tending
        BY <2>2, <2>5 DEF Tending, Running
      <4>2. Owns(c, u)'
        BY <2>2, <2>3, <2>5, <2>6, <3>1, <4>1 DEF Owns
      <4> QED
        BY <4>2
    <3>2. CASE u # t
      <4>1. task'[u] = task[u]
        BY <2>6, <3>2
      <4>2. PICK d \in Conns : Owns(d, u)
        BY <1>k, <4>1 DEF Owned, Live
      <4>3. CASE d # c
        <5>1. conn'[d] = conn[d]
          BY <2>5, <4>3
        <5>2. Owns(d, u)'
          BY <2>1, <4>1, <4>2, <5>1 DEF Owns
        <5> QED
          BY <5>2
      <4>4. CASE d = c
        <5>1. conn[c].sess = task[u].sess /\ sess[s].subs[task[u].filter] = u /\ task[u].filter \in Filters
          BY <2>1, <4>2, <4>4 DEF Owns
        <5>2. conn'[c].sess = s /\ conn'[c].pc \in Tending
          BY <2>2, <2>5 DEF Tending, Running
        <5>3. Owns(c, u)'
          BY <2>1, <4>1, <5>1, <5>2 DEF Owns
        <5> QED
          BY <5>3
      <4> QED
        BY <4>3, <4>4
    <3> QED
      BY <3>1, <3>2
  <2> QED
    BY <2>4, <2>7 DEF CleanInv
<1>5. CASE InsertSub(c)
  <2> DEFINE f == conn[c].filter
             t == conn[c].task
             old == sess[s].subs[f]
             r == insert_sub(sess[s], f, t)
             x == [conn[c] EXCEPT !.pc = "subscribe", !.filter = None, !.task = None]
  <2>1. /\ sess' = [sess EXCEPT ![s] = r] /\ task' = Abort(task, {old})
        /\ conn' = [conn EXCEPT ![c] = x] /\ conn[c].pc = "insert"
        /\ f \in Filters /\ t \in Tasks
    BY <1>t, <1>5 DEF InsertSub
  <2>2. /\ x.pc = "subscribe" /\ x.sess = s /\ x.epoch = conn[c].epoch /\ x.clean = conn[c].clean
    BY <1>t DEF ConnRecord
  <2>3. /\ r.epoch = sess[s].epoch /\ r.durable = sess[s].durable
        /\ r.subs = [sess[s].subs EXCEPT ![f] = t]
        /\ sess[s].subs \in [Filters -> Tasks \cup {None}]
    BY <1>t, <1>1 DEF insert_sub, SessionRecord
  <2>4. r.subs[f] = t /\ \A g \in Filters \ {f} : r.subs[g] = sess[s].subs[g]
    BY <2>1, <2>3
  <2>5. sess'[s] = r /\ \A q \in Sessions \ {s} : sess'[q] = sess[q]
    BY <1>t, <1>1, <2>1
  <2>6. disk' = disk
    BY <1>1, <1>5, <2>3, <2>5 DEF InsertSub, persist_subs
  <2> HIDE DEF r, x
  <2>7. NothingStored' /\ OwnSession'
    <3>1. x.pc \in Running
      BY <2>2 DEF Running
    <3>2. \A q \in Sessions : sess'[q].epoch = sess[q].epoch /\ sess'[q].durable = sess[q].durable
      BY <2>3, <2>5
    <3> QED
      BY <1>2, <2>1, <2>2, <2>6, <3>1, <3>2
  <2>8. conn'[c] = x /\ \A d \in Conns \ {c} : conn'[d] = conn[d]
    BY <1>t, <2>1
  <2>9. /\ \A u \in Tasks : KeepsTask(u)
        /\ \A u \in {old} \cap Tasks : task'[u].aborted
    BY <2>1, AbortEffect
  <2>10. Owned'
    <3> SUFFICES ASSUME NEW u \in Tasks, Live(u)', ~task'[u].aborted
                 PROVE  \E d \in Conns : Owns(d, u)'
      BY DEF Owned
    <3>1. /\ Live(u) /\ ~task[u].aborted /\ task'[u].sess = task[u].sess
          /\ task'[u].filter = task[u].filter /\ u # old
      BY <2>9 DEF KeepsTask
    <3>2. PICK d \in Conns : Owns(d, u)
      BY <1>k, <3>1 DEF Owned
    <3>3. CASE d # c
      <4>1. conn'[d] = conn[d] /\ sess'[conn[d].sess] = sess[conn[d].sess]
        BY <1>3, <2>5, <2>8, <3>2, <3>3 DEF Owns
      <4>2. Owns(d, u)'
        BY <3>1, <3>2, <4>1 DEF Owns
      <4> QED
        BY <4>2
    <3>4. CASE d = c
      <4>1. conn'[c].sess = s /\ conn'[c].pc \in Tending
        BY <2>2, <2>8 DEF Tending, Running
      <4>2. task[u].sess = s /\ task[u].filter \in Filters
        BY <3>2, <3>4 DEF Owns
      <4>3. r.subs[task[u].filter] = u
        BY <2>4, <3>1, <3>2, <3>4 DEF Owns
      <4>4. Owns(c, u)'
        BY <2>5, <3>1, <4>1, <4>2, <4>3 DEF Owns
      <4> QED
        BY <4>4
    <3> QED
      BY <3>3, <3>4
  <2> QED
    BY <2>7, <2>10 DEF CleanInv
<1>6. ASSUME NEW f \in Filters, Unsubscribe(c, f)
      PROVE  CleanInv'
  <2> DEFINE old == sess[s].subs[f]
             r == remove_sub(sess[s], f)
  <2>1. /\ sess' = [sess EXCEPT ![s] = r] /\ task' = Abort(task, {old})
        /\ conn' = conn /\ conn[c].pc = "unsubscribe"
    BY <1>t, <1>6 DEF Unsubscribe
  <2>2. /\ r.epoch = sess[s].epoch /\ r.durable = sess[s].durable
        /\ r.subs = [sess[s].subs EXCEPT ![f] = None]
        /\ sess[s].subs \in [Filters -> Tasks \cup {None}]
    BY <1>t, <1>1 DEF remove_sub, SessionRecord
  <2>3. \A g \in Filters \ {f} : r.subs[g] = sess[s].subs[g]
    BY <2>2
  <2>4. sess'[s] = r /\ \A q \in Sessions \ {s} : sess'[q] = sess[q]
    BY <1>t, <1>1, <2>1
  <2>5. disk' = disk
    BY <1>1, <1>6, <2>2, <2>4 DEF Unsubscribe, persist_subs
  <2> HIDE DEF r
  <2>6. NothingStored' /\ OwnSession'
    <3>1. \A q \in Sessions : sess'[q].epoch = sess[q].epoch /\ sess'[q].durable = sess[q].durable
      BY <2>2, <2>4
    <3>2. conn' = [conn EXCEPT ![c] = conn[c]]
      BY <1>t, <2>1
    <3> QED
      BY <1>1, <1>2, <2>5, <3>1, <3>2
  <2>7. /\ \A u \in Tasks : KeepsTask(u)
        /\ \A u \in {old} \cap Tasks : task'[u].aborted
    BY <2>1, AbortEffect
  <2>8. Owned'
    <3> SUFFICES ASSUME NEW u \in Tasks, Live(u)', ~task'[u].aborted
                 PROVE  \E d \in Conns : Owns(d, u)'
      BY DEF Owned
    <3>1. /\ Live(u) /\ ~task[u].aborted /\ task'[u].sess = task[u].sess
          /\ task'[u].filter = task[u].filter /\ u # old
      BY <2>7 DEF KeepsTask
    <3>2. PICK d \in Conns : Owns(d, u)
      BY <1>k, <3>1 DEF Owned
    <3>3. CASE d # c
      <4>1. sess'[conn[d].sess] = sess[conn[d].sess]
        BY <1>3, <2>4, <3>2, <3>3 DEF Owns
      <4>2. Owns(d, u)'
        BY <2>1, <3>1, <3>2, <4>1 DEF Owns
      <4> QED
        BY <4>2
    <3>4. CASE d = c
      <4>1. sess[s].subs[task[u].filter] = u /\ task[u].filter \in Filters
        BY <2>1, <3>2, <3>4 DEF Owns
      <4>2. r.subs[task[u].filter] = u
        BY <2>3, <3>1, <4>1
      <4>3. Owns(c, u)'
        BY <2>1, <2>4, <3>1, <3>2, <3>4, <4>2 DEF Owns
      <4> QED
        BY <4>3
    <3> QED
      BY <3>3, <3>4
  <2> QED
    BY <2>6, <2>8 DEF CleanInv
<1> QED
  BY <1>4, <1>5, <1>6

\* The rest of the sweeper, and the death of the process.  There are no
\* files, so nothing is rehydrated.
LEMMA CleanNode ==
    ASSUME TypeInv, CleanInv, SweepRetain \/ SweepDiscard \/ Crash \/ StartupStep
    PROVE  CleanInv'
<1>t. /\ node \in NodeRecord /\ disk \in DiskRecord
      /\ made \in [sess : 0..MaxSessions, conn : 0..MaxConns, task : 0..MaxTasks]
      /\ sweeper.pc # "idle" => sweeper.sess \in Sessions
  BY DEF TypeInv, TypeOK, HandlesOK, NodeHandlesOK
<1>k. NothingStored
  BY DEF CleanInv
<1>1. ASSUME UNCHANGED <<sess, conn, task>>, made'.conn = made.conn, disk' = disk,
             node'.state # "rehydrate"
      PROVE  CleanInv'
  <2>1. /\ \A q \in Sessions : KeepsSess(q)
        /\ \A u \in Tasks : KeepsTask(u)
        /\ \A d \in Conns : KeepsConn(d) /\ conn'[d] = conn[d] /\ (Attached(d)' => Attached(d))
    BY <1>1 DEF KeepsSess, KeepsTask, KeepsConn, Live, Attached
  <2> QED
    BY <1>1, <2>1, CleanFrame
<1>2. CASE SweepRetain
  BY <1>k, <1>1, <1>2 DEF SweepRetain, NothingStored
<1>3. CASE SweepDiscard
  <2>1. ~sess[sweeper.sess].durable
    BY <1>k, <1>t, <1>3 DEF SweepDiscard, NothingStored
  <2>2. disk' = disk
    BY <1>3, <2>1 DEF SweepDiscard, discard_state_files
  <2> QED
    BY <1>k, <1>1, <1>3, <2>2 DEF SweepDiscard, NothingStored
<1>4. ASSUME NEW acl \in SUBSET Filters, Restart(acl)
      PROVE  CleanInv'
  <2>1. disk.subs = {}
    BY <1>k DEF NothingStored
  <2>2. /\ UNCHANGED <<sess, conn, task, made>> /\ disk' = disk
        /\ node' = [node EXCEPT !.state = "up", !.acl = acl]
    BY <1>4, <2>1 DEF Restart
  <2>3. node'.state = "up"
    BY <1>t, <2>2 DEF NodeRecord
  <2> QED
    BY <1>1, <2>2, <2>3
<1>5. ~(\E f \in Filters, qos \in QoS : Rehydrate(f, qos) \/ RehydrateSkips(f, qos)) /\ ~RehydrateDone
  BY <1>k DEF NothingStored, Rehydrate, RehydrateSkips, RehydrateDone
<1>6. CASE Crash
  <2>1. node'.state = "down" /\ disk' = disk /\ made'.conn = made.conn
    BY <1>t, <1>6 DEF Crash
  <2>2. \A s \in Sessions : ~sess'[s].durable
    BY <1>6 DEF Crash, new
  <2>3. \A t \in Tasks : task'[t].pc = "free"
    BY <1>6 DEF Crash, FreeTask
  <2>4. \A c \in Conns : conn'[c].pc \in {"free", "closed"} /\ conn'[c].sess = None
    BY <1>6 DEF Crash, FreeConn
  <2>5. NothingStored'
    BY <1>k, <2>1, <2>2 DEF NothingStored
  <2>6. OwnSession'
    BY <2>4 DEF OwnSession, Attached
  <2>7. Owned'
    BY <2>3 DEF Owned, Live
  <2> QED
    BY <2>5, <2>6, <2>7 DEF CleanInv
<1> QED
  BY <1>2, <1>3, <1>4, <1>5, <1>6 DEF StartupStep

\* Nothing is there to begin with.
LEMMA CleanInit == Init => CleanInv
<1> SUFFICES ASSUME Init PROVE CleanInv
  OBVIOUS
<1>1. NothingStored
  BY DEF Init, NothingStored, NoFiles, new
<1>2. OwnSession
  BY DEF Init, OwnSession, FreeConn, Attached
<1>3. Owned
  BY DEF Init, Owned, FreeTask, Live
<1> QED
  BY <1>1, <1>2, <1>3 DEF CleanInv

\* CleanInv is inductive when every CONNECT has cleanSession=1.
LEMMA CleanNext ==
    ASSUME CleanOnly, TypeInv, FenceInv, CleanInv, [Next]_vars
    PROVE  CleanInv'
<1>d. /\ ~(FALSE \in CleanFlags)
      /\ \A clean \in CleanFlags : clean = TRUE
  BY DEF CleanOnly
<1>1. ASSUME NEW c \in Conns, ConnStep(c)
      PROVE  CleanInv'
  BY <1>1, CleanLocal, CleanAttach, CleanLeave, CleanArrive, CleanDestroy, CleanSubs DEF ConnStep
<1>2. ASSUME NEW c \in Conns, ClientStep(c)
      PROVE  CleanInv'
  <2>1. ~AttachExisting(c)
    BY <1>d DEF AttachExisting
  <2>2. ASSUME NEW clean \in CleanFlags, AttachNew(c, clean)
        PROVE  CleanInv'
    BY <1>d, <2>2, CleanArrive
  <2> QED
    BY <1>2, <2>1, <2>2, CleanLocal, CleanDestroy DEF ClientStep
<1>3. ASSUME NEW c \in Conns, WriterAborts(c)
      PROVE  CleanInv'
  BY <1>3, CleanLocal
<1>4. CASE UNCHANGED vars
  <2>1. UNCHANGED <<registry, sess, conn, task, disk, node, made>> /\ node.state # "rehydrate"
    BY <1>4 DEF vars, CleanInv, NothingStored
  <2>2. /\ \A q \in Sessions : KeepsSess(q)
        /\ \A u \in Tasks : KeepsTask(u)
        /\ \A d \in Conns : KeepsConn(d) /\ conn'[d] = conn[d] /\ (Attached(d)' => Attached(d))
    BY <2>1 DEF KeepsSess, KeepsTask, KeepsConn, Live, Attached
  <2> QED
    BY <2>1, <2>2, CleanFrame
<1> QED
  BY <1>1, <1>2, <1>3, <1>4, CleanTask, CleanNode, CleanDestroy DEF Next, SweepStep

(***************************************************************************)
(* abort_subs in attach, detach and sweep reach every forwarding task of a *)
(* clean session, whichever connection is half-way through a SUBSCRIBE: a  *)
(* task that nothing has told to stop belongs to a session with a          *)
(* connection that will, for any number of connections and subscriptions.  *)
(***************************************************************************)
THEOREM TasksAreOwned ==
    ASSUME CleanOnly
    PROVE  Spec => []NoOrphanTask
<1>1. Init => TypeInv /\ FenceInv /\ CleanInv
  BY TypeInit, FenceInit, CleanInit
<1>2. (TypeInv /\ FenceInv /\ CleanInv) /\ [Next]_vars => (TypeInv /\ FenceInv /\ CleanInv)'
  BY TypeNext, FenceNext, CleanNext
<1>3. CleanInv => NoOrphanTask
  <2> SUFFICES ASSUME CleanInv, NEW t \in Tasks, Live(t), ~task[t].aborted
               PROVE  \E c \in Conns : Attached(c) /\ conn[c].sess = task[t].sess
    BY DEF NoOrphanTask
  <2>1. PICK c \in Conns : Owns(c, t)
    BY DEF CleanInv, Owned
  <2>2. Attached(c) /\ conn[c].sess = task[t].sess
    BY <2>1 DEF Owns, Tending, Running, Attached
  <2> QED
    BY <2>2
<1> QED
  BY <1>1, <1>2, <1>3, PTL DEF Spec

-----------------------------------------------------------------------------
(***************************************************************************)
(* The registry follows the newest connection.                             *)
(***************************************************************************)
Serving(c) == conn[c].pc \notin {"free", "replace", "unmap", "bye", "closed"}

NewestInv == \A c \in Conns : c = made.conn /\ Serving(c) => registry = conn[c].sess

\* Steps that change neither the registry nor which sessions are served.
LEMMA NewestFrame ==
    ASSUME NewestInv, registry' = registry, made'.conn = made.conn,
           \A d \in Conns : conn'[d].sess = conn[d].sess /\ (Serving(d)' => Serving(d))
    PROVE  NewestInv'
  BY DEF NewestInv

\* Steps of a connection on its session.
LEMMA NewestConn ==
    ASSUME TypeInv, FenceInv, CleanInv, NewestInv, NEW c \in Conns,
           \/ AttachConn(c) \/ DiscardQueueFile(c) \/ DetachConn(c) \/ Purge(c) \/ Unmap(c)
           \/ \E f \in Filters, req \in ReqQoS : Subscribe(c, f, req)
           \/ InsertSub(c)
           \/ \E f \in Filters : Unsubscribe(c, f)
    PROVE  NewestInv'
<1>t. /\ conn \in [Conns -> ConnRecord]
      /\ made \in [sess : 0..MaxSessions, conn : 0..MaxConns, task : 0..MaxTasks]
      /\ \A d \in Conns : conn[d].pc \notin {"free", "closed", "replace"} => conn[d].sess \in Sessions
  BY DEF TypeInv, TypeOK, HandlesOK, ConnHandlesOK
<1>1. ASSUME NEW x, x.sess = conn[c].sess, conn' = [conn EXCEPT ![c] = x]
      PROVE  /\ \A d \in Conns : conn'[d].sess = conn[d].sess
             /\ conn'[c] = x /\ \A d \in Conns \ {c} : conn'[d] = conn[d]
  BY <1>t, <1>1
<1>2. ASSUME NEW pc, conn' = [conn EXCEPT ![c].pc = pc]
      PROVE  /\ \A d \in Conns : conn'[d].sess = conn[d].sess
             /\ conn'[c].pc = pc /\ \A d \in Conns \ {c} : conn'[d] = conn[d]
  <2> DEFINE x == [conn[c] EXCEPT !.pc = pc]
  <2>1. conn' = [conn EXCEPT ![c] = x]
    BY <1>t, <1>2
  <2>2. x.sess = conn[c].sess /\ x.pc = pc
    BY <1>t DEF ConnRecord
  <2> HIDE DEF x
  <2> QED
    BY <1>1, <2>1, <2>2
<1>3. CASE DiscardQueueFile(c) \/ DetachConn(c) \/ Purge(c)
  <2>1. /\ registry' = registry /\ made' = made /\ Serving(c)
        /\ \E pc \in {"connack", "purge", "bye", "unmap"} : conn' = [conn EXCEPT ![c].pc = pc]
    BY <1>3 DEF DiscardQueueFile, DetachConn, Purge, Serving
  <2> QED
    BY <1>2, <2>1, NewestFrame DEF Serving
<1>4. CASE Unmap(c)
  <2>1. /\ registry' = RemoveEntry(conn[c].sess) /\ made' = made
        /\ conn' = [conn EXCEPT ![c].pc = "bye"] /\ conn[c].pc = "unmap"
    BY <1>4 DEF Unmap
  <2>2. /\ \A d \in Conns : conn'[d].sess = conn[d].sess
        /\ conn'[c].pc = "bye" /\ \A d \in Conns \ {c} : conn'[d] = conn[d]
    BY <1>2, <2>1
  <2>3. ASSUME NEW d \in Conns, d = made'.conn, Serving(d)'
        PROVE  registry' = conn'[d].sess
    <3>1. d # c
      BY <2>2, <2>3 DEF Serving
    <3>2. conn'[d] = conn[d] /\ d = made.conn /\ Serving(d)
      BY <2>1, <2>2, <2>3, <3>1 DEF Serving
    <3>3. registry = conn[d].sess /\ conn[d].sess \in Sessions
      BY <1>t, <3>2 DEF NewestInv, Serving
    <3>4. conn[d].sess # conn[c].sess
      BY <3>1, <3>3 DEF CleanInv, OwnSession, Sessions, None
    <3> QED
      BY <2>1, <3>2, <3>3, <3>4 DEF RemoveEntry
  <2> QED
    BY <2>3 DEF NewestInv
<1>5. CASE AttachConn(c)
  <2> DEFINE k == sess[conn[c].sess].kick
             w == notify_waiters(conn, k)
             e == sess'[conn[c].sess].epoch
             b == sess[conn[c].sess].queue
             x == [w[c] EXCEPT !.pc = "discard", !.epoch = e, !.backlog = b]
  <2>1. /\ registry' = registry /\ made' = made /\ conn[c].pc = "attach"
        /\ conn' = [w EXCEPT ![c].pc = "discard", ![c].epoch = e, ![c].backlog = b]
    BY <1>5 DEF AttachConn
  <2>2. w \in [Conns -> ConnRecord] /\ \A d \in Conns : w[d].pc = conn[d].pc /\ w[d].sess = conn[d].sess
    <3> HIDE DEF k
    <3> QED
      BY <1>t, NotifyType
  <2> HIDE DEF k, w, e, b
  <2>3. conn'[c] = x /\ \A d \in Conns \ {c} : conn'[d] = w[d]
    BY <2>1, <2>2
  <2>4. x.sess = w[c].sess
    BY <2>2 DEF ConnRecord
  <2> HIDE DEF x
  <2>5. \A d \in Conns : conn'[d].sess = conn[d].sess /\ (Serving(d)' => Serving(d))
    <3>1. Serving(c)
      BY <2>1 DEF Serving
    <3>2. \A d \in Conns \ {c} : conn'[d].pc = conn[d].pc
      BY <2>2, <2>3
    <3> QED
      BY <2>2, <2>3, <2>4, <3>1, <3>2 DEF Serving
  <2> QED
    BY <2>1, <2>5, NewestFrame
<1>6. ASSUME NEW f \in Filters, NEW req \in ReqQoS, Subscribe(c, f, req)
      PROVE  NewestInv'
  <2> DEFINE t == made.task + 1
             x == [conn[c] EXCEPT !.pc = "insert", !.filter = f, !.task = t]
  <2>1. /\ registry' = registry /\ made'.conn = made.conn /\ Serving(c)
        /\ conn' = [conn EXCEPT ![c] = x]
    BY <1>t, <1>6 DEF Subscribe, Serving
  <2>2. x.sess = conn[c].sess
    BY <1>t DEF ConnRecord
  <2> HIDE DEF x
  <2> QED
    BY <1>1, <2>1, <2>2, NewestFrame DEF Serving
<1>7. CASE InsertSub(c)
  <2> DEFINE x == [conn[c] EXCEPT !.pc = "subscribe", !.filter = None, !.task = None]
  <2>1. /\ registry' = registry /\ made'.conn = made.conn /\ Serving(c)
        /\ conn' = [conn EXCEPT ![c] = x]
    BY <1>t, <1>7 DEF InsertSub, Serving
  <2>2. x.sess = conn[c].sess
    BY <1>t DEF ConnRecord
  <2> HIDE DEF x
  <2> QED
    BY <1>1, <2>1, <2>2, NewestFrame DEF Serving
<1>8. ASSUME NEW f \in Filters, Unsubscribe(c, f)
      PROVE  NewestInv'
  BY <1>8, NewestFrame DEF Unsubscribe, Serving
<1> QED
  BY <1>3, <1>4, <1>5, <1>6, <1>7, <1>8

\* Arriving: the newest connection registers the session it made.
LEMMA NewestArrive ==
    ASSUME TypeInv, FenceInv, CleanInv, NewestInv, NEW c \in Conns,
           AttachNew(c, TRUE) \/ ReplaceSession(c) \/ DiscardExisting(c)
    PROVE  NewestInv'
<1>t. /\ conn \in [Conns -> ConnRecord]
      /\ made \in [sess : 0..MaxSessions, conn : 0..MaxConns, task : 0..MaxTasks]
  BY DEF TypeInv, TypeOK
<1> DEFINE n == made.sess + 1
<1>1. ASSUME made'.conn = c, NEW x, conn'[c] = x, x.pc = "replace" \/ registry' = x.sess
      PROVE  NewestInv'
  BY <1>1 DEF NewestInv, Serving
<1>2. CASE AttachNew(c, TRUE)
  <2> DEFINE present == NoFiles # NoFiles
             r == [FreeConn EXCEPT !.pc = "attach", !.clean = TRUE, !.sess = n,
                                   !.present = present, !.writer = "up"]
  <2>1. /\ conn' = [conn EXCEPT ![c] = r] /\ registry' = n
        /\ made' = [made EXCEPT !.conn = c, !.sess = n]
    BY <1>2, Zenon DEF AttachNew, Attaching
  <2> HIDE DEF present
  <2>2. r.sess = n
    BY DEF FreeConn
  <2> HIDE DEF r
  <2>3. conn'[c] = r /\ made'.conn = c
    BY <1>t, <2>1
  <2> QED
    BY <1>1, <2>1, <2>2, <2>3
<1>3. CASE ReplaceSession(c)
  <2> DEFINE r == [conn[c] EXCEPT !.pc = "attach", !.sess = n]
  <2>1. /\ conn' = [conn EXCEPT ![c] = r] /\ conn[c].pc = "replace" /\ registry' = n
        /\ made' = [made EXCEPT !.sess = n]
    BY <1>t, <1>3 DEF ReplaceSession
  <2>2. r.sess = n
    BY <1>t DEF ConnRecord
  <2>3. made.conn = c
    BY <2>1 DEF CleanInv, OwnSession
  <2> HIDE DEF r
  <2>4. conn'[c] = r /\ made'.conn = c
    BY <1>t, <2>1, <2>3
  <2> QED
    BY <1>1, <2>1, <2>2, <2>4
<1>4. CASE DiscardExisting(c)
  <2> DEFINE k == sess[registry].kick
             w == notify_waiters(conn, k)
             r == [FreeConn EXCEPT !.pc = "replace", !.clean = TRUE, !.writer = "up"]
  <2>1. conn' = [w EXCEPT ![c] = r] /\ made' = [made EXCEPT !.conn = c]
    BY <1>4 DEF DiscardExisting
  <2>2. r.pc = "replace"
    BY DEF FreeConn
  <2>3. w \in [Conns -> ConnRecord]
    <3> HIDE DEF k
    <3> QED
      BY <1>t, NotifyType
  <2> HIDE DEF w, r
  <2>4. conn'[c] = r /\ made'.conn = c
    BY <1>t, <2>1, <2>3
  <2> QED
    BY <1>1, <2>2, <2>4
<1> QED
  BY <1>2, <1>3, <1>4

\* NewestInv is inductive as long as nothing expires.
LEMMA NewestNext ==
    ASSUME CleanOnly, ~Expiry, TypeInv, FenceInv, CleanInv, NewestInv, [Next]_vars
    PROVE  NewestInv'
<1>d. /\ ~(FALSE \in CleanFlags)
      /\ \A clean \in CleanFlags : clean = TRUE
  BY DEF CleanOnly
<1>t. made \in [sess : 0..MaxSessions, conn : 0..MaxConns, task : 0..MaxTasks]
  BY DEF TypeInv, TypeOK
<1>1. ASSUME NEW c \in Conns,
             \/ SendConnAck(c) \/ ConnectEvent(c) \/ DrainBacklog(c) \/ EnterRun(c)
             \/ ServeFails(c) \/ DisconnectEvent(c)
             \/ Reply(c) \/ Handled(c) \/ Disconnect(c) \/ RunFails(c) \/ Kicked(c)
             \/ \E handler \in Requests : ReadPacket(c, handler)
             \/ Write(c) \/ WriteFails(c) \/ WriterAborts(c)
      PROVE  NewestInv'
  <2>1. /\ UNCHANGED <<registry, sess, task, disk, node, sweeper, made>>
        /\ \A d \in Conns : KeepsConn(d) /\ Moves(conn[d].pc, conn'[d].pc)
    BY <1>1, LocalEffect
  <2>2. \A d \in Conns : conn'[d].sess = conn[d].sess /\ (Serving(d)' => Serving(d))
    BY <2>1 DEF KeepsConn, Moves, Serving, Running, Greeting
  <2> QED
    BY <2>1, <2>2, NewestFrame
<1>2. ASSUME NEW c \in Conns, ConnStep(c)
      PROVE  NewestInv'
  BY <1>1, <1>2, NewestConn, NewestArrive DEF ConnStep
<1>3. ASSUME NEW c \in Conns, ClientStep(c)
      PROVE  NewestInv'
  <2>1. ~AttachExisting(c)
    BY <1>d DEF AttachExisting
  <2>2. ASSUME NEW clean \in CleanFlags, AttachNew(c, clean)
        PROVE  NewestInv'
    BY <1>d, <2>2, NewestArrive
  <2> QED
    BY <1>1, <1>3, <2>1, <2>2, NewestArrive DEF ClientStep
<1>4. ASSUME NEW t \in Tasks, TaskStep(t)
      PROVE  NewestInv'
  <2>1. UNCHANGED <<registry, made>> /\ \A d \in Conns : KeepsConn(d) /\ conn'[d].pc = conn[d].pc
    BY <1>4, TaskEffect
  <2>2. \A d \in Conns : conn'[d].sess = conn[d].sess /\ (Serving(d)' => Serving(d))
    BY <2>1 DEF KeepsConn, Serving
  <2> QED
    BY <2>1, <2>2, NewestFrame
<1>5. ASSUME UNCHANGED <<registry, conn>>, made'.conn = made.conn
      PROVE  NewestInv'
  BY <1>5 DEF NewestInv, Serving
<1>6. ASSUME NEW class \in TopicClasses, Publish(class)
      PROVE  NewestInv'
  BY <1>5, <1>6 DEF Publish
<1>7. ASSUME SweepStep
      PROVE  NewestInv'
  BY <1>5, <1>7 DEF SweepStep, SweepRetain, SweepAbort, SweepDiscard
<1>8. ASSUME NEW acl \in SUBSET Filters, Restart(acl)
      PROVE  NewestInv'
  <2>1. disk.subs = {}
    BY DEF CleanInv, NothingStored
  <2> QED
    BY <1>5, <1>8, <2>1 DEF Restart
<1>9. ~(\E f \in Filters, qos \in QoS : Rehydrate(f, qos) \/ RehydrateSkips(f, qos)) /\ ~RehydrateDone
  BY DEF CleanInv, NothingStored, Rehydrate, RehydrateSkips, RehydrateDone
<1>10. ASSUME Crash
       PROVE  NewestInv'
  <2>1. \A c \in Conns : conn'[c].pc \in {"free", "closed"}
    BY <1>10 DEF Crash, FreeConn
  <2> QED
    BY <2>1 DEF NewestInv, Serving
<1>11. ASSUME UNCHANGED vars
       PROVE  NewestInv'
  BY <1>5, <1>11 DEF vars
<1> QED
  BY <1>1, <1>2, <1>3, <1>4, <1>6, <1>7, <1>8, <1>9, <1>10, <1>11 DEF Next, StartupStep

(***************************************************************************)
(* detach removes only its own registration, and attach replaces the       *)
(* registered session under the registry's mutex: however many older       *)
(* connections of a cleanSession=1 client are still shutting down, the     *)
(* newest one runs on the registered session until it destroys it itself.  *)
(* The sweeper is off: it may unregister a session that a slow-consumer    *)
(* eviction has taken offline while its connection is still ending.        *)
(***************************************************************************)
THEOREM NewestCorrect ==
    ASSUME CleanOnly, ~Expiry
    PROVE  Spec => []NewestIsRegistered
<1>1. Init => TypeInv /\ FenceInv /\ CleanInv /\ NewestInv
  <2>1. Init => NewestInv
    BY DEF Init, NewestInv, Serving, FreeConn
  <2> QED
    BY <2>1, TypeInit, FenceInit, CleanInit
<1>2. (TypeInv /\ FenceInv /\ CleanInv /\ NewestInv) /\ [Next]_vars
      => (TypeInv /\ FenceInv /\ CleanInv /\ NewestInv)'
  BY TypeNext, FenceNext, CleanNext, NewestNext
<1>3. NewestInv => NewestIsRegistered
  BY DEF NewestInv, NewestIsRegistered, Attached, Serving
<1> QED
  BY <1>1, <1>2, <1>3, PTL DEF Spec

-----------------------------------------------------------------------------
(***************************************************************************)
(* Publication order, with one subscription.  From the queue over what     *)
(* deliver has in its hands to what waits for it, messages get newer.      *)
(* Messages are numbered as they are published; p is the newest.           *)
(***************************************************************************)
Below(q, m) == \A i \in 1..Len(q) : q[i] < m

QueueLine(q, p) == Ordered(q) /\ Below(q, p + 1)

TaskLine(k, p) ==
    /\ QueueLine(k.inbox, p)
    /\ k.msg <= p
    /\ \A i \in 1..Len(k.inbox) : k.msg < k.inbox[i]

Behind(q, k) ==
    /\ k.msg # None => Below(q, k.msg)
    /\ \A i \in 1..Len(k.inbox) : Below(q, k.inbox[i])

QueueLines == QueueLine(disk.queue, pubs) /\ \A s \in Sessions : QueueLine(sess[s].queue, pubs)

TaskLines ==
    \A t \in Tasks :
        /\ TaskLine(task[t], pubs)
        /\ task[t].sess <= made.sess
        /\ task[t].sess # None => Behind(sess[task[t].sess].queue, task[t])

OrderInv == QueueLines /\ TaskLines

\* A task that gives up what it holds, or some of it.
Sheds(k, r) ==
    /\ r.sess = k.sess
    /\ r.inbox \in {k.inbox, << >>}
    /\ r.msg \in {k.msg, None}

\* An empty queue is in line with anything.
LEMMA EmptyLine ==
    ASSUME NEW p \in Nat, NEW k
    PROVE  QueueLine(<< >>, p) /\ Behind(<< >>, k)
  BY DEF QueueLine, Ordered, Below, Behind

\* What is left is still in line.
LEMMA ShedLine ==
    ASSUME NEW k \in TaskRecord, NEW r, NEW p \in Nat, NEW q, Sheds(k, r), TaskLine(k, p)
    PROVE  /\ TaskLine(r, p)
           /\ Behind(q, k) => Behind(q, r)
<1>1. k.inbox \in Seq(Msgs) /\ \A i \in 1..Len(k.inbox) : k.inbox[i] \in Msgs
  BY DEF TaskRecord
<1>2. TaskLine(r, p)
  <2>1. CASE r.inbox = k.inbox
    BY <1>1, <2>1 DEF Sheds, TaskLine, None, Msgs
  <2>2. CASE r.inbox = << >>
    BY <2>2, EmptyLine DEF Sheds, TaskLine, None
  <2> QED
    BY <2>1, <2>2 DEF Sheds
<1>3. Behind(q, k) => Behind(q, r)
  <2>1. CASE r.inbox = k.inbox
    BY <2>1 DEF Sheds, Behind
  <2>2. CASE r.inbox = << >>
    BY <2>2 DEF Sheds, Behind
  <2> QED
    BY <2>1, <2>2 DEF Sheds
<1> QED
  BY <1>2, <1>3

\* Steps that publish nothing, add nothing to a queue and give no task
\* anything.
LEMMA OrderFrame ==
    ASSUME TypeInv, OrderInv, pubs' = pubs, made'.sess \in Nat,
           disk'.queue \in {disk.queue, << >>},
           \A s \in Sessions : sess'[s].queue \in {sess[s].queue, << >>},
           \A t \in Tasks :
              \/ Sheds(task[t], task'[t]) /\ made.sess <= made'.sess
              \/ task'[t].sess = None /\ task'[t].inbox = << >> /\ task'[t].msg = None
    PROVE  OrderInv'
<1>t. /\ pubs \in Nat /\ task \in [Tasks -> TaskRecord] /\ made.sess \in Nat
      /\ \A t \in Tasks : task[t].sess \in Sessions \cup {None}
  BY ConstantsAssumption DEF TypeInv, TypeOK, TaskRecord
<1>e. QueueLine(<< >>, pubs) /\ \A k : Behind(<< >>, k)
  BY <1>t, EmptyLine
<1>1. QueueLines'
  <2>1. QueueLine(disk'.queue, pubs)
    BY <1>e DEF OrderInv, QueueLines
  <2>2. \A s \in Sessions : QueueLine(sess'[s].queue, pubs)
    BY <1>e DEF OrderInv, QueueLines
  <2> QED
    BY <2>1, <2>2 DEF QueueLines
<1>2. TaskLines'
  <2> SUFFICES ASSUME NEW t \in Tasks
               PROVE  /\ TaskLine(task'[t], pubs)
                      /\ task'[t].sess <= made'.sess
                      /\ task'[t].sess # None => Behind(sess'[task'[t].sess].queue, task'[t])
    BY DEF TaskLines
  <2>1. CASE Sheds(task[t], task'[t]) /\ made.sess <= made'.sess
    <3>1. TaskLine(task[t], pubs) /\ task[t].sess <= made.sess /\ task'[t].sess = task[t].sess
      BY <2>1 DEF OrderInv, TaskLines, Sheds
    <3>2. TaskLine(task'[t], pubs)
      BY <1>t, <2>1, <3>1, ShedLine
    <3>3. task'[t].sess <= made'.sess
      BY <1>t, <2>1, <3>1 DEF Sessions, None
    <3>4. ASSUME task[t].sess # None PROVE Behind(sess'[task[t].sess].queue, task'[t])
      <4>1. task[t].sess \in Sessions
        BY <1>t, <3>4
      <4> DEFINE q == sess[task[t].sess].queue
                 k == task[t]
                 r == task'[t]
      <4>2. Behind(q, k)
        BY <3>4 DEF OrderInv, TaskLines
      <4>3. Behind(q, r)
        <5>1. k \in TaskRecord /\ Sheds(k, r) /\ TaskLine(k, pubs)
          BY <1>t, <2>1, <3>1
        <5> HIDE DEF q, k, r
        <5> QED
          BY <1>t, <4>2, <5>1, ShedLine
      <4>4. sess'[task[t].sess].queue \in {q, << >>}
        BY <4>1
      <4>5. Behind(<< >>, task'[t])
        BY <1>e
      <4> QED
        BY <4>3, <4>4, <4>5
    <3> QED
      BY <3>1, <3>2, <3>3, <3>4
  <2>2. CASE task'[t].sess = None /\ task'[t].inbox = << >> /\ task'[t].msg = None
    BY <1>t, <1>e, <2>2 DEF TaskLine, None
  <2> QED
    BY <2>1, <2>2
<1> QED
  BY <1>1, <1>2 DEF OrderInv

\* An abort, and the end of a delivery.
LEMMA AbortSheds ==
    ASSUME NEW k \in TaskRecord
    PROVE  Sheds(k, k) /\ Sheds(k, Dead(k)) /\ Sheds(k, CancelTask(k)) /\ Sheds(k, Return(k))
<1>1. Sheds(k, Dead(k)) /\ Sheds(k, k)
  BY DEF Sheds, Dead, TaskRecord
<1>2. Sheds(k, CancelTask(k))
  BY <1>1 DEF Sheds, CancelTask, TaskRecord
<1>3. Sheds(k, Return(k))
  BY <1>1 DEF Sheds, Return, TaskRecord
<1> QED
  BY <1>1, <1>2, <1>3

\* A session is made, and its queue loaded from the file.
LEMMA OrderFresh ==
    ASSUME TypeInv, OrderInv, NEW n \in Sessions, n > made.sess, made'.sess = n, pubs' = pubs,
           task' = task, disk'.queue \in {disk.queue, << >>},
           NEW r, sess' = [sess EXCEPT ![n] = r],
           r.queue \in {load_queue(disk.queue), << >>}
    PROVE  OrderInv'
<1>t. /\ pubs \in Nat /\ task \in [Tasks -> TaskRecord] /\ made.sess \in Nat
      /\ sess \in [Sessions -> SessionRecord] /\ disk.queue \in Seq(Msgs)
      /\ \A t \in Tasks : task[t].sess \in Sessions \cup {None}
  BY ConstantsAssumption DEF TypeInv, TypeOK, TaskRecord, DiskRecord
<1>e. QueueLine(<< >>, pubs)
  BY <1>t, EmptyLine
<1>d. QueueLine(disk.queue, pubs)
  BY DEF OrderInv, QueueLines
<1>1. QueueLine(load_queue(disk.queue), pubs)
  <2> DEFINE q == disk.queue
             a == Len(q) - MaxQueue
  <2>1. CASE Len(q) <= MaxQueue
    BY <1>d, <2>1 DEF load_queue
  <2>2. CASE ~(Len(q) <= MaxQueue)
    <3>1. /\ load_queue(q) = SubSeq(q, a + 1, Len(q))
          /\ a \in Nat /\ a <= Len(q) /\ Len(q) \in Nat /\ MaxQueue \in Nat
      BY <1>t, <2>2, ConstantsAssumption DEF load_queue
    <3>2. /\ Len(SubSeq(q, a + 1, Len(q))) = Len(q) - a
          /\ \A i \in 1..(Len(q) - a) : SubSeq(q, a + 1, Len(q))[i] = q[a + i]
      BY <1>t, <3>1
    <3> DEFINE z == SubSeq(q, a + 1, Len(q))
    <3>3. \A i \in 1..Len(z) : a + i \in 1..Len(q) /\ z[i] = q[a + i]
      BY <3>1, <3>2
    <3>7. Len(z) \in Nat /\ Len(z) <= Len(q)
      BY <3>1, <3>2
    <3> HIDE DEF z, a
    <3>4. ASSUME NEW i \in 1..Len(z), NEW j \in 1..Len(z), i < j PROVE z[i] < z[j]
      <4>1. a + i < a + j
        BY <3>1, <3>4, <3>7
      <4> QED
        BY <1>d, <3>3, <4>1 DEF QueueLine, Ordered
    <3>5. \A i \in 1..Len(z) : z[i] < pubs + 1
      BY <1>d, <3>3 DEF QueueLine, Below
    <3>6. QueueLine(z, pubs)
      BY <3>4, <3>5 DEF QueueLine, Ordered, Below
    <3> QED
      BY <3>1, <3>6 DEF z, a
  <2> QED
    BY <2>1, <2>2
<1>2. QueueLine(r.queue, pubs) /\ QueueLine(disk'.queue, pubs)
  BY <1>e, <1>d, <1>1
<1>3. sess'[n] = r /\ \A s \in Sessions \ {n} : sess'[s] = sess[s]
  BY <1>t
<1>4. QueueLines'
  BY <1>2, <1>3 DEF OrderInv, QueueLines
<1>5. TaskLines'
  <2> SUFFICES ASSUME NEW t \in Tasks
               PROVE  /\ TaskLine(task'[t], pubs)
                      /\ task'[t].sess <= made'.sess
                      /\ task'[t].sess # None => Behind(sess'[task'[t].sess].queue, task'[t])
    BY DEF TaskLines
  <2>1. TaskLine(task[t], pubs) /\ task[t].sess <= made.sess
    BY DEF OrderInv, TaskLines
  <2>2. task[t].sess <= n /\ task[t].sess # n
    BY <1>t, <2>1 DEF Sessions, None
  <2>3. task[t].sess # None => Behind(sess'[task[t].sess].queue, task[t])
    BY <1>t, <1>3, <2>2 DEF OrderInv, TaskLines
  <2> QED
    BY <2>1, <2>2, <2>3
<1> QED
  BY <1>4, <1>5 DEF OrderInv

\* One task's record is replaced.
LEMMA OrderRecord ==
    ASSUME TypeInv, OrderInv, NEW t \in Tasks, NEW r, task' = [task EXCEPT ![t] = r],
           Sheds(task[t], r), pubs' = pubs, made' = made, disk' = disk,
           \A s \in Sessions : sess'[s].queue = sess[s].queue
    PROVE  OrderInv'
<1>t. task \in [Tasks -> TaskRecord] /\ made.sess \in Nat
  BY DEF TypeInv, TypeOK
<1>1. \A u \in Tasks : task'[u] = (IF u = t THEN r ELSE task[u]) /\ Sheds(task[u], task[u])
  BY <1>t, AbortSheds
<1>2. \A u \in Tasks : Sheds(task[u], task'[u])
  BY <1>1
<1> QED
  BY <1>t, <1>2, OrderFrame

\* deliver.  The message of a failed send goes to the end of the queue, and
\* with one subscription nothing newer is in the queue by then.
LEMMA OrderTask ==
    ASSUME MaxTasks = 1, TypeInv, OrderInv, NEW t \in Tasks, TaskStep(t)
    PROVE  OrderInv'
<1> DEFINE k == task[t]
           s == k.sess
<1>t. /\ task \in [Tasks -> TaskRecord] /\ sess \in [Sessions -> SessionRecord]
      /\ disk \in DiskRecord /\ k \in TaskRecord /\ made.sess \in Nat /\ pubs \in Nat
      /\ k.pc \notin {"free", "dead"} => s \in Sessions
      /\ k.pc = "offline" => k.msg \in Msgs /\ MaxQueue # 0
  BY ConstantsAssumption DEF TypeInv, TypeOK, HandlesOK, TaskHandlesOK
<1>m. \A x \in Msgs : x \in Nat
  BY DEF Msgs
<1>k. /\ TaskLine(k, pubs) /\ s <= made.sess
      /\ s # None => Behind(sess[s].queue, k)
  BY DEF OrderInv, TaskLines
<1>1. CASE Receive(t)
  <2> DEFINE q == k.inbox
             r == [k EXCEPT !.pc = "look", !.msg = Head(q), !.inbox = Tail(q)]
  <2>1. /\ task' = [task EXCEPT ![t] = r] /\ q # << >> /\ k.pc = "recv"
        /\ UNCHANGED <<sess, disk, made, pubs>>
    BY <1>1 DEF Receive
  <2>2. r.sess = s /\ r.msg = Head(q) /\ r.inbox = Tail(q)
    BY <1>t DEF TaskRecord
  <2>3. /\ q \in Seq(Msgs) /\ Len(q) \in Nat \ {0} /\ Head(q) = q[1] /\ Len(Tail(q)) = Len(q) - 1
        /\ \A i \in 1..(Len(q) - 1) : Tail(q)[i] = q[i + 1]
    BY <1>t, <2>1 DEF TaskRecord
  <2>4. \A i \in 1..Len(q) : q[i] \in Msgs /\ q[i] \in Nat /\ q[i] < pubs + 1
    <3>1. \A i \in 1..Len(q) : q[i] \in Msgs
      BY <2>3
    <3>2. \A i \in 1..Len(q) : q[i] < pubs + 1
      BY <1>k DEF TaskLine, QueueLine, Below
    <3> QED
      BY <1>m, <3>1, <3>2
  <2>5. \A i, j \in 1..Len(q) : i < j => q[i] < q[j]
    BY <1>k DEF TaskLine, QueueLine, Ordered
  <2> DEFINE g == Tail(q)
             h == Head(q)
  <2>6. /\ Len(g) = Len(q) - 1 /\ h = q[1] /\ 1 \in 1..Len(q)
        /\ \A i \in 1..Len(g) : i + 1 \in 1..Len(q) /\ g[i] = q[i + 1]
    BY <2>3
  <2> HIDE DEF g, h
  <2>7. TaskLine(r, pubs)
    <3>1. ASSUME NEW i \in 1..Len(g), NEW j \in 1..Len(g), i < j PROVE g[i] < g[j]
      <4>1. g[i] = q[i + 1] /\ g[j] = q[j + 1] /\ i + 1 < j + 1
        BY <2>6, <3>1
      <4>2. i + 1 \in 1..Len(q) /\ j + 1 \in 1..Len(q)
        BY <2>6
      <4> QED
        BY <2>5, <4>1, <4>2
    <3>a. Ordered(g)
      BY <3>1 DEF Ordered
    <3>2. Below(g, pubs + 1)
      BY <2>4, <2>6 DEF Below
    <3>3. h <= pubs /\ \A i \in 1..Len(g) : h < g[i]
      BY <1>t, <2>3, <2>4, <2>5, <2>6
    <3> QED
      BY <2>2, <3>a, <3>2, <3>3 DEF TaskLine, QueueLine, g, h
  <2>8. Behind(sess[s].queue, r)
    <3>1. Behind(sess[s].queue, k)
      BY <1>k, <1>t, <2>1 DEF Sessions, None
    <3>2. Below(sess[s].queue, h) /\ \A i \in 1..Len(g) : Below(sess[s].queue, g[i])
      BY <2>6, <3>1 DEF Behind
    <3> QED
      BY <2>2, <3>2 DEF Behind, g, h
  <2> HIDE DEF r
  <2>9. \A u \in Tasks : task'[u] = IF u = t THEN r ELSE task[u]
    BY <1>t, <2>1
  <2>10. QueueLines'
    BY <2>1 DEF OrderInv, QueueLines
  <2>11. TaskLines'
    BY <1>k, <2>1, <2>2, <2>7, <2>8, <2>9 DEF OrderInv, TaskLines
  <2> QED
    BY <2>10, <2>11 DEF OrderInv
<1>2. ASSUME NEW r, Sheds(k, r), task' = [task EXCEPT ![t] = r],
             UNCHANGED <<sess, disk, made, pubs>>
      PROVE  OrderInv'
  BY <1>2, OrderRecord
<1>3. ASSUME NEW pc PROVE Sheds(k, [k EXCEPT !.pc = pc])
  BY <1>t DEF Sheds, TaskRecord
<1>4. CASE ReadSink(t)
  <2> DEFINE sink == sess[s].sink
             r == CASE sink # None -> [k EXCEPT !.pc = "send", !.tx = sink]
                    [] sink = None /\ Queues(k) -> [k EXCEPT !.pc = "offline"]
                    [] sink = None /\ ~Queues(k) -> Return(k)
  <2>1. task' = [task EXCEPT ![t] = r] /\ UNCHANGED <<sess, disk, made, pubs>>
    BY <1>4 DEF ReadSink
  <2>2. Sheds(k, [k EXCEPT !.pc = "send", !.tx = sink])
    <3> HIDE DEF sink
    <3> QED
      BY <1>t DEF Sheds, TaskRecord
  <2>3. Sheds(k, r)
    <3>1. r \in {[k EXCEPT !.pc = "send", !.tx = sink], [k EXCEPT !.pc = "offline"], Return(k)}
      <4> HIDE DEF sink, k
      <4> QED
        OBVIOUS
    <3> HIDE DEF r
    <3> QED
      BY <1>t, <1>3, <2>2, <3>1, AbortSheds
  <2> HIDE DEF r
  <2> QED
    BY <1>2, <2>1, <2>3
<1>5. CASE SendLive(t)
  <2>1. task' = [task EXCEPT ![t] = Return(k)] /\ UNCHANGED <<sess, disk, made, pubs>>
    BY <1>5 DEF SendLive
  <2> QED
    BY <1>t, <1>2, <2>1, AbortSheds
<1>6. CASE SendWaits(t)
  <2> DEFINE r == IF k.aborted THEN Dead(k) ELSE [k EXCEPT !.pc = "blocked"]
  <2>1. task' = [task EXCEPT ![t] = r] /\ UNCHANGED <<sess, disk, made, pubs>>
    BY <1>6 DEF SendWaits
  <2>2. Sheds(k, r)
    BY <1>t, <1>3, AbortSheds
  <2> HIDE DEF r
  <2> QED
    BY <1>2, <2>1, <2>2
<1>7. CASE SendClosed(t) \/ SendTimesOut(t)
  <2>1. PICK pc : task' = [task EXCEPT ![t] = [k EXCEPT !.pc = pc]] /\ UNCHANGED <<sess, disk, made, pubs>>
    BY <1>7 DEF SendClosed, SendTimesOut
  <2> DEFINE r == [k EXCEPT !.pc = pc]
  <2>2. Sheds(k, r) /\ task' = [task EXCEPT ![t] = r]
    BY <1>3, <2>1
  <2> HIDE DEF r
  <2> QED
    BY <1>2, <2>1, <2>2
<1>8. CASE EvictSlow(t) \/ ClearSink(t)
  <2> DEFINE x == take_offline(sess[s], k.tx)
  <2>1. /\ sess' = [sess EXCEPT ![s] = x] /\ s \in Sessions
        /\ UNCHANGED <<disk, made, pubs>>
        /\ \/ task' = [task EXCEPT ![t] = [k EXCEPT !.pc = "failed"]]
           \/ task' = [task EXCEPT ![t] = Retry(k)]
    BY <1>t, <1>8 DEF EvictSlow, ClearSink
  <2>2. x.queue = sess[s].queue
    BY <1>t, <2>1, OfflineKeeps
  <2> HIDE DEF x
  <2>3. \A q \in Sessions : sess'[q].queue = sess[q].queue
    BY <1>t, <2>1, <2>2
  <2>4. Sheds(k, Retry(k)) /\ Sheds(k, [k EXCEPT !.pc = "failed"])
    BY <1>t, <1>3 DEF Retry, Sheds, TaskRecord
  <2>5. PICK r : task' = [task EXCEPT ![t] = r] /\ Sheds(k, r)
    BY <2>1, <2>4
  <2> QED
    BY <2>1, <2>3, <2>5, OrderRecord
<1>9. CASE TaskAborts(t)
  <2>1. task' = [task EXCEPT ![t] = Dead(k)] /\ UNCHANGED <<sess, disk, made, pubs>>
    BY <1>9 DEF TaskAborts
  <2> QED
    BY <1>t, <1>2, <2>1, AbortSheds
<1>10. CASE Enqueue(t)
  <2>0. k.pc = "offline" /\ s \in Sessions /\ k.msg \in Msgs /\ MaxQueue # 0 /\ made' = made /\ pubs' = pubs
    BY <1>t, <1>10 DEF Enqueue
  <2>1. CASE ~StillOffline(sess[s])
    <3>1. task' = [task EXCEPT ![t] = [k EXCEPT !.pc = "look"]] /\ UNCHANGED <<sess, disk>>
      BY <1>10, <2>1 DEF Enqueue
    <3> DEFINE r == [k EXCEPT !.pc = "look"]
    <3>2. Sheds(k, r) /\ task' = [task EXCEPT ![t] = r]
      BY <1>3, <3>1
    <3> HIDE DEF r
    <3> QED
      BY <1>2, <2>0, <3>1, <3>2
  <2>2. CASE StillOffline(sess[s])
    <3> DEFINE x == push_queue(sess[s], k.msg)
               r == Return(k)
               m == k.msg
    <3>1. /\ sess' = [sess EXCEPT ![s] = x] /\ task' = [task EXCEPT ![t] = r]
          /\ disk' = persist_queue(disk, sess'[s])
      BY <1>10, <2>2 DEF Enqueue
    <3>2. sess[s].queue \in Seq(Msgs) /\ m \in Nat /\ m # None /\ m <= pubs
      BY <1>t, <1>k, <2>0 DEF SessionRecord, TaskLine, Msgs, None
    <3>3. PICK g : /\ g \in Seq(Msgs) /\ x.queue = Append(g, m)
                   /\ \E o \in {0, 1} : /\ Len(sess[s].queue) = Len(g) + o
                                        /\ \A i \in 1..Len(g) : g[i] = sess[s].queue[i + o]
      <4>1. CASE Len(sess[s].queue) >= MaxQueue
        <5> DEFINE g == Tail(sess[s].queue)
        <5>1. x.queue = Append(g, m)
          BY <1>t, <2>0, <4>1 DEF push_queue, SessionRecord
        <5>2. sess[s].queue # << >>
          BY <2>0, <3>2, <4>1, ConstantsAssumption
        <5>3. /\ g \in Seq(Msgs) /\ Len(sess[s].queue) = Len(g) + 1
              /\ \A i \in 1..Len(g) : g[i] = sess[s].queue[i + 1]
          BY <3>2, <5>2
        <5> HIDE DEF g, x
        <5> QED
          BY <5>1, <5>3
      <4>2. CASE ~(Len(sess[s].queue) >= MaxQueue)
        <5> DEFINE g == sess[s].queue
        <5>1. x.queue = Append(g, m)
          BY <1>t, <2>0, <4>2 DEF push_queue, SessionRecord
        <5>2. g \in Seq(Msgs) /\ Len(g) = Len(g) + 0 /\ \A i \in 1..Len(g) : g[i] = g[i + 0]
          BY <3>2
        <5>3. /\ Len(sess[s].queue) = Len(g) + 0
              /\ \A i \in 1..Len(g) : g[i] = sess[s].queue[i + 0]
          BY <5>2
        <5> HIDE DEF g, x
        <5> QED
          BY <5>1, <5>2, <5>3
      <4> QED
        BY <4>1, <4>2
    <3>4. PICK o \in {0, 1} : /\ Len(sess[s].queue) = Len(g) + o
                              /\ \A i \in 1..Len(g) : g[i] = sess[s].queue[i + o]
      BY <3>3
    <3> DEFINE q == sess[s].queue
               z == x.queue
               l == Len(g)
    <3>5. \A i \in 1..l : i + o \in 1..Len(q) /\ g[i] = q[i + o]
      BY <3>2, <3>3, <3>4
    <3>6. l \in Nat /\ Len(z) = l + 1 /\ z[l + 1] = m /\ \A i \in 1..l : z[i] = g[i]
      BY <3>2, <3>3
    <3>7. Behind(q, k) /\ QueueLine(q, pubs)
      BY <1>k, <2>0 DEF OrderInv, QueueLines, Sessions, None
    <3>8. \A i \in 1..l : g[i] < m
      BY <3>2, <3>5, <3>7 DEF Behind, Below
    <3>9. \A i, j \in 1..l : i < j => g[i] < g[j]
      <4> SUFFICES ASSUME NEW i \in 1..l, NEW j \in 1..l, i < j PROVE g[i] < g[j]
        OBVIOUS
      <4>1. i + o < j + o /\ i + o \in 1..Len(q) /\ j + o \in 1..Len(q)
        BY <3>5, <3>6
      <4> QED
        BY <3>5, <3>7, <4>1 DEF QueueLine, Ordered
    <3> HIDE DEF x, r, m, q, z, l
    <3>10. QueueLine(z, pubs)
      <4>1. \A i \in 1..l : g[i] \in Nat
        <5>1. \A i \in 1..l : g[i] \in Msgs
          BY <3>3 DEF l
        <5> QED
          BY <1>m, <5>1
      <4>2. Ordered(z)
        BY <3>6, <3>8, <3>9 DEF Ordered
      <4>3. Below(z, pubs + 1)
        BY <1>t, <3>2, <3>6, <3>8, <4>1 DEF Below
      <4> QED
        BY <4>2, <4>3 DEF QueueLine
    <3>11. \A u \in Tasks : u = t
      BY DEF Tasks
    <3>12. sess'[s] = x /\ \A e \in Sessions \ {s} : sess'[e] = sess[e]
      BY <1>t, <2>0, <3>1
    <3>13. QueueLines'
      <4>1. disk'.queue \in {disk.queue, x.queue}
        BY <1>t, <3>1, <3>12, DiskKeeps
      <4>2. QueueLine(disk'.queue, pubs)
        BY <3>10, <4>1 DEF OrderInv, QueueLines, z
      <4> QED
        BY <2>0, <3>10, <3>12, <4>2 DEF OrderInv, QueueLines, z
    <3>14. Sheds(k, r) /\ r.msg = None /\ r.sess = s
      <4>1. Sheds(k, Return(k)) /\ Return(k).msg = None
        BY <1>t, AbortSheds DEF Return, Dead, TaskRecord
      <4> QED
        BY <4>1 DEF Sheds, r
    <3>15. TaskLine(r, pubs)
      <4> HIDE DEF k
      <4> QED
        BY <1>t, <1>k, <3>14, ShedLine
    <3>16. Behind(z, r)
      <4>1. ASSUME NEW i \in 1..Len(r.inbox) PROVE Below(z, r.inbox[i])
        <5>1. r.inbox = k.inbox /\ i \in 1..Len(k.inbox)
          BY <3>14, <4>1 DEF Sheds
        <5>2. m < k.inbox[i] /\ Below(q, k.inbox[i]) /\ k.inbox[i] \in Nat
          <6>1. k.inbox[i] \in Msgs
            BY <1>t, <5>1 DEF TaskRecord
          <6> QED
            BY <1>m, <1>k, <3>7, <5>1, <6>1, SMTT(30) DEF TaskLine, Behind, m
        <5>3. \A j \in 1..l : g[j] \in Nat /\ g[j] < m
          <6>1. \A j \in 1..l : g[j] \in Msgs
            BY <3>3 DEF l
          <6> QED
            BY <1>m, <3>8, <6>1
        <5>4. \A j \in 1..Len(z) : z[j] < k.inbox[i]
          BY <3>2, <3>6, <5>2, <5>3, SMTT(30)
        <5> QED
          BY <5>1, <5>4 DEF Below
      <4> QED
        BY <3>14, <4>1 DEF Behind
    <3>17. TaskLines'
      <4>1. task'[t] = r
        BY <1>t, <3>1
      <4>2. sess'[s].queue = z
        BY <3>12 DEF z
      <4> QED
        BY <1>k, <2>0, <3>11, <3>14, <3>15, <3>16, <4>1, <4>2 DEF TaskLines
    <3> QED
      BY <3>13, <3>17 DEF OrderInv
  <2> QED
    BY <2>1, <2>2
<1> QED
  BY <1>1, <1>4, <1>5, <1>6, <1>7, <1>8, <1>9, <1>10 DEF TaskStep

\* zenoh hands the newest message to the subscriptions it matches.
LEMMA OrderPublish ==
    ASSUME TypeInv, OrderInv, NEW class \in TopicClasses, Publish(class)
    PROVE  OrderInv'
<1> DEFINE m == pubs + 1
<1>t. /\ task \in [Tasks -> TaskRecord] /\ sess \in [Sessions -> SessionRecord]
      /\ disk.queue \in Seq(Msgs) /\ pubs \in Nat
      /\ \A s \in Sessions : sess[s].queue \in Seq(Msgs)
      /\ \A t \in Tasks : /\ task[t].sess \in Sessions \cup {None}
                          /\ task[t].inbox \in Seq(Msgs) /\ task[t].msg \in Msgs \cup {None}
  BY ConstantsAssumption DEF TypeInv, TypeOK, TaskRecord, SessionRecord, DiskRecord
<1>m. (\A x \in Msgs : x \in Nat) /\ m \in Nat /\ m # None
  BY <1>t DEF Msgs, None
<1>1. m \in Msgs /\ pubs' = m /\ UNCHANGED <<sess, disk, made>>
  BY DEF Publish
<1>2. \A t \in Tasks : \/ task'[t] = task[t]
                       \/ task'[t] = [task[t] EXCEPT !.inbox = Append(@, m), !.got = @ + 1]
  BY DEF Publish
<1>3. ASSUME NEW q \in Seq(Msgs), QueueLine(q, pubs)
      PROVE  QueueLine(q, m) /\ Below(q, m)
  <2>1. \A i \in 1..Len(q) : q[i] \in Nat
    BY <1>m
  <2> QED
    BY <1>t, <1>3, <2>1 DEF QueueLine, Below
<1>4. QueueLines'
  BY <1>t, <1>1, <1>3 DEF OrderInv, QueueLines
<1>5. TaskLines'
  <2> SUFFICES ASSUME NEW t \in Tasks
               PROVE  /\ TaskLine(task'[t], m)
                      /\ task'[t].sess <= made.sess
                      /\ task'[t].sess # None => Behind(sess[task'[t].sess].queue, task'[t])
    BY <1>1 DEF TaskLines
  <2> DEFINE k == task[t]
             q == k.inbox
  <2>1. /\ TaskLine(k, pubs) /\ k.sess <= made.sess
        /\ k.sess # None => Behind(sess[k.sess].queue, k)
    BY DEF OrderInv, TaskLines
  <2>2. k.sess # None => Below(sess[k.sess].queue, m)
    BY <1>t, <1>3 DEF OrderInv, QueueLines
  <2>3. QueueLine(q, m) /\ Below(q, m)
    BY <1>t, <1>3, <2>1 DEF TaskLine
  <2>4. k.msg \in Nat /\ k.msg < m
    <3>1. k.msg \in Msgs \/ k.msg = 0
      BY <1>t DEF None
    <3>2. k.msg <= pubs
      BY <2>1 DEF TaskLine
    <3> QED
      BY <1>t, <1>m, <3>1, <3>2
  <2>5. CASE task'[t] = k
    <3>1. TaskLine(k, m)
      BY <1>m, <2>1, <2>3, <2>4 DEF TaskLine
    <3> QED
      BY <2>1, <2>5, <3>1
  <2>6. CASE task'[t] = [k EXCEPT !.inbox = Append(@, m), !.got = @ + 1]
    <3> DEFINE r == task'[t]
               l == Len(q)
    <3>1. r.sess = k.sess /\ r.msg = k.msg /\ r.inbox = Append(q, m)
      BY <1>t, <2>6 DEF TaskRecord
    <3>2. /\ l \in Nat /\ Len(r.inbox) = l + 1 /\ r.inbox[l + 1] = m
          /\ \A i \in 1..l : r.inbox[i] = q[i]
      BY <1>t, <1>1, <3>1
    <3>3. \A i \in 1..l : q[i] < m /\ k.msg < q[i]
      BY <2>1, <2>3 DEF TaskLine, Below
    <3>4. \A i \in 1..l : q[i] \in Nat
      BY <1>t, <1>m
    <3>5. \A i, j \in 1..l : i < j => q[i] < q[j]
      BY <2>3 DEF QueueLine, Ordered
    <3> HIDE DEF r, k, q, l, m
    <3>6. Ordered(r.inbox)
      BY <3>2, <3>3, <3>5 DEF Ordered
    <3>7. Below(r.inbox, m + 1)
      BY <1>m, <3>2, <3>3, <3>4 DEF Below
    <3>8. TaskLine(r, m)
      <4>1. \A i \in 1..Len(r.inbox) : r.msg < r.inbox[i]
        BY <2>4, <3>1, <3>2, <3>3
      <4>2. r.msg <= m
        BY <1>m, <2>4, <3>1
      <4> QED
        BY <3>6, <3>7, <4>1, <4>2 DEF TaskLine, QueueLine
    <3>9. ASSUME k.sess # None PROVE Behind(sess[k.sess].queue, r)
      <4> DEFINE g == sess[k.sess].queue
      <4>1. Behind(g, k) /\ Below(g, m)
        BY <2>1, <2>2, <3>9
      <4>2. \A i \in 1..l : Below(g, q[i])
        BY <4>1 DEF Behind, q, l
      <4> HIDE DEF g
      <4>3. \A i \in 1..Len(r.inbox) : Below(g, r.inbox[i])
        BY <3>2, <4>1, <4>2
      <4>4. r.msg # None => Below(g, r.msg)
        BY <3>1, <4>1 DEF Behind
      <4> QED
        BY <4>3, <4>4 DEF Behind, g
    <3> QED
      BY <2>1, <3>1, <3>8, <3>9 DEF r, k
  <2> QED
    BY <1>2, <2>5, <2>6
<1> QED
  BY <1>4, <1>5 DEF OrderInv

\* activate_subscription spawns a task with nothing to forward yet.
LEMMA OrderSpawn ==
    ASSUME TypeInv, OrderInv, NEW t \in Tasks, NEW s \in Sessions, NEW f, NEW qos,
           s <= made.sess, task' = Spawn(task, t, s, f, qos), made'.sess = made.sess,
           pubs' = pubs, disk'.queue = disk.queue,
           \A q \in Sessions : sess'[q].queue = sess[q].queue
    PROVE  OrderInv'
<1>t. /\ task \in [Tasks -> TaskRecord] /\ pubs \in Nat
      /\ \A u \in Tasks : task[u].sess \in Sessions \cup {None}
  BY ConstantsAssumption DEF TypeInv, TypeOK, TaskRecord
<1> DEFINE r == [FreeTask EXCEPT !.pc = "recv", !.sess = s, !.filter = f, !.qos = qos]
<1>1. r.sess = s /\ r.inbox = << >> /\ r.msg = None
  BY DEF FreeTask
<1>2. \A u \in Tasks : task'[u] = IF u = t THEN r ELSE task[u]
  BY <1>t DEF Spawn
<1> HIDE DEF r
<1>3. TaskLine(r, pubs) /\ \A q : Behind(q, r)
  BY <1>t, <1>1, EmptyLine DEF TaskLine, Behind, None
<1>4. QueueLines'
  BY DEF OrderInv, QueueLines
<1>5. TaskLines'
  <2> SUFFICES ASSUME NEW u \in Tasks
               PROVE  /\ TaskLine(task'[u], pubs)
                      /\ task'[u].sess <= made.sess
                      /\ task'[u].sess # None => Behind(sess'[task'[u].sess].queue, task'[u])
    BY DEF TaskLines
  <2>1. CASE u = t
    BY <1>1, <1>2, <1>3, <2>1
  <2>2. CASE u # t
    <3>1. task'[u] = task[u] /\ TaskLine(task[u], pubs) /\ task[u].sess <= made.sess
      BY <1>2, <2>2 DEF OrderInv, TaskLines
    <3>2. ASSUME task[u].sess # None PROVE Behind(sess'[task[u].sess].queue, task[u])
      BY <1>t, <3>2 DEF OrderInv, TaskLines
    <3> QED
      BY <3>1, <3>2
  <2> QED
    BY <2>1, <2>2
<1> QED
  BY <1>4, <1>5 DEF OrderInv

\* Steps that at most abort tasks and empty queues.
LEMMA OrderAbort ==
    ASSUME TypeInv, OrderInv, NEW T, task' = task \/ task' = Abort(task, T),
           pubs' = pubs, made'.sess = made.sess, disk'.queue \in {disk.queue, << >>},
           NEW s \in Sessions, NEW r, sess' = [sess EXCEPT ![s] = r],
           r.queue \in {sess[s].queue, << >>}
    PROVE  OrderInv'
<1>t. /\ task \in [Tasks -> TaskRecord] /\ made.sess \in Nat
      /\ sess \in [Sessions -> SessionRecord]
  BY DEF TypeInv, TypeOK
<1>1. \A t \in Tasks : task'[t] \in {task[t], CancelTask(task[t])}
  BY DEF Abort
<1>2. \A t \in Tasks : Sheds(task[t], task'[t])
  BY <1>t, <1>1, AbortSheds
<1>3. \A q \in Sessions : sess'[q].queue \in {sess[q].queue, << >>}
  BY <1>t
<1> QED
  BY <1>t, <1>2, <1>3, OrderFrame

\* Steps that leave sessions and tasks alone.
LEMMA OrderStays ==
    ASSUME TypeInv, OrderInv, task' = task, sess' = sess, pubs' = pubs,
           made'.sess = made.sess, disk'.queue \in {disk.queue, << >>}
    PROVE  OrderInv'
<1>t. task \in [Tasks -> TaskRecord] /\ made.sess \in Nat
  BY DEF TypeInv, TypeOK
<1>1. \A t \in Tasks : Sheds(task[t], task'[t])
  BY <1>t, AbortSheds
<1> QED
  BY <1>t, <1>1, OrderFrame

\* The steps of a connection: it drains a queue, and adds to none.
LEMMA OrderConn ==
    ASSUME TypeInv, FenceInv, OrderInv, NEW c \in Conns,
           ConnStep(c) \/ ClientStep(c) \/ WriterAborts(c)
    PROVE  OrderInv'
<1> DEFINE s == conn[c].sess
<1>t. /\ sess \in [Sessions -> SessionRecord] /\ disk \in DiskRecord
      /\ conn[c].pc \notin {"free", "closed", "replace"} => s \in Sessions
      /\ registry \in Sessions \cup {None} /\ s <= made.sess
      /\ made \in [sess : 0..MaxSessions, conn : 0..MaxConns, task : 0..MaxTasks]
  BY DEF TypeInv, TypeOK, HandlesOK, ConnHandlesOK, FenceInv, MadeOK
<1>2. CASE \/ SendConnAck(c) \/ ConnectEvent(c) \/ DrainBacklog(c) \/ EnterRun(c)
           \/ ServeFails(c) \/ DisconnectEvent(c)
           \/ Reply(c) \/ Handled(c) \/ Disconnect(c) \/ RunFails(c) \/ Kicked(c)
           \/ \E handler \in Requests : ReadPacket(c, handler)
           \/ Write(c) \/ WriteFails(c) \/ WriterAborts(c)
           \/ AttachExisting(c) \/ Unmap(c)
  <2>1. /\ UNCHANGED <<sess, task, disk, pubs>>
        /\ made' = made \/ made' = [made EXCEPT !.conn = c]
    BY <1>2 DEF SendConnAck, ConnectEvent, DisconnectEvent, DrainBacklog, EnterRun, ServeFails,
       Reply, Handled, Disconnect, RunFails, Kicked, EndRun, ReadPacket, Write, WriteFails,
       WriterAborts, AttachExisting, Unmap
  <2>2. made'.sess = made.sess
    BY <1>t, <2>1
  <2> QED
    BY <2>1, <2>2, OrderStays
<1>3. CASE DiscardQueueFile(c)
  <2>1. UNCHANGED <<sess, task, made, pubs>> /\ disk' = discard_queue_file(disk, sess[s])
    BY <1>3 DEF DiscardQueueFile
  <2>2. disk'.queue \in {disk.queue, << >>}
    BY <1>t, <2>1, DiskKeeps
  <2> QED
    BY <2>1, <2>2, OrderStays
<1>4. CASE AttachConn(c)
  <2> DEFINE r == attach_conn(sess[s], c)
  <2>1. /\ s \in Sessions /\ UNCHANGED <<task, disk, made, pubs>>
        /\ sess' = [sess EXCEPT ![s] = r]
    BY <1>4, <1>t DEF AttachConn
  <2>2. r.queue = << >>
    BY <1>t, <2>1 DEF attach_conn, SessionRecord
  <2> HIDE DEF r
  <2> QED
    BY <2>1, <2>2, OrderAbort
<1>5. CASE InsertSub(c)
  <2> DEFINE r == insert_sub(sess[s], conn[c].filter, conn[c].task)
  <2>1. /\ s \in Sessions /\ disk' = persist_subs(disk, sess'[s], QoSOf(task))
        /\ sess' = [sess EXCEPT ![s] = r] /\ UNCHANGED <<made, pubs>>
        /\ task' = Abort(task, {sess[s].subs[conn[c].filter]})
    BY <1>5, <1>t DEF InsertSub
  <2>2. r.queue = sess[s].queue
    BY <1>t, <2>1, SubsKeep
  <2>3. disk'.queue = disk.queue
    BY <1>t, <2>1, DiskKeeps
  <2> HIDE DEF r
  <2> QED
    BY <2>1, <2>2, <2>3, OrderAbort
<1>6. ASSUME NEW f \in Filters, Unsubscribe(c, f)
      PROVE  OrderInv'
  <2> DEFINE r == remove_sub(sess[s], f)
  <2>1. /\ s \in Sessions /\ disk' = persist_subs(disk, sess'[s], QoSOf(task))
        /\ sess' = [sess EXCEPT ![s] = r] /\ UNCHANGED <<made, pubs>>
        /\ task' = Abort(task, {sess[s].subs[f]})
    BY <1>6, <1>t DEF Unsubscribe
  <2>2. r.queue = sess[s].queue
    BY <1>t, <2>1, SubsKeep
  <2>3. disk'.queue = disk.queue
    BY <1>t, <2>1, DiskKeeps
  <2> HIDE DEF r
  <2> QED
    BY <2>1, <2>2, <2>3, OrderAbort
<1>7. CASE DetachConn(c)
  <2> DEFINE r == detach_conn(sess[s], conn[c].epoch)
  <2>1. /\ s \in Sessions /\ UNCHANGED <<task, disk, made, pubs>>
        /\ sess' = [sess EXCEPT ![s] = r]
    BY <1>7, <1>t DEF DetachConn
  <2>2. r.queue = sess[s].queue
    BY <1>t, <2>1, OfflineKeeps
  <2> HIDE DEF r
  <2> QED
    BY <2>1, <2>2, OrderAbort
<1>8. CASE Purge(c)
  <2> DEFINE r == abort_subs(sess[s])
  <2>1. /\ s \in Sessions /\ disk' = discard_state_files(disk, sess[s])
        /\ sess' = [sess EXCEPT ![s] = r] /\ UNCHANGED <<made, pubs>>
        /\ task' = Abort(task, SubTasks(s))
    BY <1>8, <1>t DEF Purge
  <2>2. r.queue = sess[s].queue
    BY <1>t, <2>1, SubsKeep
  <2>3. disk'.queue \in {disk.queue, << >>}
    BY <1>t, <2>1, DiskKeeps
  <2> HIDE DEF r
  <2> QED
    BY <2>1, <2>2, <2>3, OrderAbort
<1>9. ASSUME NEW clean \in CleanFlags, AttachNew(c, clean)
      PROVE  OrderInv'
  <2> DEFINE n    == made.sess + 1
             kept == IF clean THEN NoFiles ELSE disk
             r    == new(~clean /\ DataDir, kept.queue)
  <2>1. n \in Sessions /\ disk' = kept /\ UNCHANGED <<task, pubs>> /\ sess' = [sess EXCEPT ![n] = r]
    BY <1>9 DEF AttachNew
  <2>2. made'.sess = n /\ n > made.sess
    BY <1>9, <1>t DEF AttachNew
  <2>3. disk'.queue \in {disk.queue, << >>}
    BY <2>1 DEF NoFiles
  <2>4. r.queue \in {load_queue(kept.queue), << >>}
    BY DEF new
  <2>5. load_queue(kept.queue) \in {load_queue(disk.queue), << >>}
    <3>1. load_queue(<< >>) = << >>
      BY ConstantsAssumption DEF load_queue
    <3>2. kept.queue \in {disk.queue, << >>}
      BY DEF NoFiles
    <3> QED
      BY <3>1, <3>2
  <2> HIDE DEF n, r, kept
  <2> QED
    BY <2>1, <2>2, <2>3, <2>4, <2>5, OrderFresh
<1>10. CASE DiscardExisting(c)
  <2> DEFINE r == abort_subs(sess[registry])
  <2>1. /\ registry \in Sessions /\ disk' = disk /\ sess' = [sess EXCEPT ![registry] = r]
        /\ task' = Abort(task, SubTasks(registry)) /\ pubs' = pubs
        /\ made' = [made EXCEPT !.conn = c]
    BY <1>10, <1>t DEF DiscardExisting
  <2>2. r.queue = sess[registry].queue /\ made'.sess = made.sess
    BY <1>t, <2>1, SubsKeep
  <2> HIDE DEF r
  <2> QED
    BY <2>1, <2>2, OrderAbort
<1>11. CASE ReplaceSession(c)
  <2> DEFINE n == made.sess + 1
             r == new(FALSE, << >>)
  <2>1. /\ n \in Sessions /\ disk' = NoFiles /\ sess' = [sess EXCEPT ![n] = r]
        /\ UNCHANGED <<task, pubs>>
    BY <1>11 DEF ReplaceSession
  <2>2. made'.sess = n /\ n > made.sess
    BY <1>11, <1>t DEF ReplaceSession
  <2>3. r.queue = << >> /\ disk'.queue = << >>
    BY <2>1 DEF new, NoFiles
  <2> HIDE DEF r, n
  <2> QED
    BY <2>1, <2>2, <2>3, OrderFresh
<1>12. ASSUME NEW f \in Filters, NEW req \in ReqQoS, Subscribe(c, f, req)
       PROVE  OrderInv'
  <2> DEFINE t == made.task + 1
  <2>1. /\ s \in Sessions /\ t \in Tasks /\ task' = Spawn(task, t, s, f, Granted(req))
        /\ made' = [made EXCEPT !.task = t] /\ UNCHANGED <<sess, disk, pubs>>
    BY <1>12, <1>t DEF Subscribe
  <2>2. made'.sess = made.sess
    BY <1>t, <2>1
  <2> HIDE DEF t
  <2> QED
    BY <1>t, <2>1, <2>2, OrderSpawn
<1>13. CASE ConnStep(c)
  BY <1>2, <1>3, <1>4, <1>5, <1>6, <1>7, <1>8, <1>11, <1>12, <1>13 DEF ConnStep
<1>14. CASE ClientStep(c)
  BY <1>2, <1>9, <1>10, <1>14 DEF ClientStep
<1> QED
  BY <1>2, <1>13, <1>14

\* The sweeper, the death of the process and its restart.
LEMMA OrderNode ==
    ASSUME TypeInv, FenceInv, OrderInv, SweepStep \/ Crash \/ StartupStep
    PROVE  OrderInv'
<1>t. /\ sess \in [Sessions -> SessionRecord] /\ disk \in DiskRecord
      /\ made \in [sess : 0..MaxSessions, conn : 0..MaxConns, task : 0..MaxTasks]
      /\ sweeper.pc # "idle" => sweeper.sess \in Sessions
      /\ node.state = "rehydrate" => node.sess \in Sessions
      /\ node.sess <= made.sess
      /\ node.state = "down" => made.sess = 0
  BY DEF TypeInv, TypeOK, HandlesOK, NodeHandlesOK, FenceInv, MadeOK
<1>1. CASE SweepRetain \/ \E f \in Filters, qos \in QoS : RehydrateSkips(f, qos)
  <2>1. UNCHANGED <<sess, task, disk, pubs, made>>
    BY <1>1 DEF SweepRetain, RehydrateSkips
  <2> QED
    BY <2>1, OrderStays
<1>2. CASE SweepAbort
  <2> DEFINE s == sweeper.sess
             r == abort_subs(sess[s])
  <2>1. /\ s \in Sessions /\ sess' = [sess EXCEPT ![s] = r] /\ task' = Abort(task, SubTasks(s))
        /\ UNCHANGED <<disk, made, pubs>>
    BY <1>2, <1>t DEF SweepAbort
  <2>2. r.queue = sess[s].queue
    BY <1>t, <2>1, SubsKeep
  <2> HIDE DEF r
  <2> QED
    BY <2>1, <2>2, OrderAbort
<1>3. CASE SweepDiscard
  <2>1. UNCHANGED <<sess, task, made, pubs>> /\ disk' = discard_state_files(disk, sess[sweeper.sess])
    BY <1>3 DEF SweepDiscard
  <2>2. disk'.queue \in {disk.queue, << >>}
    BY <1>t, <2>1, DiskKeeps
  <2> QED
    BY <2>1, <2>2, OrderStays
<1>4. CASE Crash
  <2>1. disk' = disk /\ pubs' = pubs /\ made'.sess = 0
    BY <1>4, <1>t DEF Crash
  <2>2. \A s \in Sessions : sess'[s].queue = << >>
    BY <1>4 DEF Crash, new
  <2>3. \A t \in Tasks : task'[t].sess = None /\ task'[t].inbox = << >> /\ task'[t].msg = None
    BY <1>4 DEF Crash, FreeTask
  <2> QED
    BY <2>1, <2>2, <2>3, OrderFrame
<1>5. ASSUME NEW acl \in SUBSET Filters, Restart(acl)
      PROVE  OrderInv'
  <2>1. CASE disk.subs = {}
    <3>1. UNCHANGED <<sess, task, disk, pubs, made>>
      BY <1>5, <2>1 DEF Restart
    <3> QED
      BY <3>1, OrderStays
  <2>2. CASE disk.subs # {}
    <3> DEFINE r == new(TRUE, disk.queue)
               n == 1
    <3>1. /\ n \in Sessions /\ sess' = [sess EXCEPT ![n] = r]
          /\ UNCHANGED <<task, disk, pubs>> /\ made' = [made EXCEPT !.sess = n]
          /\ node.state = "down"
      BY <1>5, <2>2 DEF Restart
    <3>2. made'.sess = n /\ n > made.sess
      BY <1>t, <3>1
    <3>3. r.queue = load_queue(disk.queue)
      BY DEF new
    <3> HIDE DEF r, n
    <3> QED
      BY <3>1, <3>2, <3>3, OrderFresh
  <2> QED
    BY <2>1, <2>2
<1>6. ASSUME NEW f \in Filters, NEW qos \in QoS, Rehydrate(f, qos)
      PROVE  OrderInv'
  <2> DEFINE s == node.sess
             t == made.task + 1
             r == insert_sub(sess[s], f, t)
  <2>1. /\ s \in Sessions /\ t \in Tasks /\ disk' = persist_subs(disk, sess'[s], QoSOf(task'))
        /\ sess' = [sess EXCEPT ![s] = r] /\ task' = Spawn(task, t, s, f, qos)
        /\ made' = [made EXCEPT !.task = t] /\ pubs' = pubs
    BY <1>6, <1>t DEF Rehydrate
  <2>2. r.queue = sess[s].queue
    BY <1>t, <2>1, SubsKeep
  <2>3. disk'.queue = disk.queue /\ made'.sess = made.sess
    BY <1>t, <2>1, DiskKeeps
  <2> HIDE DEF r, t
  <2>4. \A q \in Sessions : sess'[q].queue = sess[q].queue
    BY <1>t, <2>1, <2>2
  <2> QED
    BY <1>t, <2>1, <2>3, <2>4, OrderSpawn
<1>7. CASE RehydrateDone
  <2>1. UNCHANGED <<sess, task, made, pubs>> /\ disk' = persist_subs(disk, sess[node.sess], QoSOf(task))
    BY <1>7 DEF RehydrateDone
  <2>2. disk'.queue = disk.queue
    BY <1>t, <2>1, DiskKeeps
  <2> QED
    BY <2>1, <2>2, OrderStays
<1> QED
  BY <1>1, <1>2, <1>3, <1>4, <1>5, <1>6, <1>7 DEF SweepStep, StartupStep

\* Nothing is queued to begin with.
LEMMA OrderInit == Init => OrderInv
<1> SUFFICES ASSUME Init PROVE OrderInv
  OBVIOUS
<1>1. pubs = 0 /\ disk.queue = << >> /\ made.sess = 0
  BY DEF Init, NoFiles
<1>2. \A s \in Sessions : sess[s].queue = << >>
  BY DEF Init, new
<1>3. \A t \in Tasks : task[t].sess = None /\ task[t].inbox = << >> /\ task[t].msg = None
  BY DEF Init, FreeTask
<1>4. QueueLine(<< >>, 0)
  BY EmptyLine
<1>5. QueueLines
  BY <1>1, <1>2, <1>4 DEF QueueLines
<1>6. TaskLines
  BY <1>1, <1>3, <1>4 DEF TaskLines, TaskLine, None
<1> QED
  BY <1>5, <1>6 DEF OrderInv

\* OrderInv is inductive with one forwarding task.
LEMMA OrderNext ==
    ASSUME MaxTasks = 1, TypeInv, FenceInv, OrderInv, [Next]_vars
    PROVE  OrderInv'
<1>1. CASE UNCHANGED vars
  <2>1. UNCHANGED <<sess, task, disk, made, pubs>>
    BY <1>1 DEF vars
  <2> QED
    BY <2>1, OrderStays
<1>2. CASE Next
  BY <1>2, OrderConn, OrderTask, OrderPublish, OrderNode DEF Next
<1> QED
  BY <1>1, <1>2

(***************************************************************************)
(* One subscription keeps publication order through the offline queue and  *)
(* its file: a message whose send failed is pushed by the same task before *)
(* anything newer, push_queue drops at the old end, and load_queue keeps   *)
(* the order, over any number of connections, sessions and crashes.        *)
(***************************************************************************)
THEOREM OrderCorrect ==
    ASSUME MaxTasks = 1
    PROVE  Spec => []QueueInOrder
<1>1. Init => TypeInv /\ FenceInv /\ OrderInv
  BY TypeInit, FenceInit, OrderInit
<1>2. (TypeInv /\ FenceInv /\ OrderInv) /\ [Next]_vars => (TypeInv /\ FenceInv /\ OrderInv)'
  BY TypeNext, FenceNext, OrderNext
<1>3. OrderInv => QueueInOrder
  BY DEF OrderInv, QueueLines, QueueLine, QueueInOrder
<1> QED
  BY <1>1, <1>2, <1>3, PTL DEF Spec


-----------------------------------------------------------------------------
(***************************************************************************)
(* The mailbox: one session with one QoS 1 subscription, which nothing     *)
(* takes away, in one life of the process.  What waits for the session is  *)
(* its queue, what deliver has in its hands and the inbox; what a          *)
(* connection was given is its backlog and its channel.                    *)
(***************************************************************************)
OneMailbox ==
    /\ NothingDiscards /\ MaxCrashes = 0
    /\ 1 \in Sessions /\ MaxTasks = 1 /\ MaxQueue # 0
    /\ ReqQoS \subseteq {1, 2} /\ "unsubscribe" \notin Requests

Elems(q) == {q[i] : i \in DOMAIN q}

Contents(o) == {o[i].msg : i \in {j \in DOMAIN o : o[j].msg # None}}

PassedBy(r) == Elems(r.backlog) \cup Contents(r.out)

Waiting == sess[1].queue \o InHand(task[1]) \o task[1].inbox

Given == UNION {Passed(c) : c \in Conns}

\* No session yet, or the first.
Unused ==
    /\ registry \in {None, 1}
    /\ registry = None
          => /\ made.sess = 0 /\ disk.queue = << >>
             /\ sess[1].queue = << >> /\ sess[1].dropped = 0

\* The only subscription takes no other one's place.
Inserting ==
    \A c \in Conns : conn[c].pc = "insert" =>
        /\ \A f \in Filters : sess[1].subs[f] = None
        /\ \A d \in Conns : conn[d].pc = "insert" => d = c

GivenOK(r, p) ==
    /\ r.pc # "unsubscribe"
    /\ r.pc = "free" => PassedBy(r) = {}
    /\ r.pc = "attach" => r.backlog = << >>
    /\ \A m \in PassedBy(r) : m <= p

\* deliver found a sink when the queue was empty, and nobody else fills it.
CarriesOK(k, q) ==
    /\ ~k.aborted
    /\ k.pc # "free" => k.qos = 1
    /\ k.pc = "recv" => k.msg = None
    /\ k.pc \in {"send", "blocked", "timeout", "failed"} => q = << >>

MailInv ==
    /\ node.state = "up"
    /\ Unused
    /\ Inserting
    /\ \A c \in Conns : GivenOK(conn[c], pubs)
    /\ CarriesOK(task[1], sess[1].queue)
    /\ made.task = 0 => task[1].pc = "free" /\ task[1].inbox = << >> /\ task[1].msg = None

\* How a box of three parts moves.
LEMMA BoxParts ==
    ASSUME NEW S, NEW q \in Seq(S), NEW h \in Seq(S), NEW x \in Seq(S)
    PROVE  /\ q \o h \o x \in Seq(S)
           /\ Len(q \o h \o x) = Len(q) + Len(h) + Len(x)
           /\ \A m \in S : q \o h \o Append(x, m) = Append(q \o h \o x, m)
           /\ \A m \in S : Append(q, m) \o << >> \o x = q \o <<m>> \o x
           /\ x # << >> => q \o <<Head(x)>> \o Tail(x) = q \o << >> \o x
           /\ q # << >> => Tail(q \o h \o x) = Tail(q) \o h \o x
           /\ SubSeq(q \o h \o x, Len(q) + 1, Len(q \o h \o x)) = << >> \o h \o x
           /\ \A i \in 1..Len(q) : (q \o h \o x)[i] = q[i]
<1>1. /\ q \o h \in Seq(S) /\ h \o x \in Seq(S)
      /\ Len(q \o h) = Len(q) + Len(h) /\ Len(h \o x) = Len(h) + Len(x)
      /\ Len(q) \in Nat /\ Len(h) \in Nat /\ Len(x) \in Nat
  BY ConcatProperties
<1>2. q \o h \o x \in Seq(S) /\ Len(q \o h \o x) = Len(q) + Len(h) + Len(x)
  BY <1>1, ConcatProperties
<1>3. q \o h \o x = q \o (h \o x)
  BY ConcatAssociative
<1>4. ASSUME NEW m \in S PROVE q \o h \o Append(x, m) = Append(q \o h \o x, m)
  <2>1. <<m>> \in Seq(S)
    OBVIOUS
  <2>2. Append(x, m) = x \o <<m>> /\ Append(q \o h \o x, m) = (q \o h \o x) \o <<m>>
    BY <1>2, AppendIsConcat
  <2>3. (q \o h) \o (x \o <<m>>) = ((q \o h) \o x) \o <<m>>
    BY <1>1, <2>1, ConcatAssociative
  <2> QED
    BY <2>2, <2>3
<1>5. ASSUME NEW m \in S PROVE Append(q, m) \o << >> \o x = q \o <<m>> \o x
  <2>1. Append(q, m) = q \o <<m>> /\ Append(q, m) \in Seq(S)
    BY AppendIsConcat, AppendProperties
  <2>2. Append(q, m) \o << >> = Append(q, m)
    BY <2>1, ConcatEmptySeq
  <2> QED
    BY <2>1, <2>2
<1>6. ASSUME x # << >> PROVE q \o <<Head(x)>> \o Tail(x) = q \o << >> \o x
  <2> DEFINE a == <<Head(x)>>
             b == Tail(x)
  <2>1. a \in Seq(S) /\ Len(a) = 1 /\ a[1] = Head(x) /\ Head(x) = x[1]
    BY <1>6
  <2>2. b \in Seq(S) /\ Len(b) = Len(x) - 1 /\ \A i \in 1..Len(b) : b[i] = x[i + 1]
    BY <1>6, HeadTailProperties
  <2> HIDE DEF a, b
  <2>3. /\ a \o b \in Seq(S) /\ Len(a \o b) = Len(a) + Len(b)
        /\ \A i \in 1..(Len(a) + Len(b)) : (a \o b)[i] = IF i <= Len(a) THEN a[i] ELSE b[i - Len(a)]
    <3>1. a \in Seq(S) /\ b \in Seq(S)
      BY <2>1, <2>2
    <3> QED
      BY <3>1, ConcatProperties
  <2>4. Len(a \o b) = Len(x)
    BY <1>1, <2>1, <2>2, <2>3
  <2>5. ASSUME NEW i \in 1..Len(x) PROVE (a \o b)[i] = x[i]
    <3>1. CASE i = 1
      BY <1>1, <2>1, <2>2, <2>3, <3>1
    <3>2. CASE i # 1
      <4>1. i - 1 \in 1..Len(b) /\ ~(i <= Len(a)) /\ i \in 1..(Len(a) + Len(b))
        BY <1>1, <2>1, <2>2, <3>2
      <4>2. (a \o b)[i] = b[i - 1]
        BY <2>1, <2>3, <4>1
      <4>3. b[i - 1] = x[(i - 1) + 1]
        BY <2>2, <4>1
      <4> QED
        BY <4>2, <4>3
    <3> QED
      BY <3>1, <3>2
  <2>6. a \o b = x
    BY <2>3, <2>4, <2>5, SeqEqual
  <2>7. (q \o a) \o b = q \o (a \o b)
    <3>1. a \in Seq(S)
      BY <2>1
    <3>2. b \in Seq(S)
      BY <2>2
    <3>3. \A u, v \in Seq(S) : (q \o u) \o v = q \o (u \o v)
      BY ONLY q \in Seq(S), ConcatAssociative, SMTT(30)
    <3> HIDE DEF a, b
    <3> QED
      BY <3>1, <3>2, <3>3, Zenon
  <2>8. q \o << >> = q
    BY ConcatEmptySeq
  <2> QED
    BY <2>6, <2>7, <2>8 DEF a, b
<1>7. ASSUME q # << >> PROVE Tail(q \o h \o x) = Tail(q) \o h \o x
  <2> DEFINE b == Tail(q)
             y == h \o x
  <2>1. b \in Seq(S) /\ Len(b) = Len(q) - 1 /\ Len(q) # 0 /\ \A i \in 1..Len(b) : b[i] = q[i + 1]
    BY <1>1, <1>7, HeadTailProperties, EmptySeq
  <2>2. y \in Seq(S) /\ Len(y) \in Nat
    BY <1>1
  <2>3. Tail(q) \o h \o x = b \o y
    BY <2>1, ConcatAssociative
  <2> HIDE DEF b, y
  <2>4. /\ q \o y \in Seq(S) /\ Len(q \o y) = Len(q) + Len(y)
        /\ \A i \in 1..(Len(q) + Len(y)) : (q \o y)[i] = IF i <= Len(q) THEN q[i] ELSE y[i - Len(q)]
    BY <2>2, ConcatProperties
  <2>5. /\ b \o y \in Seq(S) /\ Len(b \o y) = Len(b) + Len(y)
        /\ \A i \in 1..(Len(b) + Len(y)) : (b \o y)[i] = IF i <= Len(b) THEN b[i] ELSE y[i - Len(b)]
    BY <2>1, <2>2, ConcatProperties
  <2> DEFINE z == q \o y
             w == b \o y
  <2> HIDE DEF z, w
  <2>6. z # << >> /\ Len(z) = Len(q) + Len(y)
    BY <1>1, <2>1, <2>2, <2>4 DEF z
  <2>7. Tail(z) \in Seq(S) /\ Len(Tail(z)) = Len(z) - 1 /\ \A i \in 1..Len(Tail(z)) : Tail(z)[i] = z[i + 1]
    BY <2>4, <2>6, HeadTailProperties DEF z
  <2>8. Len(Tail(z)) = Len(w)
    BY <1>1, <2>1, <2>2, <2>5, <2>6, <2>7 DEF w
  <2>9. ASSUME NEW i \in 1..Len(Tail(z)) PROVE Tail(z)[i] = w[i]
    <3>1. i + 1 \in 1..(Len(q) + Len(y)) /\ i \in 1..(Len(b) + Len(y)) /\ Tail(z)[i] = z[i + 1]
      BY <1>1, <2>1, <2>2, <2>6, <2>7
    <3>2. CASE i <= Len(b)
      BY <1>1, <2>1, <2>4, <2>5, <3>1, <3>2 DEF z, w
    <3>3. CASE ~(i <= Len(b))
      <4>1. ~(i + 1 <= Len(q)) /\ (i + 1) - Len(q) = i - Len(b)
        BY <1>1, <2>1, <3>1, <3>3
      <4> QED
        BY <2>4, <2>5, <3>1, <3>3, <4>1 DEF z, w
    <3> QED
      BY <3>2, <3>3
  <2>10. Tail(z) = w
    BY <2>5, <2>7, <2>8, <2>9, SeqEqual DEF w
  <2> QED
    BY <1>3, <2>3, <2>10 DEF z, w, y
<1>8. SubSeq(q \o h \o x, Len(q) + 1, Len(q \o h \o x)) = << >> \o h \o x
  <2> DEFINE y == h \o x
             z == q \o y
             w == SubSeq(z, Len(q) + 1, Len(z))
  <2>1. y \in Seq(S) /\ Len(y) \in Nat
    BY <1>1
  <2>2. << >> \o h \o x = y
    BY ConcatEmptySeq
  <2> HIDE DEF y
  <2>3. /\ z \in Seq(S) /\ Len(z) = Len(q) + Len(y)
        /\ \A i \in 1..(Len(q) + Len(y)) : z[i] = IF i <= Len(q) THEN q[i] ELSE y[i - Len(q)]
    BY <2>1, ConcatProperties
  <2> HIDE DEF z
  <2>4. \A i \in (Len(q) + 1)..Len(z) : z[i] \in S
    BY <1>1, <2>3, ElementOfSeq
  <2>5. /\ w \in Seq(S)
        /\ Len(w) = IF Len(q) + 1 <= Len(z) THEN Len(z) - (Len(q) + 1) + 1 ELSE 0
        /\ \A i \in 1..(Len(z) - (Len(q) + 1) + 1) : w[i] = z[(Len(q) + 1) + i - 1]
    BY <1>1, <2>1, <2>3, <2>4, SubSeqProperties
  <2> HIDE DEF w
  <2>6. Len(w) = Len(y)
    BY <1>1, <2>1, <2>3, <2>5
  <2>7. ASSUME NEW i \in 1..Len(w) PROVE w[i] = y[i]
    <3>1. /\ i \in 1..(Len(z) - (Len(q) + 1) + 1) /\ (Len(q) + 1) + i - 1 = Len(q) + i
          /\ Len(q) + i \in 1..(Len(q) + Len(y)) /\ ~(Len(q) + i <= Len(q)) /\ (Len(q) + i) - Len(q) = i
      BY <1>1, <2>1, <2>3, <2>6
    <3> QED
      BY <2>3, <2>5, <3>1
  <2>8. w = y
    BY <2>1, <2>5, <2>6, <2>7, SeqEqual
  <2> QED
    BY <1>3, <2>2, <2>8 DEF w, z, y
<1>9. \A i \in 1..Len(q) : (q \o h \o x)[i] = q[i]
  <2>1. \A i \in 1..(Len(q) + Len(h \o x)) : (q \o (h \o x))[i]
                                         = IF i <= Len(q) THEN q[i] ELSE (h \o x)[i - Len(q)]
    BY <1>1, ConcatProperties
  <2> QED
    BY <1>1, <1>3, <2>1
<1> QED
  BY <1>2, <1>4, <1>5, <1>6, <1>7, <1>8, <1>9

\* A packet put into a channel adds the message it carries, if any.
LEMMA ContentsPut ==
    ASSUME NEW o \in Seq(Packet), NEW p \in Packet
    PROVE  Contents(Append(o, p)) = Contents(o) \cup ({p.msg} \ {None})
<1> DEFINE z == Append(o, p)
           l == Len(o)
<1>1. /\ l \in Nat /\ DOMAIN o = 1..l /\ DOMAIN z = 1..(l + 1)
      /\ \A i \in 1..l : z[i] = o[i]
      /\ z[l + 1] = p
  <2>1. z \in Seq(Packet) /\ Len(z) = l + 1 /\ (\A i \in 1..l : z[i] = o[i]) /\ z[l + 1] = p
    BY AppendProperties
  <2>2. l \in Nat /\ DOMAIN o = 1..l /\ DOMAIN z = 1..Len(z)
    BY <2>1, LenProperties
  <2> QED
    BY <2>1, <2>2
<1> HIDE DEF z, l
<1>2. \A i \in 1..(l + 1) : i \in 1..l \/ i = l + 1
  BY <1>1
<1>3. l + 1 \in 1..(l + 1) /\ \A i \in 1..l : i \in 1..(l + 1)
  BY <1>1
<1>4. ASSUME NEW m
      PROVE  m \in Contents(z) <=> m \in Contents(o) \cup ({p.msg} \ {None})
  <2>1. m \in Contents(z) <=> m # None /\ \E i \in 1..(l + 1) : z[i].msg = m
    BY <1>1 DEF Contents
  <2>2. m \in Contents(o) <=> m # None /\ \E i \in 1..l : o[i].msg = m
    BY <1>1 DEF Contents
  <2>3. (\E i \in 1..(l + 1) : z[i].msg = m) <=> p.msg = m \/ \E i \in 1..l : o[i].msg = m
    BY <1>1, <1>2, <1>3
  <2> QED
    BY <2>1, <2>2, <2>3
<1> QED
  BY <1>4 DEF z

\* What the box sees of a connection, and what the invariant asks of it.
LEMMA PassedIs == \A c \in Conns : Passed(c) = PassedBy(conn[c])
BY DEF Passed, PassedBy, Elems, Contents

KeepsMail(r, q) ==
    /\ q.pc # "unsubscribe"
    /\ q.pc = "insert" => r.pc = "insert"
    /\ q.pc = "free" => r.pc = "free"
    /\ q.pc = "attach" => r.pc = "attach" /\ q.backlog = r.backlog
    /\ PassedBy(q) = PassedBy(r)

\* Steps that give no connection anything.
LEMMA GivenFrame ==
    ASSUME MailInv, pubs' = pubs, \A d \in Conns : KeepsMail(conn[d], conn'[d])
    PROVE  /\ Given' = Given
           /\ \A c \in Conns : GivenOK(conn'[c], pubs')
<1>1. \A c \in Conns : Passed(c)' = Passed(c)
  BY PassedIs DEF KeepsMail, Passed, PassedBy, Elems, Contents
<1>2. Given' = Given
  BY <1>1 DEF Given
<1>3. \A c \in Conns : GivenOK(conn'[c], pubs')
  BY DEF MailInv, KeepsMail, GivenOK
<1> QED
  BY <1>2, <1>3

\* A step the box does not see.
LEMMA BoxStutters ==
    ASSUME Waiting' = Waiting, Given' = Given, sess'[1].dropped = sess[1].dropped
    PROVE  UNCHANGED Box!vars
BY DEF Box!vars, Waiting, Given

\* Steps that leave the session's subscriptions and queue and the task alone.
LEMMA MailFrame ==
    ASSUME MailInv, UNCHANGED <<registry, node, pubs>>,
           made'.sess = made.sess, made'.task = made.task,
           disk'.queue \in {disk.queue, << >>},
           sess'[1].subs = sess[1].subs, sess'[1].queue = sess[1].queue,
           sess'[1].dropped = sess[1].dropped, task'[1] = task[1],
           \A d \in Conns : KeepsMail(conn[d], conn'[d])
    PROVE  MailInv' /\ UNCHANGED Box!vars
<1>1. Given' = Given /\ \A c \in Conns : GivenOK(conn'[c], pubs')
  BY GivenFrame
<1>2. Waiting' = Waiting
  BY DEF Waiting
<1>3. UNCHANGED Box!vars
  BY <1>1, <1>2, BoxStutters
<1>4. Unused'
  BY DEF MailInv, Unused
<1>5. Inserting'
  BY DEF MailInv, Inserting, KeepsMail
<1>6. node'.state = "up" /\ CarriesOK(task'[1], sess'[1].queue)
  BY DEF MailInv
<1>7. made'.task = 0 => task'[1].pc = "free" /\ task'[1].inbox = << >> /\ task'[1].msg = None
  BY DEF MailInv
<1> QED
  BY <1>1, <1>3, <1>4, <1>5, <1>6, <1>7 DEF MailInv

\* The oldest element and the others.
LEMMA ElemsTail ==
    ASSUME NEW S, NEW q \in Seq(S), q # << >>
    PROVE  Elems(q) = {Head(q)} \cup Elems(Tail(q))
<1> DEFINE b == Tail(q)
           l == Len(q)
<1>1. b \in Seq(S) /\ Len(b) = l - 1 /\ l \in Nat /\ l # 0 /\ \A i \in 1..Len(b) : b[i] = q[i + 1]
  BY HeadTailProperties, EmptySeq
<1>2. DOMAIN b = 1..(l - 1) /\ DOMAIN q = 1..l /\ Head(q) = q[1]
  BY <1>1
<1> HIDE DEF b, l
<1>3. ASSUME NEW m PROVE m \in Elems(q) <=> m = q[1] \/ m \in Elems(b)
  <2>1. ASSUME NEW i \in 1..l, q[i] = m PROVE m = q[1] \/ \E j \in 1..(l - 1) : b[j] = m
    <3>1. CASE i = 1
      BY <2>1, <3>1
    <3>2. CASE i # 1
      <4>1. i - 1 \in 1..(l - 1) /\ (i - 1) + 1 = i
        BY <1>1, <3>2
      <4>2. b[i - 1] = m
        BY <1>1, <2>1, <4>1
      <4> QED
        BY <4>1, <4>2
    <3> QED
      BY <3>1, <3>2
  <2>2. ASSUME NEW j \in 1..(l - 1), b[j] = m PROVE \E i \in 1..l : q[i] = m
    <3>1. j + 1 \in 1..l /\ b[j] = q[j + 1]
      BY <1>1
    <3> QED
      BY <2>2, <3>1
  <2>3. 1 \in 1..l
    BY <1>1
  <2>4. m \in Elems(q) <=> \E i \in 1..l : q[i] = m
    BY <1>2 DEF Elems
  <2>5. m \in Elems(b) <=> \E j \in 1..(l - 1) : b[j] = m
    BY <1>2 DEF Elems
  <2> QED
    BY <2>1, <2>2, <2>3, <2>4, <2>5
<1> QED
  BY <1>2, <1>3 DEF b

\* Steps of a connection that change only its own record give it nothing it
\* did not have.
LEMMA LocalMail ==
    ASSUME OneMailbox, TypeInv, MailInv, NEW c \in Conns,
           \/ SendConnAck(c) \/ ConnectEvent(c) \/ DrainBacklog(c) \/ EnterRun(c)
           \/ ServeFails(c) \/ DisconnectEvent(c)
           \/ Reply(c) \/ Handled(c) \/ Disconnect(c) \/ RunFails(c) \/ Kicked(c)
           \/ \E handler \in Requests : ReadPacket(c, handler)
           \/ Write(c) \/ WriteFails(c) \/ WriterAborts(c)
    PROVE  \A d \in Conns : KeepsMail(conn[d], conn'[d])
<1> DEFINE r == conn[c]
           Goal == \A d \in Conns : KeepsMail(conn[d], conn'[d])
<1>t. conn \in [Conns -> ConnRecord] /\ r \in ConnRecord
  BY DEF TypeInv, TypeOK
<1>u. \A d \in Conns : conn[d].pc # "unsubscribe"
  BY DEF MailInv, GivenOK
<1>q. r.out \in Seq(Packet) /\ r.backlog \in Seq(Msgs) /\ \A m \in Msgs : m # None
  BY <1>t DEF ConnRecord, Msgs, None
<1>1. ASSUME NEW q, conn' = [conn EXCEPT ![c] = q], KeepsMail(r, q)
      PROVE  Goal
  <2>1. conn'[c] = q /\ \A d \in Conns \ {c} : conn'[d] = conn[d]
    BY <1>t, <1>1
  <2>2. \A d \in Conns : KeepsMail(conn[d], conn[d])
    BY <1>u DEF KeepsMail
  <2> QED
    BY <1>1, <2>1, <2>2
<1>2. ASSUME NEW q, q.backlog = r.backlog, q.out = r.out,
             q.pc \in {"drain", "select", "closed", "subscribe", "reply", "ended", r.pc}
      PROVE  KeepsMail(r, q)
  BY <1>2, <1>u DEF KeepsMail, PassedBy
<1>3. ASSUME NEW q, NEW kind \in {"connack", "reply"}, q.pc \in {"hello", "reply"},
             q.backlog = r.backlog, q.out = Put(c, kind, None)
      PROVE  KeepsMail(r, q)
  <2> DEFINE p == [kind |-> kind, msg |-> None]
  <2>1. p \in Packet /\ p.msg = None
    BY DEF Packet
  <2>2. q.out = Append(r.out, p)
    BY <1>3 DEF Put
  <2> HIDE DEF p
  <2>3. Contents(Append(r.out, p)) = Contents(r.out) \cup ({p.msg} \ {None})
    BY <1>q, <2>1, ContentsPut
  <2>4. Contents(q.out) = Contents(r.out)
    BY <2>1, <2>2, <2>3
  <2> QED
    BY <1>3, <2>4 DEF KeepsMail, PassedBy
<1> SUFFICES Goal
  OBVIOUS
<1> HIDE DEF Goal
<1>4. CASE SendConnAck(c)
  <2> DEFINE q == [r EXCEPT !.pc = "hello", !.out = Put(c, "connack", None)]
  <2>1. conn' = [conn EXCEPT ![c] = q]
    BY <1>t, <1>4 DEF SendConnAck
  <2>2. q.pc = "hello" /\ q.backlog = r.backlog /\ q.out = Put(c, "connack", None)
    BY <1>t DEF ConnRecord
  <2> HIDE DEF q, r
  <2>3. KeepsMail(r, q)
    BY <1>3, <2>2
  <2> QED
    BY <1>1, <2>1, <2>3
<1>5. CASE Reply(c)
  <2> DEFINE q == [r EXCEPT !.pc = "reply", !.out = Put(c, "reply", None)]
  <2>1. conn' = [conn EXCEPT ![c] = q]
    BY <1>t, <1>5 DEF Reply
  <2>2. q.pc = "reply" /\ q.backlog = r.backlog /\ q.out = Put(c, "reply", None)
    BY <1>t DEF ConnRecord
  <2> HIDE DEF q, r
  <2>3. KeepsMail(r, q)
    BY <1>3, <2>2
  <2> QED
    BY <1>1, <2>1, <2>3
<1>6. CASE DrainBacklog(c)
  <2> DEFINE h == Head(r.backlog)
             b == Tail(r.backlog)
             p == [kind |-> "backlog", msg |-> h]
             q == [r EXCEPT !.backlog = b, !.out = Append(r.out, p)]
  <2>1. conn' = [conn EXCEPT ![c] = q] /\ r.pc = "drain" /\ r.backlog # << >>
    BY <1>t, <1>6 DEF DrainBacklog, Put
  <2>2. q.pc = "drain" /\ q.backlog = b /\ q.out = Append(r.out, p)
    BY <1>t, <2>1 DEF ConnRecord
  <2>3. h \in Msgs /\ b \in Seq(Msgs)
    BY <1>q, <2>1, HeadTailProperties
  <2>4. p \in Packet /\ p.msg = h /\ h # None
    BY <1>q, <2>3 DEF Packet
  <2> HIDE DEF p, q, r
  <2>5. Contents(q.out) = Contents(r.out) \cup {h}
    BY <1>q, <2>2, <2>4, ContentsPut
  <2>6. Elems(r.backlog) = {h} \cup Elems(b)
    BY <1>q, <2>1, ElemsTail
  <2>7. KeepsMail(r, q)
    BY <2>2, <2>5, <2>6 DEF KeepsMail, PassedBy
  <2> QED
    BY <1>1, <2>1, <2>7
<1>7. ASSUME NEW pc \in {"drain", "select", "closed"}, conn' = [conn EXCEPT ![c].pc = pc]
      PROVE  Goal
  <2> DEFINE q == [r EXCEPT !.pc = pc]
  <2>1. conn' = [conn EXCEPT ![c] = q]
    BY <1>t, <1>7
  <2>2. q.pc = pc /\ q.backlog = r.backlog /\ q.out = r.out
    BY <1>t DEF ConnRecord
  <2> HIDE DEF q, r
  <2>3. KeepsMail(r, q)
    BY <1>2, <2>2
  <2> QED
    BY <1>1, <2>1, <2>3
<1>8. CASE ConnectEvent(c) \/ EnterRun(c) \/ ServeFails(c) \/ Handled(c) \/ DisconnectEvent(c)
  BY <1>7, <1>8 DEF ConnectEvent, EnterRun, ServeFails, Handled, DisconnectEvent
<1>9. ASSUME NEW handler \in Requests, ReadPacket(c, handler)
      PROVE  Goal
  <2> DEFINE q == [r EXCEPT !.pc = handler, !.notified = FALSE]
  <2>1. conn' = [conn EXCEPT ![c] = q]
    BY <1>t, <1>9 DEF ReadPacket
  <2>2. q.pc = handler /\ q.backlog = r.backlog /\ q.out = r.out
    BY <1>t DEF ConnRecord
  <2>3. handler \in {"subscribe", "reply"}
    BY BrokerAssumption DEF OneMailbox
  <2> HIDE DEF q, r
  <2>4. KeepsMail(r, q)
    BY <1>2, <2>2, <2>3
  <2> QED
    BY <1>1, <2>1, <2>4
<1>10. ASSUME NEW will, EndRun(c, will)
       PROVE  Goal
  <2> DEFINE w == IF r.writer = "up" THEN "aborting" ELSE r.writer
             q == [r EXCEPT !.pc = "ended", !.will = will, !.notified = FALSE, !.writer = w]
  <2>1. conn' = [conn EXCEPT ![c] = q]
    BY <1>t, <1>10 DEF EndRun
  <2> HIDE DEF w
  <2>2. q.pc = "ended" /\ q.backlog = r.backlog /\ q.out = r.out
    BY <1>t DEF ConnRecord
  <2> HIDE DEF q, r
  <2>3. KeepsMail(r, q)
    BY <1>2, <2>2
  <2> QED
    BY <1>1, <2>1, <2>3
<1>11. CASE Disconnect(c) \/ RunFails(c) \/ Kicked(c)
  BY <1>10, <1>11 DEF Disconnect, RunFails, Kicked
<1>12. CASE Write(c)
  <2> DEFINE w == r.written + 1
             q == [r EXCEPT !.written = w]
  <2>1. conn' = [conn EXCEPT ![c] = q]
    BY <1>t, <1>12 DEF Write
  <2> HIDE DEF w
  <2>2. q.pc = r.pc /\ q.backlog = r.backlog /\ q.out = r.out
    BY <1>t DEF ConnRecord
  <2> HIDE DEF q, r
  <2>3. KeepsMail(r, q)
    BY <1>2, <2>2
  <2> QED
    BY <1>1, <2>1, <2>3
<1>13. CASE WriteFails(c) \/ WriterAborts(c)
  <2> DEFINE q == [r EXCEPT !.writer = "gone"]
  <2>1. conn' = [conn EXCEPT ![c] = q]
    BY <1>t, <1>13 DEF WriteFails, WriterAborts
  <2>2. q.pc = r.pc /\ q.backlog = r.backlog /\ q.out = r.out
    BY <1>t DEF ConnRecord
  <2> HIDE DEF q, r
  <2>3. KeepsMail(r, q)
    BY <1>2, <2>2
  <2> QED
    BY <1>1, <2>1, <2>3
<1> QED
  BY <1>4, <1>5, <1>6, <1>8, <1>9, <1>11, <1>12, <1>13

\* A wakeup gives a connection nothing.
LEMMA NotifyMail ==
    ASSUME MailInv, TypeInv, NEW k
    PROVE  \A d \in Conns : KeepsMail(conn[d], notify_waiters(conn, k)[d])
<1> SUFFICES ASSUME NEW d \in Conns
             PROVE  KeepsMail(conn[d], notify_waiters(conn, k)[d])
  OBVIOUS
<1> DEFINE r == conn[d]
           n == [r EXCEPT !.notified = TRUE]
           q == notify_waiters(conn, k)[d]
<1>1. r \in ConnRecord /\ r.pc # "unsubscribe"
  BY DEF TypeInv, TypeOK, MailInv, GivenOK
<1>2. n.pc = r.pc /\ n.backlog = r.backlog /\ n.out = r.out
  BY <1>1 DEF ConnRecord
<1>3. q \in {r, n}
  BY DEF notify_waiters
<1> HIDE DEF r, n, q
<1>4. q.pc = r.pc /\ q.backlog = r.backlog /\ q.out = r.out
  BY <1>2, <1>3
<1>5. KeepsMail(r, q)
  BY <1>1, <1>4 DEF KeepsMail, PassedBy
<1> QED
  BY <1>5 DEF r, q

\* A new connection brings and takes nothing.
LEMMA AttachingMail ==
    ASSUME TypeInv, KeptInv, MailInv, pubs' = pubs, NEW c \in Conns, c > made.conn,
           NEW clean, NEW s, NEW present, conn' = Attaching(conn, c, clean, s, present)
    PROVE  /\ Given' = Given
           /\ \A d \in Conns : GivenOK(conn'[d], pubs') /\ (conn'[d].pc = "insert" => conn[d].pc = "insert")
<1> DEFINE q == [FreeConn EXCEPT !.pc = "attach", !.clean = clean, !.sess = s,
                                 !.present = present, !.writer = "up"]
<1>1. conn'[c] = q /\ \A d \in Conns \ {c} : conn'[d] = conn[d]
  BY DEF TypeInv, TypeOK, Attaching
<1>2. q.pc = "attach" /\ q.backlog = << >> /\ q.out = << >>
  BY DEF FreeConn
<1> HIDE DEF q
<1>3. PassedBy(q) = {}
  BY <1>2 DEF PassedBy, Elems, Contents
<1>4. PassedBy(conn[c]) = {}
  BY DEF KeptInv, OneSession, MailInv, GivenOK
<1>5. \A d \in Conns : PassedBy(conn'[d]) = PassedBy(conn[d])
  BY <1>1, <1>3, <1>4
<1>6. Given' = Given
  <2>1. Given = UNION {PassedBy(conn[d]) : d \in Conns}
    BY PassedIs DEF Given
  <2>2. Given' = UNION {PassedBy(conn'[d]) : d \in Conns}
    BY DEF Given, Passed, PassedBy, Elems, Contents
  <2> QED
    BY <1>5, <2>1, <2>2
<1>7. ASSUME NEW d \in Conns PROVE GivenOK(conn'[d], pubs)
  <2>1. CASE d = c
    BY <1>1, <1>2, <1>3, <2>1 DEF GivenOK
  <2>2. CASE d # c
    BY <1>1, <2>2 DEF MailInv
  <2> QED
    BY <2>1, <2>2
<1>8. \A d \in Conns : conn'[d].pc = "insert" => conn[d].pc = "insert"
  BY <1>1, <1>2
<1> QED
  BY <1>6, <1>7, <1>8

\* CONNECT: the session is the one there is, or made with an empty queue.
LEMMA MailArrive ==
    ASSUME OneMailbox, TypeInv, KeptInv, MailInv, NEW c \in Conns,
           AttachExisting(c) \/ \E clean \in CleanFlags : AttachNew(c, clean)
    PROVE  MailInv' /\ UNCHANGED Box!vars
<1>t. /\ sess \in [Sessions -> SessionRecord] /\ 1 \in Sessions /\ made.conn \in Nat
      /\ made \in [sess : 0..MaxSessions, conn : 0..MaxConns, task : 0..MaxTasks]
      /\ disk \in DiskRecord
  BY DEF TypeInv, TypeOK, OneMailbox
<1>1. c > made.conn /\ UNCHANGED <<task, node, pubs>>
  <2>1. c = made.conn + 1 /\ UNCHANGED <<task, node, pubs>>
    BY DEF AttachExisting, AttachNew, NewConn
  <2> QED
    BY <1>t, <2>1
<1>2. \E clean, s, present : conn' = Attaching(conn, c, clean, s, present)
  BY DEF AttachExisting, AttachNew
<1>3. /\ Given' = Given
      /\ \A d \in Conns : GivenOK(conn'[d], pubs') /\ (conn'[d].pc = "insert" => conn[d].pc = "insert")
  BY <1>1, <1>2, AttachingMail
<1>4. /\ made'.task = made.task /\ sess'[1].queue = sess[1].queue
      /\ sess'[1].dropped = sess[1].dropped /\ Unused'
      /\ \A f \in Filters : sess[1].subs[f] = None => sess'[1].subs[f] = None
  <2>1. CASE AttachExisting(c)
    <3>1. UNCHANGED <<registry, sess, disk>> /\ made' = [made EXCEPT !.conn = c]
      BY <2>1 DEF AttachExisting
    <3>2. made'.task = made.task /\ made'.sess = made.sess
      BY <1>t, <3>1
    <3>3. Unused'
      BY <3>1, <3>2 DEF MailInv, Unused
    <3> QED
      BY <3>1, <3>2, <3>3
  <2>2. ASSUME NEW clean \in CleanFlags, AttachNew(c, clean)
        PROVE  /\ made'.task = made.task /\ sess'[1].queue = sess[1].queue
               /\ sess'[1].dropped = sess[1].dropped /\ Unused'
               /\ \A f \in Filters : sess[1].subs[f] = None => sess'[1].subs[f] = None
    <3>1. registry = None /\ made' = [made EXCEPT !.conn = c, !.sess = made.sess + 1]
      BY <2>2 DEF AttachNew
    <3>2. made.sess = 0 /\ disk.queue = << >> /\ sess[1].queue = << >> /\ sess[1].dropped = 0
      BY <3>1 DEF MailInv, Unused
    <3> DEFINE kept == IF clean THEN NoFiles ELSE disk
               r    == new(~clean /\ DataDir, kept.queue)
    <3>3. sess' = [sess EXCEPT ![1] = r] /\ registry' = 1 /\ disk' = kept
      BY <2>2, <3>2 DEF AttachNew
    <3>4. kept.queue = << >>
      BY <3>2 DEF NoFiles
    <3> HIDE DEF kept
    <3>5. load_queue(<< >>) = << >>
      BY ConstantsAssumption DEF load_queue
    <3>6. r.queue = << >> /\ r.dropped = 0 /\ r.subs = NoSubs
      BY <3>4, <3>5 DEF new
    <3> HIDE DEF r
    <3>7. sess'[1] = r
      BY <1>t, <3>3
    <3>8. made'.task = made.task
      BY <1>t, <3>1
    <3>9. Unused'
      BY <3>3 DEF Unused, None
    <3> QED
      BY <3>2, <3>6, <3>7, <3>8, <3>9 DEF NoSubs
  <2> QED
    BY <2>1, <2>2
<1>5. Waiting' = Waiting
  BY <1>1, <1>4 DEF Waiting
<1>6. Inserting'
  BY <1>3, <1>4 DEF MailInv, Inserting
<1>7. MailInv'
  <2>1. CarriesOK(task'[1], sess'[1].queue) /\ node'.state = "up"
    BY <1>1, <1>4 DEF MailInv
  <2>2. made'.task = 0 => task'[1].pc = "free" /\ task'[1].inbox = << >> /\ task'[1].msg = None
    BY <1>1, <1>4 DEF MailInv
  <2> QED
    BY <1>3, <1>4, <1>6, <2>1, <2>2 DEF MailInv
<1> QED
  BY <1>3, <1>4, <1>5, <1>7, BoxStutters

\* A step that hands over the oldest messages of the box.
LEMMA BoxHands ==
    ASSUME NEW n \in 1..Len(Waiting), Waiting' = SubSeq(Waiting, n + 1, Len(Waiting)),
           Given' = Given \cup {Waiting[i] : i \in 1..n}, sess'[1].dropped = sess[1].dropped
    PROVE  Box!Next
<1>1. Box!Hand(n)
  BY DEF Box!Hand, Waiting, Given
<1> QED
  BY <1>1 DEF Box!Next, Waiting

\* The only session that there is.
LEMMA HomeIsOne ==
    ASSUME TypeInv, KeptInv, MailInv
    PROVE  /\ \A c \in Conns : conn[c].pc \notin {"free", "closed", "replace"} => conn[c].sess = 1
           /\ \A t \in Tasks : task[t].pc \notin {"free", "dead"} => task[t].sess = 1
<1>1. \A s \in Sessions : s # None
  BY DEF Sessions, None
<1>2. \A c \in Conns : conn[c].pc \notin {"free", "closed", "replace"} => conn[c].sess = 1
  BY <1>1 DEF TypeInv, HandlesOK, ConnHandlesOK, KeptInv, OneSession, MailInv, Unused
<1>3. \A t \in Tasks : task[t].pc \notin {"free", "dead"} => task[t].sess = 1
  BY <1>1 DEF TypeInv, HandlesOK, TaskHandlesOK, KeptInv, OneSession, Home, MailInv, Unused
<1> QED
  BY <1>2, <1>3

\* attach_conn hands the whole queue over.
LEMMA MailAttach ==
    ASSUME OneMailbox, TypeInv, KeptInv, OrderInv, MailInv, NEW c \in Conns, AttachConn(c)
    PROVE  MailInv' /\ [Box!Next]_(Box!vars)
<1> DEFINE k == sess[1].kick
           q == sess[1].queue
           h == InHand(task[1])
           x == task[1].inbox
           w == notify_waiters(conn, k)
           e == sess'[1].epoch
           r == [w[c] EXCEPT !.pc = "discard", !.epoch = e, !.backlog = q]
<1>t. /\ sess \in [Sessions -> SessionRecord] /\ conn \in [Conns -> ConnRecord]
      /\ task \in [Tasks -> TaskRecord] /\ 1 \in Sessions /\ 1 \in Tasks
  BY DEF TypeInv, TypeOK, OneMailbox, Tasks
<1>s. conn[c].pc = "attach" /\ conn[c].sess = 1
  BY HomeIsOne DEF AttachConn
<1>1. /\ UNCHANGED <<registry, task, disk, node, made, pubs>>
      /\ sess' = [sess EXCEPT ![1] = attach_conn(sess[1], c)]
      /\ conn' = [w EXCEPT ![c].pc = "discard", ![c].epoch = e, ![c].backlog = q]
  BY <1>s, <1>t DEF AttachConn
<1>2. q \in Seq(Msgs) /\ h \in Seq(Msgs) /\ x \in Seq(Msgs)
  BY <1>t DEF SessionRecord, TaskRecord, InHand
<1>3. /\ sess'[1].queue = << >> /\ sess'[1].dropped = sess[1].dropped
      /\ sess'[1].subs = sess[1].subs
  <2>1. sess'[1] = attach_conn(sess[1], c) /\ sess[1] \in SessionRecord
    BY <1>1, <1>t
  <2> QED
    BY <2>1 DEF attach_conn, SessionRecord
<1>w. w \in [Conns -> ConnRecord] /\ \A d \in Conns : KeepsMail(conn[d], w[d])
  BY <1>t, NotifyType, NotifyMail
<1> HIDE DEF w, e, q
<1>4. conn'[c] = r /\ \A d \in Conns \ {c} : conn'[d] = w[d]
  BY <1>1, <1>w
<1>5. r.pc = "discard" /\ r.backlog = q /\ r.out = w[c].out
  BY <1>w DEF ConnRecord
<1>6. /\ w[c].pc = "attach" /\ w[c].out = conn[c].out
      /\ conn[c].backlog = << >>
  BY <1>t, <1>s, NotifyType DEF w, MailInv, GivenOK
<1> HIDE DEF r
<1>7. PassedBy(r) = PassedBy(conn[c]) \cup Elems(q)
  BY <1>5, <1>6 DEF PassedBy, Elems
<1>8. Given' = Given \cup Elems(q)
  <2>1. Given = UNION {PassedBy(conn[d]) : d \in Conns}
    BY PassedIs DEF Given
  <2>2. Given' = UNION {PassedBy(conn'[d]) : d \in Conns}
    BY DEF Given, Passed, PassedBy, Elems, Contents
  <2>3. \A d \in Conns \ {c} : PassedBy(conn'[d]) = PassedBy(conn[d])
    BY <1>4, <1>w DEF KeepsMail
  <2> QED
    BY <1>4, <1>7, <2>1, <2>2, <2>3
<1>9. Elems(q) = {q[i] : i \in 1..Len(q)} /\ \A m \in Elems(q) : m <= pubs
  <2>1. \A i \in 1..Len(q) : q[i] < pubs + 1 /\ q[i] \in Msgs
    BY <1>t, <1>2 DEF OrderInv, QueueLines, QueueLine, Below, q
  <2>2. \A m \in Msgs : m \in Nat
    BY DEF Msgs
  <2>3. pubs \in Nat
    BY ConstantsAssumption DEF TypeInv, TypeOK
  <2>4. \A i \in 1..Len(q) : q[i] <= pubs
    BY <2>1, <2>2, <2>3
  <2>5. Elems(q) = {q[i] : i \in 1..Len(q)}
    BY <1>2 DEF Elems
  <2> QED
    BY <2>4, <2>5
<1>10. ASSUME NEW d \in Conns PROVE GivenOK(conn'[d], pubs)
  <2>1. CASE d = c
    BY <1>4, <1>5, <1>7, <1>9, <2>1 DEF GivenOK, MailInv
  <2>2. CASE d # c
    <3>1. conn'[d] = w[d] /\ KeepsMail(conn[d], w[d])
      BY <1>4, <1>w, <2>2
    <3>2. GivenOK(conn[d], pubs)
      BY DEF MailInv
    <3> QED
      BY <3>1, <3>2 DEF GivenOK, KeepsMail
  <2> QED
    BY <2>1, <2>2
<1>11. MailInv'
  <2>1. Unused'
    BY <1>1, <1>3 DEF MailInv, Unused
  <2>2. \A d \in Conns : conn'[d].pc = "insert" => conn[d].pc = "insert"
    BY <1>4, <1>5, <1>w DEF KeepsMail
  <2>3. Inserting'
    BY <1>3, <2>2 DEF MailInv, Inserting
  <2>4. CarriesOK(task'[1], sess'[1].queue) /\ node'.state = "up"
    BY <1>1, <1>3 DEF MailInv, CarriesOK
  <2>5. made'.task = 0 => task'[1].pc = "free" /\ task'[1].inbox = << >> /\ task'[1].msg = None
    BY <1>1 DEF MailInv
  <2> QED
    BY <1>1, <1>10, <2>1, <2>3, <2>4, <2>5 DEF MailInv
<1>12. [Box!Next]_(Box!vars)
  <2>1. Waiting = q \o h \o x /\ Waiting' = << >> \o h \o x
    BY <1>1, <1>3 DEF Waiting, q, InHand
  <2> HIDE DEF h, x
  <2>2. CASE q = << >>
    <3>1. Waiting' = Waiting /\ Elems(q) = {}
      BY <2>1, <2>2 DEF Elems
    <3> QED
      BY <1>3, <1>8, <3>1, BoxStutters
  <2>3. CASE q # << >>
    <3> DEFINE n == Len(q)
    <3>1. /\ Len(Waiting) = n + Len(h) + Len(x)
          /\ SubSeq(Waiting, n + 1, Len(Waiting)) = << >> \o h \o x
          /\ \A i \in 1..n : Waiting[i] = q[i]
      <4>1. q \in Seq(Msgs)
        BY <1>2
      <4>2. h \in Seq(Msgs)
        BY <1>2 DEF h
      <4>3. x \in Seq(Msgs)
        BY <1>2 DEF x
      <4>4. /\ Len(q \o h \o x) = Len(q) + Len(h) + Len(x)
            /\ SubSeq(q \o h \o x, Len(q) + 1, Len(q \o h \o x)) = << >> \o h \o x
            /\ \A i \in 1..Len(q) : (q \o h \o x)[i] = q[i]
        BY <4>1, <4>2, <4>3, BoxParts
      <4>5. Waiting = q \o h \o x
        BY <2>1
      <4> QED
        BY <4>4, <4>5
    <3>2. n \in Nat /\ n # 0 /\ Len(h) \in Nat /\ Len(x) \in Nat
      BY <1>2, <2>3, EmptySeq
    <3>3. n \in 1..Len(Waiting)
      BY <3>1, <3>2
    <3>4. {Waiting[i] : i \in 1..n} = Elems(q)
      BY <1>9, <3>1
    <3> HIDE DEF n
    <3>5. Box!Next
      BY <1>3, <1>8, <2>1, <3>1, <3>3, <3>4, BoxHands
    <3> QED
      BY <3>5
  <2> QED
    BY <2>2, <2>3
<1> QED
  BY <1>11, <1>12

\* Steps of a connection the box does not see: its own, the end of
\* attach_conn and detach_conn.
LEMMA MailLocal ==
    ASSUME OneMailbox, TypeInv, MailInv, NEW c \in Conns,
           \/ SendConnAck(c) \/ ConnectEvent(c) \/ DrainBacklog(c) \/ EnterRun(c)
           \/ ServeFails(c) \/ DisconnectEvent(c)
           \/ Reply(c) \/ Handled(c) \/ Disconnect(c) \/ RunFails(c) \/ Kicked(c)
           \/ \E handler \in Requests : ReadPacket(c, handler)
           \/ Write(c) \/ WriteFails(c) \/ WriterAborts(c)
    PROVE  MailInv' /\ UNCHANGED Box!vars
<1>1. UNCHANGED <<registry, sess, task, disk, node, made>>
  BY LocalEffect
<1>2. \A d \in Conns : KeepsMail(conn[d], conn'[d])
  BY LocalMail
<1>3. pubs' = pubs
  BY DEF SendConnAck, ConnectEvent, DrainBacklog, EnterRun, ServeFails, DisconnectEvent,
         Reply, Handled, Disconnect, RunFails, Kicked, EndRun, ReadPacket, Write, WriteFails,
         WriterAborts
<1> QED
  BY <1>1, <1>2, <1>3, MailFrame

\* A connection that only goes on to another place.
LEMMA MovesOn ==
    ASSUME TypeInv, MailInv, NEW c \in Conns, NEW pc \in {"connack", "purge", "bye"},
           conn' = [conn EXCEPT ![c].pc = pc]
    PROVE  \A d \in Conns : KeepsMail(conn[d], conn'[d])
<1> DEFINE r == conn[c]
           q == [r EXCEPT !.pc = pc]
<1>1. conn \in [Conns -> ConnRecord] /\ r \in ConnRecord
  BY DEF TypeInv, TypeOK
<1>2. conn'[c] = q /\ \A d \in Conns \ {c} : conn'[d] = conn[d]
  BY <1>1
<1>3. q.pc = pc /\ q.backlog = r.backlog /\ q.out = r.out
  BY <1>1 DEF ConnRecord
<1>4. \A d \in Conns : conn[d].pc # "unsubscribe"
  BY DEF MailInv, GivenOK
<1> HIDE DEF r, q
<1>5. KeepsMail(r, q)
  BY <1>3 DEF KeepsMail, PassedBy
<1>6. \A d \in Conns : KeepsMail(conn[d], conn[d])
  BY <1>4 DEF KeepsMail
<1> QED
  BY <1>2, <1>5, <1>6 DEF r

LEMMA MailLeave ==
    ASSUME OneMailbox, TypeInv, KeptInv, MailInv, NEW c \in Conns,
           DiscardQueueFile(c) \/ DetachConn(c)
    PROVE  MailInv' /\ UNCHANGED Box!vars
<1>t. /\ sess \in [Sessions -> SessionRecord] /\ disk \in DiskRecord /\ 1 \in Sessions
  BY DEF TypeInv, TypeOK, OneMailbox
<1>1. CASE DiscardQueueFile(c)
  <2>1. /\ UNCHANGED <<registry, sess, task, node, made, pubs>>
        /\ disk' = discard_queue_file(disk, sess[conn[c].sess])
        /\ conn' = [conn EXCEPT ![c].pc = "connack"]
    BY <1>1 DEF DiscardQueueFile
  <2>2. disk'.queue \in {disk.queue, << >>}
    BY <1>t, <2>1, DiskKeeps
  <2>3. \A d \in Conns : KeepsMail(conn[d], conn'[d])
    BY <2>1, MovesOn
  <2> QED
    BY <2>1, <2>2, <2>3, MailFrame
<1>2. CASE DetachConn(c)
  <2> DEFINE e  == conn[c].epoch
             pc == IF OwnsSession(sess[1], e) /\ conn[c].clean THEN "purge" ELSE "bye"
  <2>1. conn[c].sess = 1
    BY <1>2, HomeIsOne DEF DetachConn
  <2>2. /\ UNCHANGED <<registry, task, disk, node, made, pubs>>
        /\ sess' = [sess EXCEPT ![1] = detach_conn(sess[1], e)]
        /\ conn' = [conn EXCEPT ![c].pc = pc]
    BY <1>2, <2>1 DEF DetachConn
  <2>3. /\ sess'[1].subs = sess[1].subs /\ sess'[1].queue = sess[1].queue
        /\ sess'[1].dropped = sess[1].dropped
    <3>1. sess'[1] = detach_conn(sess[1], e) /\ sess[1] \in SessionRecord
      BY <1>t, <2>2
    <3> QED
      BY <3>1 DEF detach_conn, SessionRecord
  <2>4. pc \in {"connack", "purge", "bye"}
    OBVIOUS
  <2> HIDE DEF pc
  <2>5. \A d \in Conns : KeepsMail(conn[d], conn'[d])
    BY <2>2, <2>4, MovesOn
  <2> QED
    BY <2>2, <2>3, <2>5, MailFrame
<1> QED
  BY <1>1, <1>2

\* The subscription is the only one, and takes no other one's place.
LEMMA MailSubs ==
    ASSUME OneMailbox, TypeInv, KeptInv, MailInv, NEW c \in Conns,
           InsertSub(c) \/ \E f \in Filters, req \in ReqQoS : Subscribe(c, f, req)
    PROVE  MailInv' /\ UNCHANGED Box!vars
<1> DEFINE r == conn[c]
<1>t. /\ sess \in [Sessions -> SessionRecord] /\ disk \in DiskRecord /\ 1 \in Sessions
      /\ conn \in [Conns -> ConnRecord] /\ task \in [Tasks -> TaskRecord] /\ 1 \in Tasks
      /\ made.task \in 0..1 /\ Tasks = 1..1 /\ r \in ConnRecord
      /\ made \in [sess : 0..MaxSessions, conn : 0..MaxConns, task : 0..MaxTasks]
  BY DEF TypeInv, TypeOK, OneMailbox, Tasks
<1>u. \A d \in Conns : conn[d].pc # "unsubscribe"
  BY DEF MailInv, GivenOK
<1>1. CASE InsertSub(c)
  <2> DEFINE f == r.filter
             q == [r EXCEPT !.pc = "subscribe", !.filter = None, !.task = None]
  <2>1. r.sess = 1 /\ r.pc = "insert"
    BY <1>1, HomeIsOne DEF InsertSub
  <2>2. sess[1].subs[f] = None
    BY <2>1 DEF MailInv, Inserting, TypeInv, HandlesOK, ConnHandlesOK
  <2>3. /\ UNCHANGED <<registry, node, made, pubs>>
        /\ sess' = [sess EXCEPT ![1] = insert_sub(sess[1], f, r.task)]
        /\ task' = Abort(task, {None})
        /\ disk' = persist_subs(disk, sess'[1], QoSOf(task))
        /\ conn' = [conn EXCEPT ![c] = q]
    BY <1>1, <1>t, <2>1, <2>2 DEF InsertSub
  <2>4. task'[1] = task[1]
    BY <1>t, <2>3 DEF Abort, None
  <2>5. disk'.queue = disk.queue
    BY <1>t, <2>3, DiskKeeps
  <2>6. sess'[1].queue = sess[1].queue /\ sess'[1].dropped = sess[1].dropped
    <3>1. sess'[1] = insert_sub(sess[1], f, r.task) /\ sess[1] \in SessionRecord
      BY <1>t, <2>3
    <3> QED
      BY <3>1 DEF insert_sub, SessionRecord
  <2>7. conn'[c] = q /\ \A d \in Conns \ {c} : conn'[d] = conn[d]
    BY <1>t, <2>3
  <2>8. q.pc = "subscribe" /\ q.backlog = r.backlog /\ q.out = r.out
    BY <1>t DEF ConnRecord
  <2> HIDE DEF q
  <2>9. KeepsMail(r, q)
    BY <2>8 DEF KeepsMail, PassedBy
  <2>10. \A d \in Conns : KeepsMail(conn[d], conn'[d])
    <3>1. \A d \in Conns : KeepsMail(conn[d], conn[d])
      BY <1>u DEF KeepsMail
    <3> QED
      BY <2>7, <2>9, <3>1
  <2>11. Given' = Given /\ \A d \in Conns : GivenOK(conn'[d], pubs')
    BY <2>3, <2>10, GivenFrame
  <2>12. Unused'
    BY <2>3, <2>5, <2>6 DEF MailInv, Unused
  <2>13. Inserting'
    <3>1. \A d \in Conns : conn'[d].pc # "insert"
      BY <2>1, <2>7, <2>8 DEF MailInv, Inserting
    <3> QED
      BY <3>1 DEF Inserting
  <2>14. CarriesOK(task'[1], sess'[1].queue) /\ node'.state = "up"
    BY <2>3, <2>4, <2>6 DEF MailInv
  <2>15. made'.task = 0 => task'[1].pc = "free" /\ task'[1].inbox = << >> /\ task'[1].msg = None
    BY <2>3, <2>4 DEF MailInv
  <2>16. MailInv'
    BY <2>11, <2>12, <2>13, <2>14, <2>15 DEF MailInv
  <2>17. Waiting' = Waiting
    BY <2>4, <2>6 DEF Waiting
  <2> QED
    BY <2>6, <2>11, <2>16, <2>17, BoxStutters
<1>2. ASSUME NEW f \in Filters, NEW req \in ReqQoS, Subscribe(c, f, req)
      PROVE  MailInv' /\ UNCHANGED Box!vars
  <2> DEFINE q == [r EXCEPT !.pc = "insert", !.filter = f, !.task = 1]
             k == [FreeTask EXCEPT !.pc = "recv", !.sess = r.sess, !.filter = f, !.qos = 1]
  <2>1. made.task = 0
    <3>1. made.task + 1 \in Tasks
      BY <1>2 DEF Subscribe
    <3>2. made.task \in 0..1 /\ Tasks = 1..1
      BY <1>t
    <3> QED
      BY <3>1, <3>2
  <2>2. Granted(req) = 1
    BY DEF OneMailbox, Granted
  <2>3. /\ UNCHANGED <<registry, sess, disk, node, pubs>>
        /\ task' = [task EXCEPT ![1] = k]
        /\ made' = [made EXCEPT !.task = 1]
        /\ conn' = [conn EXCEPT ![c] = q]
        /\ r.pc = "subscribe"
    <3>1. /\ task' = Spawn(task, made.task + 1, r.sess, f, Granted(req))
          /\ made' = [made EXCEPT !.task = made.task + 1]
          /\ conn' = [conn EXCEPT ![c].pc = "insert", ![c].filter = f, ![c].task = made.task + 1]
          /\ UNCHANGED <<registry, sess, disk, node, pubs>> /\ r.pc = "subscribe"
      BY <1>2 DEF Subscribe
    <3>2. made.task + 1 = 1
      BY <2>1
    <3> QED
      BY <1>t, <2>2, <3>1, <3>2 DEF Spawn
  <2>4. task'[1] = k /\ k.pc = "recv" /\ k.qos = 1 /\ k.msg = None /\ k.inbox = << >> /\ ~k.aborted
    BY <1>t, <2>3 DEF FreeTask
  <2> HIDE DEF k
  <2>5. task[1].inbox = << >> /\ task[1].msg = None
    BY <2>1 DEF MailInv
  <2>6. conn'[c] = q /\ \A d \in Conns \ {c} : conn'[d] = conn[d]
    BY <1>t, <2>3
  <2>7. q.pc = "insert" /\ q.backlog = r.backlog /\ q.out = r.out
    BY <1>t DEF ConnRecord
  <2> HIDE DEF q
  <2>8. PassedBy(q) = PassedBy(r)
    BY <2>7 DEF PassedBy
  <2>9. Given' = Given
    <3>1. Given = UNION {PassedBy(conn[d]) : d \in Conns}
      BY PassedIs DEF Given
    <3>2. Given' = UNION {PassedBy(conn'[d]) : d \in Conns}
      BY DEF Given, Passed, PassedBy, Elems, Contents
    <3>3. \A d \in Conns : PassedBy(conn'[d]) = PassedBy(conn[d])
      BY <2>6, <2>8
    <3> QED
      BY <3>1, <3>2, <3>3
  <2>10. ASSUME NEW d \in Conns PROVE GivenOK(conn'[d], pubs)
    <3>1. GivenOK(r, pubs) /\ GivenOK(conn[d], pubs)
      BY DEF MailInv
    <3>2. GivenOK(q, pubs)
      BY <2>7, <2>8, <3>1 DEF GivenOK
    <3> QED
      BY <2>6, <3>1, <3>2
  <2>11. \A d \in Conns : conn[d].pc # "insert"
    BY <1>t, <2>1 DEF KeptInv, KnownTasks, TypeInv, HandlesOK, ConnHandlesOK
  <2>12. \A g \in Filters : sess[1].subs[g] = None
    <3>1. ASSUME NEW g \in Filters PROVE sess[1].subs[g] = None
      <4>1. sess[1].subs[g] \in Tasks \cup {None} /\ sess[1].subs[g] <= made.task
        BY <1>t DEF SessionRecord, KeptInv, KnownTasks
      <4> QED
        BY <1>t, <2>1, <4>1 DEF None
    <3> QED
      BY <3>1
  <2>13. Inserting'
    BY <2>3, <2>6, <2>11, <2>12 DEF Inserting
  <2>14. made'.task = 1 /\ made'.sess = made.sess
    BY <1>t, <2>3
  <2>15. Unused'
    BY <2>3, <2>14 DEF MailInv, Unused
  <2>16. CarriesOK(task'[1], sess'[1].queue)
    BY <2>4 DEF CarriesOK
  <2>17. MailInv'
    BY <2>3, <2>10, <2>13, <2>14, <2>15, <2>16 DEF MailInv
  <2>18. Waiting' = Waiting
    BY <2>3, <2>4, <2>5 DEF Waiting, InHand
  <2> QED
    BY <2>3, <2>9, <2>17, <2>18, BoxStutters
<1> QED
  BY <1>1, <1>2

\* What nobody does: there is one session for ever, and no UNSUBSCRIBE.
LEMMA NeverDone ==
    ASSUME OneMailbox, TypeInv, KeptInv, MailInv
    PROVE  /\ \A c \in Conns :
                /\ ~ReplaceSession(c) /\ ~Purge(c) /\ ~Unmap(c) /\ ~DiscardExisting(c)
                /\ ~\E f \in Filters : Unsubscribe(c, f)
           /\ ~SweepStep /\ ~Crash /\ ~StartupStep
<1>1. ASSUME NEW c \in Conns
      PROVE  /\ ~ReplaceSession(c) /\ ~Purge(c) /\ ~Unmap(c) /\ ~DiscardExisting(c)
             /\ ~\E f \in Filters : Unsubscribe(c, f)
  <2>1. conn[c].pc \notin {"replace", "purge", "unmap"} /\ conn[c].pc # "unsubscribe"
    BY DEF KeptInv, OneSession, MailInv, GivenOK
  <2>2. ~DiscardExisting(c)
    BY DEF DiscardExisting, OneMailbox, NothingDiscards
  <2> QED
    BY <2>1, <2>2 DEF ReplaceSession, Purge, Unmap, Unsubscribe
<1>2. ~SweepStep
  BY DEF SweepStep, SweepRetain, SweepAbort, SweepDiscard, KeptInv, OneSession, OneMailbox,
         NothingDiscards
<1>3. ~Crash
  BY DEF Crash, OneMailbox, TypeInv, TypeOK
<1>4. ~StartupStep
  BY DEF StartupStep, Restart, Rehydrate, RehydrateSkips, RehydrateDone, MailInv
<1> QED
  BY <1>1, <1>2, <1>3, <1>4

\* The task that works has a message and belongs to the registered session.
LEMMA TaskAtWork ==
    ASSUME OneMailbox, TypeInv, KeptInv, MailInv, task[1].pc \notin {"free", "dead"}
    PROVE  /\ task[1].sess = 1 /\ registry = 1 /\ made.task # 0
           /\ sess[1] \in SessionRecord /\ sess[1].queue \in Seq(Msgs)
           /\ task[1] \in TaskRecord /\ task[1].inbox \in Seq(Msgs)
           /\ (task[1].pc # "recv" => task[1].msg \in Msgs)
<1>1. 1 \in Sessions /\ 1 \in Tasks
  BY DEF OneMailbox, Tasks
<1>2. sess[1] \in SessionRecord /\ task[1] \in TaskRecord
  BY <1>1 DEF TypeInv, TypeOK
<1>3. task[1].sess = 1
  BY <1>1, HomeIsOne
<1>4. registry = 1
  BY <1>1, <1>3 DEF MailInv, Unused, KeptInv, OneSession, Home, None
<1>5. task[1].pc # "recv" => task[1].msg \in Msgs
  BY <1>1, <1>2 DEF TypeInv, HandlesOK, TaskHandlesOK, TaskRecord, TaskPC
<1> QED
  BY <1>2, <1>3, <1>4, <1>5 DEF MailInv, SessionRecord, TaskRecord

\* A step of the task that gives no connection anything and leaves the
\* queue alone.
LEMMA MailTaskFrame ==
    ASSUME OneMailbox, TypeInv, KeptInv, MailInv, task[1].pc \notin {"free", "dead"},
           UNCHANGED <<registry, node, made, pubs>>,
           sess'[1].subs = sess[1].subs, sess'[1].queue = sess[1].queue,
           sess'[1].dropped = sess[1].dropped,
           \A d \in Conns : KeepsMail(conn[d], conn'[d]),
           CarriesOK(task'[1], sess[1].queue), Waiting' = Waiting
    PROVE  MailInv' /\ UNCHANGED Box!vars
<1>1. registry = 1 /\ made.task # 0
  BY TaskAtWork
<1>2. Given' = Given /\ \A d \in Conns : GivenOK(conn'[d], pubs')
  BY GivenFrame
<1>3. Inserting'
  BY DEF MailInv, Inserting, KeepsMail
<1>4. Unused'
  BY <1>1 DEF Unused, None
<1>5. MailInv'
  BY <1>1, <1>2, <1>3, <1>4 DEF MailInv
<1> QED
  BY <1>2, <1>5, BoxStutters

\* Steps of deliver that keep the message in its hands.
LEMMA MailHolds ==
    ASSUME OneMailbox, TypeInv, KeptInv, MailInv,
           \/ ReadSink(1) \/ SendWaits(1) \/ SendClosed(1) \/ SendTimesOut(1)
           \/ EvictSlow(1) \/ ClearSink(1) \/ (Enqueue(1) /\ ~StillOffline(sess[task[1].sess])),
           QueueInv
    PROVE  MailInv' /\ UNCHANGED Box!vars
<1> DEFINE k == task[1]
           q == sess[1].queue
<1>t. /\ sess \in [Sessions -> SessionRecord] /\ task \in [Tasks -> TaskRecord]
      /\ 1 \in Sessions /\ 1 \in Tasks /\ k \in TaskRecord
  BY DEF TypeInv, TypeOK, OneMailbox, Tasks
<1>1. k.pc \notin {"free", "dead", "recv"}
  BY DEF ReadSink, SendWaits, SendClosed, SendTimesOut, EvictSlow, ClearSink, Enqueue
<1>2. k.sess = 1 /\ sess[1] \in SessionRecord
  BY <1>1, TaskAtWork
<1>c. CarriesOK(k, q)
  BY DEF MailInv
<1>3. UNCHANGED <<registry, node, made, pubs>>
  BY DEF ReadSink, SendWaits, SendClosed, SendTimesOut, EvictSlow, ClearSink, Enqueue
<1>4. /\ sess'[1].subs = sess[1].subs /\ sess'[1].queue = q /\ sess'[1].dropped = sess[1].dropped
  <2>1. CASE UNCHANGED sess
    BY <2>1
  <2>2. CASE sess' = [sess EXCEPT ![1] = take_offline(@, k.tx)]
    <3>1. sess'[1] = take_offline(sess[1], k.tx)
      BY <1>t, <2>2
    <3> QED
      BY <1>2, <3>1 DEF take_offline, SessionRecord
  <2> QED
    BY <1>2, <2>1, <2>2 DEF ReadSink, SendWaits, SendClosed, SendTimesOut, EvictSlow, ClearSink, Enqueue
<1>5. \A d \in Conns : KeepsMail(conn[d], conn'[d])
  <2>1. \A d \in Conns : KeepsMail(conn[d], conn[d])
    BY DEF MailInv, GivenOK, KeepsMail
  <2>2. \A d \in Conns : KeepsMail(conn[d], notify_waiters(conn, sess[1].kick)[d])
    BY NotifyMail
  <2>3. conn' = conn \/ conn' = notify_waiters(conn, sess[1].kick)
    BY <1>2 DEF ReadSink, SendWaits, SendClosed, SendTimesOut, EvictSlow, ClearSink, Enqueue
  <2> QED
    BY <2>1, <2>2, <2>3
<1>6. ASSUME NEW r, task' = [task EXCEPT ![1] = r],
             r.msg = k.msg, r.inbox = k.inbox, r.aborted = k.aborted, r.qos = k.qos, r.pc # "recv",
             r.pc \in {"send", "blocked", "timeout", "failed"} => q = << >>
      PROVE  MailInv' /\ UNCHANGED Box!vars
  <2>1. task'[1] = r
    BY <1>t, <1>6
  <2>2. CarriesOK(task'[1], q)
    <3>1. ~r.aborted
      BY <1>6, <1>c DEF CarriesOK
    <3>2. r.qos = 1
      BY <1>1, <1>6, <1>c DEF CarriesOK
    <3> HIDE DEF k, q
    <3>3. CarriesOK(r, q)
      BY <1>6, <3>1, <3>2 DEF CarriesOK
    <3> QED
      BY <2>1, <3>3
  <2>3. Waiting' = Waiting
    <3>1. InHand(r) = InHand(k) /\ r.inbox = k.inbox
      BY <1>6 DEF InHand
    <3>2. Waiting' = sess'[1].queue \o InHand(r) \o r.inbox
      BY <2>1 DEF Waiting, InHand
    <3> HIDE DEF q
    <3>3. Waiting' = q \o InHand(k) \o k.inbox
      BY <1>4, <3>1, <3>2
    <3> QED
      BY <3>3 DEF Waiting, q
  <2> HIDE DEF q, k
  <2>4. task[1].pc \notin {"free", "dead"}
    BY <1>1 DEF k
  <2> QED
    BY <1>3, <1>4, <1>5, <2>2, <2>3, <2>4, MailTaskFrame DEF q
<1>7. CASE ReadSink(1)
  <2> DEFINE c == sess[1].sink
  <2>1. Queues(k)
    BY <1>1, <1>c DEF Queues, OneMailbox, CarriesOK
  <2>2. c # None => q = << >>
    BY <1>t DEF QueueInv, SessionQueueOK
  <2>3. task' = [task EXCEPT ![1] = IF c # None THEN [k EXCEPT !.pc = "send", !.tx = c]
                                              ELSE [k EXCEPT !.pc = "offline"]]
    BY <1>2, <1>7, <1>t, <2>1 DEF ReadSink
  <2>4. CASE c # None
    <3> DEFINE r == [k EXCEPT !.pc = "send", !.tx = c]
    <3>1. task' = [task EXCEPT ![1] = r]
      BY <2>3, <2>4
    <3>2. /\ r.msg = k.msg /\ r.inbox = k.inbox /\ r.aborted = k.aborted /\ r.qos = k.qos
          /\ r.pc = "send"
      BY <1>t DEF TaskRecord
    <3> HIDE DEF r, k, q
    <3> QED
      BY <1>6, <2>2, <2>4, <3>1, <3>2
  <2>5. CASE c = None
    <3> DEFINE r == [k EXCEPT !.pc = "offline"]
    <3>1. task' = [task EXCEPT ![1] = r]
      BY <2>3, <2>5
    <3>2. /\ r.msg = k.msg /\ r.inbox = k.inbox /\ r.aborted = k.aborted /\ r.qos = k.qos
          /\ r.pc = "offline"
      BY <1>t DEF TaskRecord
    <3> HIDE DEF r, k, q
    <3> QED
      BY <1>6, <3>1, <3>2
  <2> QED
    BY <2>4, <2>5
<1>8. ASSUME NEW pc \in {"blocked", "failed", "timeout", "look"},
             k.pc \in {"send", "blocked", "timeout", "failed"} \/ pc = "look",
             task' = [task EXCEPT ![1].pc = pc]
      PROVE  MailInv' /\ UNCHANGED Box!vars
  <2> DEFINE r == [k EXCEPT !.pc = pc]
  <2>1. task' = [task EXCEPT ![1] = r]
    BY <1>t, <1>8
  <2>2. /\ r.msg = k.msg /\ r.inbox = k.inbox /\ r.aborted = k.aborted /\ r.qos = k.qos
        /\ r.pc = pc
    BY <1>t DEF TaskRecord
  <2>3. pc # "look" => q = << >>
    BY <1>8, <1>c DEF CarriesOK
  <2> HIDE DEF r, k, q
  <2> QED
    BY <1>6, <2>1, <2>2, <2>3
<1>9. CASE SendWaits(1)
  <2>1. task' = [task EXCEPT ![1].pc = "blocked"] /\ k.pc = "send"
    <3>1. ~k.aborted
      BY <1>c DEF CarriesOK
    <3> QED
      BY <1>9, <3>1, <1>t DEF SendWaits
  <2> QED
    BY <1>8, <2>1
<1>10. CASE SendClosed(1) \/ EvictSlow(1)
  <2>1. task' = [task EXCEPT ![1].pc = "failed"] /\ k.pc \in {"send", "blocked", "timeout"}
    BY <1>10 DEF SendClosed, EvictSlow
  <2> QED
    BY <1>8, <2>1
<1>11. CASE SendTimesOut(1)
  <2>1. task' = [task EXCEPT ![1].pc = "timeout"] /\ k.pc = "blocked"
    BY <1>11 DEF SendTimesOut
  <2> QED
    BY <1>8, <2>1
<1>12. CASE Enqueue(1) /\ ~StillOffline(sess[task[1].sess])
  <2>1. task' = [task EXCEPT ![1].pc = "look"]
    BY <1>12 DEF Enqueue
  <2> QED
    BY <1>8, <2>1
<1>13. CASE ClearSink(1)
  <2> DEFINE r == [k EXCEPT !.pc = "look", !.tx = None]
  <2>1. task' = [task EXCEPT ![1] = r]
    BY <1>t, <1>13 DEF ClearSink, Retry
  <2>2. /\ r.msg = k.msg /\ r.inbox = k.inbox /\ r.aborted = k.aborted /\ r.qos = k.qos
        /\ r.pc = "look"
    BY <1>t DEF TaskRecord
  <2> HIDE DEF r, k, q
  <2> QED
    BY <1>6, <2>1, <2>2
<1> QED
  BY <1>7, <1>9, <1>10, <1>11, <1>12, <1>13

\* deliver takes the next message up.
LEMMA MailReceive ==
    ASSUME OneMailbox, TypeInv, KeptInv, MailInv, Receive(1)
    PROVE  MailInv' /\ UNCHANGED Box!vars
<1> DEFINE k == task[1]
           x == k.inbox
           q == sess[1].queue
           r == [k EXCEPT !.pc = "look", !.msg = Head(x), !.inbox = Tail(x)]
<1>t. task \in [Tasks -> TaskRecord] /\ 1 \in Tasks /\ k \in TaskRecord
  BY DEF TypeInv, TypeOK, OneMailbox, Tasks
<1>1. /\ k.pc = "recv" /\ x # << >> /\ task' = [task EXCEPT ![1] = r]
      /\ UNCHANGED <<registry, sess, conn, node, made, pubs>>
  BY <1>t DEF Receive
<1>2. q \in Seq(Msgs) /\ x \in Seq(Msgs) /\ \A m \in Msgs : m # None
  BY <1>1, TaskAtWork DEF Msgs, None
<1>3. /\ r.pc = "look" /\ r.msg = Head(x) /\ r.inbox = Tail(x)
      /\ r.aborted = k.aborted /\ r.qos = k.qos
  BY <1>t DEF TaskRecord
<1>4. task'[1] = r
  BY <1>1, <1>t
<1>c. ~k.aborted /\ k.qos = 1 /\ k.msg = None
  BY <1>1 DEF MailInv, CarriesOK
<1> HIDE DEF r, q
<1>5. CarriesOK(r, q)
  BY <1>3, <1>c DEF CarriesOK
<1>6. Head(x) # None
  BY <1>1, <1>2, HeadTailProperties
<1>7. InHand(r) = <<Head(x)>> /\ InHand(k) = << >>
  BY <1>3, <1>6, <1>c DEF InHand
<1>8. Waiting' = q \o <<Head(x)>> \o Tail(x)
  BY <1>1, <1>3, <1>4, <1>7 DEF Waiting, q, InHand
<1>9. Waiting = q \o << >> \o x
  BY <1>7 DEF Waiting, q
<1>10. q \o <<Head(x)>> \o Tail(x) = q \o << >> \o x
  <2>1. << >> \in Seq(Msgs)
    OBVIOUS
  <2>2. q \in Seq(Msgs)
    BY <1>2
  <2>3. x \in Seq(Msgs)
    BY <1>2
  <2>4. x # << >>
    BY <1>1
  <2> HIDE DEF x
  <2> QED
    BY <2>1, <2>2, <2>3, <2>4, BoxParts
<1>11. \A d \in Conns : KeepsMail(conn[d], conn'[d])
  BY <1>1 DEF MailInv, GivenOK, KeepsMail
<1>12. task[1].pc \notin {"free", "dead"} /\ CarriesOK(task'[1], sess[1].queue) /\ Waiting' = Waiting
  BY <1>1, <1>4, <1>5, <1>8, <1>9, <1>10 DEF q
<1> QED
  BY <1>1, <1>11, <1>12, MailTaskFrame

\* deliver puts the message into a channel: nothing older waits.
LEMMA MailSend ==
    ASSUME OneMailbox, TypeInv, FenceInv, KeptInv, OrderInv, MailInv, SendLive(1)
    PROVE  MailInv' /\ Box!Next
<1> DEFINE k == task[1]
           c == k.tx
           m == k.msg
           x == k.inbox
           p == [kind |-> "live", msg |-> m]
           o == conn[c].out
           r == [conn[c] EXCEPT !.out = Append(o, p)]
           z == Return(k)
<1>t. /\ task \in [Tasks -> TaskRecord] /\ 1 \in Tasks /\ k \in TaskRecord
      /\ conn \in [Conns -> ConnRecord]
  BY DEF TypeInv, TypeOK, OneMailbox, Tasks
<1>1. k.pc \in {"send", "blocked"} /\ k.pc \notin {"free", "dead", "recv"}
  BY DEF SendLive
<1>2. c \in Conns /\ conn[c] \in ConnRecord /\ o \in Seq(Packet)
  BY <1>1, <1>t DEF TypeInv, HandlesOK, TaskHandlesOK, ConnRecord
<1>3. /\ UNCHANGED <<registry, sess, disk, node, made, pubs>>
      /\ task' = [task EXCEPT ![1] = z]
      /\ conn' = [conn EXCEPT ![c] = r]
  BY <1>2, <1>t DEF SendLive, Put
<1>4. /\ sess[1].queue = << >> /\ ~k.aborted /\ k.qos = 1
  BY <1>1 DEF MailInv, CarriesOK
<1>5. m \in Msgs /\ x \in Seq(Msgs) /\ m # None /\ registry = 1 /\ made.task # 0
  BY <1>1, TaskAtWork DEF Msgs, None
<1>6. /\ z.pc = "recv" /\ z.msg = None /\ z.inbox = x /\ z.aborted = k.aborted /\ z.qos = k.qos
  <2> DEFINE y == [k EXCEPT !.pc = "recv", !.msg = None, !.tx = None]
  <2>1. z = y
    BY <1>4 DEF Return
  <2>2. /\ y.pc = "recv" /\ y.msg = None /\ y.inbox = x /\ y.aborted = k.aborted /\ y.qos = k.qos
    BY <1>t DEF TaskRecord
  <2> HIDE DEF y, z
  <2> QED
    BY <2>1, <2>2
<1>7. task'[1] = z
  BY <1>3, <1>t
<1>8. p \in Packet /\ p.msg = m
  BY <1>5 DEF Packet
<1>9. conn'[c] = r /\ \A d \in Conns \ {c} : conn'[d] = conn[d]
  BY <1>2, <1>3, <1>t
<1>10. r.pc = conn[c].pc /\ r.backlog = conn[c].backlog /\ r.out = Append(o, p)
  BY <1>2 DEF ConnRecord
<1> HIDE DEF z, r, p, o
<1>11. PassedBy(r) = PassedBy(conn[c]) \cup {m}
  <2>1. Contents(Append(o, p)) = Contents(o) \cup ({p.msg} \ {None})
    BY <1>2, <1>8, ContentsPut
  <2>2. Contents(r.out) = Contents(conn[c].out) \cup {m}
    BY <1>5, <1>8, <1>10, <2>1 DEF o
  <2> QED
    BY <1>10, <2>2 DEF PassedBy
<1>12. Given' = Given \cup {m}
  <2>1. Given = UNION {PassedBy(conn[d]) : d \in Conns}
    BY PassedIs DEF Given
  <2>2. Given' = UNION {PassedBy(conn'[d]) : d \in Conns}
    BY DEF Given, Passed, PassedBy, Elems, Contents
  <2>3. \A d \in Conns \ {c} : PassedBy(conn'[d]) = PassedBy(conn[d])
    BY <1>9
  <2>4. PassedBy(conn'[c]) = PassedBy(conn[c]) \cup {m}
    BY <1>9, <1>11
  <2> HIDE DEF c, m
  <2> QED
    BY <1>2, <2>1, <2>2, <2>3, <2>4
<1>13. m <= pubs
  BY <1>t DEF OrderInv, TaskLines, TaskLine
<1>14. conn[c].pc \notin {"free", "attach"}
  BY <1>1, <1>t DEF FenceInv, SendsOK, SendOK, Joined
<1>15. ASSUME NEW d \in Conns PROVE GivenOK(conn'[d], pubs)
  <2>1. GivenOK(conn[d], pubs)
    BY DEF MailInv
  <2>2. CASE d = c
    <3>1. GivenOK(r, pubs)
      BY <1>10, <1>11, <1>13, <1>14, <2>1, <2>2 DEF GivenOK
    <3> QED
      BY <1>9, <2>2, <3>1
  <2>3. CASE d # c
    BY <1>9, <2>1, <2>3
  <2> QED
    BY <2>2, <2>3
<1>16. MailInv'
  <2>1. Unused'
    BY <1>3 DEF MailInv, Unused
  <2>2. Inserting'
    <3>1. \A d \in Conns : conn'[d].pc = conn[d].pc
      BY <1>9, <1>10
    <3> QED
      BY <1>3, <3>1 DEF MailInv, Inserting
  <2>3. CarriesOK(task'[1], sess'[1].queue)
    <3>1. ~z.aborted
      BY <1>4, <1>6
    <3> HIDE DEF k
    <3>2. CarriesOK(z, << >>)
      BY <1>4, <1>6, <3>1 DEF CarriesOK
    <3> QED
      BY <1>3, <1>4, <1>7, <3>2
  <2> QED
    BY <1>3, <1>5, <1>15, <2>1, <2>2, <2>3 DEF MailInv
<1>17. Waiting = << >> \o <<m>> \o x /\ Waiting' = << >> \o << >> \o x
  BY <1>3, <1>4, <1>5, <1>6, <1>7 DEF Waiting, InHand
<1>18. /\ 1 \in 1..Len(Waiting) /\ Waiting' = SubSeq(Waiting, 1 + 1, Len(Waiting))
       /\ {Waiting[i] : i \in 1..1} = {m}
  <2> DEFINE a == <<m>>
             w == Waiting
             e == << >>
  <2>1. a \in Seq(Msgs) /\ e \in Seq(Msgs) /\ Len(a) = 1 /\ a[1] = m /\ Len(e) = 0
    BY <1>5
  <2>2. e \o a = a /\ a \o e = a
    BY <2>1, ConcatEmptySeq
  <2>3. w = a \o e \o x
    BY <1>17, <2>2
  <2> HIDE DEF a, e
  <2>4. /\ Len(a \o e \o x) = Len(a) + Len(e) + Len(x)
        /\ SubSeq(a \o e \o x, Len(a) + 1, Len(a \o e \o x)) = << >> \o e \o x
        /\ \A i \in 1..Len(a) : (a \o e \o x)[i] = a[i]
    <3>1. a \in Seq(Msgs)
      BY <2>1
    <3>2. e \in Seq(Msgs)
      BY <2>1
    <3>3. x \in Seq(Msgs)
      BY <1>5
    <3> HIDE DEF x
    <3> QED
      BY <3>1, <3>2, <3>3, BoxParts
  <2>5. Len(x) \in Nat
    BY <1>5
  <2>6. Len(w) = 1 + Len(x) /\ SubSeq(w, 1 + 1, Len(w)) = << >> \o e \o x /\ w[1] = m
    BY <2>1, <2>3, <2>4, <2>5
  <2>7. 1 \in 1..Len(w) /\ {w[i] : i \in 1..1} = {m}
    <3> HIDE DEF w, m, x
    <3>1. 1 \in 1..Len(w)
      BY <2>5, <2>6
    <3>2. 1..1 = {1}
      OBVIOUS
    <3>3. {w[i] : i \in {1}} = {w[1]}
      OBVIOUS
    <3> QED
      BY <2>6, <3>1, <3>2, <3>3
  <2> HIDE DEF w
  <2>8. Waiting' = << >> \o e \o x
    BY <1>17 DEF e
  <2> QED
    BY <2>6, <2>7, <2>8 DEF w
<1>19. Box!Next
  <2>1. Given' = Given \cup {Waiting[i] : i \in 1..1} /\ sess'[1].dropped = sess[1].dropped
    BY <1>3, <1>12, <1>18
  <2> QED
    BY <1>18, <2>1, BoxHands
<1> QED
  BY <1>16, <1>19

\* deliver moves what it has in its hands to the end of the queue, and when
\* the queue is full the oldest message gives way.
LEMMA MailQueue ==
    ASSUME OneMailbox, TypeInv, KeptInv, MailInv, Enqueue(1),
           StillOffline(sess[task[1].sess])
    PROVE  MailInv' /\ [Box!Next]_(Box!vars)
<1> DEFINE k == task[1]
           m == k.msg
           x == k.inbox
           q == sess[1].queue
           p == push_queue(sess[1], m)
           z == Return(k)
<1>t. /\ task \in [Tasks -> TaskRecord] /\ 1 \in Tasks /\ k \in TaskRecord
      /\ sess \in [Sessions -> SessionRecord] /\ 1 \in Sessions
  BY DEF TypeInv, TypeOK, OneMailbox, Tasks
<1>1. k.pc = "offline"
  BY DEF Enqueue
<1>2. k.sess = 1 /\ sess[1] \in SessionRecord /\ registry = 1 /\ made.task # 0
  BY <1>1, TaskAtWork
<1>3. q \in Seq(Msgs) /\ x \in Seq(Msgs) /\ m \in Msgs /\ m # None
  BY <1>1, TaskAtWork DEF Msgs, None
<1>4. /\ UNCHANGED <<registry, conn, node, made, pubs>>
      /\ sess' = [sess EXCEPT ![1] = p]
      /\ task' = [task EXCEPT ![1] = z]
  BY <1>2, <1>t DEF Enqueue
<1>5. ~k.aborted /\ k.qos = 1
  BY <1>1 DEF MailInv, CarriesOK
<1>6. /\ z.pc = "recv" /\ z.msg = None /\ z.inbox = x /\ z.aborted = k.aborted /\ z.qos = k.qos
  <2> DEFINE y == [k EXCEPT !.pc = "recv", !.msg = None, !.tx = None]
  <2>1. z = y
    BY <1>5 DEF Return
  <2>2. /\ y.pc = "recv" /\ y.msg = None /\ y.inbox = x /\ y.aborted = k.aborted /\ y.qos = k.qos
    BY <1>t DEF TaskRecord
  <2> HIDE DEF y, z
  <2> QED
    BY <2>1, <2>2
<1>7. task'[1] = z /\ sess'[1] = p
  BY <1>4, <1>t
<1>8. /\ p.subs = sess[1].subs
      /\ IF Len(q) >= MaxQueue
         THEN p.queue = Append(Tail(q), m) /\ p.dropped = sess[1].dropped + 1
         ELSE p.queue = Append(q, m) /\ p.dropped = sess[1].dropped
  BY <1>2 DEF push_queue, SessionRecord
<1> HIDE DEF z, p, q, x, m
<1>9. Given' = Given /\ \A d \in Conns : GivenOK(conn'[d], pubs')
  <2>1. \A d \in Conns : KeepsMail(conn[d], conn'[d])
    BY <1>4 DEF MailInv, GivenOK, KeepsMail
  <2> QED
    BY <1>4, <2>1, GivenFrame
<1>10. MailInv'
  <2>1. Unused'
    BY <1>2, <1>4 DEF Unused, None
  <2>2. Inserting'
    BY <1>4, <1>7, <1>8 DEF MailInv, Inserting
  <2>3. CarriesOK(task'[1], sess'[1].queue)
    <3>1. ~z.aborted
      BY <1>5, <1>6
    <3> HIDE DEF k
    <3>2. CarriesOK(z, p.queue)
      BY <1>5, <1>6, <3>1 DEF CarriesOK
    <3> QED
      BY <1>7, <3>2
  <2> QED
    BY <1>2, <1>4, <1>9, <2>1, <2>2, <2>3 DEF MailInv
<1>11. Waiting = q \o <<m>> \o x /\ Waiting' = p.queue \o << >> \o x
  BY <1>3, <1>6, <1>7 DEF Waiting, InHand, q, x, m
<1>12. \A y \in Seq(Msgs) : Append(y, m) \o << >> \o x = y \o <<m>> \o x
  <2> SUFFICES ASSUME NEW y \in Seq(Msgs)
               PROVE  Append(y, m) \o << >> \o x = y \o <<m>> \o x
    OBVIOUS
  <2>1. x \in Seq(Msgs)
    BY <1>3
  <2>2. << >> \in Seq(Msgs)
    OBVIOUS
  <2>3. \A n \in Msgs : Append(y, n) \o << >> \o x = y \o <<n>> \o x
    BY <2>1, <2>2, BoxParts
  <2> QED
    BY <1>3, <2>3
<1>13. CASE Len(q) >= MaxQueue
  <2>1. Len(q) \in Nat /\ MaxQueue \in Nat /\ MaxQueue # 0
    BY <1>3, ConstantsAssumption DEF OneMailbox
  <2>2. q # << >> /\ Tail(q) \in Seq(Msgs)
    <3>1. q # << >>
      BY <1>13, <2>1
    <3> QED
      BY <1>3, <3>1, HeadTailProperties
  <2>3. Waiting' = Tail(q) \o <<m>> \o x
    BY <1>8, <1>11, <1>12, <1>13, <2>2
  <2>4. /\ Len(q \o <<m>> \o x) = Len(q) + Len(<<m>>) + Len(x)
        /\ Tail(q \o <<m>> \o x) = Tail(q) \o <<m>> \o x
    <3>1. q \in Seq(Msgs)
      BY <1>3
    <3>2. <<m>> \in Seq(Msgs)
      BY <1>3
    <3>3. x \in Seq(Msgs)
      BY <1>3
    <3> QED
      BY <2>2, <3>1, <3>2, <3>3, BoxParts
  <2>5. Len(<<m>>) = 1 /\ Len(x) \in Nat
    BY <1>3
  <2>6. Len(Waiting) > MaxQueue
    BY <1>11, <1>13, <2>1, <2>4, <2>5
  <2>7. Waiting' = Tail(Waiting)
    BY <1>11, <2>3, <2>4
  <2>8. sess'[1].dropped = sess[1].dropped + 1
    BY <1>7, <1>8, <1>13
  <2>9. Box!Drop
    BY <1>9, <2>6, <2>7, <2>8 DEF Box!Drop, Waiting, Given
  <2> QED
    BY <1>10, <2>9 DEF Box!Next
<1>14. CASE ~(Len(q) >= MaxQueue)
  <2>1. Waiting' = Waiting
    BY <1>3, <1>8, <1>11, <1>12, <1>14
  <2>2. sess'[1].dropped = sess[1].dropped
    BY <1>7, <1>8, <1>14
  <2> QED
    BY <1>9, <1>10, <2>1, <2>2, BoxStutters
<1> QED
  BY <1>13, <1>14

LEMMA MailTask ==
    ASSUME OneMailbox, TypeInv, FenceInv, QueueInv, KeptInv, OrderInv, MailInv,
           NEW t \in Tasks, TaskStep(t)
    PROVE  MailInv' /\ [Box!Next]_(Box!vars)
<1>1. t = 1
  BY DEF OneMailbox, Tasks
<1>2. ~TaskAborts(1)
  BY DEF TaskAborts, MailInv, CarriesOK
<1>3. CASE Receive(1)
  BY <1>3, MailReceive
<1>4. CASE SendLive(1)
  BY <1>4, MailSend
<1>5. CASE Enqueue(1) /\ StillOffline(sess[task[1].sess])
  BY <1>5, MailQueue
<1>6. CASE \/ ReadSink(1) \/ SendWaits(1) \/ SendClosed(1) \/ SendTimesOut(1)
           \/ EvictSlow(1) \/ ClearSink(1) \/ (Enqueue(1) /\ ~StillOffline(sess[task[1].sess]))
  BY <1>6, MailHolds
<1> QED
  BY <1>1, <1>2, <1>3, <1>4, <1>5, <1>6 DEF TaskStep

LEMMA Narrowed ==
    ASSUME NEW p \in Nat, NEW q \in Seq(Msgs), \A i \in 1..Len(q) : q[i] <= p
    PROVE  q \in Seq(1..p)
<1>1. Len(q) \in Nat /\ q \in [1..Len(q) -> Msgs]
  OBVIOUS
<1>2. ASSUME NEW i \in 1..Len(q) PROVE q[i] \in 1..p
  <2>1. q[i] \in Msgs
    BY <1>1
  <2>2. q[i] \in Nat /\ q[i] >= 1
    BY <2>1 DEF Msgs
  <2> QED
    BY <2>2
<1>3. q \in [1..Len(q) -> 1..p]
  BY <1>1, <1>2
<1> QED
  BY <1>1, <1>3, SeqDef

LEMMA PassedType == \A r \in ConnRecord : PassedBy(r) \subseteq Msgs
<1> SUFFICES ASSUME NEW r \in ConnRecord PROVE PassedBy(r) \subseteq Msgs
  OBVIOUS
<1>1. r.backlog \in Seq(Msgs) /\ r.out \in Seq(Packet)
  BY DEF ConnRecord
<1>2. Elems(r.backlog) \subseteq Msgs
  BY <1>1 DEF Elems
<1>3. \A i \in DOMAIN r.out : r.out[i] \in Packet
  BY <1>1
<1>4. Contents(r.out) \subseteq Msgs
  BY <1>3 DEF Contents, Packet
<1> QED
  BY <1>2, <1>4 DEF PassedBy

\* What is in the box has been published.
LEMMA WaitingType ==
    ASSUME OneMailbox, TypeInv, OrderInv
    PROVE  Waiting \in Seq(1..pubs)
<1> DEFINE k == task[1]
           x == k.inbox
           q == sess[1].queue
           h == InHand(k)
           P == 1..pubs
<1>1. /\ k \in TaskRecord /\ sess[1] \in SessionRecord /\ pubs \in Nat
      /\ 1 \in Sessions /\ 1 \in Tasks
  BY ConstantsAssumption DEF TypeInv, TypeOK, OneMailbox, Tasks
<1>2. q \in Seq(Msgs) /\ x \in Seq(Msgs) /\ k.msg \in Msgs \cup {None}
  BY <1>1 DEF SessionRecord, TaskRecord
<1>3. ASSUME NEW y \in Seq(Msgs), QueueLine(y, pubs) PROVE y \in Seq(P)
  <2>1. ASSUME NEW i \in 1..Len(y) PROVE y[i] <= pubs
    <3>1. y[i] \in Msgs /\ y[i] < pubs + 1
      BY <1>3 DEF QueueLine, Below
    <3>2. y[i] \in Nat
      BY <3>1 DEF Msgs
    <3>3. pubs \in Nat
      BY <1>1
    <3> QED
      BY <3>1, <3>2, <3>3
  <2> QED
    BY <1>1, <2>1, Narrowed
<1>4. q \in Seq(P)
  BY <1>1, <1>2, <1>3 DEF OrderInv, QueueLines
<1>5. x \in Seq(P)
  BY <1>1, <1>2, <1>3 DEF OrderInv, TaskLines, TaskLine
<1>6. h \in Seq(P)
  <2>1. k.msg <= pubs
    BY <1>1 DEF OrderInv, TaskLines, TaskLine
  <2>2. CASE k.msg = None
    BY <2>2 DEF InHand
  <2>3. CASE k.msg # None
    <3>1. k.msg \in P
      <4>1. k.msg \in Msgs
        BY <1>2, <2>3
      <4>2. k.msg \in Nat /\ k.msg >= 1
        BY <4>1 DEF Msgs
      <4> QED
        BY <1>1, <2>1, <4>2
    <3> QED
      BY <2>3, <3>1 DEF InHand
  <2> QED
    BY <2>2, <2>3
<1> HIDE DEF q, h, x
<1>7. q \o h \o x \in Seq(P)
  BY <1>4, <1>5, <1>6, BoxParts
<1> QED
  BY <1>7 DEF Waiting, q, h, x

\* The mesh delivers a message newer than all there were.
LEMMA MailPublish ==
    ASSUME OneMailbox, TypeInv, OrderInv, MailInv, NEW class, Publish(class)
    PROVE  MailInv' /\ [Box!Next]_(Box!vars)
<1> DEFINE k == task[1]
           m == pubs + 1
           q == sess[1].queue
           h == InHand(k)
           x == k.inbox
           r == [k EXCEPT !.inbox = Append(x, m), !.got = k.got + 1]
<1>t. /\ k \in TaskRecord /\ sess[1] \in SessionRecord /\ pubs \in Nat
      /\ conn \in [Conns -> ConnRecord] /\ task \in [Tasks -> TaskRecord]
      /\ 1 \in Sessions /\ 1 \in Tasks
  BY ConstantsAssumption DEF TypeInv, TypeOK, OneMailbox, Tasks
<1>1. /\ m \in Msgs /\ pubs' = m
      /\ UNCHANGED <<registry, sess, conn, disk, node, made>>
      /\ task'[1] = IF k.pc \notin {"free", "dead"} /\ k.filter \in class THEN r ELSE k
  BY <1>t DEF Publish
<1>2. ASSUME NEW d \in Conns PROVE GivenOK(conn[d], m)
  <2>1. GivenOK(conn[d], pubs)
    BY DEF MailInv
  <2>2. PassedBy(conn[d]) \subseteq Msgs /\ Msgs \subseteq Nat
    BY <1>t, PassedType DEF Msgs
  <2>3. \A n \in PassedBy(conn[d]) : n <= m
    <3>1. \A n \in PassedBy(conn[d]) : n <= pubs /\ n \in Nat
      BY <2>1, <2>2 DEF GivenOK
    <3> QED
      BY <1>t, <3>1
  <2> HIDE DEF m
  <2> QED
    BY <2>1, <2>3 DEF GivenOK
<1>3. Given' = Given /\ \A n \in Given : n \in Nat /\ n < m
  <2>1. Given = UNION {PassedBy(conn[d]) : d \in Conns}
    BY PassedIs DEF Given
  <2>2. Given' = Given
    BY <1>1 DEF Given, Passed
  <2>3. ASSUME NEW d \in Conns, NEW n \in PassedBy(conn[d]) PROVE n \in Nat /\ n < m
    <3>1. n <= pubs
      BY DEF MailInv, GivenOK
    <3>2. n \in Msgs
      BY <1>t, PassedType
    <3>3. n \in Nat
      BY <3>2 DEF Msgs
    <3> QED
      BY <1>t, <3>1, <3>3
  <2> HIDE DEF m
  <2> QED
    BY <2>1, <2>2, <2>3
<1>4. /\ r.inbox = Append(x, m) /\ r.msg = k.msg /\ r.pc = k.pc /\ r.qos = k.qos
      /\ r.aborted = k.aborted
  BY <1>t DEF TaskRecord
<1>c. CarriesOK(k, q) /\ CarriesOK(r, q)
  <2>1. CarriesOK(k, q)
    BY DEF MailInv
  <2>2. ~r.aborted
    BY <1>4, <2>1 DEF CarriesOK
  <2> HIDE DEF r, k, q
  <2>3. CarriesOK(r, q)
    BY <1>4, <2>1, <2>2 DEF CarriesOK
  <2> QED
    BY <2>1, <2>3
<1> HIDE DEF r
<1>5. MailInv'
  <2>1. Unused' /\ Inserting'
    BY <1>1 DEF MailInv, Unused, Inserting
  <2>2. \A d \in Conns : GivenOK(conn'[d], pubs')
    <3> HIDE DEF m
    <3> QED
      BY <1>1, <1>2
  <2>3. CarriesOK(task'[1], sess'[1].queue)
    BY <1>1, <1>c
  <2>4. made'.task = 0 => task'[1].pc = "free" /\ task'[1].inbox = << >> /\ task'[1].msg = None
    BY <1>1 DEF MailInv
  <2>5. node'.state = "up"
    BY <1>1 DEF MailInv
  <2> QED
    BY <2>1, <2>2, <2>3, <2>4, <2>5 DEF MailInv
<1>6. CASE task'[1] = k
  <2>1. Waiting' = Waiting
    BY <1>1, <1>6 DEF Waiting
  <2> QED
    BY <1>1, <1>3, <1>5, <2>1, BoxStutters
<1>7. CASE task'[1] = r
  <2>1. Waiting' = q \o h \o Append(x, m)
    <3>1. InHand(r) = h
      BY <1>4 DEF InHand
    <3>2. Waiting' = sess'[1].queue \o InHand(r) \o r.inbox
      BY <1>7 DEF Waiting, InHand
    <3> QED
      BY <1>1, <1>4, <3>1, <3>2
  <2>2. q \in Seq(Msgs) /\ x \in Seq(Msgs) /\ h \in Seq(Msgs)
    BY <1>t DEF SessionRecord, TaskRecord, InHand
  <2>3. Waiting = q \o h \o x
    BY DEF Waiting
  <2> HIDE DEF q, h, x, m
  <2>4. q \o h \o Append(x, m) = Append(q \o h \o x, m)
    <3>1. q \in Seq(Msgs)
      BY <2>2
    <3>2. h \in Seq(Msgs)
      BY <2>2
    <3>3. x \in Seq(Msgs)
      BY <2>2
    <3> QED
      BY <1>1, <3>1, <3>2, <3>3, BoxParts
  <2>5. Waiting' = Append(Waiting, m)
    BY <2>1, <2>3, <2>4
  <2>6. \A i \in DOMAIN Waiting : Waiting[i] < m
    <3> DEFINE P == 1..pubs
               w == Waiting
    <3>1. w \in Seq(P)
      BY WaitingType
    <3> HIDE DEF P, w
    <3>2. \A i \in DOMAIN w : w[i] \in P
      BY <3>1
    <3>3. \A n \in P : n < m
      BY <1>t DEF P, m
    <3> QED
      BY <3>2, <3>3 DEF w
  <2>7. Box!Arrive(m)
    BY <1>1, <1>3, <2>5, <2>6 DEF Box!Arrive, Box!Known, Waiting, Given
  <2> QED
    BY <1>1, <1>5, <2>7 DEF Box!Next
<1> QED
  BY <1>1, <1>6, <1>7

LEMMA MailInit == OneMailbox /\ Init => MailInv /\ Box!Init
<1> SUFFICES ASSUME OneMailbox, Init PROVE MailInv /\ Box!Init
  OBVIOUS
<1>1. /\ 1 \in Sessions /\ 1 \in Tasks
      /\ sess[1] = new(FALSE, << >>) /\ task[1] = FreeTask /\ \A c \in Conns : conn[c] = FreeConn
  BY DEF OneMailbox, Tasks, Init
<1>2. sess[1].queue = << >> /\ sess[1].dropped = 0
  BY <1>1 DEF new
<1>3. task[1].inbox = << >> /\ task[1].msg = None /\ task[1].pc = "free" /\ ~task[1].aborted
  BY <1>1 DEF FreeTask
<1>4. \A c \in Conns : conn[c].pc = "free" /\ PassedBy(conn[c]) = {}
  BY <1>1 DEF FreeConn, PassedBy, Elems, Contents
<1>5. Unused
  BY <1>2 DEF Init, Unused, NoFiles
<1>6. Inserting /\ \A c \in Conns : GivenOK(conn[c], pubs)
  BY <1>4 DEF Inserting, GivenOK
<1>7. CarriesOK(task[1], sess[1].queue)
  BY <1>3 DEF CarriesOK
<1>8. MailInv
  BY <1>3, <1>5, <1>6, <1>7 DEF MailInv, Init
<1>9. Waiting = << >>
  BY <1>2, <1>3 DEF Waiting, InHand
<1>10. Given = {}
  BY <1>4, PassedIs DEF Given
<1>11. Box!Init
  BY <1>2, <1>9, <1>10 DEF Box!Init, Waiting, Given
<1> QED
  BY <1>8, <1>11

LEMMA MailNext ==
    ASSUME OneMailbox, TypeInv, FenceInv, QueueInv, KeptInv, OrderInv, MailInv, [Next]_vars
    PROVE  MailInv' /\ [Box!Next]_(Box!vars)
<1>1. CASE UNCHANGED vars
  <2>1. \A d \in Conns : KeepsMail(conn[d], conn'[d])
    BY <1>1 DEF vars, MailInv, GivenOK, KeepsMail
  <2> QED
    BY <1>1, <2>1, MailFrame DEF vars
<1>2. ASSUME NEW c \in Conns, ConnStep(c) \/ ClientStep(c) \/ WriterAborts(c)
      PROVE  MailInv' /\ [Box!Next]_(Box!vars)
  <2>1. CASE AttachConn(c)
    BY <2>1, MailAttach
  <2>2. CASE DiscardQueueFile(c) \/ DetachConn(c)
    BY <2>2, MailLeave
  <2>3. CASE InsertSub(c) \/ \E f \in Filters, req \in ReqQoS : Subscribe(c, f, req)
    BY <2>3, MailSubs
  <2>4. CASE AttachExisting(c) \/ \E clean \in CleanFlags : AttachNew(c, clean)
    BY <2>4, MailArrive
  <2>5. CASE \/ SendConnAck(c) \/ ConnectEvent(c) \/ DrainBacklog(c) \/ EnterRun(c)
             \/ ServeFails(c) \/ DisconnectEvent(c)
             \/ Reply(c) \/ Handled(c) \/ Disconnect(c) \/ RunFails(c) \/ Kicked(c)
             \/ \E handler \in Requests : ReadPacket(c, handler)
             \/ Write(c) \/ WriteFails(c) \/ WriterAborts(c)
    BY <2>5, MailLocal
  <2>6. /\ ~ReplaceSession(c) /\ ~Purge(c) /\ ~Unmap(c) /\ ~DiscardExisting(c)
        /\ ~\E f \in Filters : Unsubscribe(c, f)
    BY NeverDone
  <2> QED
    BY <1>2, <2>1, <2>2, <2>3, <2>4, <2>5, <2>6 DEF ConnStep, ClientStep
<1>3. CASE \E t \in Tasks : TaskStep(t)
  BY <1>3, MailTask
<1>4. CASE \E class \in TopicClasses : Publish(class)
  BY <1>4, MailPublish
<1>5. ~SweepStep /\ ~Crash /\ ~StartupStep
  BY NeverDone
<1> QED
  BY <1>1, <1>2, <1>3, <1>4, <1>5 DEF Next

(***************************************************************************)
(* One persistent session with one QoS 1 subscription is a first-in        *)
(* first-out box from the mesh to the connections, for any number of       *)
(* connections and messages and any size of queue and channel: whichever   *)
(* of them deliver and attach_conn meet, one after the other, blocked,     *)
(* failed or evicted, nothing is lost, duplicated or reordered, and only a *)
(* full queue drops, its oldest message.  MailInv is what makes deliver's  *)
(* live send safe: a message goes straight into a channel only if the      *)
(* queue was drained when the sink was set and is still empty.             *)
(***************************************************************************)
THEOREM MailboxImplemented ==
    ASSUME OneMailbox
    PROVE  Spec => ImplementsMailbox
<1> DEFINE Inv == TypeInv /\ FenceInv /\ QueueInv /\ KeptInv /\ OrderInv /\ MailInv
<1>1. Init => Inv /\ Box!Init
  BY TypeInit, FenceInit, QueueInit, KeptInit, OrderInit, MailInit
<1>2. Inv /\ [Next]_vars => Inv' /\ [Box!Next]_(Box!vars)
  <2> SUFFICES ASSUME Inv, [Next]_vars PROVE Inv' /\ [Box!Next]_(Box!vars)
    OBVIOUS
  <2>1. TypeInv' /\ FenceInv' /\ QueueInv'
    BY TypeNext, FenceNext, QueueNext
  <2>2. KeptInv'
    BY KeptNext DEF OneMailbox
  <2>3. OrderInv'
    BY OrderNext DEF OneMailbox
  <2>4. MailInv' /\ [Box!Next]_(Box!vars)
    BY MailNext
  <2> QED
    BY <2>1, <2>2, <2>3, <2>4
<1> HIDE DEF Inv
<1> QED
  BY <1>1, <1>2, PTL DEF Spec, ImplementsMailbox, Box!Spec

-----------------------------------------------------------------------------
(***************************************************************************)
(* The same instance, counted: what zenoh handed over is with the task, in *)
(* the queue, dropped, in a backlog or in a channel.  A connection that    *)
(* has not come yet has no session, so its arrival moves nothing.          *)
(***************************************************************************)
Load(k) == Len(k.inbox) + IF k.msg = None THEN 0 ELSE 1

Sent(o) == {j \in DOMAIN o : o[j].kind \in {"live", "backlog"}}

Counted == IsFiniteSet(InBacklog(1)) /\ IsFiniteSet(InChannel(1))

CountInv ==
    /\ Counted
    /\ \A c \in Conns : conn[c].pc = "free" => conn[c].sess = None
    /\ task[1].pc # "dead"
    /\ task[1].pc = "free" => task[1].got = 0
    /\ \A s \in Sessions \ {1} : sess[s].queue = << >> /\ sess[s].dropped = 0
    /\ task[1].got = Load(task[1]) + Len(sess[1].queue) + sess[1].dropped
                       + Cardinality(InBacklog(1)) + Cardinality(InChannel(1))

\* n pairs.
LEMMA PairsCount ==
    ASSUME NEW t, NEW n \in Nat
    PROVE  /\ IsFiniteSet({<<t, i>> : i \in 1..n})
           /\ Cardinality({<<t, i>> : i \in 1..n}) = n
<1> DEFINE S == 1..n
           P == {<<t, i>> : i \in S}
           f == [i \in S |-> <<t, i>>]
<1>1. IsFiniteSet(S) /\ Cardinality(S) = n
  BY FS_Interval
<1>2. f \in Bijection(S, P)
  <2>1. f \in [S -> P]
    OBVIOUS
  <2>2. \A i, j \in S : f[i] = f[j] => i = j
    OBVIOUS
  <2>3. \A p \in P : \E i \in S : f[i] = p
    OBVIOUS
  <2> HIDE DEF S, P, f
  <2> QED
    BY <2>1, <2>2, <2>3 DEF Bijection, Injection, Surjection, IsInjective
<1>3. ExistsBijection(S, P)
  BY <1>2 DEF ExistsBijection
<1> HIDE DEF S, P
<1>4. IsFiniteSet(P) /\ Cardinality(P) = Cardinality(S)
  BY <1>1, <1>3, FS_Bijection
<1> QED
  BY <1>1, <1>4 DEF S, P

\* The messages that each connection of the session has been given, as sets
\* of places, and the pairs they make.
Backs(r) == IF r.sess = 1 THEN DOMAIN r.backlog ELSE {}

Outs(r) == IF r.sess = 1 THEN Sent(r.out) ELSE {}

BackMap == [c \in Conns |-> Backs(conn[c])]

OutMap == [c \in Conns |-> Outs(conn[c])]

Pairs(F) == UNION {{<<c, i>> : i \in F[c]} : c \in Conns}

LEMMA PairsIn ==
    ASSUME NEW F, NEW p
    PROVE  p \in Pairs(F) <=> \E c \in Conns : \E i \in F[c] : p = <<c, i>>
BY DEF Pairs

LEMMA PairsAre ==
    /\ InBacklog(1) = Pairs(BackMap) /\ InBacklog(1)' = Pairs(BackMap')
    /\ InChannel(1) = Pairs(OutMap) /\ InChannel(1)' = Pairs(OutMap')
<1>1. InBacklog(1) = Pairs(BackMap)
  BY DEF InBacklog, ConnsOf, Pairs, BackMap, Backs
<1>2. InBacklog(1)' = Pairs(BackMap')
  BY DEF InBacklog, ConnsOf, Pairs, BackMap, Backs
<1>3. InChannel(1) = Pairs(OutMap)
  BY DEF InChannel, ConnsOf, Pairs, OutMap, Outs, Sent
<1>4. InChannel(1)' = Pairs(OutMap')
  BY DEF InChannel, ConnsOf, Pairs, OutMap, Outs, Sent
<1> QED
  BY <1>1, <1>2, <1>3, <1>4

\* One place more, one less, and all at once.
LEMMA PairsPut ==
    ASSUME NEW F, NEW G, NEW c \in Conns, NEW j, \A d \in Conns \ {c} : G[d] = F[d],
           j \notin F[c], G[c] = F[c] \cup {j}, IsFiniteSet(Pairs(F))
    PROVE  /\ IsFiniteSet(Pairs(G))
           /\ Cardinality(Pairs(G)) = Cardinality(Pairs(F)) + 1
<1> DEFINE P == Pairs(F)
           Q == Pairs(G)
<1>1. \A p : p \in Q <=> p \in P \/ p = <<c, j>>
  BY PairsIn
<1>2. <<c, j>> \notin P
  BY PairsIn
<1> HIDE DEF P, Q
<1>3. Q = P \cup {<<c, j>>}
  BY <1>1
<1>4. IsFiniteSet(P)
  BY DEF P
<1>5. IsFiniteSet(Q) /\ Cardinality(Q) = Cardinality(P) + 1
  BY <1>2, <1>3, <1>4, FS_AddElement
<1> QED
  BY <1>5 DEF P, Q

LEMMA PairsTake ==
    ASSUME NEW F, NEW G, NEW c \in Conns, NEW j, \A d \in Conns \ {c} : G[d] = F[d],
           j \notin G[c], F[c] = G[c] \cup {j}, IsFiniteSet(Pairs(F))
    PROVE  /\ IsFiniteSet(Pairs(G))
           /\ Cardinality(Pairs(F)) = Cardinality(Pairs(G)) + 1
<1>1. Pairs(G) \subseteq Pairs(F)
  BY PairsIn
<1>2. IsFiniteSet(Pairs(G))
  BY <1>1, FS_Subset
<1>3. Cardinality(Pairs(F)) = Cardinality(Pairs(G)) + 1
  BY <1>2, PairsPut
<1> QED
  BY <1>2, <1>3

LEMMA PairsFill ==
    ASSUME NEW F, NEW G, NEW c \in Conns, NEW n \in Nat, \A d \in Conns \ {c} : G[d] = F[d],
           F[c] = {}, G[c] = 1..n, IsFiniteSet(Pairs(F))
    PROVE  /\ IsFiniteSet(Pairs(G))
           /\ Cardinality(Pairs(G)) = Cardinality(Pairs(F)) + n
<1> DEFINE P == Pairs(F)
           Q == Pairs(G)
           R == {<<c, i>> : i \in 1..n}
<1>1. \A p : p \in Q <=> p \in P \/ p \in R
  BY PairsIn
<1>2. \A p : ~(p \in P /\ p \in R)
  BY PairsIn
<1>3. IsFiniteSet(R) /\ Cardinality(R) = n
  BY PairsCount
<1>4. IsFiniteSet(P)
  BY DEF P
<1> HIDE DEF P, Q, R
<1>5. Q = P \cup R /\ P \cap R = {}
  BY <1>1, <1>2
<1>6. IsFiniteSet(Q) /\ Cardinality(Q) = Cardinality(P) + Cardinality(R) - Cardinality(P \cap R)
  BY <1>3, <1>4, <1>5, FS_Union
<1>7. Cardinality(P \cap R) = 0 /\ Cardinality(P) \in Nat
  BY <1>4, <1>5, FS_EmptySet, FS_CardinalityType
<1>8. Cardinality(Q) = Cardinality(P) + n
  BY <1>3, <1>6, <1>7
<1> QED
  BY <1>6, <1>8 DEF P, Q

\* A packet put into a channel adds its place, if it carries a message.
LEMMA SentPut ==
    ASSUME NEW o \in Seq(Packet), NEW p \in Packet
    PROVE  /\ Len(o) + 1 \notin Sent(o)
           /\ Sent(Append(o, p)) = IF p.kind \in {"live", "backlog"} THEN Sent(o) \cup {Len(o) + 1}
                                                                     ELSE Sent(o)
<1> DEFINE z == Append(o, p)
           l == Len(o)
<1>1. /\ l \in Nat /\ DOMAIN o = 1..l /\ DOMAIN z = 1..(l + 1)
      /\ \A i \in 1..l : z[i] = o[i]
      /\ z[l + 1] = p
  <2>1. z \in Seq(Packet) /\ Len(z) = l + 1 /\ (\A i \in 1..l : z[i] = o[i]) /\ z[l + 1] = p
    BY AppendProperties
  <2>2. l \in Nat /\ DOMAIN o = 1..l /\ DOMAIN z = 1..Len(z)
    BY <2>1, LenProperties
  <2> QED
    BY <2>1, <2>2
<1> HIDE DEF z, l
<1>2. \A i : i \in 1..(l + 1) <=> i \in 1..l \/ i = l + 1
  BY <1>1
<1>3. l + 1 \notin 1..l
  BY <1>1
<1>4. l + 1 \notin Sent(o)
  BY <1>1, <1>3 DEF Sent
<1>5. ASSUME NEW i
      PROVE  i \in Sent(z) <=> i \in Sent(o) \/ (i = l + 1 /\ p.kind \in {"live", "backlog"})
  BY <1>1, <1>2, <1>3 DEF Sent
<1>6. Sent(z) = IF p.kind \in {"live", "backlog"} THEN Sent(o) \cup {l + 1} ELSE Sent(o)
  BY <1>5
<1> QED
  BY <1>4, <1>6 DEF z, l

\* Steps that give no connection of the session anything, and take nothing.
SameLoad(r, q) ==
    /\ Backs(q) = Backs(r)
    /\ Outs(q) = Outs(r)
    /\ q.pc = "free" => r.pc = "free" /\ q.sess = r.sess

LEMMA CountFrame ==
    ASSUME CountInv, \A d \in Conns : SameLoad(conn[d], conn'[d]),
           \A s \in Sessions : sess'[s].queue = sess[s].queue /\ sess'[s].dropped = sess[s].dropped,
           1 \in Sessions, task'[1].got = task[1].got, Load(task'[1]) = Load(task[1]),
           task'[1].pc # "dead", task'[1].pc = "free" => task[1].pc = "free"
    PROVE  CountInv'
<1>1. BackMap' = BackMap /\ OutMap' = OutMap
  BY DEF SameLoad, BackMap, OutMap
<1>2. InBacklog(1)' = InBacklog(1) /\ InChannel(1)' = InChannel(1)
  BY <1>1, PairsAre
<1>3. Counted'
  BY <1>2 DEF CountInv, Counted
<1>4. \A c \in Conns : conn'[c].pc = "free" => conn'[c].sess = None
  BY DEF CountInv, SameLoad
<1>5. Load(task[1])' = Load(task[1])
  BY DEF Load
<1> QED
  BY <1>2, <1>3, <1>4, <1>5 DEF CountInv

\* What a connection does by itself, but for draining its backlog.
LEMMA CountLocal ==
    ASSUME OneMailbox, TypeInv, CountInv, NEW c \in Conns,
           \/ SendConnAck(c) \/ ConnectEvent(c) \/ EnterRun(c)
           \/ ServeFails(c) \/ DisconnectEvent(c)
           \/ Reply(c) \/ Handled(c) \/ Disconnect(c) \/ RunFails(c) \/ Kicked(c)
           \/ \E handler \in Requests : ReadPacket(c, handler)
           \/ Write(c) \/ WriteFails(c) \/ WriterAborts(c)
    PROVE  CountInv'
<1> DEFINE o == conn[c].out
<1>t. conn \in [Conns -> ConnRecord] /\ o \in Seq(Packet) /\ 1 \in Sessions
  BY DEF TypeInv, TypeOK, ConnRecord, OneMailbox
<1>1. UNCHANGED <<sess, task>> /\ \A d \in Conns : KeepsConn(d) /\ Moves(conn[d].pc, conn'[d].pc)
  BY LocalEffect
<1> DEFINE r == conn[c]
           Goal == \A d \in Conns : conn'[d].backlog = conn[d].backlog
                                    /\ Sent(conn'[d].out) = Sent(conn[d].out)
<1>r. r \in ConnRecord
  BY <1>t
<1>2. ASSUME NEW q, conn' = [conn EXCEPT ![c] = q], q.backlog = r.backlog, Sent(q.out) = Sent(o)
      PROVE  Goal
  <2>1. conn'[c] = q /\ \A d \in Conns \ {c} : conn'[d] = conn[d]
    BY <1>t, <1>2
  <2> QED
    BY <1>2, <2>1
<1>3. Goal
  <2> SUFFICES Goal
    OBVIOUS
  <2> HIDE DEF Goal
  <2>1. ASSUME NEW kind \in {"connack", "reply"}, NEW pc,
               conn' = [conn EXCEPT ![c].pc = pc, ![c].out = Put(c, kind, None)]
        PROVE  Goal
    <3> DEFINE p == [kind |-> kind, msg |-> None]
               q == [r EXCEPT !.pc = pc, !.out = Append(o, p)]
    <3>1. conn' = [conn EXCEPT ![c] = q]
      BY <1>t, <2>1 DEF Put
    <3>2. q.backlog = r.backlog /\ q.out = Append(o, p)
      BY <1>r DEF ConnRecord
    <3>3. p \in Packet /\ p.kind \notin {"live", "backlog"}
      BY DEF Packet
    <3> HIDE DEF p, q, r, o
    <3>4. Sent(Append(o, p)) = Sent(o)
      BY <1>t, <3>3, SentPut
    <3> QED
      BY <1>2, <3>1, <3>2, <3>4
  <2>2. CASE SendConnAck(c) \/ Reply(c)
    BY <2>1, <2>2 DEF SendConnAck, Reply
  <2>3. ASSUME NEW pc, conn' = [conn EXCEPT ![c].pc = pc]
        PROVE  Goal
    <3> DEFINE q == [r EXCEPT !.pc = pc]
    <3>1. conn' = [conn EXCEPT ![c] = q]
      BY <1>t, <2>3
    <3>2. q.backlog = r.backlog /\ q.out = o
      BY <1>r DEF ConnRecord
    <3> HIDE DEF q, r, o
    <3> QED
      BY <1>2, <3>1, <3>2
  <2>4. CASE ConnectEvent(c) \/ EnterRun(c) \/ ServeFails(c) \/ Handled(c) \/ DisconnectEvent(c)
    BY <2>3, <2>4 DEF ConnectEvent, EnterRun, ServeFails, Handled, DisconnectEvent
  <2>5. ASSUME NEW handler \in Requests, ReadPacket(c, handler)
        PROVE  Goal
    <3> DEFINE q == [r EXCEPT !.pc = handler, !.notified = FALSE]
    <3>1. conn' = [conn EXCEPT ![c] = q]
      BY <1>t, <2>5 DEF ReadPacket
    <3>2. q.backlog = r.backlog /\ q.out = o
      BY <1>r DEF ConnRecord
    <3> HIDE DEF q, r, o
    <3> QED
      BY <1>2, <3>1, <3>2
  <2>6. ASSUME NEW will, EndRun(c, will)
        PROVE  Goal
    <3> DEFINE w == IF r.writer = "up" THEN "aborting" ELSE r.writer
               q == [r EXCEPT !.pc = "ended", !.will = will, !.notified = FALSE, !.writer = w]
    <3>1. conn' = [conn EXCEPT ![c] = q]
      BY <1>t, <2>6 DEF EndRun
    <3> HIDE DEF w
    <3>2. q.backlog = r.backlog /\ q.out = o
      BY <1>r DEF ConnRecord
    <3> HIDE DEF q, r, o
    <3> QED
      BY <1>2, <3>1, <3>2
  <2>7. CASE Disconnect(c) \/ RunFails(c) \/ Kicked(c)
    BY <2>6, <2>7 DEF Disconnect, RunFails, Kicked
  <2>8. CASE Write(c)
    <3> DEFINE w == r.written + 1
               q == [r EXCEPT !.written = w]
    <3>1. conn' = [conn EXCEPT ![c] = q]
      BY <1>t, <2>8 DEF Write
    <3> HIDE DEF w
    <3>2. q.backlog = r.backlog /\ q.out = o
      BY <1>r DEF ConnRecord
    <3> HIDE DEF q, r, o
    <3> QED
      BY <1>2, <3>1, <3>2
  <2>9. CASE WriteFails(c) \/ WriterAborts(c)
    <3> DEFINE q == [r EXCEPT !.writer = "gone"]
    <3>1. conn' = [conn EXCEPT ![c] = q]
      BY <1>t, <2>9 DEF WriteFails, WriterAborts
    <3>2. q.backlog = r.backlog /\ q.out = o
      BY <1>r DEF ConnRecord
    <3> HIDE DEF q, r, o
    <3> QED
      BY <1>2, <3>1, <3>2
  <2> QED
    BY <2>2, <2>4, <2>5, <2>7, <2>8, <2>9
<1>4. \A d \in Conns : SameLoad(conn[d], conn'[d])
  <2>1. \A d \in Conns : conn'[d].sess = conn[d].sess
    BY <1>1 DEF KeepsConn
  <2>2. \A d \in Conns : conn'[d].pc = "free" => conn[d].pc = "free"
    BY <1>1, BrokerAssumption DEF Moves, Greeting, Running
  <2> QED
    BY <1>3, <2>1, <2>2 DEF SameLoad, Backs, Outs
<1> QED
  BY <1>1, <1>4, <1>t, CountFrame DEF CountInv

\* The amounts in the equation are numbers.
LEMMA CountTypes ==
    ASSUME OneMailbox, TypeInv, CountInv
    PROVE  /\ 1 \in Sessions /\ 1 \in Tasks
           /\ sess \in [Sessions -> SessionRecord] /\ sess[1] \in SessionRecord
           /\ task \in [Tasks -> TaskRecord] /\ task[1] \in TaskRecord
           /\ conn \in [Conns -> ConnRecord]
           /\ Load(task[1]) \in Nat /\ task[1].got \in Nat
           /\ sess[1].queue \in Seq(Msgs) /\ Len(sess[1].queue) \in Nat /\ sess[1].dropped \in Nat
           /\ Cardinality(InBacklog(1)) \in Nat /\ Cardinality(InChannel(1)) \in Nat
<1>1. /\ 1 \in Sessions /\ 1 \in Tasks
      /\ sess \in [Sessions -> SessionRecord] /\ sess[1] \in SessionRecord
      /\ task \in [Tasks -> TaskRecord] /\ task[1] \in TaskRecord
      /\ conn \in [Conns -> ConnRecord]
  BY DEF OneMailbox, Tasks, TypeInv, TypeOK
<1>2. sess[1].queue \in Seq(Msgs) /\ sess[1].dropped \in Nat
  BY <1>1 DEF SessionRecord
<1>3. task[1].inbox \in Seq(Msgs) /\ task[1].got \in Nat
  BY <1>1 DEF TaskRecord
<1>4. Load(task[1]) \in Nat
  <2> DEFINE n == Len(task[1].inbox)
             i == IF task[1].msg = None THEN 0 ELSE 1
  <2>1. n \in Nat /\ i \in Nat
    BY <1>3, LenProperties
  <2>2. Load(task[1]) = n + i
    BY DEF Load
  <2> HIDE DEF n, i
  <2> QED
    BY <2>1, <2>2
<1>5. Cardinality(InBacklog(1)) \in Nat /\ Cardinality(InChannel(1)) \in Nat
  BY FS_CardinalityType DEF CountInv, Counted
<1>6. Len(sess[1].queue) \in Nat
  BY <1>2, LenProperties
<1> QED
  BY <1>1, <1>2, <1>3, <1>4, <1>5, <1>6

\* From the backlog into the channel.
LEMMA CountDrain ==
    ASSUME OneMailbox, TypeInv, KeptInv, MailInv, CountInv, NEW c \in Conns, DrainBacklog(c)
    PROVE  CountInv'
<1> DEFINE r == conn[c]
           o == r.out
           l == Len(r.backlog)
           p == [kind |-> "backlog", msg |-> Head(r.backlog)]
           q == [r EXCEPT !.backlog = Tail(r.backlog), !.out = Append(o, p)]
<1>t. conn \in [Conns -> ConnRecord] /\ r \in ConnRecord
  BY CountTypes
<1>1. /\ r.pc = "drain" /\ r.backlog # << >> /\ conn' = [conn EXCEPT ![c] = q]
      /\ UNCHANGED <<sess, task>>
  BY <1>t DEF DrainBacklog, Put
<1>2. r.sess = 1
  BY <1>1, HomeIsOne
<1>3. r.backlog \in Seq(Msgs) /\ o \in Seq(Packet)
  BY <1>t DEF ConnRecord
<1>4. q.pc = "drain" /\ q.sess = 1 /\ q.backlog = Tail(r.backlog) /\ q.out = Append(o, p)
  BY <1>1, <1>2, <1>t DEF ConnRecord
<1>5. conn'[c] = q /\ \A d \in Conns \ {c} : conn'[d] = conn[d]
  BY <1>1, <1>t
<1>6. /\ l \in Nat /\ l # 0 /\ DOMAIN r.backlog = 1..l
      /\ DOMAIN Tail(r.backlog) = 1..(l - 1)
  <2>1. l \in Nat /\ l # 0
    BY <1>1, <1>3, EmptySeq
  <2>2. Tail(r.backlog) \in Seq(Msgs) /\ Len(Tail(r.backlog)) = l - 1
    BY <1>1, <1>3, HeadTailProperties
  <2>3. DOMAIN Tail(r.backlog) = 1..Len(Tail(r.backlog)) /\ DOMAIN r.backlog = 1..l
    BY <1>3, <2>2, LenProperties
  <2> QED
    BY <2>1, <2>2, <2>3
<1>7. p \in Packet /\ p.kind = "backlog"
  BY <1>1, <1>3, HeadTailProperties DEF Packet
<1> HIDE DEF q, p, l
<1>8. l \notin Backs(q) /\ Backs(r) = Backs(q) \cup {l}
  BY <1>2, <1>4, <1>6 DEF Backs
<1>9. Len(o) + 1 \notin Outs(r) /\ Outs(q) = Outs(r) \cup {Len(o) + 1}
  BY <1>2, <1>3, <1>4, <1>7, SentPut DEF Outs
<1> HIDE DEF r, o
<1>10. /\ \A d \in Conns \ {c} : BackMap'[d] = BackMap[d] /\ OutMap'[d] = OutMap[d]
       /\ BackMap[c] = Backs(r) /\ BackMap'[c] = Backs(q)
       /\ OutMap[c] = Outs(r) /\ OutMap'[c] = Outs(q)
  BY <1>5 DEF BackMap, OutMap, r, Backs, Outs
<1>11. /\ IsFiniteSet(Pairs(BackMap'))
       /\ Cardinality(Pairs(BackMap)) = Cardinality(Pairs(BackMap')) + 1
  BY <1>8, <1>10, PairsTake, PairsAre DEF CountInv, Counted
<1>12. /\ IsFiniteSet(Pairs(OutMap'))
       /\ Cardinality(Pairs(OutMap')) = Cardinality(Pairs(OutMap)) + 1
  BY <1>9, <1>10, PairsPut, PairsAre DEF CountInv, Counted
<1>13. Counted'
  BY <1>11, <1>12, PairsAre DEF Counted
<1>14. \A d \in Conns : conn'[d].pc = "free" => conn'[d].sess = None
  BY <1>4, <1>5 DEF CountInv
<1>15. Cardinality(InBacklog(1))' + Cardinality(InChannel(1))'
           = Cardinality(InBacklog(1)) + Cardinality(InChannel(1))
  <2>1. Cardinality(Pairs(BackMap')) \in Nat /\ Cardinality(Pairs(OutMap)) \in Nat
    BY <1>11, FS_CardinalityType, PairsAre DEF CountInv, Counted
  <2> QED
    BY <1>11, <1>12, <2>1, PairsAre
<1>16. /\ Cardinality(InBacklog(1)) \in Nat /\ Cardinality(InChannel(1)) \in Nat
       /\ Cardinality(InBacklog(1))' \in Nat /\ Cardinality(InChannel(1))' \in Nat
       /\ Load(task[1]) \in Nat /\ Len(sess[1].queue) \in Nat /\ sess[1].dropped \in Nat
  BY <1>13, CountTypes, FS_CardinalityType DEF Counted
<1>17. task'[1].got = Load(task'[1]) + Len(sess'[1].queue) + sess'[1].dropped
                        + Cardinality(InBacklog(1))' + Cardinality(InChannel(1))'
  <2> DEFINE g == task[1].got
             a == Load(task[1])
             n == Len(sess[1].queue)
             b == sess[1].dropped
             x == Cardinality(InBacklog(1))
             y == Cardinality(InChannel(1))
             v == Cardinality(InBacklog(1))'
             w == Cardinality(InChannel(1))'
  <2>1. g = a + n + b + x + y
    BY DEF CountInv
  <2>2. /\ task'[1].got = g /\ Load(task'[1]) = a
        /\ Len(sess'[1].queue) = n /\ sess'[1].dropped = b
    BY <1>1
  <2>3. v + w = x + y /\ x \in Nat /\ y \in Nat /\ v \in Nat /\ w \in Nat
        /\ a \in Nat /\ n \in Nat /\ b \in Nat
    BY <1>15, <1>16
  <2> HIDE DEF g, a, n, b, x, y, v, w
  <2>4. g = a + n + b + v + w
    BY <2>1, <2>3
  <2> QED
    BY <2>2, <2>4 DEF v, w
<1>18. /\ task'[1].pc # "dead" /\ (task'[1].pc = "free" => task'[1].got = 0)
       /\ \A s \in Sessions \ {1} : sess'[s].queue = << >> /\ sess'[s].dropped = 0
  BY <1>1 DEF CountInv
<1>19. Load(task[1])' = Load(task'[1])
  BY DEF Load
<1> QED
  BY <1>13, <1>14, <1>17, <1>18, <1>19 DEF CountInv

\* From the queue into the backlog.
LEMMA CountAttach ==
    ASSUME OneMailbox, TypeInv, KeptInv, MailInv, CountInv, NEW c \in Conns, AttachConn(c)
    PROVE  CountInv'
<1> DEFINE k == sess[1].kick
           q == sess[1].queue
           w == notify_waiters(conn, k)
           e == sess'[1].epoch
           r == [w[c] EXCEPT !.pc = "discard", !.epoch = e, !.backlog = q]
           n == Len(q)
<1>t. /\ sess \in [Sessions -> SessionRecord] /\ conn \in [Conns -> ConnRecord]
      /\ 1 \in Sessions /\ sess[1] \in SessionRecord
  BY CountTypes
<1>s. conn[c].pc = "attach" /\ conn[c].sess = 1
  BY HomeIsOne DEF AttachConn
<1>1. /\ UNCHANGED task
      /\ sess' = [sess EXCEPT ![1] = attach_conn(sess[1], c)]
      /\ conn' = [w EXCEPT ![c].pc = "discard", ![c].epoch = e, ![c].backlog = q]
  BY <1>s, <1>t DEF AttachConn
<1>2. q \in Seq(Msgs) /\ n \in Nat
  BY CountTypes
<1>3. sess'[1].queue = << >> /\ sess'[1].dropped = sess[1].dropped
  <2>1. sess'[1] = attach_conn(sess[1], c)
    BY <1>1, <1>t
  <2> QED
    BY <1>t, <2>1 DEF attach_conn, SessionRecord
<1>4. /\ w \in [Conns -> ConnRecord]
      /\ \A d \in Conns : /\ w[d].pc = conn[d].pc /\ w[d].sess = conn[d].sess
                          /\ w[d].out = conn[d].out
  BY <1>t, NotifyType
<1>5. \A d \in Conns : w[d].backlog = conn[d].backlog
  <2> SUFFICES ASSUME NEW d \in Conns PROVE w[d].backlog = conn[d].backlog
    OBVIOUS
  <2> DEFINE y == conn[d]
             z == [y EXCEPT !.notified = TRUE]
  <2>1. y \in ConnRecord
    BY <1>t
  <2>2. z.backlog = y.backlog
    BY <2>1 DEF ConnRecord
  <2>3. w[d] \in {y, z}
    BY DEF notify_waiters
  <2> HIDE DEF z, y
  <2> QED
    BY <2>2, <2>3 DEF y
<1> HIDE DEF w, e, q
<1>6. conn'[c] = r /\ \A d \in Conns \ {c} : conn'[d] = w[d]
  BY <1>1, <1>4
<1>7. /\ r.pc = "discard" /\ r.sess = 1 /\ r.backlog = q /\ r.out = conn[c].out
  BY <1>4, <1>s DEF ConnRecord
<1> HIDE DEF r
<1>8. Backs(conn[c]) = {} /\ Backs(r) = 1..n /\ Outs(r) = Outs(conn[c])
  <2>1. conn[c].backlog = << >>
    BY <1>s DEF MailInv, GivenOK
  <2>2. DOMAIN q = 1..n
    BY <1>2, LenProperties
  <2> HIDE DEF n
  <2> QED
    BY <1>7, <1>s, <2>1, <2>2 DEF Backs, Outs
<1>9. \A d \in Conns \ {c} : Backs(conn'[d]) = Backs(conn[d]) /\ Outs(conn'[d]) = Outs(conn[d])
  BY <1>4, <1>5, <1>6 DEF Backs, Outs
<1> HIDE DEF n
<1>10. /\ \A d \in Conns \ {c} : BackMap'[d] = BackMap[d]
       /\ BackMap[c] = {} /\ BackMap'[c] = 1..n
  BY <1>6, <1>8, <1>9 DEF BackMap, Backs
<1>11. OutMap' = OutMap
  BY <1>6, <1>8, <1>9 DEF OutMap, Outs
<1>12. /\ IsFiniteSet(Pairs(BackMap'))
       /\ Cardinality(Pairs(BackMap')) = Cardinality(Pairs(BackMap)) + n
  BY <1>2, <1>10, PairsFill, PairsAre DEF CountInv, Counted
<1>13. Counted'
  BY <1>11, <1>12, PairsAre DEF CountInv, Counted
<1>14. \A d \in Conns : conn'[d].pc = "free" => conn'[d].sess = None
  BY <1>4, <1>6, <1>7 DEF CountInv
<1>15. /\ Cardinality(InBacklog(1))' = Cardinality(InBacklog(1)) + n
       /\ Cardinality(InChannel(1))' = Cardinality(InChannel(1))
  BY <1>11, <1>12, PairsAre
<1>16. task'[1].got = Load(task'[1]) + Len(sess'[1].queue) + sess'[1].dropped
                        + Cardinality(InBacklog(1))' + Cardinality(InChannel(1))'
  <2> DEFINE a == Load(task[1])
             b == sess[1].dropped
             x == Cardinality(InBacklog(1))
             y == Cardinality(InChannel(1))
  <2>1. a \in Nat /\ b \in Nat /\ x \in Nat /\ y \in Nat /\ n \in Nat
    BY <1>2, CountTypes
  <2>2. task[1].got = a + n + b + x + y
    BY DEF CountInv, n, q
  <2>3. Len(sess'[1].queue) = 0
    BY <1>3
  <2>4. Load(task'[1]) = a /\ task'[1].got = task[1].got
    BY <1>1
  <2> HIDE DEF a, b, x, y
  <2>5. a + n + b + x + y = a + 0 + b + (x + n) + y
    BY <2>1
  <2> QED
    BY <1>3, <1>15, <2>2, <2>3, <2>4, <2>5 DEF b, x, y
<1>17. \A s \in Sessions \ {1} : sess'[s].queue = << >> /\ sess'[s].dropped = 0
  BY <1>1, <1>t DEF CountInv
<1> QED
  BY <1>1, <1>13, <1>14, <1>16, <1>17 DEF CountInv, Load

\* Steps of connections that move no message.
LEMMA CountRest ==
    ASSUME OneMailbox, TypeInv, KeptInv, MailInv, CountInv, NEW c \in Conns,
           \/ DiscardQueueFile(c) \/ DetachConn(c) \/ InsertSub(c)
           \/ \E f \in Filters, req \in ReqQoS : Subscribe(c, f, req)
    PROVE  CountInv'
<1> DEFINE r == conn[c]
<1>t. /\ sess \in [Sessions -> SessionRecord] /\ conn \in [Conns -> ConnRecord]
      /\ task \in [Tasks -> TaskRecord] /\ r \in ConnRecord
      /\ 1 \in Sessions /\ 1 \in Tasks /\ sess[1] \in SessionRecord
  BY CountTypes
<1>s. r.sess = 1 /\ r.pc # "free"
  BY HomeIsOne DEF DiscardQueueFile, DetachConn, InsertSub, Subscribe
<1>1. ASSUME NEW q, conn' = [conn EXCEPT ![c] = q], q.sess = r.sess, q.backlog = r.backlog,
             q.out = r.out, q.pc # "free"
      PROVE  \A d \in Conns : SameLoad(conn[d], conn'[d])
  <2>1. conn'[c] = q /\ \A d \in Conns \ {c} : conn'[d] = conn[d]
    BY <1>t, <1>1
  <2>2. SameLoad(r, q)
    BY <1>1 DEF SameLoad, Backs, Outs
  <2>3. \A d \in Conns : SameLoad(conn[d], conn[d])
    BY DEF SameLoad
  <2> QED
    BY <2>1, <2>2, <2>3
<1>2. ASSUME NEW z, sess' = [sess EXCEPT ![1] = z],
             z.queue = sess[1].queue, z.dropped = sess[1].dropped
      PROVE  \A s \in Sessions : sess'[s].queue = sess[s].queue /\ sess'[s].dropped = sess[s].dropped
  BY <1>2, <1>t
<1> HIDE DEF r
<1>3. CASE DiscardQueueFile(c)
  <2> DEFINE q == [r EXCEPT !.pc = "connack"]
  <2>1. conn' = [conn EXCEPT ![c] = q] /\ UNCHANGED <<sess, task>>
    BY <1>3, <1>t DEF DiscardQueueFile, r
  <2>2. q.sess = r.sess /\ q.backlog = r.backlog /\ q.out = r.out /\ q.pc # "free"
    BY <1>t DEF ConnRecord
  <2> HIDE DEF q
  <2>3. \A d \in Conns : SameLoad(conn[d], conn'[d])
    BY <1>1, <2>1, <2>2
  <2> QED
    BY <1>t, <2>1, <2>3, CountFrame DEF CountInv
<1>4. CASE DetachConn(c)
  <2> DEFINE z  == detach_conn(sess[1], r.epoch)
             pc == IF OwnsSession(sess[1], r.epoch) /\ r.clean THEN "purge" ELSE "bye"
             q  == [r EXCEPT !.pc = pc]
  <2>1. conn' = [conn EXCEPT ![c] = q] /\ sess' = [sess EXCEPT ![1] = z] /\ UNCHANGED task
    BY <1>4, <1>s, <1>t DEF DetachConn, r
  <2>2. q.sess = r.sess /\ q.backlog = r.backlog /\ q.out = r.out /\ q.pc = pc
    BY <1>t DEF ConnRecord
  <2>3. z.queue = sess[1].queue /\ z.dropped = sess[1].dropped
    BY <1>t DEF detach_conn, SessionRecord
  <2>4. pc # "free"
    OBVIOUS
  <2> HIDE DEF q, pc, z
  <2>5. \A d \in Conns : SameLoad(conn[d], conn'[d])
    BY <1>1, <2>1, <2>2, <2>4
  <2>6. \A s \in Sessions : sess'[s].queue = sess[s].queue /\ sess'[s].dropped = sess[s].dropped
    BY <1>2, <2>1, <2>3
  <2> QED
    BY <1>t, <2>1, <2>5, <2>6, CountFrame DEF CountInv
<1>5. CASE InsertSub(c)
  <2> DEFINE f == r.filter
             z == insert_sub(sess[1], f, r.task)
             q == [r EXCEPT !.pc = "subscribe", !.filter = None, !.task = None]
  <2>1. sess[1].subs[f] = None
    BY <1>5, <1>s DEF InsertSub, MailInv, Inserting, TypeInv, HandlesOK, ConnHandlesOK, r
  <2>2. /\ conn' = [conn EXCEPT ![c] = q] /\ sess' = [sess EXCEPT ![1] = z]
        /\ task' = Abort(task, {None})
    BY <1>5, <1>s, <1>t, <2>1 DEF InsertSub, r
  <2>3. task'[1] = task[1]
    BY <1>t, <2>2 DEF Abort, None
  <2>4. q.sess = r.sess /\ q.backlog = r.backlog /\ q.out = r.out /\ q.pc # "free"
    BY <1>t DEF ConnRecord
  <2>5. z.queue = sess[1].queue /\ z.dropped = sess[1].dropped
    BY <1>t DEF insert_sub, SessionRecord
  <2> HIDE DEF q, z
  <2>6. \A d \in Conns : SameLoad(conn[d], conn'[d])
    BY <1>1, <2>2, <2>4
  <2>7. \A s \in Sessions : sess'[s].queue = sess[s].queue /\ sess'[s].dropped = sess[s].dropped
    BY <1>2, <2>2, <2>5
  <2> QED
    BY <1>t, <2>3, <2>6, <2>7, CountFrame DEF CountInv
<1>6. ASSUME NEW f \in Filters, NEW req \in ReqQoS, Subscribe(c, f, req)
      PROVE  CountInv'
  <2> DEFINE q == [r EXCEPT !.pc = "insert", !.filter = f, !.task = 1]
             k == [FreeTask EXCEPT !.pc = "recv", !.sess = r.sess, !.filter = f,
                                   !.qos = Granted(req)]
  <2>1. made.task = 0
    <3>1. made.task + 1 \in Tasks
      BY <1>6 DEF Subscribe
    <3>2. made.task \in 0..1 /\ Tasks = 1..1
      BY DEF TypeInv, TypeOK, OneMailbox, Tasks
    <3> QED
      BY <3>1, <3>2
  <2>2. UNCHANGED sess /\ task' = [task EXCEPT ![1] = k] /\ conn' = [conn EXCEPT ![c] = q]
    <3>1. /\ task' = Spawn(task, made.task + 1, r.sess, f, Granted(req))
          /\ conn' = [conn EXCEPT ![c].pc = "insert", ![c].filter = f, ![c].task = made.task + 1]
          /\ UNCHANGED sess
      BY <1>6 DEF Subscribe, r
    <3>2. made.task + 1 = 1
      BY <2>1
    <3> QED
      BY <1>t, <3>1, <3>2 DEF Spawn, r
  <2>3. q.sess = r.sess /\ q.backlog = r.backlog /\ q.out = r.out /\ q.pc # "free"
    BY <1>t DEF ConnRecord
  <2>4. task'[1] = k /\ k.pc = "recv" /\ k.got = 0 /\ k.inbox = << >> /\ k.msg = None
    BY <1>t, <2>2 DEF FreeTask
  <2> HIDE DEF q, k
  <2>5. task[1].got = 0 /\ task[1].inbox = << >> /\ task[1].msg = None
    BY <2>1 DEF MailInv, CountInv
  <2>6. \A d \in Conns : SameLoad(conn[d], conn'[d])
    BY <1>1, <2>2, <2>3
  <2>7. task'[1].got = task[1].got /\ Load(task'[1]) = Load(task[1])
    BY <2>4, <2>5 DEF Load
  <2> QED
    BY <1>t, <2>2, <2>4, <2>6, <2>7, CountFrame
<1> QED
  BY <1>3, <1>4, <1>5, <1>6

\* A new connection brings nothing, and its session is the one there is.
LEMMA CountArrive ==
    ASSUME OneMailbox, TypeInv, KeptInv, MailInv, CountInv, NEW c \in Conns,
           AttachExisting(c) \/ \E clean \in CleanFlags : AttachNew(c, clean)
    PROVE  CountInv'
<1>t. /\ sess \in [Sessions -> SessionRecord] /\ conn \in [Conns -> ConnRecord]
      /\ 1 \in Sessions /\ made.conn \in Nat
      /\ made \in [sess : 0..MaxSessions, conn : 0..MaxConns, task : 0..MaxTasks]
  BY CountTypes DEF TypeInv, TypeOK
<1>1. c > made.conn /\ UNCHANGED task
  <2>1. c = made.conn + 1 /\ UNCHANGED task
    BY DEF AttachExisting, AttachNew, NewConn
  <2> QED
    BY <1>t, <2>1
<1>2. conn[c].sess = None
  BY <1>1 DEF KeptInv, OneSession, CountInv
<1>3. ASSUME NEW clean, NEW s, NEW present, conn' = Attaching(conn, c, clean, s, present)
      PROVE  \A d \in Conns : SameLoad(conn[d], conn'[d])
  <2> DEFINE q == [FreeConn EXCEPT !.pc = "attach", !.clean = clean, !.sess = s,
                                   !.present = present, !.writer = "up"]
  <2>1. conn'[c] = q /\ \A d \in Conns \ {c} : conn'[d] = conn[d]
    BY <1>3, <1>t DEF Attaching
  <2>2. q.pc = "attach" /\ q.backlog = << >> /\ q.out = << >>
    BY DEF FreeConn
  <2> HIDE DEF q
  <2>3. Backs(q) = {} /\ Outs(q) = {} /\ Backs(conn[c]) = {} /\ Outs(conn[c]) = {}
    BY <1>2, <2>2 DEF Backs, Outs, Sent, None
  <2>4. SameLoad(conn[c], q)
    BY <2>2, <2>3 DEF SameLoad
  <2>5. \A d \in Conns : SameLoad(conn[d], conn[d])
    BY DEF SameLoad
  <2> QED
    BY <2>1, <2>4, <2>5
<1>4. \A d \in Conns : SameLoad(conn[d], conn'[d])
  BY <1>3 DEF AttachExisting, AttachNew
<1>5. \A s \in Sessions : sess'[s].queue = sess[s].queue /\ sess'[s].dropped = sess[s].dropped
  <2>1. CASE AttachExisting(c)
    BY <2>1 DEF AttachExisting
  <2>2. ASSUME NEW clean \in CleanFlags, AttachNew(c, clean)
        PROVE  \A s \in Sessions : sess'[s].queue = sess[s].queue /\ sess'[s].dropped = sess[s].dropped
    <3>1. registry = None
      BY <2>2 DEF AttachNew
    <3>2. made.sess = 0 /\ disk.queue = << >> /\ sess[1].queue = << >> /\ sess[1].dropped = 0
      BY <3>1 DEF MailInv, Unused
    <3> DEFINE kept == IF clean THEN NoFiles ELSE disk
               r    == new(~clean /\ DataDir, kept.queue)
    <3>3. sess' = [sess EXCEPT ![1] = r]
      BY <2>2, <3>2 DEF AttachNew
    <3>4. kept.queue = << >>
      BY <3>2 DEF NoFiles
    <3> HIDE DEF kept
    <3>5. load_queue(<< >>) = << >>
      BY ConstantsAssumption DEF load_queue
    <3>6. r.queue = << >> /\ r.dropped = 0
      BY <3>4, <3>5 DEF new
    <3> HIDE DEF r
    <3> QED
      BY <1>t, <3>2, <3>3, <3>6
  <2> QED
    BY <2>1, <2>2
<1> QED
  BY <1>1, <1>4, <1>5, <1>t, CountFrame DEF CountInv

\* Steps of deliver that keep the message with the task.
LEMMA CountHolds ==
    ASSUME OneMailbox, TypeInv, KeptInv, MailInv, CountInv,
           \/ Receive(1)
           \/ ReadSink(1) \/ SendWaits(1) \/ SendClosed(1) \/ SendTimesOut(1)
           \/ EvictSlow(1) \/ ClearSink(1) \/ (Enqueue(1) /\ ~StillOffline(sess[task[1].sess]))
    PROVE  CountInv'
<1> DEFINE k == task[1]
           x == k.inbox
<1>t. /\ sess \in [Sessions -> SessionRecord] /\ task \in [Tasks -> TaskRecord]
      /\ conn \in [Conns -> ConnRecord]
      /\ 1 \in Sessions /\ 1 \in Tasks /\ k \in TaskRecord
  BY CountTypes
<1>1. k.pc \notin {"free", "dead"}
  BY DEF Receive, ReadSink, SendWaits, SendClosed, SendTimesOut, EvictSlow, ClearSink, Enqueue
<1>2. k.sess = 1 /\ sess[1] \in SessionRecord /\ x \in Seq(Msgs)
  BY <1>1, TaskAtWork
<1>c. ~k.aborted /\ (k.pc # "free" => k.qos = 1) /\ (k.pc = "recv" => k.msg = None)
  BY DEF MailInv, CarriesOK
<1>3. \A s \in Sessions : sess'[s].queue = sess[s].queue /\ sess'[s].dropped = sess[s].dropped
  <2>1. CASE UNCHANGED sess
    BY <2>1
  <2>2. CASE sess' = [sess EXCEPT ![1] = take_offline(@, k.tx)]
    <3>1. sess'[1] = take_offline(sess[1], k.tx) /\ \A s \in Sessions \ {1} : sess'[s] = sess[s]
      BY <1>t, <2>2
    <3>2. sess'[1].queue = sess[1].queue /\ sess'[1].dropped = sess[1].dropped
      BY <1>2, <3>1 DEF take_offline, SessionRecord
    <3> QED
      BY <3>1, <3>2
  <2> QED
    BY <1>2, <2>1, <2>2
       DEF Receive, ReadSink, SendWaits, SendClosed, SendTimesOut, EvictSlow, ClearSink, Enqueue
<1>4. \A d \in Conns : SameLoad(conn[d], conn'[d])
  <2> DEFINE w == notify_waiters(conn, sess[1].kick)
  <2>1. \A d \in Conns : SameLoad(conn[d], conn[d])
    BY DEF SameLoad
  <2>2. \A d \in Conns : SameLoad(conn[d], w[d])
    <3> SUFFICES ASSUME NEW d \in Conns PROVE SameLoad(conn[d], w[d])
      OBVIOUS
    <3> DEFINE y == conn[d]
               z == [y EXCEPT !.notified = TRUE]
    <3>1. y \in ConnRecord
      BY <1>t
    <3>2. z.backlog = y.backlog /\ z.out = y.out /\ z.sess = y.sess /\ z.pc = y.pc
      BY <3>1 DEF ConnRecord
    <3>3. w[d] \in {y, z}
      BY DEF notify_waiters
    <3> HIDE DEF z, y, w
    <3>4. SameLoad(y, z) /\ SameLoad(y, y)
      BY <3>2 DEF SameLoad, Backs, Outs
    <3> QED
      BY <3>3, <3>4 DEF y
  <2>3. conn' = conn \/ conn' = w
    BY <1>2
       DEF Receive, ReadSink, SendWaits, SendClosed, SendTimesOut, EvictSlow, ClearSink, Enqueue
  <2> HIDE DEF w
  <2> QED
    BY <2>1, <2>2, <2>3
<1>5. ASSUME NEW r, task' = [task EXCEPT ![1] = r], r.got = k.got, Load(r) = Load(k),
             r.pc \notin {"free", "dead"}
      PROVE  CountInv'
  <2>1. task'[1] = r
    BY <1>t, <1>5
  <2> HIDE DEF k
  <2> QED
    BY <1>3, <1>4, <1>5, <1>t, <2>1, CountFrame DEF k
<1>6. ASSUME NEW pc \in TaskPC \ {"free", "dead"}, NEW tx,
             \/ task' = [task EXCEPT ![1].pc = pc]
             \/ task' = [task EXCEPT ![1].pc = pc, ![1].tx = tx]
      PROVE  CountInv'
  <2> DEFINE r == [k EXCEPT !.pc = pc]
             z == [k EXCEPT !.pc = pc, !.tx = tx]
  <2>1. task' = [task EXCEPT ![1] = r] \/ task' = [task EXCEPT ![1] = z]
    BY <1>t, <1>6
  <2>2. /\ r.msg = k.msg /\ r.inbox = x /\ r.got = k.got /\ r.pc = pc
        /\ z.msg = k.msg /\ z.inbox = x /\ z.got = k.got /\ z.pc = pc
    BY <1>t DEF TaskRecord
  <2> HIDE DEF r, z, k
  <2>3. Load(r) = Load(k) /\ Load(z) = Load(k)
    BY <2>2 DEF Load
  <2> QED
    BY <1>5, <2>1, <2>2, <2>3
<1>7. CASE Receive(1)
  <2> DEFINE r == [k EXCEPT !.pc = "look", !.msg = Head(x), !.inbox = Tail(x)]
  <2>1. k.pc = "recv" /\ x # << >> /\ task' = [task EXCEPT ![1] = r]
    BY <1>7, <1>t DEF Receive
  <2>2. r.pc = "look" /\ r.msg = Head(x) /\ r.inbox = Tail(x) /\ r.got = k.got
    BY <1>t DEF TaskRecord
  <2> HIDE DEF r
  <2>3. Load(r) = Load(k)
    <3>1. Head(x) \in Msgs /\ Len(Tail(x)) = Len(x) - 1 /\ Len(x) \in Nat
      <4>1. x \in Seq(Msgs) /\ x # << >>
        BY <1>2, <2>1
      <4> HIDE DEF x
      <4> QED
        BY <4>1, HeadTailProperties, LenProperties
    <3>2. Head(x) # None
      BY <3>1 DEF Msgs, None
    <3>3. k.msg = None
      BY <1>c, <2>1
    <3>4. Load(r) = Len(Tail(x)) + 1 /\ Load(k) = Len(x) + 0
      BY <2>2, <3>2, <3>3 DEF Load
    <3> HIDE DEF k, x
    <3> QED
      BY <3>1, <3>4
  <2> HIDE DEF k
  <2> QED
    BY <1>5, <2>1, <2>2, <2>3
<1>8. CASE ReadSink(1)
  <2> DEFINE c == sess[1].sink
             pc == IF c # None THEN "send" ELSE "offline"
  <2>1. Queues(k)
    BY <1>1, <1>c DEF Queues, OneMailbox
  <2>2. \/ task' = [task EXCEPT ![1].pc = "offline"]
        \/ task' = [task EXCEPT ![1].pc = "send", ![1].tx = c]
    BY <1>2, <1>8, <1>t, <2>1 DEF ReadSink
  <2> QED
    BY <1>6, <2>2 DEF TaskPC
<1>9. CASE SendWaits(1)
  <2>1. task' = [task EXCEPT ![1].pc = "blocked"]
    BY <1>9, <1>c, <1>t DEF SendWaits
  <2> QED
    BY <1>6, <2>1 DEF TaskPC
<1>10. CASE SendClosed(1) \/ EvictSlow(1) \/ SendTimesOut(1)
  <2>1. task' = [task EXCEPT ![1].pc = "failed"] \/ task' = [task EXCEPT ![1].pc = "timeout"]
    BY <1>10 DEF SendClosed, EvictSlow, SendTimesOut
  <2> QED
    BY <1>6, <2>1 DEF TaskPC
<1>11. CASE ClearSink(1)
  <2>1. task' = [task EXCEPT ![1].pc = "look", ![1].tx = None]
    BY <1>11, <1>t DEF ClearSink, Retry
  <2> QED
    BY <1>6, <2>1 DEF TaskPC
<1>12. CASE Enqueue(1) /\ ~StillOffline(sess[task[1].sess])
  <2>1. task' = [task EXCEPT ![1].pc = "look"]
    BY <1>12 DEF Enqueue
  <2> QED
    BY <1>6, <2>1 DEF TaskPC
<1> QED
  BY <1>7, <1>8, <1>9, <1>10, <1>11, <1>12

\* What deliver has in its hands goes into a channel of the session.
LEMMA CountSend ==
    ASSUME OneMailbox, TypeInv, FenceInv, KeptInv, MailInv, CountInv, SendLive(1)
    PROVE  CountInv'
<1> DEFINE k == task[1]
           c == k.tx
           m == k.msg
           x == k.inbox
           p == [kind |-> "live", msg |-> m]
           o == conn[c].out
           r == [conn[c] EXCEPT !.out = Append(o, p)]
           z == Return(k)
<1>t. /\ task \in [Tasks -> TaskRecord] /\ k \in TaskRecord /\ 1 \in Tasks
      /\ conn \in [Conns -> ConnRecord]
  BY CountTypes
<1>1. k.pc \in {"send", "blocked"} /\ k.pc \notin {"free", "dead", "recv"}
  BY DEF SendLive
<1>2. c \in Conns /\ conn[c] \in ConnRecord /\ o \in Seq(Packet)
  BY <1>1, <1>t DEF TypeInv, HandlesOK, TaskHandlesOK, ConnRecord
<1>3. /\ UNCHANGED sess
      /\ task' = [task EXCEPT ![1] = z]
      /\ conn' = [conn EXCEPT ![c] = r]
  BY <1>2, <1>t DEF SendLive, Put
<1>4. ~k.aborted
  BY DEF MailInv, CarriesOK
<1>5. m \in Msgs /\ x \in Seq(Msgs) /\ m # None
  BY <1>1, TaskAtWork DEF Msgs, None
<1>6. z.pc = "recv" /\ z.msg = None /\ z.inbox = x /\ z.got = k.got
  <2> DEFINE y == [k EXCEPT !.pc = "recv", !.msg = None, !.tx = None]
  <2>1. z = y
    BY <1>4 DEF Return
  <2>2. y.pc = "recv" /\ y.msg = None /\ y.inbox = x /\ y.got = k.got
    BY <1>t DEF TaskRecord
  <2> HIDE DEF y, z
  <2> QED
    BY <2>1, <2>2
<1>7. task'[1] = z
  BY <1>3, <1>t
<1>8. p \in Packet /\ p.kind = "live"
  BY <1>5 DEF Packet
<1>9. conn'[c] = r /\ \A d \in Conns \ {c} : conn'[d] = conn[d]
  BY <1>2, <1>3, <1>t
<1>10. /\ r.pc = conn[c].pc /\ r.backlog = conn[c].backlog /\ r.out = Append(o, p)
       /\ r.sess = conn[c].sess
  BY <1>2 DEF ConnRecord
<1> HIDE DEF z, r, p, o, x
<1>11. conn[c].sess = 1 /\ conn[c].pc # "free"
  <2>1. conn[c].sess # None /\ conn[c].pc # "free"
    BY <1>1, <1>t DEF FenceInv, SendsOK, SendOK, Joined
  <2> QED
    BY <1>2, <2>1 DEF KeptInv, OneSession, MailInv, Unused
<1>12. /\ Backs(r) = Backs(conn[c])
       /\ Len(o) + 1 \notin Outs(conn[c]) /\ Outs(r) = Outs(conn[c]) \cup {Len(o) + 1}
  <2>1. /\ Len(o) + 1 \notin Sent(o)
        /\ Sent(Append(o, p)) = Sent(o) \cup {Len(o) + 1}
    BY <1>2, <1>8, SentPut
  <2> QED
    BY <1>10, <1>11, <2>1 DEF Backs, Outs, o
<1> HIDE DEF c
<1>13. BackMap' = BackMap
  BY <1>2, <1>9, <1>12 DEF BackMap, Backs
<1>14. /\ \A d \in Conns \ {c} : OutMap'[d] = OutMap[d]
       /\ OutMap[c] = Outs(conn[c]) /\ OutMap'[c] = Outs(r)
  BY <1>2, <1>9 DEF OutMap, Outs
<1>15. /\ IsFiniteSet(Pairs(OutMap'))
       /\ Cardinality(Pairs(OutMap')) = Cardinality(Pairs(OutMap)) + 1
  <2> DEFINE j == Len(o) + 1
             F == OutMap
             G == OutMap'
  <2>1. IsFiniteSet(Pairs(F))
    BY PairsAre DEF CountInv, Counted
  <2>2. j \notin F[c] /\ G[c] = F[c] \cup {j}
    BY <1>12, <1>14
  <2>3. \A d \in Conns \ {c} : G[d] = F[d]
    BY <1>14
  <2> HIDE DEF j, F, G
  <2>4. IsFiniteSet(Pairs(G)) /\ Cardinality(Pairs(G)) = Cardinality(Pairs(F)) + 1
    BY <1>2, <2>1, <2>2, <2>3, PairsPut
  <2> QED
    BY <2>4 DEF F, G
<1>16. Counted'
  BY <1>13, <1>15, PairsAre DEF CountInv, Counted
<1>17. /\ Cardinality(InBacklog(1))' = Cardinality(InBacklog(1))
       /\ Cardinality(InChannel(1))' = Cardinality(InChannel(1)) + 1
  BY <1>13, <1>15, PairsAre
<1>18. \A d \in Conns : conn'[d].pc = "free" => conn'[d].sess = None
  BY <1>9, <1>10, <1>11 DEF CountInv
<1>19. Load(k) = Load(z) + 1 /\ Load(z) \in Nat
  <2>1. Len(x) \in Nat
    BY <1>5
  <2>2. Load(k) = Len(x) + 1 /\ Load(z) = Len(x) + 0
    BY <1>5, <1>6 DEF Load, x
  <2> QED
    BY <2>1, <2>2
<1>20. task'[1].got = Load(task'[1]) + Len(sess'[1].queue) + sess'[1].dropped
                        + Cardinality(InBacklog(1))' + Cardinality(InChannel(1))'
  <2> DEFINE a == Load(z)
             n == Len(sess[1].queue)
             b == sess[1].dropped
             u == Cardinality(InBacklog(1))
             v == Cardinality(InChannel(1))
  <2>1. a \in Nat /\ n \in Nat /\ b \in Nat /\ u \in Nat /\ v \in Nat
    BY <1>19, CountTypes
  <2>2. k.got = (a + 1) + n + b + u + v
    BY <1>19 DEF CountInv
  <2>3. Load(task'[1]) = a /\ task'[1].got = k.got
    BY <1>6, <1>7
  <2> HIDE DEF a, n, b, u, v, k
  <2>4. (a + 1) + n + b + u + v = a + n + b + u + (v + 1)
    BY <2>1
  <2> QED
    BY <1>3, <1>17, <2>2, <2>3, <2>4 DEF n, b, u, v
<1> QED
  BY <1>3, <1>6, <1>7, <1>16, <1>18, <1>20 DEF CountInv, Load

\* What deliver has in its hands goes into the queue, in a full one at the
\* expense of the oldest message, which is counted as dropped.
LEMMA CountQueue ==
    ASSUME OneMailbox, TypeInv, KeptInv, MailInv, CountInv, Enqueue(1),
           StillOffline(sess[task[1].sess])
    PROVE  CountInv'
<1> DEFINE k == task[1]
           m == k.msg
           x == k.inbox
           q == sess[1].queue
           p == push_queue(sess[1], m)
           z == Return(k)
<1>t. /\ task \in [Tasks -> TaskRecord] /\ 1 \in Tasks /\ k \in TaskRecord
      /\ sess \in [Sessions -> SessionRecord] /\ 1 \in Sessions
  BY CountTypes
<1>1. k.pc = "offline"
  BY DEF Enqueue
<1>2. k.sess = 1 /\ sess[1] \in SessionRecord
  BY <1>1, TaskAtWork
<1>3. q \in Seq(Msgs) /\ x \in Seq(Msgs) /\ m \in Msgs /\ m # None
  BY <1>1, TaskAtWork DEF Msgs, None
<1>4. /\ UNCHANGED conn
      /\ sess' = [sess EXCEPT ![1] = p]
      /\ task' = [task EXCEPT ![1] = z]
  BY <1>2, <1>t DEF Enqueue
<1>5. ~k.aborted
  BY DEF MailInv, CarriesOK
<1>6. z.pc = "recv" /\ z.msg = None /\ z.inbox = x /\ z.got = k.got
  <2> DEFINE y == [k EXCEPT !.pc = "recv", !.msg = None, !.tx = None]
  <2>1. z = y
    BY <1>5 DEF Return
  <2>2. y.pc = "recv" /\ y.msg = None /\ y.inbox = x /\ y.got = k.got
    BY <1>t DEF TaskRecord
  <2> HIDE DEF y, z
  <2> QED
    BY <2>1, <2>2
<1>7. task'[1] = z /\ sess'[1] = p /\ \A s \in Sessions \ {1} : sess'[s] = sess[s]
  BY <1>4, <1>t
<1>8. IF Len(q) >= MaxQueue
      THEN p.queue = Append(Tail(q), m) /\ p.dropped = sess[1].dropped + 1
      ELSE p.queue = Append(q, m) /\ p.dropped = sess[1].dropped
  BY <1>2 DEF push_queue, SessionRecord
<1> HIDE DEF z, p, q, x, m
<1>9. Len(p.queue) + p.dropped = Len(q) + sess[1].dropped + 1 /\ Len(p.queue) \in Nat /\ p.dropped \in Nat
  <2>1. Len(q) \in Nat /\ MaxQueue \in Nat /\ MaxQueue # 0 /\ sess[1].dropped \in Nat
    BY <1>3, CountTypes, LenProperties, ConstantsAssumption DEF OneMailbox
  <2>2. CASE Len(q) >= MaxQueue
    <3>1. q # << >>
      BY <2>1, <2>2
    <3>2. Tail(q) \in Seq(Msgs) /\ Len(Tail(q)) = Len(q) - 1
      BY <1>3, <3>1, HeadTailProperties
    <3>3. Len(Append(Tail(q), m)) = Len(Tail(q)) + 1
      BY <1>3, <3>2, AppendProperties
    <3> QED
      <4>1. p.queue = Append(Tail(q), m) /\ p.dropped = sess[1].dropped + 1
        BY <1>8, <2>2
      <4>2. Len(p.queue) = Len(q)
        BY <2>1, <3>2, <3>3, <4>1
      <4>3. p.dropped = sess[1].dropped + 1
        BY <4>1
      <4> QED
        BY <2>1, <4>2, <4>3
  <2>3. CASE ~(Len(q) >= MaxQueue)
    <3>1. Len(Append(q, m)) = Len(q) + 1
      BY <1>3, AppendProperties
    <3>2. p.queue = Append(q, m) /\ p.dropped = sess[1].dropped
      BY <1>8, <2>3
    <3>3. Len(p.queue) = Len(q) + 1
      BY <3>1, <3>2
    <3>4. p.dropped = sess[1].dropped
      BY <3>2
    <3> QED
      BY <2>1, <3>3, <3>4
  <2> QED
    BY <2>2, <2>3
<1>10. Load(k) = Load(z) + 1 /\ Load(z) \in Nat
  <2>1. Len(x) \in Nat
    BY <1>3
  <2>2. Load(k) = Len(x) + 1 /\ Load(z) = Len(x) + 0
    BY <1>3, <1>6 DEF Load, x, m
  <2> QED
    BY <2>1, <2>2
<1>11. InBacklog(1)' = InBacklog(1) /\ InChannel(1)' = InChannel(1)
  BY <1>4 DEF InBacklog, InChannel, ConnsOf
<1>12. task'[1].got = Load(task'[1]) + Len(sess'[1].queue) + sess'[1].dropped
                        + Cardinality(InBacklog(1))' + Cardinality(InChannel(1))'
  <2> DEFINE a == Load(z)
             n == Len(q)
             b == sess[1].dropped
             u == Cardinality(InBacklog(1))
             v == Cardinality(InChannel(1))
             i == Len(p.queue)
             j == p.dropped
  <2>1. /\ a \in Nat /\ n \in Nat /\ b \in Nat /\ u \in Nat /\ v \in Nat
        /\ i \in Nat /\ j \in Nat /\ i + j = n + b + 1
    BY <1>9, <1>10, CountTypes DEF q
  <2>2. k.got = (a + 1) + n + b + u + v
    BY <1>10 DEF CountInv, q
  <2>3. Load(task'[1]) = a /\ task'[1].got = k.got /\ Len(sess'[1].queue) = i /\ sess'[1].dropped = j
    BY <1>6, <1>7
  <2> HIDE DEF a, n, b, u, v, k, i, j
  <2>4. (a + 1) + n + b + u + v = a + i + j + u + v
    BY <2>1
  <2> QED
    BY <1>11, <2>2, <2>3, <2>4 DEF u, v
<1>13. Counted'
  BY <1>11 DEF CountInv, Counted
<1> QED
  BY <1>4, <1>6, <1>7, <1>12, <1>13 DEF CountInv, Load

\* The mesh hands one more message to the task, or none.
LEMMA CountPublish ==
    ASSUME OneMailbox, TypeInv, MailInv, CountInv, NEW class, Publish(class)
    PROVE  CountInv'
<1> DEFINE k == task[1]
           m == pubs + 1
           x == k.inbox
           r == [k EXCEPT !.inbox = Append(x, m), !.got = k.got + 1]
<1>t. k \in TaskRecord /\ 1 \in Tasks /\ 1 \in Sessions /\ k.got \in Nat
  BY CountTypes
<1>1. /\ m \in Msgs /\ UNCHANGED <<sess, conn>>
      /\ task'[1] = IF k.pc \notin {"free", "dead"} /\ k.filter \in class THEN r ELSE k
  BY <1>t DEF Publish
<1>2. CASE task'[1] = k
  <2>1. \A d \in Conns : SameLoad(conn[d], conn'[d])
    BY <1>1 DEF SameLoad
  <2> QED
    BY <1>1, <1>2, <1>t, <2>1, CountFrame DEF CountInv
<1>3. CASE task'[1] = r /\ k.pc \notin {"free", "dead"}
  <2>1. r.inbox = Append(x, m) /\ r.msg = k.msg /\ r.pc = k.pc /\ r.got = k.got + 1
    BY <1>t DEF TaskRecord
  <2>2. x \in Seq(Msgs)
    BY <1>t DEF TaskRecord
  <2> HIDE DEF r, m
  <2>3. Load(r) = Load(k) + 1
    <3> DEFINE n == Len(x)
               i == IF k.msg = None THEN 0 ELSE 1
    <3>1. Len(Append(x, m)) = n + 1
      BY <1>1, <2>2, AppendProperties
    <3>2. n \in Nat /\ i \in Nat
      BY <2>2, LenProperties
    <3>3. Load(k) = n + i
      BY DEF Load
    <3>4. Load(r) = Len(Append(x, m)) + i
      BY <2>1 DEF Load
    <3> HIDE DEF n, i, k
    <3> QED
      BY <3>1, <3>2, <3>3, <3>4
  <2>4. InBacklog(1)' = InBacklog(1) /\ InChannel(1)' = InChannel(1)
    BY <1>1 DEF InBacklog, InChannel, ConnsOf
  <2>5. task'[1].got = Load(task'[1]) + Len(sess'[1].queue) + sess'[1].dropped
                        + Cardinality(InBacklog(1))' + Cardinality(InChannel(1))'
    <3> DEFINE a == Load(k)
               n == Len(sess[1].queue)
               b == sess[1].dropped
               u == Cardinality(InBacklog(1))
               v == Cardinality(InChannel(1))
    <3>1. a \in Nat /\ n \in Nat /\ b \in Nat /\ u \in Nat /\ v \in Nat
      BY CountTypes
    <3>2. k.got = a + n + b + u + v
      BY DEF CountInv
    <3>3. Load(task'[1]) = a + 1 /\ task'[1].got = k.got + 1
      BY <1>3, <2>1, <2>3
    <3> HIDE DEF a, n, b, u, v, k
    <3>4. (a + n + b + u + v) + 1 = (a + 1) + n + b + u + v
      BY <3>1
    <3> QED
      BY <1>1, <2>4, <3>2, <3>3, <3>4 DEF n, b, u, v
  <2>6. Counted'
    BY <2>4 DEF CountInv, Counted
  <2> QED
    BY <1>1, <1>3, <2>1, <2>5, <2>6 DEF CountInv, Load
<1> QED
  BY <1>1, <1>2, <1>3

LEMMA CountInit == OneMailbox /\ Init => CountInv
<1> SUFFICES ASSUME OneMailbox, Init PROVE CountInv
  OBVIOUS
<1>1. /\ 1 \in Sessions /\ 1 \in Tasks
      /\ \A s \in Sessions : sess[s] = new(FALSE, << >>)
      /\ task[1] = FreeTask /\ \A c \in Conns : conn[c] = FreeConn
  BY DEF OneMailbox, Tasks, Init
<1>2. \A s \in Sessions : sess[s].queue = << >> /\ sess[s].dropped = 0
  BY <1>1 DEF new
<1>3. /\ task[1].inbox = << >> /\ task[1].msg = None /\ task[1].pc = "free"
      /\ task[1].got = 0
  BY <1>1 DEF FreeTask
<1>4. \A c \in Conns : conn[c].sess = None
  BY <1>1 DEF FreeConn
<1>5. InBacklog(1) = {} /\ InChannel(1) = {}
  BY <1>4 DEF InBacklog, InChannel, ConnsOf, None
<1>6. Counted /\ Cardinality(InBacklog(1)) = 0 /\ Cardinality(InChannel(1)) = 0
  BY <1>5, FS_EmptySet DEF Counted
<1>7. Load(task[1]) = 0 /\ Len(sess[1].queue) = 0
  BY <1>1, <1>2, <1>3 DEF Load
<1> QED
  BY <1>1, <1>2, <1>3, <1>4, <1>6, <1>7 DEF CountInv

LEMMA CountNext ==
    ASSUME OneMailbox, TypeInv, FenceInv, KeptInv, MailInv, CountInv, [Next]_vars
    PROVE  CountInv'
<1>1. CASE UNCHANGED vars
  <2>1. \A d \in Conns : SameLoad(conn[d], conn'[d])
    BY <1>1 DEF vars, SameLoad
  <2> QED
    BY <1>1, <2>1, CountFrame, CountTypes DEF vars, CountInv
<1>2. ASSUME NEW c \in Conns, ConnStep(c) \/ ClientStep(c) \/ WriterAborts(c)
      PROVE  CountInv'
  <2>1. CASE AttachConn(c)
    BY <2>1, CountAttach
  <2>2. CASE \/ DiscardQueueFile(c) \/ DetachConn(c) \/ InsertSub(c)
             \/ \E f \in Filters, req \in ReqQoS : Subscribe(c, f, req)
    BY <2>2, CountRest
  <2>3. CASE DrainBacklog(c)
    BY <2>3, CountDrain
  <2>4. CASE AttachExisting(c) \/ \E clean \in CleanFlags : AttachNew(c, clean)
    BY <2>4, CountArrive
  <2>5. CASE \/ SendConnAck(c) \/ ConnectEvent(c) \/ EnterRun(c)
             \/ ServeFails(c) \/ DisconnectEvent(c)
             \/ Reply(c) \/ Handled(c) \/ Disconnect(c) \/ RunFails(c) \/ Kicked(c)
             \/ \E handler \in Requests : ReadPacket(c, handler)
             \/ Write(c) \/ WriteFails(c) \/ WriterAborts(c)
    BY <2>5, CountLocal
  <2>6. /\ ~ReplaceSession(c) /\ ~Purge(c) /\ ~Unmap(c) /\ ~DiscardExisting(c)
        /\ ~\E f \in Filters : Unsubscribe(c, f)
    BY NeverDone
  <2> QED
    BY <1>2, <2>1, <2>2, <2>3, <2>4, <2>5, <2>6 DEF ConnStep, ClientStep
<1>3. ASSUME NEW t \in Tasks, TaskStep(t) PROVE CountInv'
  <2>1. t = 1
    BY DEF OneMailbox, Tasks
  <2>2. ~TaskAborts(1)
    BY DEF TaskAborts, MailInv, CarriesOK
  <2>3. CASE SendLive(1)
    BY <2>3, CountSend
  <2>4. CASE Enqueue(1) /\ StillOffline(sess[task[1].sess])
    BY <2>4, CountQueue
  <2>5. CASE \/ Receive(1)
             \/ ReadSink(1) \/ SendWaits(1) \/ SendClosed(1) \/ SendTimesOut(1)
             \/ EvictSlow(1) \/ ClearSink(1) \/ (Enqueue(1) /\ ~StillOffline(sess[task[1].sess]))
    BY <2>5, CountHolds
  <2> QED
    BY <1>3, <2>1, <2>2, <2>3, <2>4, <2>5 DEF TaskStep
<1>4. CASE \E class \in TopicClasses : Publish(class)
  BY <1>4, CountPublish
<1>5. ~SweepStep /\ ~Crash /\ ~StartupStep
  BY NeverDone
<1> QED
  BY <1>1, <1>2, <1>3, <1>4, <1>5 DEF Next

\* The invariant says of the one session what the property says of all.
LEMMA CountIsAccount ==
    ASSUME OneMailbox, TypeInv, KeptInv, MailInv, CountInv
    PROVE  EveryMessageAccountedFor
<1> DEFINE k == task[1]
           a == Load(k)
           g == k.got
<1>1. /\ 1 \in Sessions /\ Tasks = {1} /\ k \in TaskRecord
      /\ a \in Nat /\ g \in Nat
  <2>1. Tasks = 1..1
    BY DEF OneMailbox, Tasks
  <2> QED
    BY <2>1, CountTypes
<1>2. k.sess \in {None, 1} /\ \A c \in Conns : conn[c].sess \in {None, 1}
  <2>1. \A c \in Conns : conn[c].sess \in {None, 1}
    BY DEF KeptInv, OneSession, MailInv, Unused
  <2>2. node.sess = None
    BY DEF KeptInv, OneSession, MailInv
  <2>3. k.sess \in {None, 1}
    BY <1>1, <2>2 DEF KeptInv, OneSession, Home, MailInv, Unused
  <2> QED
    BY <2>1, <2>3
<1>3. None \notin Sessions
  BY DEF Sessions, None
<1>4. ASSUME NEW s \in Sessions \ {1}
      PROVE  Cardinality(Handed(s)) = Cardinality(InTasks(s)) + Len(sess[s].queue)
               + sess[s].dropped + Cardinality(InBacklog(s)) + Cardinality(InChannel(s))
  <2>1. TasksOf(s) = {} /\ ConnsOf(s) = {}
    BY <1>1, <1>2, <1>3 DEF TasksOf, ConnsOf
  <2>2. Handed(s) = {} /\ InTasks(s) = {} /\ InBacklog(s) = {} /\ InChannel(s) = {}
    BY <2>1 DEF Handed, InTasks, InBacklog, InChannel
  <2>3. sess[s].queue = << >> /\ sess[s].dropped = 0
    BY DEF CountInv
  <2>4. Cardinality({}) = 0 /\ Len(<< >>) = 0
    BY FS_EmptySet
  <2> QED
    BY <2>2, <2>3, <2>4
<1>5. Cardinality(Handed(1)) = g /\ Cardinality(InTasks(1)) = a
  <2>1. CASE k.sess = 1
    <3>1. TasksOf(1) = {1}
      BY <1>1, <2>1 DEF TasksOf
    <3> DEFINE H(t) == {<<t, i>> : i \in 1..task[t].got}
               I(t) == {<<t, i>> : i \in 1..(Len(task[t].inbox)
                                                + IF task[t].msg = None THEN 0 ELSE 1)}
    <3>a. Handed(1) = UNION {H(t) : t \in {1}} /\ InTasks(1) = UNION {I(t) : t \in {1}}
      BY <3>1 DEF Handed, InTasks
    <3>b. H(1) = {<<1, i>> : i \in 1..g} /\ I(1) = {<<1, i>> : i \in 1..a}
      BY DEF Load
    <3> HIDE DEF H, I
    <3>c. {H(t) : t \in {1}} = {H(1)} /\ {I(t) : t \in {1}} = {I(1)}
      OBVIOUS
    <3>d. UNION {H(1)} = H(1) /\ UNION {I(1)} = I(1)
      OBVIOUS
    <3>2. Handed(1) = {<<1, i>> : i \in 1..g} /\ InTasks(1) = {<<1, i>> : i \in 1..a}
      BY <3>a, <3>b, <3>c, <3>d
    <3> HIDE DEF g, a
    <3>3. Cardinality({<<1, i>> : i \in 1..g}) = g
      BY <1>1, PairsCount
    <3>4. Cardinality({<<1, i>> : i \in 1..a}) = a
      BY <1>1, PairsCount
    <3> QED
      BY <3>2, <3>3, <3>4
  <2>2. CASE k.sess # 1
    <3>1. TasksOf(1) = {}
      BY <1>1, <2>2 DEF TasksOf
    <3>2. Handed(1) = {} /\ InTasks(1) = {}
      BY <3>1 DEF Handed, InTasks
    <3>3. Cardinality({}) = 0
      BY FS_EmptySet
    <3>4. g = 0
      <4>1. k.pc \in {"free", "dead"}
        BY <1>1, <1>2, <1>3, <2>2 DEF TypeInv, HandlesOK, TaskHandlesOK
      <4> QED
        BY <4>1 DEF CountInv
    <3>5. a = 0
      <4> DEFINE n == Len(sess[1].queue)
                 b == sess[1].dropped
                 u == Cardinality(InBacklog(1))
                 v == Cardinality(InChannel(1))
      <4>1. n \in Nat /\ b \in Nat /\ u \in Nat /\ v \in Nat
        BY CountTypes
      <4>2. g = a + n + b + u + v
        BY DEF CountInv
      <4> HIDE DEF a, g, n, b, u, v
      <4> QED
        BY <1>1, <3>4, <4>1, <4>2
    <3> HIDE DEF a, g
    <3> QED
      BY <3>2, <3>3, <3>4, <3>5
  <2> QED
    BY <2>1, <2>2
<1>6. Cardinality(Handed(1)) = Cardinality(InTasks(1)) + Len(sess[1].queue)
               + sess[1].dropped + Cardinality(InBacklog(1)) + Cardinality(InChannel(1))
  BY <1>5 DEF CountInv
<1> QED
  BY <1>4, <1>6 DEF EveryMessageAccountedFor

(***************************************************************************)
(* Of the messages that zenoh handed to the subscription, each is in       *)
(* exactly one place, counting the drops of a full queue: deliver lets     *)
(* none go when a send fails, times out or finds its connection taken      *)
(* over, and attach_conn and the drain of the backlog copy none.           *)
(***************************************************************************)
THEOREM AccountCorrect ==
    ASSUME OneMailbox
    PROVE  Spec => []EveryMessageAccountedFor
<1> DEFINE Inv == TypeInv /\ FenceInv /\ QueueInv /\ KeptInv /\ OrderInv /\ MailInv /\ CountInv
<1>1. Init => Inv
  BY TypeInit, FenceInit, QueueInit, KeptInit, OrderInit, MailInit, CountInit
<1>2. Inv /\ [Next]_vars => Inv'
  <2> SUFFICES ASSUME Inv, [Next]_vars PROVE Inv'
    OBVIOUS
  <2>1. TypeInv' /\ FenceInv' /\ QueueInv'
    BY TypeNext, FenceNext, QueueNext
  <2>2. KeptInv'
    BY KeptNext DEF OneMailbox
  <2>3. OrderInv'
    BY OrderNext DEF OneMailbox
  <2>4. MailInv'
    BY MailNext
  <2>5. CountInv'
    BY CountNext
  <2> QED
    BY <2>1, <2>2, <2>3, <2>4, <2>5
<1>3. Inv => EveryMessageAccountedFor
  BY CountIsAccount
<1> HIDE DEF Inv
<1> QED
  BY <1>1, <1>2, <1>3, PTL DEF Spec


=============================================================================
