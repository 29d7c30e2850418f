------------------------- MODULE BrokerQueueProofs -------------------------
(***************************************************************************)
(* The offline queue, for every value of the constants: any number of      *)
(* connections, sessions, forwarding tasks and messages, any queue bound,  *)
(* with and without data_dir, expiry and slow-consumer grace, through      *)
(* crashes and restarts.  Then the two state files, for clients that never *)
(* ask for a clean session and a node that lets none expire: under these   *)
(* one session object serves the client id for the life of the process,    *)
(* and the files follow it.                                                *)
(***************************************************************************)
EXTENDS BrokerTypeProofs

-----------------------------------------------------------------------------
(***************************************************************************)
(* Which methods of SessionState change what deliver and attach look at.   *)
(***************************************************************************)

\* Changing subscriptions changes neither sink, epoch nor queue.
LEMMA SubsKeep ==
    ASSUME NEW s \in SessionRecord, NEW f, NEW t
    PROVE  /\ insert_sub(s, f, t).sink = s.sink /\ insert_sub(s, f, t).epoch = s.epoch
           /\ insert_sub(s, f, t).queue = s.queue
           /\ remove_sub(s, f).sink = s.sink /\ remove_sub(s, f).epoch = s.epoch
           /\ remove_sub(s, f).queue = s.queue
           /\ abort_subs(s).sink = s.sink /\ abort_subs(s).epoch = s.epoch
           /\ abort_subs(s).queue = s.queue
  BY DEF insert_sub, remove_sub, abort_subs, SessionRecord

\* Going offline clears the sink at most, and keeps epoch and queue.
LEMMA OfflineKeeps ==
    ASSUME NEW s \in SessionRecord, NEW c, NEW epoch
    PROVE  /\ detach_conn(s, epoch).queue = s.queue /\ detach_conn(s, epoch).epoch = s.epoch
           /\ detach_conn(s, epoch).sink = IF s.epoch = epoch THEN None ELSE s.sink
           /\ take_offline(s, c).queue = s.queue /\ take_offline(s, c).epoch = s.epoch
           /\ take_offline(s, c).sink = IF s.sink = c THEN None ELSE s.sink
<1>1. /\ detach_conn(s, epoch).queue = s.queue /\ detach_conn(s, epoch).epoch = s.epoch
      /\ detach_conn(s, epoch).sink = IF s.epoch = epoch THEN None ELSE s.sink
  BY DEF detach_conn, OwnsSession, SessionRecord
<1>2. /\ take_offline(s, c).queue = s.queue /\ take_offline(s, c).epoch = s.epoch
      /\ take_offline(s, c).sink = IF s.sink = c THEN None ELSE s.sink
  BY DEF take_offline, SameChannel, SessionRecord
<1> QED
  BY <1>1, <1>2

\* A new session is offline and loads at most MaxQueue messages.
LEMMA NewKeepsBound ==
    ASSUME NEW durable \in BOOLEAN, NEW file \in Seq(Msgs)
    PROVE  /\ new(durable, file).sink = None /\ new(durable, file).epoch = 0
           /\ Bounded(new(durable, file).queue)
<1>1. Bounded(load_queue(file))
  <2>1. CASE Len(file) <= MaxQueue
    BY <2>1 DEF load_queue, Bounded
  <2>2. CASE ~(Len(file) <= MaxQueue)
    <3>1. /\ Len(file) \in Nat /\ MaxQueue \in Nat
          /\ Len(file) - MaxQueue + 1 \in 1..Len(file) + 1
      BY <2>2, ConstantsAssumption
    <3>2. load_queue(file) = SubSeq(file, Len(file) - MaxQueue + 1, Len(file))
      BY <2>2 DEF load_queue
    <3>3. Len(SubSeq(file, Len(file) - MaxQueue + 1, Len(file))) = MaxQueue
      BY <3>1
    <3> QED
      BY <3>1, <3>2, <3>3 DEF Bounded
  <2> QED
    BY <2>1, <2>2
<1>2. Bounded(<< >>)
  BY ConstantsAssumption DEF Bounded
<1> QED
  BY <1>1, <1>2 DEF new

\* deliver's push respects the bound, and changes nothing but the queue.
LEMMA PushKeepsBound ==
    ASSUME NEW s \in SessionRecord, NEW m \in Msgs, MaxQueue # 0, Bounded(s.queue)
    PROVE  /\ Bounded(push_queue(s, m).queue)
           /\ push_queue(s, m).sink = s.sink /\ push_queue(s, m).epoch = s.epoch
<1>1. s.queue \in Seq(Msgs) /\ MaxQueue \in Nat
  BY ConstantsAssumption DEF SessionRecord
<1>2. CASE Len(s.queue) >= MaxQueue
  <2>1. s.queue # << >> /\ Len(s.queue) = MaxQueue
    BY <1>1, <1>2 DEF Bounded
  <2>2. Len(Append(Tail(s.queue), m)) = MaxQueue
    BY <1>1, <2>1
  <2> QED
    BY <1>1, <1>2, <2>2 DEF push_queue, SessionRecord, Bounded
<1>3. CASE ~(Len(s.queue) >= MaxQueue)
  <2>1. Len(Append(s.queue, m)) <= MaxQueue
    BY <1>1, <1>3
  <2> QED
    BY <1>1, <1>3, <2>1 DEF push_queue, SessionRecord, Bounded
<1> QED
  BY <1>2, <1>3

-----------------------------------------------------------------------------
(***************************************************************************)
(* The offline queue.                                                      *)
(***************************************************************************)
SessionQueueOK(s) == (s.queue # << >> => s.sink = None) /\ Bounded(s.queue)

QueueInv == Bounded(disk.queue) /\ \A s \in Sessions : SessionQueueOK(sess[s])

\* A step that leaves the file and every sink and queue alone, or shortens
\* the file to nothing.
LEMMA QueueFrame ==
    ASSUME TypeInv, QueueInv,
           disk'.queue \in {disk.queue, << >>},
           \A s \in Sessions : sess'[s].queue = sess[s].queue /\ sess'[s].sink \in {sess[s].sink, None}
    PROVE  QueueInv'
<1>1. Bounded(<< >>)
  BY ConstantsAssumption DEF Bounded
<1> QED
  BY <1>1 DEF QueueInv, SessionQueueOK, Bounded

\* The file operations do what QueueFrame asks of the queue file.
LEMMA DiskKeeps ==
    ASSUME NEW d \in DiskRecord, NEW s, NEW qosOf
    PROVE  /\ persist_subs(d, s, qosOf).queue = d.queue
           /\ discard_queue_file(d, s).queue \in {d.queue, << >>}
           /\ discard_state_files(d, s).queue \in {d.queue, << >>}
           /\ persist_queue(d, s).queue \in {d.queue, s.queue}
  BY DEF persist_subs, discard_queue_file, discard_state_files, persist_queue, NoFiles, DiskRecord

\* A step that replaces one session's record.
LEMMA QueueUpdate ==
    ASSUME TypeInv, QueueInv, NEW s \in Sessions, NEW r,
           sess' = [sess EXCEPT ![s] = r], SessionQueueOK(r), Bounded(disk'.queue)
    PROVE  QueueInv'
<1>1. sess \in [Sessions -> SessionRecord]
  BY DEF TypeInv, TypeOK
<1>2. \A q \in Sessions : sess'[q] = r \/ sess'[q] = sess[q]
  BY <1>1
<1> QED
  BY <1>2 DEF QueueInv, SessionQueueOK, Bounded

\* The steps of a connection: only attach_conn, the making of a session and
\* detach_conn touch sink or queue.
LEMMA QueueConnStep ==
    ASSUME TypeInv, QueueInv, NEW c \in Conns,
           ConnStep(c) \/ ClientStep(c) \/ WriterAborts(c)
    PROVE  QueueInv'
<1> DEFINE s == conn[c].sess
<1>t. /\ sess \in [Sessions -> SessionRecord] /\ disk \in DiskRecord
      /\ conn[c].pc \notin {"free", "closed", "replace"} => s \in Sessions
      /\ registry \in Sessions \cup {None}
  BY DEF TypeInv, TypeOK, HandlesOK, ConnHandlesOK
<1>b. Bounded(disk.queue) /\ Bounded(<< >>) /\ \A q \in Sessions : SessionQueueOK(sess[q])
  BY ConstantsAssumption DEF QueueInv, Bounded
<1>q. disk.queue \in Seq(Msgs) /\ << >> \in Seq(Msgs)
  BY <1>t DEF DiskRecord
<1>1. ASSUME sess' = sess, disk' = disk
      PROVE  QueueInv'
  BY <1>1 DEF QueueInv, SessionQueueOK, Bounded
<1>2. CASE \/ SendConnAck(c) \/ ConnectEvent(c) \/ DrainBacklog(c) \/ EnterRun(c)
           \/ ServeFails(c) \/ DisconnectEvent(c)
           \/ Reply(c) \/ Handled(c) \/ Disconnect(c) \/ RunFails(c) \/ Kicked(c)
           \/ \E handler \in Requests : ReadPacket(c, handler)
           \/ Write(c) \/ WriteFails(c) \/ WriterAborts(c)
           \/ AttachExisting(c) \/ Unmap(c)
           \/ \E f \in Filters, req \in ReqQoS : Subscribe(c, f, req)
  BY <1>1, <1>2 DEF SendConnAck, ConnectEvent, DisconnectEvent, DrainBacklog, EnterRun, ServeFails, Reply, Handled,
     Disconnect, RunFails, Kicked, EndRun, ReadPacket, Write, WriteFails, WriterAborts,
     AttachExisting, Unmap, Subscribe
<1>3. CASE DiscardQueueFile(c)
  <2>1. sess' = sess /\ disk' = discard_queue_file(disk, sess[s])
    BY <1>3 DEF DiscardQueueFile
  <2>2. disk'.queue \in {disk.queue, << >>}
    BY <1>t, <2>1, DiskKeeps
  <2> QED
    BY <2>1, <2>2, QueueFrame
<1>4. CASE AttachConn(c)
  <2>1. /\ s \in Sessions /\ disk' = disk
        /\ sess' = [sess EXCEPT ![s] = attach_conn(sess[s], c)]
    BY <1>4, <1>t DEF AttachConn
  <2>2. attach_conn(sess[s], c).queue = << >>
    BY <1>t, <2>1 DEF attach_conn, SessionRecord
  <2>3. SessionQueueOK(attach_conn(sess[s], c))
    BY <1>b, <2>2 DEF SessionQueueOK
  <2> QED
    BY <1>b, <2>1, <2>3, QueueUpdate
<1>5. CASE InsertSub(c)
  <2> DEFINE r == insert_sub(sess[s], conn[c].filter, conn[c].task)
  <2>1. /\ s \in Sessions /\ disk' = persist_subs(disk, sess'[s], QoSOf(task))
        /\ sess' = [sess EXCEPT ![s] = r]
    BY <1>5, <1>t DEF InsertSub
  <2>2. r.queue = sess[s].queue /\ r.sink = sess[s].sink
    BY <1>t, <2>1, SubsKeep
  <2>3. disk'.queue = disk.queue
    BY <1>t, <2>1, DiskKeeps
  <2>4. SessionQueueOK(r) /\ Bounded(disk'.queue)
    BY <1>b, <2>1, <2>2, <2>3 DEF SessionQueueOK
  <2> HIDE DEF r
  <2> QED
    BY <2>1, <2>4, QueueUpdate
<1>6. ASSUME NEW f \in Filters, Unsubscribe(c, f)
      PROVE  QueueInv'
  <2> DEFINE r == remove_sub(sess[s], f)
  <2>1. /\ s \in Sessions /\ disk' = persist_subs(disk, sess'[s], QoSOf(task))
        /\ sess' = [sess EXCEPT ![s] = r]
    BY <1>6, <1>t DEF Unsubscribe
  <2>2. r.queue = sess[s].queue /\ r.sink = sess[s].sink
    BY <1>t, <2>1, SubsKeep
  <2>3. disk'.queue = disk.queue
    BY <1>t, <2>1, DiskKeeps
  <2>4. SessionQueueOK(r) /\ Bounded(disk'.queue)
    BY <1>b, <2>1, <2>2, <2>3 DEF SessionQueueOK
  <2> HIDE DEF r
  <2> QED
    BY <2>1, <2>4, QueueUpdate
<1>7. CASE DetachConn(c)
  <2> DEFINE r == detach_conn(sess[s], conn[c].epoch)
  <2>1. s \in Sessions /\ disk' = disk /\ sess' = [sess EXCEPT ![s] = r]
    BY <1>7, <1>t DEF DetachConn
  <2>2. r.queue = sess[s].queue /\ r.sink \in {sess[s].sink, None}
    BY <1>t, <2>1, OfflineKeeps
  <2>3. SessionQueueOK(r) /\ Bounded(disk'.queue)
    BY <1>b, <2>1, <2>2 DEF SessionQueueOK
  <2> HIDE DEF r
  <2> QED
    BY <2>1, <2>3, QueueUpdate
<1>8. CASE Purge(c)
  <2> DEFINE r == abort_subs(sess[s])
  <2>1. /\ s \in Sessions /\ disk' = discard_state_files(disk, sess[s])
        /\ sess' = [sess EXCEPT ![s] = r]
    BY <1>8, <1>t DEF Purge
  <2>2. r.queue = sess[s].queue /\ r.sink = sess[s].sink
    BY <1>t, <2>1, SubsKeep
  <2>3. disk'.queue \in {disk.queue, << >>}
    BY <1>t, <2>1, DiskKeeps
  <2>4. SessionQueueOK(r) /\ Bounded(disk'.queue)
    BY <1>b, <2>1, <2>2, <2>3 DEF SessionQueueOK
  <2> HIDE DEF r
  <2> QED
    BY <2>1, <2>4, QueueUpdate
<1>9. ASSUME NEW clean \in CleanFlags, AttachNew(c, clean)
      PROVE  QueueInv'
  <2> DEFINE n     == made.sess + 1
             kept  == IF clean THEN NoFiles ELSE disk
             file  == kept.queue
             durable == ~clean /\ DataDir
             fresh == new(durable, file)
  <2>1. n \in Sessions /\ disk' = kept
    BY <1>9 DEF AttachNew
  <2>2. durable \in BOOLEAN /\ file \in Seq(Msgs) /\ Bounded(disk'.queue)
    BY <1>b, <1>q, <2>1, BrokerAssumption, ConstantsAssumption DEF NoFiles
  <2>3. SessionQueueOK(fresh)
    <3> HIDE DEF durable, file
    <3> QED
      BY <2>2, NewKeepsBound DEF SessionQueueOK
  <2>4. sess' = [sess EXCEPT ![n] = fresh]
    BY <1>9 DEF AttachNew
  <2> QED
    BY <2>1, <2>2, <2>3, <2>4, QueueUpdate
<1>10. CASE DiscardExisting(c)
  <2> DEFINE r == abort_subs(sess[registry])
  <2>1. registry \in Sessions /\ disk' = disk /\ sess' = [sess EXCEPT ![registry] = r]
    BY <1>10, <1>t DEF DiscardExisting
  <2>2. r.queue = sess[registry].queue /\ r.sink = sess[registry].sink
    BY <1>t, <2>1, SubsKeep
  <2>3. SessionQueueOK(r) /\ Bounded(disk'.queue)
    BY <1>b, <2>1, <2>2 DEF SessionQueueOK
  <2> HIDE DEF r
  <2> QED
    BY <2>1, <2>3, QueueUpdate
<1>11. CASE ReplaceSession(c)
  <2> DEFINE n == made.sess + 1
             r == new(FALSE, << >>)
  <2>1. n \in Sessions /\ disk' = NoFiles /\ sess' = [sess EXCEPT ![n] = r]
    BY <1>11 DEF ReplaceSession
  <2>2. SessionQueueOK(r) /\ Bounded(disk'.queue)
    BY <1>b, <1>q, <2>1, NewKeepsBound DEF SessionQueueOK, NoFiles
  <2> HIDE DEF r, n
  <2> QED
    BY <2>1, <2>2, QueueUpdate
<1>12. CASE ConnStep(c)
  BY <1>2, <1>3, <1>4, <1>5, <1>6, <1>7, <1>8, <1>11, <1>12 DEF ConnStep
<1>13. CASE ClientStep(c)
  BY <1>2, <1>9, <1>10, <1>13 DEF ClientStep
<1> QED
  BY <1>2, <1>12, <1>13

\* deliver: the only place that pushes, and only behind a second look at
\* the sink.
LEMMA QueueTaskStep ==
    ASSUME TypeInv, QueueInv, NEW t \in Tasks, TaskStep(t)
    PROVE  QueueInv'
<1> DEFINE s == task[t].sess
<1>t. /\ sess \in [Sessions -> SessionRecord] /\ disk \in DiskRecord
      /\ task[t].pc \notin {"free", "dead"} => s \in Sessions
      /\ task[t].pc = "offline" => task[t].msg \in Msgs /\ MaxQueue # 0
  BY DEF TypeInv, TypeOK, HandlesOK, TaskHandlesOK
<1>b. Bounded(disk.queue) /\ \A q \in Sessions : SessionQueueOK(sess[q])
  BY DEF QueueInv
<1>1. CASE \/ Receive(t) \/ ReadSink(t) \/ SendLive(t) \/ SendWaits(t) \/ SendClosed(t)
           \/ SendTimesOut(t) \/ TaskAborts(t)
  <2>1. sess' = sess /\ disk' = disk
    BY <1>1 DEF Receive, ReadSink, SendLive, SendWaits, SendClosed, SendTimesOut,
       TaskAborts
  <2> QED
    BY <2>1 DEF QueueInv, SessionQueueOK, Bounded
<1>2. CASE EvictSlow(t) \/ ClearSink(t)
  <2> DEFINE r == take_offline(sess[s], task[t].tx)
  <2>1. s \in Sessions /\ disk' = disk /\ sess' = [sess EXCEPT ![s] = r]
    BY <1>2, <1>t DEF EvictSlow, ClearSink
  <2>2. r.queue = sess[s].queue /\ r.sink \in {sess[s].sink, None}
    BY <1>t, <2>1, OfflineKeeps
  <2>3. SessionQueueOK(r) /\ Bounded(disk'.queue)
    BY <1>b, <2>1, <2>2 DEF SessionQueueOK
  <2> HIDE DEF r
  <2> QED
    BY <2>1, <2>3, QueueUpdate
<1>3. CASE Enqueue(t)
  <2>0. s \in Sessions /\ task[t].msg \in Msgs /\ MaxQueue # 0
    BY <1>3, <1>t DEF Enqueue
  <2>1. CASE sess[s].sink = None
    <3> DEFINE r == push_queue(sess[s], task[t].msg)
    <3>1. sess' = [sess EXCEPT ![s] = r] /\ disk' = persist_queue(disk, sess'[s])
      BY <1>3, <2>1 DEF Enqueue, StillOffline
    <3>2. Bounded(r.queue) /\ r.sink = None
      BY <1>t, <1>b, <2>0, <2>1, PushKeepsBound DEF SessionQueueOK
    <3>3. sess'[s] = r
      BY <1>t, <2>0, <3>1
    <3>4. disk'.queue \in {disk.queue, r.queue}
      BY <1>t, <3>1, <3>3, DiskKeeps
    <3>5. Bounded(disk'.queue)
      BY <1>b, <3>2, <3>4
    <3> HIDE DEF r
    <3> QED
      BY <2>0, <3>1, <3>2, <3>5, QueueUpdate DEF SessionQueueOK
  <2>2. CASE sess[s].sink # None
    <3>1. sess' = sess /\ disk' = disk
      BY <1>3, <2>2 DEF Enqueue, StillOffline
    <3> QED
      BY <3>1 DEF QueueInv, SessionQueueOK, Bounded
  <2> QED
    BY <2>1, <2>2
<1> QED
  BY <1>1, <1>2, <1>3 DEF TaskStep

\* The sweeper, the death of the process and its restart.
LEMMA QueueNodeStep ==
    ASSUME TypeInv, QueueInv, SweepStep \/ Crash \/ StartupStep
    PROVE  QueueInv'
<1>t. /\ sess \in [Sessions -> SessionRecord] /\ disk \in DiskRecord
      /\ sweeper.pc # "idle" => sweeper.sess \in Sessions
      /\ node.state = "rehydrate" => node.sess \in Sessions
  BY DEF TypeInv, TypeOK, HandlesOK, NodeHandlesOK
<1>b. Bounded(disk.queue) /\ \A q \in Sessions : SessionQueueOK(sess[q])
  BY DEF QueueInv
<1>q. disk.queue \in Seq(Msgs) /\ << >> \in Seq(Msgs)
  BY <1>t DEF DiskRecord
<1>1. CASE SweepRetain \/ \E f \in Filters, qos \in QoS : RehydrateSkips(f, qos)
  BY <1>1 DEF SweepRetain, RehydrateSkips, QueueInv, SessionQueueOK, Bounded
<1>2. CASE SweepAbort
  <2> DEFINE s == sweeper.sess
             r == abort_subs(sess[s])
  <2>1. s \in Sessions /\ disk' = disk /\ sess' = [sess EXCEPT ![s] = r]
    BY <1>2, <1>t DEF SweepAbort
  <2>2. r.queue = sess[s].queue /\ r.sink = sess[s].sink
    BY <1>t, <2>1, SubsKeep
  <2>3. SessionQueueOK(r) /\ Bounded(disk'.queue)
    BY <1>b, <2>1, <2>2 DEF SessionQueueOK
  <2> HIDE DEF r
  <2> QED
    BY <2>1, <2>3, QueueUpdate
<1>3. CASE SweepDiscard
  <2>1. sess' = sess /\ disk' = discard_state_files(disk, sess[sweeper.sess])
    BY <1>3 DEF SweepDiscard
  <2>2. disk'.queue \in {disk.queue, << >>}
    BY <1>t, <2>1, DiskKeeps
  <2> QED
    BY <2>1, <2>2, QueueFrame
<1>4. CASE Crash
  <2>1. disk' = disk /\ \A q \in Sessions : sess'[q] = new(FALSE, << >>)
    BY <1>4 DEF Crash
  <2>2. SessionQueueOK(new(FALSE, << >>))
    BY <1>q, NewKeepsBound DEF SessionQueueOK
  <2> QED
    BY <1>b, <2>1, <2>2 DEF QueueInv, SessionQueueOK, Bounded
<1>5. ASSUME NEW acl \in SUBSET Filters, Restart(acl)
      PROVE  QueueInv'
  <2>1. CASE disk.subs = {}
    BY <1>5, <2>1 DEF Restart, QueueInv, SessionQueueOK, Bounded
  <2>2. CASE disk.subs # {}
    <3>1. 1 \in Sessions /\ sess' = [sess EXCEPT ![1] = new(TRUE, disk.queue)] /\ disk' = disk
      BY <1>5, <2>2 DEF Restart
    <3>2. SessionQueueOK(new(TRUE, disk.queue))
      BY <1>q, NewKeepsBound DEF SessionQueueOK
    <3> QED
      BY <1>b, <3>1, <3>2, QueueUpdate
  <2> QED
    BY <2>1, <2>2
<1>6. ASSUME NEW f \in Filters, NEW qos \in QoS, Rehydrate(f, qos)
      PROVE  QueueInv'
  <2> DEFINE s == node.sess
             r == insert_sub(sess[s], f, made.task + 1)
  <2>1. /\ s \in Sessions /\ disk' = persist_subs(disk, sess'[s], QoSOf(task'))
        /\ sess' = [sess EXCEPT ![s] = r]
    BY <1>6, <1>t DEF Rehydrate
  <2>2. r.queue = sess[s].queue /\ r.sink = sess[s].sink
    BY <1>t, <2>1, SubsKeep
  <2>3. disk'.queue = disk.queue
    BY <1>t, <2>1, DiskKeeps
  <2>4. SessionQueueOK(r) /\ Bounded(disk'.queue)
    BY <1>b, <2>1, <2>2, <2>3 DEF SessionQueueOK
  <2> HIDE DEF r
  <2> QED
    BY <2>1, <2>4, QueueUpdate
<1>7. CASE RehydrateDone
  <2>1. sess' = sess /\ disk' = persist_subs(disk, sess[node.sess], QoSOf(task))
    BY <1>7 DEF RehydrateDone
  <2>2. disk'.queue = disk.queue
    BY <1>t, <2>1, DiskKeeps
  <2> QED
    BY <2>1, <2>2, QueueFrame
<1> QED
  BY <1>1, <1>2, <1>3, <1>4, <1>5, <1>6, <1>7 DEF SweepStep, StartupStep

\* Every session starts with an empty queue, and there is no file.
LEMMA QueueInit == Init => QueueInv
<1> SUFFICES ASSUME Init PROVE QueueInv
  OBVIOUS
<1>1. << >> \in Seq(Msgs) /\ FALSE \in BOOLEAN
  OBVIOUS
<1>2. SessionQueueOK(new(FALSE, << >>))
  BY <1>1, NewKeepsBound DEF SessionQueueOK
<1>3. Bounded(disk.queue)
  BY ConstantsAssumption DEF Init, NoFiles, Bounded
<1>4. \A s \in Sessions : sess[s] = new(FALSE, << >>)
  BY DEF Init
<1> QED
  BY <1>2, <1>3, <1>4 DEF QueueInv

\* Every step keeps the queues right.
LEMMA QueueNext == TypeInv /\ QueueInv /\ [Next]_vars => QueueInv'
<1> SUFFICES ASSUME TypeInv, QueueInv, [Next]_vars PROVE QueueInv'
  OBVIOUS
<1>1. ASSUME NEW class \in TopicClasses, Publish(class) PROVE QueueInv'
  BY <1>1 DEF Publish, QueueInv, SessionQueueOK, Bounded
<1>2. CASE UNCHANGED vars
  BY <1>2 DEF vars, QueueInv, SessionQueueOK, Bounded
<1> QED
  BY <1>1, <1>2, QueueConnStep, QueueTaskStep, QueueNodeStep DEF Next

\* TypeInv and QueueInv hold throughout.
LEMMA QueueAlways == Spec => [](TypeInv /\ QueueInv)
<1>1. Init => TypeInv /\ QueueInv
  BY TypeInit, QueueInit
<1>2. TypeInv /\ QueueInv /\ [Next]_vars => (TypeInv /\ QueueInv)'
  BY TypeNext, QueueNext
<1> QED
  BY <1>1, <1>2, PTL DEF Spec

(***************************************************************************)
(* deliver and attach_conn keep the offline queue right whatever the order *)
(* of their steps: nothing is stranded behind a live sink.                 *)
(***************************************************************************)
THEOREM QueueCorrect == Spec => []QueueOnlyOffline
<1>1. QueueInv => QueueOnlyOffline
  BY DEF QueueInv, SessionQueueOK, QueueOnlyOffline
<1> QED
  BY <1>1, QueueAlways, PTL

(***************************************************************************)
(* Neither the queue nor its file outgrows max_queued_per_session, through *)
(* pushes, drains, restarts and reloads.                                   *)
(***************************************************************************)
THEOREM QueueFits == Spec => []QueueBounded
<1>1. QueueInv => QueueBounded
  BY DEF QueueInv, SessionQueueOK, QueueBounded
<1> QED
  BY <1>1, QueueAlways, PTL

-----------------------------------------------------------------------------
(***************************************************************************)
(* What a step leaves alone: the facts about single steps that the         *)
(* invariants below share.                                                 *)
(***************************************************************************)
Running == {"select", "subscribe", "insert", "unsubscribe", "reply"}

Greeting == {"connack", "hello", "drain"}

KeepsConn(d) ==
    /\ conn'[d].sess = conn[d].sess
    /\ conn'[d].epoch = conn[d].epoch
    /\ conn'[d].clean = conn[d].clean
    /\ conn'[d].filter = conn[d].filter
    /\ conn'[d].task = conn[d].task

KeepsSess(s) ==
    /\ sess'[s].epoch = sess[s].epoch
    /\ sess'[s].subs = sess[s].subs
    /\ sess'[s].durable = sess[s].durable

KeepsTask(t) ==
    /\ task'[t].sess = task[t].sess
    /\ task'[t].filter = task[t].filter
    /\ task'[t].qos = task[t].qos
    /\ Live(t)' /\ ~task'[t].aborted => Live(t) /\ ~task[t].aborted

\* How a connection moves on by itself, between attach_conn and its end.
Moves(p, q) ==
    \/ q = p
    \/ p \in Greeting /\ q \in Greeting \cup {"select", "closed"}
    \/ p \in Running \ {"insert"} /\ q \in (Running \ {"insert"}) \cup {"ended"}
    \/ p = "bye" /\ q = "closed"

\* A change of one record that touches none of the fields above.
LEMMA RecordMoves ==
    ASSUME TypeInv, NEW c \in Conns, NEW r, conn' = [conn EXCEPT ![c] = r],
           r.sess = conn[c].sess, r.epoch = conn[c].epoch, r.clean = conn[c].clean,
           r.filter = conn[c].filter, r.task = conn[c].task, Moves(conn[c].pc, r.pc)
    PROVE  \A d \in Conns : KeepsConn(d) /\ Moves(conn[d].pc, conn'[d].pc)
<1>1. conn'[c] = r /\ \A d \in Conns \ {c} : conn'[d] = conn[d]
  BY DEF TypeInv, TypeOK
<1> QED
  BY <1>1 DEF KeepsConn, Moves

\* Steps of a connection that change only its own record.
LEMMA LocalEffect ==
    ASSUME TypeInv, NEW c \in Conns,
           \/ SendConnAck(c) \/ ConnectEvent(c) \/ DrainBacklog(c) \/ EnterRun(c)
           \/ ServeFails(c) \/ DisconnectEvent(c)
           \/ Reply(c) \/ Handled(c) \/ Disconnect(c) \/ RunFails(c) \/ Kicked(c)
           \/ \E handler \in Requests : ReadPacket(c, handler)
           \/ Write(c) \/ WriteFails(c) \/ WriterAborts(c)
    PROVE  /\ UNCHANGED <<registry, sess, task, disk, node, sweeper, made>>
           /\ \A d \in Conns : KeepsConn(d) /\ Moves(conn[d].pc, conn'[d].pc)
<1>t. conn \in [Conns -> ConnRecord]
  BY DEF TypeInv, TypeOK
<1> DEFINE Goal == \A d \in Conns : KeepsConn(d) /\ Moves(conn[d].pc, conn'[d].pc)
<1>1. UNCHANGED <<registry, sess, task, disk, node, sweeper, made>>
  BY DEF SendConnAck, ConnectEvent, DisconnectEvent, DrainBacklog, EnterRun, ServeFails, Reply,
     Handled, Disconnect, RunFails, Kicked, EndRun, ReadPacket, Write, WriteFails, WriterAborts
<1>r. ASSUME NEW r, conn' = [conn EXCEPT ![c] = r],
             r.sess = conn[c].sess, r.epoch = conn[c].epoch, r.clean = conn[c].clean,
             r.filter = conn[c].filter, r.task = conn[c].task, Moves(conn[c].pc, r.pc)
      PROVE  Goal
  BY <1>r, RecordMoves
<1>p. ASSUME NEW pc, Moves(conn[c].pc, pc), conn' = [conn EXCEPT ![c].pc = pc]
      PROVE  Goal
  <2> DEFINE r == [conn[c] EXCEPT !.pc = pc]
  <2>1. conn' = [conn EXCEPT ![c] = r]
    BY <1>t, <1>p
  <2>2. /\ r.sess = conn[c].sess /\ r.epoch = conn[c].epoch /\ r.clean = conn[c].clean
        /\ r.filter = conn[c].filter /\ r.task = conn[c].task /\ r.pc = pc
    BY <1>t DEF ConnRecord
  <2> HIDE DEF r, Goal
  <2> QED
    BY <1>p, <2>1, <2>2, <1>r
<1>o. ASSUME NEW pc, NEW o, Moves(conn[c].pc, pc), conn' = [conn EXCEPT ![c].pc = pc, ![c].out = o]
      PROVE  Goal
  <2> DEFINE r == [conn[c] EXCEPT !.pc = pc, !.out = o]
  <2>1. conn' = [conn EXCEPT ![c] = r]
    BY <1>t, <1>o
  <2>2. /\ r.sess = conn[c].sess /\ r.epoch = conn[c].epoch /\ r.clean = conn[c].clean
        /\ r.filter = conn[c].filter /\ r.task = conn[c].task /\ r.pc = pc
    BY <1>t DEF ConnRecord
  <2> HIDE DEF r, Goal
  <2> QED
    BY <1>o, <2>1, <2>2, <1>r
<1>2. CASE SendConnAck(c)
  <2>1. conn[c].pc = "connack" /\ conn' = [conn EXCEPT ![c].pc = "hello", ![c].out = Put(c, "connack", None)]
    BY <1>2 DEF SendConnAck
  <2>2. Moves(conn[c].pc, "hello")
    BY <2>1 DEF Moves, Greeting
  <2> HIDE DEF Goal
  <2>3. Goal
    BY <1>o, <2>1, <2>2
  <2> QED
    BY <1>1, <2>3 DEF Goal
<1>3. CASE DrainBacklog(c)
  <2> DEFINE b == Tail(conn[c].backlog)
             o == Put(c, "backlog", Head(conn[c].backlog))
             r == [conn[c] EXCEPT !.backlog = b, !.out = o]
  <2>1. conn' = [conn EXCEPT ![c] = r]
    BY <1>t, <1>3 DEF DrainBacklog
  <2> HIDE DEF b, o
  <2>2. /\ r.sess = conn[c].sess /\ r.epoch = conn[c].epoch /\ r.clean = conn[c].clean
        /\ r.filter = conn[c].filter /\ r.task = conn[c].task /\ r.pc = conn[c].pc
    BY <1>t DEF ConnRecord
  <2>3. Moves(conn[c].pc, r.pc)
    BY <2>2 DEF Moves
  <2> HIDE DEF r
  <2> QED
    BY <1>1, <2>1, <2>2, <2>3, RecordMoves
<1>4. CASE Reply(c)
  <2>1. /\ conn[c].pc \in {"subscribe", "unsubscribe", "reply"}
        /\ conn' = [conn EXCEPT ![c].pc = "reply", ![c].out = Put(c, "reply", None)]
    BY <1>4 DEF Reply
  <2>2. Moves(conn[c].pc, "reply")
    BY <2>1 DEF Moves, Running
  <2> HIDE DEF Goal
  <2>3. Goal
    BY <1>o, <2>1, <2>2
  <2> QED
    BY <1>1, <2>3 DEF Goal
<1>5. CASE ConnectEvent(c) \/ EnterRun(c) \/ ServeFails(c) \/ Handled(c) \/ DisconnectEvent(c)
  <2> HIDE DEF Goal
  <2>1. CASE ConnectEvent(c)
    <3>1. Moves(conn[c].pc, "drain") /\ conn' = [conn EXCEPT ![c].pc = "drain"]
      BY <2>1 DEF ConnectEvent, Moves, Greeting
    <3> QED
      BY <1>p, <1>1, <3>1 DEF Goal
  <2>2. CASE EnterRun(c) \/ Handled(c)
    <3>1. Moves(conn[c].pc, "select") /\ conn' = [conn EXCEPT ![c].pc = "select"]
      BY <2>2 DEF EnterRun, Handled, Moves, Greeting, Running
    <3> QED
      BY <1>p, <1>1, <3>1 DEF Goal
  <2>3. CASE ServeFails(c) \/ DisconnectEvent(c)
    <3>1. Moves(conn[c].pc, "closed") /\ conn' = [conn EXCEPT ![c].pc = "closed"]
      BY <2>3 DEF ServeFails, DisconnectEvent, Moves, Greeting
    <3> QED
      BY <1>p, <1>1, <3>1 DEF Goal
  <2> QED
    BY <1>5, <2>1, <2>2, <2>3
<1>6. ASSUME NEW handler \in Requests, ReadPacket(c, handler)
      PROVE  Goal
  <2> DEFINE r == [conn[c] EXCEPT !.pc = handler, !.notified = FALSE]
  <2>1. conn' = [conn EXCEPT ![c] = r] /\ conn[c].pc = "select"
    BY <1>t, <1>6 DEF ReadPacket
  <2>2. /\ r.sess = conn[c].sess /\ r.epoch = conn[c].epoch /\ r.clean = conn[c].clean
        /\ r.filter = conn[c].filter /\ r.task = conn[c].task /\ r.pc = handler
    BY <1>t DEF ConnRecord
  <2>3. Moves(conn[c].pc, handler)
    BY <2>1, BrokerAssumption DEF Moves, Running
  <2> HIDE DEF r, Goal
  <2> QED
    BY <2>1, <2>2, <2>3, <1>r
<1>7. ASSUME NEW will, EndRun(c, will), conn[c].pc \in {"select", "subscribe", "unsubscribe", "reply"}
      PROVE  Goal
  <2> DEFINE w == IF conn[c].writer = "up" THEN "aborting" ELSE conn[c].writer
             r == [conn[c] EXCEPT !.pc = "ended", !.will = will, !.notified = FALSE, !.writer = w]
  <2>1. conn' = [conn EXCEPT ![c] = r]
    BY <1>t, <1>7 DEF EndRun
  <2> HIDE DEF w
  <2>2. /\ r.sess = conn[c].sess /\ r.epoch = conn[c].epoch /\ r.clean = conn[c].clean
        /\ r.filter = conn[c].filter /\ r.task = conn[c].task /\ r.pc = "ended"
    BY <1>t DEF ConnRecord
  <2>3. Moves(conn[c].pc, "ended")
    BY <1>7 DEF Moves, Running
  <2> HIDE DEF r, Goal
  <2> QED
    BY <2>1, <2>2, <2>3, <1>r
<1>8. CASE Disconnect(c) \/ RunFails(c) \/ Kicked(c)
  <2> HIDE DEF Goal
  <2>1. Goal
    BY <1>7, <1>8 DEF Disconnect, RunFails, Kicked
  <2> QED
    BY <1>1, <2>1 DEF Goal
<1>9. CASE Write(c)
  BY <1>t, <1>1, <1>9 DEF ConnRecord, KeepsConn, Moves, Write
<1>10. CASE WriteFails(c) \/ WriterAborts(c)
  <2> DEFINE r == [conn[c] EXCEPT !.writer = "gone"]
  <2>1. conn' = [conn EXCEPT ![c] = r]
    BY <1>t, <1>10 DEF WriteFails, WriterAborts
  <2>2. /\ r.sess = conn[c].sess /\ r.epoch = conn[c].epoch /\ r.clean = conn[c].clean
        /\ r.filter = conn[c].filter /\ r.task = conn[c].task /\ r.pc = conn[c].pc
    BY <1>t DEF ConnRecord
  <2>3. Moves(conn[c].pc, r.pc)
    BY <2>2 DEF Moves
  <2> HIDE DEF r
  <2> QED
    BY <1>1, <2>1, <2>2, <2>3, RecordMoves
<1> QED
  BY <1>1, <1>2, <1>3, <1>4, <1>5, <1>6, <1>8, <1>9, <1>10

\* An abort changes nothing of a task but its life.
LEMMA AbortEffect ==
    ASSUME TypeInv, NEW T, task' = Abort(task, T)
    PROVE  /\ \A t \in Tasks : KeepsTask(t)
           /\ \A t \in T \cap Tasks : task'[t].aborted
<1>1. task \in [Tasks -> TaskRecord]
  BY DEF TypeInv, TypeOK
<1>2. ASSUME NEW k \in TaskRecord
      PROVE  /\ CancelTask(k).sess = k.sess /\ CancelTask(k).filter = k.filter
             /\ CancelTask(k).qos = k.qos /\ CancelTask(k).aborted
  BY DEF CancelTask, Dead, TaskRecord
<1>3. \A t \in Tasks : task'[t] = IF t \in T THEN CancelTask(task[t]) ELSE task[t]
  BY DEF Abort
<1>4. \A t \in Tasks : KeepsTask(t)
  BY <1>1, <1>2, <1>3 DEF KeepsTask, Live
<1>5. \A t \in T \cap Tasks : task'[t].aborted
  BY <1>1, <1>2, <1>3
<1> QED
  BY <1>4, <1>5

\* A step of one task, as a change of its record.
LEMMA RecordTask ==
    ASSUME TypeInv, NEW t \in Tasks, NEW r, task' = [task EXCEPT ![t] = r],
           r.sess = task[t].sess, r.filter = task[t].filter, r.qos = task[t].qos,
           task[t].aborted => r.aborted, task[t].pc \notin {"free", "dead"}
    PROVE  \A u \in Tasks : KeepsTask(u)
<1>1. task'[t] = r /\ \A u \in Tasks \ {t} : task'[u] = task[u]
  BY DEF TypeInv, TypeOK
<1> QED
  BY <1>1 DEF KeepsTask, Live

\* deliver: it adds to a channel, wakes a connection, takes a session
\* offline or pushes into its queue, and does nothing else to them.
LEMMA TaskEffect ==
    ASSUME TypeInv, NEW t \in Tasks, TaskStep(t)
    PROVE  /\ UNCHANGED <<registry, node, sweeper, made>>
           /\ disk'.subs = disk.subs
           /\ \A d \in Conns : KeepsConn(d) /\ conn'[d].pc = conn[d].pc
           /\ \A s \in Sessions : KeepsSess(s)
           /\ \A u \in Tasks : KeepsTask(u)
<1>t. /\ task \in [Tasks -> TaskRecord] /\ conn \in [Conns -> ConnRecord]
      /\ sess \in [Sessions -> SessionRecord] /\ disk \in DiskRecord
      /\ task[t].pc \notin {"free", "dead"} => task[t].sess \in Sessions
      /\ task[t].pc \in {"send", "blocked", "timeout", "failed"} => task[t].tx \in Conns
  BY DEF TypeInv, TypeOK, HandlesOK, TaskHandlesOK
<1>1. UNCHANGED <<registry, node, sweeper, made>> /\ task[t].pc \notin {"free", "dead"}
  BY DEF TaskStep, Receive, ReadSink, SendLive, SendWaits, SendClosed, SendTimesOut,
     EvictSlow, ClearSink, Enqueue, TaskAborts
<1>2. disk'.subs = disk.subs
  <2>1. CASE ~Enqueue(t)
    BY <2>1 DEF TaskStep, Receive, ReadSink, SendLive, SendWaits, SendClosed, SendTimesOut,
       EvictSlow, ClearSink, TaskAborts
  <2>2. CASE Enqueue(t)
    BY <1>t, <2>2 DEF Enqueue, persist_queue, DiskRecord
  <2> QED
    BY <2>1, <2>2
<1>3. \A d \in Conns : KeepsConn(d) /\ conn'[d].pc = conn[d].pc
  <2>1. CASE conn' = conn
    BY <2>1 DEF KeepsConn
  <2>2. CASE SendLive(t)
    <3> DEFINE c == task[t].tx
               o == Put(c, "live", task[t].msg)
               r == [conn[c] EXCEPT !.out = o]
    <3>1. c \in Conns /\ conn' = [conn EXCEPT ![c] = r]
      BY <1>t, <2>2 DEF SendLive
    <3> HIDE DEF o, c
    <3>2. /\ r.sess = conn[c].sess /\ r.epoch = conn[c].epoch /\ r.clean = conn[c].clean
          /\ r.filter = conn[c].filter /\ r.task = conn[c].task /\ r.pc = conn[c].pc
      BY <1>t, <3>1 DEF ConnRecord
    <3>3. conn'[c] = r /\ \A d \in Conns \ {c} : conn'[d] = conn[d]
      BY <1>t, <3>1
    <3> HIDE DEF r
    <3> QED
      BY <3>2, <3>3 DEF KeepsConn
  <2>3. CASE EvictSlow(t)
    <3> DEFINE k == sess[task[t].sess].kick
    <3>1. conn' = conn \/ conn' = notify_waiters(conn, k)
      BY <2>3 DEF EvictSlow
    <3>2. CASE conn' = notify_waiters(conn, k)
      <4> HIDE DEF k
      <4>1. ASSUME NEW r \in ConnRecord
            PROVE  /\ [r EXCEPT !.notified = TRUE].clean = r.clean
                   /\ [r EXCEPT !.notified = TRUE].sess = r.sess
                   /\ [r EXCEPT !.notified = TRUE].epoch = r.epoch
                   /\ [r EXCEPT !.notified = TRUE].filter = r.filter
                   /\ [r EXCEPT !.notified = TRUE].task = r.task
                   /\ [r EXCEPT !.notified = TRUE].pc = r.pc
        BY DEF ConnRecord
      <4> QED
        BY <1>t, <3>2, <4>1 DEF notify_waiters, KeepsConn
    <3> QED
      BY <2>1, <3>1, <3>2
  <2> QED
    BY <2>1, <2>2, <2>3 DEF TaskStep, Receive, ReadSink, SendWaits, SendClosed, SendTimesOut,
       ClearSink, Enqueue, TaskAborts
<1>4. \A s \in Sessions : KeepsSess(s)
  <2>0. ASSUME NEW r, sess' = [sess EXCEPT ![task[t].sess] = r],
               r.epoch = sess[task[t].sess].epoch, r.subs = sess[task[t].sess].subs,
               r.durable = sess[task[t].sess].durable
        PROVE  \A s \in Sessions : KeepsSess(s)
    BY <1>t, <1>1, <2>0 DEF KeepsSess
  <2>1. CASE sess' = sess
    BY <2>1 DEF KeepsSess
  <2>2. CASE EvictSlow(t) \/ ClearSink(t)
    <3> DEFINE r == take_offline(sess[task[t].sess], task[t].tx)
    <3>1. sess' = [sess EXCEPT ![task[t].sess] = r]
      BY <2>2 DEF EvictSlow, ClearSink
    <3>2. /\ r.epoch = sess[task[t].sess].epoch /\ r.subs = sess[task[t].sess].subs
          /\ r.durable = sess[task[t].sess].durable
      BY <1>t, <1>1 DEF take_offline, SessionRecord
    <3> HIDE DEF r
    <3> QED
      BY <2>0, <3>1, <3>2
  <2>3. CASE Enqueue(t)
    <3> DEFINE r == push_queue(sess[task[t].sess], task[t].msg)
    <3>1. sess' = sess \/ sess' = [sess EXCEPT ![task[t].sess] = r]
      BY <2>3 DEF Enqueue
    <3>2. /\ r.epoch = sess[task[t].sess].epoch /\ r.subs = sess[task[t].sess].subs
          /\ r.durable = sess[task[t].sess].durable
      BY <1>t, <1>1 DEF push_queue, SessionRecord
    <3> HIDE DEF r
    <3> QED
      BY <2>0, <2>1, <3>1, <3>2
  <2> QED
    BY <2>1, <2>2, <2>3 DEF TaskStep, Receive, ReadSink, SendLive, SendWaits, SendClosed,
       SendTimesOut, TaskAborts
<1>5. \A u \in Tasks : KeepsTask(u)
  <2> DEFINE k == task[t]
             Same(r) == /\ r.sess = k.sess /\ r.filter = k.filter /\ r.qos = k.qos
                        /\ k.aborted => r.aborted
  <2>k. k \in TaskRecord
    BY <1>t
  <2>1. ASSUME NEW r, Same(r), task' = [task EXCEPT ![t] = r]
        PROVE  \A u \in Tasks : KeepsTask(u)
    BY <1>1, <2>1, RecordTask
  <2> HIDE DEF k
  <2>2. Same(Return(k)) /\ Same(Dead(k)) /\ Same(Retry(k))
    BY <2>k DEF Return, Dead, Retry, TaskRecord
  <2>3. \A pc : Same([k EXCEPT !.pc = pc])
    BY <2>k DEF TaskRecord
  <2>4. \A pc, m, x : Same([k EXCEPT !.pc = pc, !.msg = m, !.inbox = x])
    BY <2>k DEF TaskRecord
  <2>5. \A pc, tx : Same([k EXCEPT !.pc = pc, !.tx = tx])
    BY <2>k DEF TaskRecord
  <2> HIDE DEF Same
  <2>6. CASE Receive(t)
    <3>1. task' = [task EXCEPT ![t] = [k EXCEPT !.pc = "look", !.msg = Head(k.inbox), !.inbox = Tail(k.inbox)]]
      BY <1>t, <2>6 DEF Receive, k
    <3> QED
      BY <2>1, <2>4, <3>1
  <2>7. CASE ReadSink(t)
    <3> DEFINE sink == sess[k.sess].sink
    <3>1. \/ task' = [task EXCEPT ![t] = [k EXCEPT !.pc = "send", !.tx = sink]]
          \/ task' = [task EXCEPT ![t] = [k EXCEPT !.pc = "offline"]]
          \/ task' = [task EXCEPT ![t] = Return(k)]
      BY <1>t, <2>7 DEF ReadSink, k
    <3> HIDE DEF sink
    <3> QED
      BY <2>1, <2>2, <2>3, <2>5, <3>1
  <2>8. CASE SendLive(t) \/ TaskAborts(t)
    <3>1. task' = [task EXCEPT ![t] = Return(k)] \/ task' = [task EXCEPT ![t] = Dead(k)]
      BY <1>t, <2>8 DEF SendLive, TaskAborts, k
    <3> QED
      BY <2>1, <2>2, <3>1
  <2>9. CASE SendWaits(t)
    <3>1. task' = [task EXCEPT ![t] = Dead(k)] \/ task' = [task EXCEPT ![t] = [k EXCEPT !.pc = "blocked"]]
      BY <1>t, <2>9 DEF SendWaits, k
    <3> QED
      BY <2>1, <2>2, <2>3, <3>1
  <2>10. CASE SendClosed(t) \/ SendTimesOut(t) \/ EvictSlow(t)
    <3>1. \/ task' = [task EXCEPT ![t] = [k EXCEPT !.pc = "failed"]]
          \/ task' = [task EXCEPT ![t] = [k EXCEPT !.pc = "timeout"]]
      BY <1>t, <2>10 DEF SendClosed, SendTimesOut, EvictSlow, k
    <3> QED
      BY <2>1, <2>3, <3>1
  <2>11. CASE ClearSink(t)
    <3>1. task' = [task EXCEPT ![t] = Retry(k)]
      BY <1>t, <2>11 DEF ClearSink, k
    <3> QED
      BY <2>1, <2>2, <3>1
  <2>12. CASE Enqueue(t)
    <3>1. task' = [task EXCEPT ![t] = Return(k)] \/ task' = [task EXCEPT ![t] = [k EXCEPT !.pc = "look"]]
      BY <1>t, <2>12 DEF Enqueue, k
    <3> QED
      BY <2>1, <2>2, <2>3, <3>1
  <2> QED
    BY <2>6, <2>7, <2>8, <2>9, <2>10, <2>11, <2>12 DEF TaskStep
<1> QED
  BY <1>1, <1>2, <1>3, <1>4, <1>5

\* A sample goes into inboxes.
LEMMA PublishEffect ==
    ASSUME TypeInv, NEW class \in TopicClasses, Publish(class)
    PROVE  /\ UNCHANGED <<registry, sess, conn, disk, node, sweeper, made>>
           /\ \A u \in Tasks : KeepsTask(u)
<1>1. task \in [Tasks -> TaskRecord]
  BY DEF TypeInv, TypeOK
<1>2. ASSUME NEW u \in Tasks
      PROVE  KeepsTask(u)
  <2> DEFINE x == Append(task[u].inbox, pubs + 1)
             g == task[u].got + 1
             r == [task[u] EXCEPT !.inbox = x, !.got = g]
  <2>1. task'[u] = task[u] \/ task'[u] = r
    BY <1>1, <1>2 DEF Publish
  <2> HIDE DEF x, g
  <2>2. /\ r.sess = task[u].sess /\ r.filter = task[u].filter /\ r.qos = task[u].qos
        /\ r.aborted = task[u].aborted /\ r.pc = task[u].pc
    BY <1>1 DEF TaskRecord
  <2> HIDE DEF r
  <2> QED
    BY <2>1, <2>2 DEF KeepsTask, Live
<1> QED
  BY <1>2 DEF Publish

-----------------------------------------------------------------------------
(***************************************************************************)
(* The state files, as long as nothing discards stored state: no           *)
(* cleanSession=1 and no expiry.  Then one session lives as long as the    *)
(* process, from its first CONNECT or from rehydration on, and whoever     *)
(* writes the files writes them for this session.                          *)
(***************************************************************************)
NothingDiscards == CleanFlags \subseteq {FALSE} /\ ~Expiry

\* The session of this life of the process.
Home == IF registry # None THEN registry ELSE node.sess

OneSession ==
    /\ sweeper.pc = "idle"
    /\ \A c \in Conns :
          /\ ~conn[c].clean
          /\ conn[c].pc \notin {"replace", "purge", "unmap"}
          /\ conn[c].sess # None => conn[c].sess = registry
          /\ c > made.conn => conn[c].pc = "free"
    /\ \A t \in Tasks : task[t].sess # None => task[t].sess = Home
    /\ node.state # "rehydrate" => node.sess = None
    /\ node.state # "up" => registry = None

\* Subscriptions name tasks that have been spawned.
KnownTasks ==
    /\ \A s \in Sessions, f \in Filters : sess[s].subs[f] <= made.task
    /\ \A c \in Conns : conn[c].pc = "insert" => conn[c].task <= made.task

Mirrored ==
    /\ registry # None /\ sess[registry].durable
          => disk.subs = Entries(sess[registry], QoSOf(task))
    /\ registry = None /\ node.state = "up" => disk.subs = {}

Drained ==
    (Home # None /\ sess[Home].durable /\ \A c \in Conns : conn[c].pc # "discard")
        => disk.queue \in {<< >>, sess[Home].queue}

KeptInv == OneSession /\ KnownTasks /\ Mirrored /\ Drained

\* The file's entries depend on the subscriptions and their QoS.
LEMMA EntriesSame ==
    ASSUME NEW r, NEW q, r.subs = q.subs, NEW g, NEW h,
           \A f \in Filters : q.subs[f] # None => g[q.subs[f]] = h[q.subs[f]]
    PROVE  Entries(r, h) = Entries(q, g)
  BY DEF Entries

\* Steps that touch neither sessions' subscriptions nor who serves whom.
LEMMA KeptFrame ==
    ASSUME TypeInv, KeptInv, UNCHANGED <<registry, node, sweeper>>,
           made'.task = made.task, made'.conn = made.conn, disk'.subs = disk.subs,
           \A d \in Conns :
              /\ conn'[d].sess = conn[d].sess
              /\ conn'[d].clean = conn[d].clean
              /\ conn'[d].pc = "insert" => conn[d].pc = "insert" /\ conn'[d].task = conn[d].task
              /\ conn'[d].pc \notin {"replace", "purge", "unmap"}
              /\ conn[d].pc = "free" => conn'[d].pc = "free",
           \A q \in Sessions : sess'[q].subs = sess[q].subs /\ sess'[q].durable = sess[q].durable,
           \A u \in Tasks : KeepsTask(u)
    PROVE  OneSession' /\ KnownTasks' /\ Mirrored'
<1>t. /\ registry \in Sessions \cup {None} /\ sess \in [Sessions -> SessionRecord]
      /\ task \in [Tasks -> TaskRecord]
  BY DEF TypeInv, TypeOK
<1>1. OneSession'
  BY DEF KeptInv, OneSession, Home, KeepsTask
<1>2. KnownTasks'
  BY DEF KeptInv, KnownTasks
<1>3. Mirrored'
  <2>1. ASSUME registry # None
        PROVE  Entries(sess'[registry], QoSOf(task')) = Entries(sess[registry], QoSOf(task))
    <3>1. registry \in Sessions /\ sess[registry].subs \in [Filters -> Tasks \cup {None}]
      BY <1>t, <2>1 DEF SessionRecord
    <3>2. \A u \in Tasks : QoSOf(task)[u] = QoSOf(task')[u]
      BY DEF QoSOf, KeepsTask
    <3>3. \A f \in Filters : sess[registry].subs[f] # None =>
             QoSOf(task)[sess[registry].subs[f]] = QoSOf(task')[sess[registry].subs[f]]
      BY <3>1, <3>2
    <3>4. sess'[registry].subs = sess[registry].subs
      BY <3>1
    <3> DEFINE q == sess[registry]
               r == sess'[registry]
               g == QoSOf(task)
               h == QoSOf(task')
    <3>5. r.subs = q.subs /\ \A f \in Filters : q.subs[f] # None => g[q.subs[f]] = h[q.subs[f]]
      BY <3>3, <3>4
    <3> HIDE DEF q, r, g, h
    <3>6. Entries(r, h) = Entries(q, g)
      BY <3>5, EntriesSame
    <3> QED
      BY <3>6 DEF q, r, g, h
  <2>2. registry # None => sess'[registry].durable = sess[registry].durable
    BY <1>t
  <2> QED
    BY <2>1, <2>2 DEF KeptInv, Mirrored
<1> QED
  BY <1>1, <1>2, <1>3

\* The same of the queue file.
LEMMA DrainedFrame ==
    ASSUME TypeInv, KeptInv, Home' = Home, disk'.queue = disk.queue,
           \A d \in Conns : conn[d].pc = "discard" => conn'[d].pc = "discard",
           \A q \in Sessions : /\ sess'[q].queue = sess[q].queue
                               /\ sess'[q].durable = sess[q].durable
    PROVE  Drained'
<1>1. Home # None => Home \in Sessions
  BY DEF TypeInv, TypeOK, NodeRecord, Home
<1>2. CASE Home = None
  BY <1>2 DEF Drained
<1>3. CASE Home # None
  <2>1. sess'[Home].queue = sess[Home].queue /\ sess'[Home].durable = sess[Home].durable
    BY <1>1, <1>3
  <2> HIDE DEF Home
  <2> QED
    BY <2>1 DEF KeptInv, Drained
<1> QED
  BY <1>2, <1>3

\* Steps of a connection that change only its own record.
LEMMA KeptLocal ==
    ASSUME TypeInv, KeptInv, NEW c \in Conns,
           \/ SendConnAck(c) \/ ConnectEvent(c) \/ DrainBacklog(c) \/ EnterRun(c)
           \/ ServeFails(c) \/ DisconnectEvent(c)
           \/ Reply(c) \/ Handled(c) \/ Disconnect(c) \/ RunFails(c) \/ Kicked(c)
           \/ \E handler \in Requests : ReadPacket(c, handler)
           \/ Write(c) \/ WriteFails(c) \/ WriterAborts(c)
    PROVE  KeptInv'
<1>1. /\ UNCHANGED <<registry, sess, task, disk, node, sweeper, made>>
      /\ \A d \in Conns : KeepsConn(d) /\ Moves(conn[d].pc, conn'[d].pc)
  BY LocalEffect
<1>2. \A d \in Conns : conn[d].pc \notin {"replace", "purge", "unmap"}
  BY DEF KeptInv, OneSession
<1>3. ASSUME NEW d \in Conns
      PROVE  /\ conn'[d].sess = conn[d].sess
             /\ conn'[d].clean = conn[d].clean
             /\ conn'[d].pc = "insert" => conn[d].pc = "insert" /\ conn'[d].task = conn[d].task
             /\ conn'[d].pc \notin {"replace", "purge", "unmap"}
             /\ conn[d].pc = "free" => conn'[d].pc = "free"
             /\ conn[d].pc = "discard" => conn'[d].pc = "discard"
  BY <1>1, <1>2 DEF KeepsConn, Moves, Greeting, Running
<1>4. \A u \in Tasks : KeepsTask(u)
  BY <1>1 DEF KeepsTask, Live
<1>5. OneSession' /\ KnownTasks' /\ Mirrored'
  BY <1>1, <1>3, <1>4, KeptFrame
<1>6. Drained'
  <2>1. Home' = Home
    BY <1>1 DEF Home
  <2> QED
    BY <1>1, <1>3, <2>1, DrainedFrame
<1> QED
  BY <1>5, <1>6 DEF KeptInv

\* deliver: what it persists is the queue it has just pushed to.
LEMMA KeptTask ==
    ASSUME TypeInv, KeptInv, NEW t \in Tasks, TaskStep(t)
    PROVE  KeptInv'
<1>t. /\ task \in [Tasks -> TaskRecord] /\ disk \in DiskRecord
      /\ sess \in [Sessions -> SessionRecord]
      /\ task[t].pc \notin {"free", "dead"} => task[t].sess \in Sessions
  BY DEF TypeInv, TypeOK, HandlesOK, TaskHandlesOK
<1>1. /\ UNCHANGED <<registry, node, sweeper, made>>
      /\ disk'.subs = disk.subs
      /\ \A d \in Conns : KeepsConn(d) /\ conn'[d].pc = conn[d].pc
      /\ \A q \in Sessions : KeepsSess(q)
      /\ \A u \in Tasks : KeepsTask(u)
  BY TaskEffect
<1>2. \A d \in Conns : conn[d].pc \notin {"replace", "purge", "unmap"}
  BY DEF KeptInv, OneSession
<1>3. OneSession' /\ KnownTasks' /\ Mirrored'
  BY <1>1, <1>2, KeptFrame DEF KeepsConn, KeepsSess
<1>4. Drained'
  <2>1. Home' = Home
    BY <1>1 DEF Home
  <2>2. ASSUME disk' = disk, \A q \in Sessions : sess'[q].queue = sess[q].queue
        PROVE  Drained'
    BY <1>1, <2>1, <2>2, DrainedFrame DEF KeepsSess
  <2>3. CASE \/ Receive(t) \/ ReadSink(t) \/ SendLive(t) \/ SendWaits(t) \/ SendClosed(t)
             \/ SendTimesOut(t) \/ TaskAborts(t)
    BY <2>2, <2>3 DEF Receive, ReadSink, SendLive, SendWaits, SendClosed, SendTimesOut, TaskAborts
  <2>4. CASE EvictSlow(t) \/ ClearSink(t)
    <3> DEFINE r == take_offline(sess[task[t].sess], task[t].tx)
    <3>1. task[t].sess \in Sessions /\ disk' = disk /\ sess' = [sess EXCEPT ![task[t].sess] = r]
      BY <1>t, <2>4 DEF EvictSlow, ClearSink
    <3>2. r.queue = sess[task[t].sess].queue
      BY <1>t, <3>1, OfflineKeeps
    <3> HIDE DEF r
    <3>3. \A q \in Sessions : sess'[q].queue = sess[q].queue
      BY <1>t, <3>1, <3>2
    <3> QED
      BY <2>2, <3>1, <3>3
  <2>5. CASE Enqueue(t)
    <3>1. task[t].sess \in Sessions /\ task[t].sess = Home
      BY <1>t, <2>5 DEF Enqueue, KeptInv, OneSession, Sessions, None
    <3>2. CASE StillOffline(sess[task[t].sess])
      <4>1. disk' = persist_queue(disk, sess'[task[t].sess])
        BY <2>5, <3>2 DEF Enqueue
      <4>2. sess'[Home].durable => disk'.queue = sess'[Home].queue
        BY <1>t, <3>1, <4>1 DEF persist_queue, DiskRecord
      <4> HIDE DEF Home
      <4> QED
        BY <2>1, <4>2 DEF Drained
    <3>3. CASE ~StillOffline(sess[task[t].sess])
      <4>1. disk' = disk /\ sess' = sess
        BY <2>5, <3>3 DEF Enqueue
      <4> QED
        BY <2>2, <4>1
    <3> QED
      BY <3>2, <3>3
  <2> QED
    BY <2>3, <2>4, <2>5 DEF TaskStep
<1> QED
  BY <1>3, <1>4 DEF KeptInv

\* attach_conn and the deletion of the queue file after it, and detach_conn.
LEMMA KeptHandover ==
    ASSUME TypeInv, KeptInv, NEW c \in Conns,
           AttachConn(c) \/ DiscardQueueFile(c) \/ DetachConn(c)
    PROVE  KeptInv'
<1> DEFINE s == conn[c].sess
<1>t. /\ conn \in [Conns -> ConnRecord] /\ disk \in DiskRecord
      /\ sess \in [Sessions -> SessionRecord]
      /\ conn[c].pc \notin {"free", "closed", "replace"} => s \in Sessions
  BY DEF TypeInv, TypeOK, HandlesOK, ConnHandlesOK
<1>c. \A d \in Conns : ~conn[d].clean /\ conn[d].pc \notin {"replace", "purge", "unmap"}
  BY DEF KeptInv, OneSession
<1>1. /\ UNCHANGED <<registry, task, node, sweeper, made>>
      /\ conn[c].pc \in {"attach", "discard", "ended"} /\ s \in Sessions
  BY <1>t DEF AttachConn, DiscardQueueFile, DetachConn
<1>2. /\ \A u \in Tasks : KeepsTask(u)
      /\ Home' = Home /\ s = Home
  BY <1>1 DEF KeepsTask, Live, Home, KeptInv, OneSession, Sessions, None
<1>p. ASSUME NEW pc, pc \in {"connack", "bye"}, conn' = [conn EXCEPT ![c].pc = pc]
      PROVE  \A d \in Conns :
                 /\ conn'[d].sess = conn[d].sess
                 /\ conn'[d].clean = conn[d].clean
                 /\ conn'[d].pc \notin {"insert", "replace", "purge", "unmap"} \/ conn'[d] = conn[d]
                 /\ conn[d].pc = "free" => conn'[d].pc = "free"
  <2> DEFINE r == [conn[c] EXCEPT !.pc = pc]
  <2>1. conn'[c] = r /\ \A d \in Conns \ {c} : conn'[d] = conn[d]
    BY <1>t, <1>p
  <2>2. r.sess = conn[c].sess /\ r.clean = conn[c].clean /\ r.pc = pc
    BY <1>t DEF ConnRecord
  <2> HIDE DEF r
  <2> QED
    BY <1>p, <1>1, <2>1, <2>2
<1>3. CASE AttachConn(c)
  <2> DEFINE r == attach_conn(sess[s], c)
             k == sess[s].kick
             e == sess'[s].epoch
             b == sess[s].queue
  <2>1. /\ disk' = disk /\ sess' = [sess EXCEPT ![s] = r]
        /\ conn' = [notify_waiters(conn, k) EXCEPT ![c].pc = "discard", ![c].epoch = e, ![c].backlog = b]
    BY <1>3 DEF AttachConn
  <2>2. r.subs = sess[s].subs /\ r.durable = sess[s].durable
    BY <1>t, <1>1 DEF attach_conn, SessionRecord
  <2> HIDE DEF r, k, e, b
  <2>3. \A q \in Sessions : sess'[q].subs = sess[q].subs /\ sess'[q].durable = sess[q].durable
    BY <1>t, <1>1, <2>1, <2>2
  <2>n. /\ notify_waiters(conn, k) \in [Conns -> ConnRecord]
        /\ \A d \in Conns : /\ notify_waiters(conn, k)[d].pc = conn[d].pc
                            /\ notify_waiters(conn, k)[d].sess = conn[d].sess
                            /\ notify_waiters(conn, k)[d].task = conn[d].task
                            /\ notify_waiters(conn, k)[d].clean = conn[d].clean
    <3>1. ASSUME NEW x \in ConnRecord
          PROVE  [x EXCEPT !.notified = TRUE].clean = x.clean
      BY DEF ConnRecord
    <3>2. \A d \in Conns : notify_waiters(conn, k)[d].clean = conn[d].clean
      BY <1>t, <3>1 DEF notify_waiters
    <3> QED
      BY <1>t, <3>2, NotifyType
  <2> DEFINE w == notify_waiters(conn, k)
             x == [w[c] EXCEPT !.pc = "discard", !.epoch = e, !.backlog = b]
  <2> HIDE DEF w
  <2>4. conn'[c] = x /\ \A d \in Conns \ {c} : conn'[d] = w[d]
    BY <2>1, <2>n DEF w
  <2>5. x.pc = "discard" /\ x.sess = w[c].sess /\ x.clean = w[c].clean
    BY <2>n DEF ConnRecord, w
  <2> HIDE DEF x
  <2>6. \A d \in Conns :
           /\ conn'[d].sess = conn[d].sess
           /\ conn'[d].clean = conn[d].clean
           /\ conn'[d].pc = "insert" => conn[d].pc = "insert" /\ conn'[d].task = conn[d].task
           /\ conn'[d].pc \notin {"replace", "purge", "unmap"}
           /\ conn[d].pc = "free" => conn'[d].pc = "free"
    BY <1>c, <1>1, <2>n, <2>4, <2>5 DEF w
  <2>7. OneSession' /\ KnownTasks' /\ Mirrored'
    BY <1>1, <1>2, <2>1, <2>3, <2>6, KeptFrame
  <2>8. Drained'
    BY <2>4, <2>5 DEF Drained
  <2> QED
    BY <2>7, <2>8 DEF KeptInv
<1>4. CASE DiscardQueueFile(c)
  <2>1. /\ sess' = sess /\ disk' = discard_queue_file(disk, sess[s])
        /\ conn' = [conn EXCEPT ![c].pc = "connack"]
    BY <1>4 DEF DiscardQueueFile
  <2>2. disk'.subs = disk.subs /\ (sess[s].durable => disk'.queue = << >>)
    BY <1>t, <2>1 DEF discard_queue_file, DiskRecord
  <2>3. OneSession' /\ KnownTasks' /\ Mirrored'
    BY <1>c, <1>p, <1>1, <1>2, <2>1, <2>2, KeptFrame
  <2>4. Drained'
    <3> HIDE DEF Home
    <3> QED
      BY <1>2, <2>1, <2>2 DEF Drained
  <2> QED
    BY <2>3, <2>4 DEF KeptInv
<1>5. CASE DetachConn(c)
  <2> DEFINE r == detach_conn(sess[s], conn[c].epoch)
  <2>1. /\ disk' = disk /\ sess' = [sess EXCEPT ![s] = r] /\ conn[c].pc = "ended"
        /\ conn' = [conn EXCEPT ![c].pc = "bye"]
    BY <1>c, <1>5 DEF DetachConn
  <2>2. r.subs = sess[s].subs /\ r.durable = sess[s].durable /\ r.queue = sess[s].queue
    BY <1>t, <1>1 DEF detach_conn, SessionRecord
  <2> HIDE DEF r
  <2>3. \A q \in Sessions : /\ sess'[q].subs = sess[q].subs /\ sess'[q].durable = sess[q].durable
                            /\ sess'[q].queue = sess[q].queue
    BY <1>t, <1>1, <2>1, <2>2
  <2>4. OneSession' /\ KnownTasks' /\ Mirrored'
    BY <1>c, <1>p, <1>1, <1>2, <2>1, <2>3, KeptFrame
  <2>5. \A d \in Conns : conn[d].pc = "discard" => conn'[d].pc = "discard"
    BY <1>t, <2>1
  <2>6. Drained'
    BY <1>2, <2>1, <2>3, <2>5, DrainedFrame
  <2> QED
    BY <2>4, <2>6 DEF KeptInv
<1> QED
  BY <1>3, <1>4, <1>5

\* A CONNECT finds the session, or makes it from its files when there is
\* none, and then there are no other connections and no tasks.
LEMMA KeptConnect ==
    ASSUME TypeInv, QueueInv, KeptInv, NEW c \in Conns,
           AttachExisting(c) \/ AttachNew(c, FALSE)
    PROVE  KeptInv'
<1>t. /\ conn \in [Conns -> ConnRecord] /\ disk \in DiskRecord
      /\ sess \in [Sessions -> SessionRecord] /\ task \in [Tasks -> TaskRecord]
      /\ registry \in Sessions \cup {None}
      /\ made \in [sess : 0..MaxSessions, conn : 0..MaxConns, task : 0..MaxTasks]
  BY DEF TypeInv, TypeOK
<1>k. OneSession /\ KnownTasks /\ Mirrored /\ Drained
  BY DEF KeptInv
<1>1. /\ c = made.conn + 1 /\ conn[c].pc = "free" /\ node.state = "up" /\ node.sess = None
      /\ UNCHANGED <<task, disk, node, sweeper>>
      /\ made'.conn = c /\ made'.task = made.task
      /\ \A d \in Conns : d > c => conn[d].pc = "free"
  <2>1. /\ node.state = "up" /\ c = made.conn + 1
        /\ task' = task /\ node' = node /\ sweeper' = sweeper
    BY DEF AttachExisting, AttachNew, NewConn
  <2>2. disk' = disk
    BY DEF AttachExisting, AttachNew
  <2>3. made'.conn = c /\ made'.task = made.task
    BY <1>t DEF AttachExisting, AttachNew
  <2>4. made.conn \in Nat /\ c \in Nat /\ \A d \in Conns : d \in Nat
    BY <1>t DEF Conns
  <2>5. conn[c].pc = "free" /\ \A d \in Conns : d > c => conn[d].pc = "free"
    BY <1>k, <2>1, <2>4 DEF OneSession
  <2>6. node.sess = None
    BY <1>k, <2>1 DEF OneSession
  <2> QED
    BY <2>1, <2>2, <2>3, <2>5, <2>6
<1>2. ASSUME NEW s \in Sessions, NEW present \in BOOLEAN, conn' = Attaching(conn, c, FALSE, s, present)
      PROVE  /\ conn'[c].pc = "attach" /\ conn'[c].sess = s /\ ~conn'[c].clean
             /\ \A d \in Conns \ {c} : conn'[d] = conn[d]
  <2> DEFINE r == [FreeConn EXCEPT !.pc = "attach", !.clean = FALSE, !.sess = s,
                                   !.present = present, !.writer = "up"]
  <2>1. conn' = [conn EXCEPT ![c] = r]
    BY <1>2 DEF Attaching
  <2>2. r.pc = "attach" /\ r.sess = s /\ ~r.clean
    BY DEF FreeConn
  <2> HIDE DEF r
  <2> QED
    BY <1>t, <2>1, <2>2
<1>3. CASE AttachExisting(c)
  <2>1. /\ registry \in Sessions /\ registry' = registry /\ sess' = sess
        /\ conn' = Attaching(conn, c, FALSE, registry, TRUE)
    BY <1>t, <1>3 DEF AttachExisting
  <2>2. /\ conn'[c].pc = "attach" /\ conn'[c].sess = registry /\ ~conn'[c].clean
        /\ \A d \in Conns \ {c} : conn'[d] = conn[d]
    <3>1. TRUE \in BOOLEAN
      OBVIOUS
    <3> QED
      BY <1>2, <2>1, <3>1
  <2>3. OneSession'
    <3>1. Home' = Home
      BY <1>1, <2>1 DEF Home
    <3>2. \A d \in Conns :
            /\ ~conn'[d].clean
            /\ conn'[d].pc \notin {"replace", "purge", "unmap"}
            /\ conn'[d].sess # None => conn'[d].sess = registry'
      BY <1>k, <2>1, <2>2 DEF OneSession
    <3>3. \A d \in Conns : d > made'.conn => conn'[d].pc = "free"
      BY <1>1, <2>2 DEF Conns
    <3> HIDE DEF Home
    <3> QED
      BY <1>k, <1>1, <2>1, <3>1, <3>2, <3>3 DEF OneSession
  <2>4. KnownTasks'
    BY <1>k, <1>1, <2>1, <2>2 DEF KnownTasks
  <2>5. Mirrored'
    BY <1>k, <1>1, <2>1 DEF Mirrored
  <2>6. Home' = Home
    BY <1>1, <2>1 DEF Home
  <2>7. Drained'
    BY <1>1, <2>1, <2>2, <2>6, DrainedFrame
  <2> QED
    BY <2>3, <2>4, <2>5, <2>7 DEF KeptInv
<1>4. CASE AttachNew(c, FALSE)
  <2> DEFINE n == made.sess + 1
             fresh == new(~FALSE /\ DataDir, disk.queue)
             present == disk # NoFiles
  <2>1. /\ registry = None /\ n \in Sessions /\ registry' = n
        /\ sess' = [sess EXCEPT ![n] = fresh]
        /\ conn' = Attaching(conn, c, FALSE, n, present)
    <3>1. /\ registry = None /\ n \in Sessions /\ registry' = n
          /\ conn' = Attaching(conn, c, FALSE, n, present)
      BY <1>4 DEF AttachNew
    <3>2. sess' = [sess EXCEPT ![n] = fresh]
      BY <1>4, Zenon DEF AttachNew
    <3> QED
      BY <3>1, <3>2
  <2> HIDE DEF n
  <2>2. disk.queue \in Seq(Msgs) /\ Bounded(disk.queue) /\ disk.subs = {}
    BY <1>t, <1>k, <1>1, <2>1 DEF QueueInv, DiskRecord, Mirrored
  <2>3. fresh.subs = NoSubs /\ (fresh.durable => DataDir) /\ (DataDir => fresh.queue = disk.queue)
    BY <2>2 DEF new, load_queue, Bounded
  <2> HIDE DEF fresh
  <2>4. sess'[n] = fresh /\ \A q \in Sessions \ {n} : sess'[q] = sess[q]
    BY <1>t, <2>1
  <2>5. /\ conn'[c].pc = "attach" /\ conn'[c].sess = n /\ ~conn'[c].clean
        /\ \A d \in Conns \ {c} : conn'[d] = conn[d]
    <3>1. present \in BOOLEAN
      OBVIOUS
    <3> HIDE DEF present
    <3> QED
      BY <1>2, <2>1, <3>1
  <2>6. Home = None /\ Home' = n /\ n # None
    BY <1>1, <2>1 DEF Home, Sessions, None
  <2>7. OneSession'
    <3> HIDE DEF Home
    <3>1. \A t \in Tasks : task[t].sess = None
      BY <1>k, <2>6 DEF OneSession
    <3>2. \A d \in Conns : conn[d].sess = None
      BY <1>k, <2>1 DEF OneSession
    <3>3. \A d \in Conns :
            /\ ~conn'[d].clean
            /\ conn'[d].pc \notin {"replace", "purge", "unmap"}
            /\ conn'[d].sess # None => conn'[d].sess = registry'
      BY <1>k, <2>1, <2>5, <3>2 DEF OneSession
    <3>4. \A d \in Conns : d > made'.conn => conn'[d].pc = "free"
      BY <1>1, <2>5 DEF Conns
    <3> QED
      BY <1>k, <1>1, <2>1, <3>1, <3>3, <3>4 DEF OneSession
  <2>8. KnownTasks'
    <3>1. \A f \in Filters : fresh.subs[f] <= made.task
      BY <1>t, <2>3 DEF NoSubs, None
    <3> QED
      BY <1>k, <1>1, <2>4, <2>5, <3>1 DEF KnownTasks
  <2>9. Mirrored'
    <3>1. Entries(fresh, QoSOf(task)) = {}
      BY <2>3 DEF Entries, NoSubs
    <3> QED
      BY <1>1, <2>1, <2>2, <2>4, <2>6, <3>1 DEF Mirrored
  <2>10. Drained'
    <3> HIDE DEF Home
    <3> QED
      BY <1>1, <2>3, <2>4, <2>6 DEF Drained
  <2> QED
    BY <2>7, <2>8, <2>9, <2>10 DEF KeptInv
<1> QED
  BY <1>3, <1>4

\* SUBSCRIBE and UNSUBSCRIBE: each change of the subscriptions is saved.
LEMMA KeptSubs ==
    ASSUME TypeInv, KeptInv, NEW c \in Conns,
           \/ \E f \in Filters, req \in ReqQoS : Subscribe(c, f, req)
           \/ InsertSub(c)
           \/ \E f \in Filters : Unsubscribe(c, f)
    PROVE  KeptInv'
<1> DEFINE s == conn[c].sess
<1>t. /\ conn \in [Conns -> ConnRecord] /\ disk \in DiskRecord
      /\ sess \in [Sessions -> SessionRecord] /\ task \in [Tasks -> TaskRecord]
      /\ conn[c].pc \notin {"free", "closed", "replace"} => s \in Sessions
      /\ made \in [sess : 0..MaxSessions, conn : 0..MaxConns, task : 0..MaxTasks]
      /\ conn[c].pc = "insert" => conn[c].filter \in Filters /\ conn[c].task \in Tasks
  BY DEF TypeInv, TypeOK, HandlesOK, ConnHandlesOK
<1>k. OneSession /\ KnownTasks /\ Mirrored /\ Drained
  BY DEF KeptInv
<1>1. s \in Sessions /\ UNCHANGED <<registry, node, sweeper>> /\ s = registry /\ s # None /\ s = Home
      /\ Home' = Home
  <2>1. s \in Sessions /\ UNCHANGED <<registry, node, sweeper>>
    BY <1>t DEF Subscribe, InsertSub, Unsubscribe
  <2> QED
    BY <1>k, <2>1 DEF OneSession, Home, Sessions, None
<1>2. ASSUME NEW f \in Filters, NEW req \in ReqQoS, Subscribe(c, f, req)
      PROVE  KeptInv'
  <2> DEFINE t == made.task + 1
             k == [FreeTask EXCEPT !.pc = "recv", !.sess = s, !.filter = f, !.qos = Granted(req)]
             r == [conn[c] EXCEPT !.pc = "insert", !.filter = f, !.task = t]
  <2>1. /\ t \in Tasks /\ task' = [task EXCEPT ![t] = k] /\ conn' = [conn EXCEPT ![c] = r]
        /\ sess' = sess /\ disk' = disk /\ made'.task = t /\ made'.conn = made.conn
        /\ conn[c].pc = "subscribe"
    BY <1>t, <1>2 DEF Subscribe, Spawn
  <2>2. r.pc = "insert" /\ r.sess = s /\ r.clean = conn[c].clean /\ r.task = t
    BY <1>t DEF ConnRecord
  <2>3. k.sess = s
    BY DEF FreeTask
  <2>t. t = made.task + 1
    OBVIOUS
  <2> HIDE DEF k, r, t
  <2>4. conn'[c] = r /\ \A d \in Conns \ {c} : conn'[d] = conn[d]
    BY <1>t, <2>1
  <2>5. task'[t] = k /\ \A u \in Tasks \ {t} : task'[u] = task[u]
    BY <1>t, <2>1
  <2>6. OneSession'
    <3> HIDE DEF Home
    <3>1. \A u \in Tasks : task'[u].sess # None => task'[u].sess = Home
      BY <1>k, <1>1, <2>3, <2>5 DEF OneSession
    <3>2. \A d \in Conns :
            /\ ~conn'[d].clean
            /\ conn'[d].pc \notin {"replace", "purge", "unmap"}
            /\ conn'[d].sess # None => conn'[d].sess = registry
            /\ d > made.conn => conn'[d].pc = "free"
      BY <1>k, <1>1, <2>1, <2>2, <2>4 DEF OneSession
    <3> QED
      BY <1>k, <1>1, <2>1, <3>1, <3>2 DEF OneSession
  <2>7. KnownTasks'
    <3>1. \A q \in Sessions, g \in Filters : sess[q].subs[g] \in Nat
      BY <1>t DEF SessionRecord, Tasks, None
    <3>2. \A q \in Sessions, g \in Filters : sess'[q].subs[g] <= made'.task
      BY <1>k, <1>t, <2>1, <2>t, <3>1 DEF KnownTasks
    <3>3. \A d \in Conns \ {c} : conn[d].pc = "insert" => conn[d].task <= made'.task
      <4>1. \A d \in Conns : conn[d].task \in Nat
        BY <1>t DEF ConnRecord, Tasks, None
      <4> QED
        BY <1>k, <1>t, <2>1, <2>t, <4>1 DEF KnownTasks
    <3>4. t <= made'.task
      BY <1>t, <2>1, <2>t
    <3> QED
      BY <2>2, <2>4, <3>2, <3>3, <3>4 DEF KnownTasks
  <2>8. Mirrored'
    <3> DEFINE q == sess[registry]
               g == QoSOf(task)
               h == QoSOf(task')
    <3>1. \A x \in Filters : q.subs[x] # None => q.subs[x] \in Tasks \ {t}
      <4>1. \A x \in Filters : q.subs[x] \in Tasks \cup {None} /\ q.subs[x] <= made.task
        BY <1>k, <1>t, <1>1 DEF KnownTasks, SessionRecord
      <4> QED
        BY <1>t, <2>t, <4>1 DEF Tasks, None
    <3>2. \A u \in Tasks \ {t} : g[u] = h[u]
      BY <2>5 DEF QoSOf
    <3>3. \A x \in Filters : q.subs[x] # None => g[q.subs[x]] = h[q.subs[x]]
      <4> HIDE DEF g, h, q
      <4> QED
        BY <3>1, <3>2
    <3> HIDE DEF q, g, h
    <3>4. Entries(q, h) = Entries(q, g)
      BY <3>3, EntriesSame
    <3> QED
      BY <1>k, <1>1, <2>1, <3>4 DEF Mirrored, q, g, h
  <2>9. Drained'
    <3>1. \A d \in Conns : conn[d].pc = "discard" => conn'[d].pc = "discard"
      BY <2>1, <2>4
    <3> QED
      BY <1>1, <2>1, <3>1, DrainedFrame
  <2> QED
    BY <2>6, <2>7, <2>8, <2>9 DEF KeptInv
<1>3. ASSUME NEW r, NEW T, sess' = [sess EXCEPT ![s] = r],
             r.queue = sess[s].queue, r.durable = sess[s].durable,
             \A f \in Filters : r.subs[f] <= made.task,
             task' = Abort(task, T), disk' = persist_subs(disk, sess'[s], QoSOf(task)),
             made' = made,
             \A d \in Conns :
              /\ conn'[d].sess = conn[d].sess
              /\ conn'[d].clean = conn[d].clean
              /\ conn'[d].pc = "insert" => conn[d].pc = "insert" /\ conn'[d].task = conn[d].task
              /\ conn'[d].pc \notin {"replace", "purge", "unmap"}
              /\ conn[d].pc = "free" => conn'[d].pc = "free"
              /\ conn[d].pc = "discard" => conn'[d].pc = "discard"
      PROVE  KeptInv'
  <2>1. \A u \in Tasks : KeepsTask(u)
    BY <1>3, AbortEffect
  <2>2. sess'[s] = r /\ \A q \in Sessions \ {s} : sess'[q] = sess[q]
    BY <1>t, <1>1, <1>3
  <2>3. OneSession'
    <3> HIDE DEF Home
    <3> QED
      BY <1>k, <1>1, <1>3, <2>1 DEF OneSession, KeepsTask
  <2>4. KnownTasks'
    BY <1>k, <1>3, <2>2 DEF KnownTasks
  <2>5. Mirrored'
    <3>1. QoSOf(task') = QoSOf(task)
      BY <2>1 DEF QoSOf, KeepsTask
    <3>2. sess'[s].durable => disk'.subs = Entries(sess'[s], QoSOf(task))
      BY <1>t, <1>3 DEF persist_subs, DiskRecord
    <3> QED
      BY <1>1, <3>1, <3>2 DEF Mirrored
  <2>6. Drained'
    <3>1. disk'.queue = disk.queue
      BY <1>t, <1>3, DiskKeeps
    <3>2. \A q \in Sessions : sess'[q].queue = sess[q].queue /\ sess'[q].durable = sess[q].durable
      BY <1>3, <2>2
    <3> QED
      BY <1>1, <1>3, <3>1, <3>2, DrainedFrame
  <2> QED
    BY <2>3, <2>4, <2>5, <2>6 DEF KeptInv
<1>r. sess[s] \in SessionRecord /\ \A f \in Filters : sess[s].subs[f] <= made.task
  BY <1>k, <1>t, <1>1 DEF KnownTasks
<1>p. \A d \in Conns : conn[d].pc \notin {"replace", "purge", "unmap"}
  BY <1>k DEF OneSession
<1>4. CASE InsertSub(c)
  <2> DEFINE f == conn[c].filter
             t == conn[c].task
             r == insert_sub(sess[s], f, t)
             x == [conn[c] EXCEPT !.pc = "subscribe", !.filter = None, !.task = None]
             T == {sess[s].subs[f]}
  <2>1. /\ sess' = [sess EXCEPT ![s] = r] /\ task' = Abort(task, T)
        /\ disk' = persist_subs(disk, sess'[s], QoSOf(task)) /\ made' = made
        /\ conn' = [conn EXCEPT ![c] = x] /\ conn[c].pc = "insert"
    BY <1>t, <1>4 DEF InsertSub
  <2>2. f \in Filters /\ t \in Tasks /\ t <= made.task
    BY <1>k, <1>t, <2>1 DEF KnownTasks
  <2>3. x.pc = "subscribe" /\ x.sess = conn[c].sess /\ x.clean = conn[c].clean
    BY <1>t DEF ConnRecord
  <2>4. r.queue = sess[s].queue /\ r.durable = sess[s].durable
    BY <1>r DEF insert_sub, SessionRecord
  <2>5. \A g \in Filters : r.subs[g] <= made.task
    <3>1. r.subs = [sess[s].subs EXCEPT ![f] = t] /\ sess[s].subs \in [Filters -> Tasks \cup {None}]
      BY <1>r DEF insert_sub, SessionRecord
    <3> QED
      BY <1>r, <2>2, <3>1
  <2> HIDE DEF f, t, r, x, T
  <2>6. conn'[c] = x /\ \A d \in Conns \ {c} : conn'[d] = conn[d]
    BY <1>t, <2>1
  <2>7. \A d \in Conns :
              /\ conn'[d].sess = conn[d].sess
              /\ conn'[d].clean = conn[d].clean
              /\ conn'[d].pc = "insert" => conn[d].pc = "insert" /\ conn'[d].task = conn[d].task
              /\ conn'[d].pc \notin {"replace", "purge", "unmap"}
              /\ conn[d].pc = "free" => conn'[d].pc = "free"
              /\ conn[d].pc = "discard" => conn'[d].pc = "discard"
    BY <1>p, <2>1, <2>3, <2>6
  <2> QED
    BY <1>3, <2>1, <2>4, <2>5, <2>7
<1>5. ASSUME NEW f \in Filters, Unsubscribe(c, f)
      PROVE  KeptInv'
  <2> DEFINE r == remove_sub(sess[s], f)
             T == {sess[s].subs[f]}
  <2>1. /\ sess' = [sess EXCEPT ![s] = r] /\ task' = Abort(task, T)
        /\ disk' = persist_subs(disk, sess'[s], QoSOf(task)) /\ made' = made /\ conn' = conn
    BY <1>5 DEF Unsubscribe
  <2>2. r.queue = sess[s].queue /\ r.durable = sess[s].durable
    BY <1>r DEF remove_sub, SessionRecord
  <2>3. \A g \in Filters : r.subs[g] <= made.task
    <3>1. r.subs = [sess[s].subs EXCEPT ![f] = None] /\ sess[s].subs \in [Filters -> Tasks \cup {None}]
      BY <1>r DEF remove_sub, SessionRecord
    <3>2. None <= made.task
      BY <1>t DEF None
    <3> QED
      BY <1>r, <3>1, <3>2
  <2> HIDE DEF r, T
  <2> QED
    BY <1>3, <1>p, <2>1, <2>2, <2>3
<1> QED
  BY <1>2, <1>4, <1>5

\* The process dies: the files stay, and nothing else.
LEMMA KeptCrash ==
    ASSUME TypeInv, KeptInv, Crash
    PROVE  KeptInv'
<1>t. made \in [sess : 0..MaxSessions, conn : 0..MaxConns, task : 0..MaxTasks]
  BY DEF TypeInv, TypeOK
<1>1. /\ registry' = None /\ node'.sess = None /\ node'.state = "down" /\ sweeper'.pc = "idle"
      /\ made'.conn = made.conn /\ made'.task = 0
  BY <1>t DEF Crash
<1>2. \A s \in Sessions : sess'[s].subs = NoSubs
  BY DEF Crash, new
<1>3. \A t \in Tasks : task'[t].sess = None
  BY DEF Crash, FreeTask
<1>4. \A c \in Conns : /\ ~conn'[c].clean /\ conn'[c].sess = None
                       /\ conn'[c].pc \in {"free", "closed"}
                       /\ c > made.conn => conn'[c].pc = "free"
  <2>1. \A c \in Conns : conn'[c] = IF c <= made.conn THEN [FreeConn EXCEPT !.pc = "closed"]
                                                      ELSE FreeConn
    BY DEF Crash
  <2>2. /\ ~FreeConn.clean /\ FreeConn.sess = None /\ FreeConn.pc = "free"
        /\ ~[FreeConn EXCEPT !.pc = "closed"].clean
        /\ [FreeConn EXCEPT !.pc = "closed"].sess = None
        /\ [FreeConn EXCEPT !.pc = "closed"].pc = "closed"
    BY DEF FreeConn
  <2>3. made.conn \in Nat /\ \A c \in Conns : c \in Nat
    BY <1>t DEF Conns
  <2>4. \A c \in Conns : c > made.conn => conn'[c] = FreeConn
    BY <2>1, <2>3
  <2> QED
    BY <2>1, <2>2, <2>4
<1>5. Home' = None
  BY <1>1 DEF Home
<1>6. OneSession'
  <2> HIDE DEF Home
  <2> QED
    BY <1>1, <1>3, <1>4 DEF OneSession
<1>7. KnownTasks'
  BY <1>1, <1>2, <1>4 DEF KnownTasks, NoSubs, None
<1>8. Mirrored' /\ Drained'
  <2> HIDE DEF Home
  <2> QED
    BY <1>1, <1>5 DEF Mirrored, Drained
<1> QED
  BY <1>6, <1>7, <1>8 DEF KeptInv

\* Startup: the session that is rehydrated is the home of every task it
\* starts, and is registered with its file brought up to date.
LEMMA KeptStartup ==
    ASSUME TypeInv, QueueInv, KeptInv, StartupStep
    PROVE  KeptInv'
<1>t. /\ disk \in DiskRecord /\ node \in NodeRecord
      /\ sess \in [Sessions -> SessionRecord] /\ task \in [Tasks -> TaskRecord]
      /\ node.state = "rehydrate" => node.sess \in Sessions
      /\ made \in [sess : 0..MaxSessions, conn : 0..MaxConns, task : 0..MaxTasks]
  BY DEF TypeInv, TypeOK, HandlesOK, NodeHandlesOK
<1>k. OneSession /\ KnownTasks /\ Mirrored /\ Drained
  BY DEF KeptInv
<1>0. conn' = conn /\ sweeper' = sweeper /\ made'.conn = made.conn
  BY <1>t DEF StartupStep, Restart, Rehydrate, RehydrateSkips, RehydrateDone
<1>1. ASSUME NEW acl \in SUBSET Filters, Restart(acl)
      PROVE  KeptInv'
  <2>1. /\ node.state = "down" /\ registry = None /\ registry' = None /\ node.sess = None
        /\ task' = task /\ disk' = disk /\ made'.task = made.task
    BY <1>k, <1>t, <1>1 DEF Restart, OneSession
  <2>2. Home = None
    BY <2>1 DEF Home
  <2>3. /\ \A t \in Tasks : task[t].sess = None
        /\ \A c \in Conns : conn[c].sess = None
    <3> HIDE DEF Home
    <3> QED
      BY <1>k, <2>1, <2>2 DEF OneSession
  <2>4. CASE disk.subs = {}
    <3>1. node' = [node EXCEPT !.state = "up", !.acl = acl] /\ sess' = sess
      BY <1>1, <2>4 DEF Restart
    <3>2. node'.state = "up" /\ node'.sess = None
      BY <1>t, <2>1, <3>1 DEF NodeRecord
    <3>3. Home' = None
      BY <2>1, <3>2 DEF Home
    <3>4. OneSession'
      <4> HIDE DEF Home
      <4> QED
        BY <1>k, <1>0, <2>1, <2>3, <3>2 DEF OneSession
    <3>5. KnownTasks'
      BY <1>k, <1>0, <2>1, <3>1 DEF KnownTasks
    <3>6. Mirrored' /\ Drained'
      <4> HIDE DEF Home
      <4> QED
        BY <2>1, <2>4, <3>3 DEF Mirrored, Drained
    <3> QED
      BY <3>4, <3>5, <3>6 DEF KeptInv
  <2>5. CASE disk.subs # {}
    <3> DEFINE fresh == new(TRUE, disk.queue)
    <3>1. /\ 1 \in Sessions /\ sess' = [sess EXCEPT ![1] = fresh]
          /\ node'.state = "rehydrate" /\ node'.sess = 1
      <4>1. 1 \in Sessions /\ node' = [state |-> "rehydrate", acl |-> acl, sess |-> 1, todo |-> disk.subs]
        BY <1>1, <2>5 DEF Restart
      <4>2. sess' = [sess EXCEPT ![1] = fresh]
        BY <1>1, <2>5, Zenon DEF Restart
      <4> QED
        BY <4>1, <4>2
    <3>2. disk.queue \in Seq(Msgs) /\ Bounded(disk.queue)
      BY <1>t DEF QueueInv, DiskRecord
    <3>3. fresh.subs = NoSubs /\ fresh.queue = disk.queue
      BY <3>2 DEF new, load_queue, Bounded
    <3> HIDE DEF fresh
    <3>4. sess'[1] = fresh /\ \A q \in Sessions \ {1} : sess'[q] = sess[q]
      BY <1>t, <3>1
    <3>5. Home' = 1
      BY <2>1, <3>1 DEF Home
    <3>6. OneSession'
      <4> HIDE DEF Home
      <4> QED
        BY <1>k, <1>0, <2>1, <2>3, <3>1 DEF OneSession
    <3>7. KnownTasks'
      <4>1. \A f \in Filters : fresh.subs[f] <= made.task
        BY <1>t, <3>3 DEF NoSubs, None
      <4> QED
        BY <1>k, <1>0, <2>1, <3>4, <4>1 DEF KnownTasks
    <3>8. Mirrored' /\ Drained'
      <4> HIDE DEF Home
      <4> QED
        BY <2>1, <3>1, <3>3, <3>4, <3>5 DEF Mirrored, Drained
    <3> QED
      BY <3>6, <3>7, <3>8 DEF KeptInv
  <2> QED
    BY <2>4, <2>5
<1>2. ASSUME NEW f \in Filters, NEW qos \in QoS, Rehydrate(f, qos)
      PROVE  KeptInv'
  <2> DEFINE t == made.task + 1
             s == node.sess
             k == [FreeTask EXCEPT !.pc = "recv", !.sess = s, !.filter = f, !.qos = qos]
             r == insert_sub(sess[s], f, t)
  <2>1. /\ t \in Tasks /\ task' = [task EXCEPT ![t] = k] /\ made'.task = t
        /\ sess' = [sess EXCEPT ![s] = r] /\ node.state = "rehydrate"
        /\ disk' = persist_subs(disk, sess'[s], QoSOf(task'))
        /\ registry' = registry
    BY <1>t, <1>2 DEF Rehydrate, Spawn
  <2>2. node'.state = "rehydrate" /\ node'.sess = s
    BY <1>t, <1>2 DEF Rehydrate, NodeRecord
  <2>3. s \in Sessions /\ registry = None
    BY <1>k, <1>t, <2>1 DEF OneSession
  <2>4. Home = s /\ Home' = s
    BY <2>1, <2>2, <2>3 DEF Home
  <2>5. k.sess = s
    BY DEF FreeTask
  <2>6. r.queue = sess[s].queue /\ r.durable = sess[s].durable
    BY <1>t, <2>3 DEF insert_sub, SessionRecord
  <2>7. \A g \in Filters : r.subs[g] <= t
    <3>1. r.subs = [sess[s].subs EXCEPT ![f] = t] /\ sess[s].subs \in [Filters -> Tasks \cup {None}]
      BY <1>t, <2>3 DEF insert_sub, SessionRecord
    <3>2. \A g \in Filters : sess[s].subs[g] <= made.task /\ sess[s].subs[g] \in Nat
      BY <1>k, <2>3, <3>1 DEF KnownTasks, Tasks, None
    <3> QED
      BY <1>t, <3>1, <3>2
  <2>8. \A q \in Sessions, g \in Filters : sess[q].subs[g] <= t
    <3>1. \A q \in Sessions, g \in Filters : sess[q].subs[g] <= made.task /\ sess[q].subs[g] \in Nat
      BY <1>k, <1>t DEF KnownTasks, SessionRecord, Tasks, None
    <3> QED
      BY <1>t, <3>1
  <2> HIDE DEF k, r, t
  <2>9. /\ sess'[s] = r /\ \A q \in Sessions \ {s} : sess'[q] = sess[q]
        /\ task'[t] = k /\ \A u \in Tasks \ {t} : task'[u] = task[u]
    BY <1>t, <2>1, <2>3
  <2>10. OneSession'
    <3> HIDE DEF Home
    <3>1. \A u \in Tasks : task'[u].sess # None => task'[u].sess = Home'
      BY <1>k, <2>4, <2>5, <2>9 DEF OneSession
    <3> QED
      BY <1>k, <1>0, <2>1, <2>2, <2>3, <3>1 DEF OneSession
  <2>11. \A c \in Conns : conn[c].pc # "insert"
    <3>1. \A c \in Conns : conn[c].sess = None
      BY <1>k, <2>3 DEF OneSession
    <3>2. \A c \in Conns : conn[c].pc = "insert" => conn[c].sess \in Sessions
      BY DEF TypeInv, HandlesOK, ConnHandlesOK
    <3> QED
      BY <3>1, <3>2 DEF Sessions, None
  <2>12. KnownTasks'
    BY <1>0, <2>1, <2>7, <2>8, <2>9, <2>11 DEF KnownTasks
  <2>13. Mirrored'
    BY <2>1, <2>2, <2>3 DEF Mirrored
  <2>14. Drained'
    <3>1. disk'.queue = disk.queue
      BY <1>t, <2>1, DiskKeeps
    <3>2. \A q \in Sessions : sess'[q].queue = sess[q].queue /\ sess'[q].durable = sess[q].durable
      BY <2>6, <2>9
    <3> QED
      BY <1>0, <2>4, <3>1, <3>2, DrainedFrame
  <2> QED
    BY <2>10, <2>12, <2>13, <2>14 DEF KeptInv
<1>3. ASSUME NEW f \in Filters, NEW qos \in QoS, RehydrateSkips(f, qos)
      PROVE  KeptInv'
  <2>1. /\ UNCHANGED <<registry, sess, task, disk, made>> /\ node.state = "rehydrate"
        /\ node' = [node EXCEPT !.todo = @ \ {<<f, qos>>}]
    BY <1>3 DEF RehydrateSkips
  <2>2. node'.state = node.state /\ node'.sess = node.sess
    BY <1>t, <2>1 DEF NodeRecord
  <2>3. Home' = Home
    BY <2>1, <2>2 DEF Home
  <2>4. OneSession'
    <3> HIDE DEF Home
    <3> QED
      BY <1>k, <1>0, <2>1, <2>2, <2>3 DEF OneSession
  <2>5. KnownTasks' /\ Mirrored'
    BY <1>k, <1>0, <2>1, <2>2 DEF KnownTasks, Mirrored
  <2>6. Drained'
    BY <1>0, <2>1, <2>3, DrainedFrame
  <2> QED
    BY <2>4, <2>5, <2>6 DEF KeptInv
<1>4. CASE RehydrateDone
  <2> DEFINE s == node.sess
  <2>1. /\ sess' = sess /\ task' = task /\ made' = made /\ registry' = s
        /\ node.state = "rehydrate" /\ disk' = persist_subs(disk, sess[s], QoSOf(task))
    BY <1>4 DEF RehydrateDone
  <2>2. node'.state = "up" /\ node'.sess = None
    BY <1>t, <1>4 DEF RehydrateDone, NodeRecord
  <2>3. s \in Sessions /\ s # None /\ registry = None
    BY <1>k, <1>t, <2>1 DEF OneSession, Sessions, None
  <2>4. Home = s /\ Home' = s
    BY <2>1, <2>2, <2>3 DEF Home
  <2>5. OneSession'
    <3> HIDE DEF Home
    <3>1. \A c \in Conns : conn[c].sess = None
      BY <1>k, <2>3 DEF OneSession
    <3> QED
      BY <1>k, <1>0, <2>1, <2>2, <2>4, <3>1 DEF OneSession
  <2>6. KnownTasks'
    BY <1>k, <1>0, <2>1 DEF KnownTasks
  <2>7. Mirrored'
    <3>1. sess[s].durable => disk'.subs = Entries(sess[s], QoSOf(task))
      BY <1>t, <2>1 DEF persist_subs, DiskRecord
    <3> QED
      BY <2>1, <2>3, <3>1 DEF Mirrored
  <2>8. Drained'
    <3>1. disk'.queue = disk.queue
      BY <1>t, <2>1, DiskKeeps
    <3> QED
      BY <1>0, <2>1, <2>4, <3>1, DrainedFrame
  <2> QED
    BY <2>5, <2>6, <2>7, <2>8 DEF KeptInv
<1> QED
  BY <1>1, <1>2, <1>3, <1>4 DEF StartupStep

\* Nothing is there to begin with.
LEMMA KeptInit == Init => KeptInv
<1> SUFFICES ASSUME Init PROVE KeptInv
  OBVIOUS
<1>1. /\ registry = None /\ node.sess = None /\ node.state = "up" /\ sweeper.pc = "idle"
      /\ made.task = 0 /\ disk.subs = {}
  BY DEF Init, NoFiles
<1>2. Home = None
  BY <1>1 DEF Home
<1>3. OneSession
  <2> HIDE DEF Home
  <2> QED
    BY <1>1 DEF Init, OneSession, FreeConn, FreeTask
<1>4. KnownTasks
  BY <1>1 DEF Init, KnownTasks, new, NoSubs, None, FreeConn
<1>5. Mirrored /\ Drained
  <2> HIDE DEF Home
  <2> QED
    BY <1>1, <1>2 DEF Mirrored, Drained
<1> QED
  BY <1>3, <1>4, <1>5 DEF KeptInv

\* KeptInv is inductive when nothing discards stored state: the clean
\* branches of attach and detach and the sweeper are never taken.
LEMMA KeptNext ==
    ASSUME NothingDiscards, TypeInv, QueueInv, KeptInv, [Next]_vars
    PROVE  KeptInv'
<1>d. /\ ~(TRUE \in CleanFlags) /\ ~Expiry
      /\ \A clean \in CleanFlags : clean = FALSE
      /\ \A c \in Conns : conn[c].pc \notin {"replace", "purge", "unmap"}
      /\ sweeper.pc = "idle"
  BY DEF NothingDiscards, KeptInv, OneSession
<1>1. ASSUME NEW c \in Conns, ConnStep(c)
      PROVE  KeptInv'
  <2>1. ~ReplaceSession(c) /\ ~Purge(c) /\ ~Unmap(c)
    BY <1>d DEF ReplaceSession, Purge, Unmap
  <2> QED
    BY <1>1, <2>1, KeptLocal, KeptHandover, KeptSubs DEF ConnStep
<1>2. ASSUME NEW c \in Conns, ClientStep(c)
      PROVE  KeptInv'
  <2>1. ~DiscardExisting(c)
    BY <1>d DEF DiscardExisting
  <2>2. ASSUME NEW clean \in CleanFlags, AttachNew(c, clean)
        PROVE  KeptInv'
    BY <1>d, <2>2, KeptConnect
  <2> QED
    BY <1>2, <2>1, <2>2, KeptLocal, KeptConnect DEF ClientStep
<1>3. ASSUME NEW c \in Conns, WriterAborts(c)
      PROVE  KeptInv'
  BY <1>3, KeptLocal
<1>4. ASSUME NEW class \in TopicClasses, Publish(class)
      PROVE  KeptInv'
  <2>1. /\ UNCHANGED <<registry, sess, conn, disk, node, sweeper, made>>
        /\ \A u \in Tasks : KeepsTask(u)
    BY <1>4, PublishEffect
  <2>2. OneSession' /\ KnownTasks' /\ Mirrored'
    BY <1>d, <2>1, KeptFrame
  <2>3. Home' = Home
    BY <2>1 DEF Home
  <2>4. Drained'
    BY <2>1, <2>3, DrainedFrame
  <2> QED
    BY <2>2, <2>4 DEF KeptInv
<1>5. ~SweepStep
  BY <1>d DEF SweepStep, SweepRetain, SweepAbort, SweepDiscard
<1>6. CASE UNCHANGED vars
  BY <1>6 DEF vars, KeptInv, OneSession, KnownTasks, Mirrored, Drained, Home, Entries, QoSOf
<1> QED
  BY <1>1, <1>2, <1>3, <1>4, <1>5, <1>6, KeptTask, KeptCrash, KeptStartup DEF Next

\* The three invariants together.
LEMMA KeptAlways ==
    ASSUME NothingDiscards
    PROVE  Spec => [](TypeInv /\ QueueInv /\ KeptInv)
<1>1. Init => TypeInv /\ QueueInv /\ KeptInv
  BY TypeInit, QueueInit, KeptInit
<1>2. (TypeInv /\ QueueInv /\ KeptInv) /\ [Next]_vars => (TypeInv /\ QueueInv /\ KeptInv)'
  BY TypeNext, QueueNext, KeptNext
<1> QED
  BY <1>1, <1>2, PTL DEF Spec

(***************************************************************************)
(* persist_subs after every change, the reconciliation at the end of       *)
(* rehydrate_one and the saves on the way there: with no cleanSession=1    *)
(* and no expiry, the subscription file of a registered session says       *)
(* exactly which subscriptions it has, at which QoS, at every moment, for  *)
(* any number of connections and crashes and any ACLs of the restarts.     *)
(***************************************************************************)
THEOREM FileMirrors ==
    ASSUME NothingDiscards
    PROVE  Spec => []SubsFileMirrors
<1>1. TypeInv /\ KeptInv => SubsFileMirrors
  <2> SUFFICES ASSUME TypeInv, KeptInv, NEW s \in Sessions, registry = s, sess[s].durable
               PROVE  disk.subs = Entries(sess[s], QoSOf(task))
    BY DEF SubsFileMirrors
  <2>1. registry # None
    BY DEF Sessions, None
  <2> QED
    BY <2>1 DEF KeptInv, Mirrored
<1> QED
  BY <1>1, KeptAlways, PTL

(***************************************************************************)
(* attach_conn drains the queue and deletes its file in two steps, while   *)
(* deliver pushes and persists: with no cleanSession=1 and no expiry, once *)
(* no connection is between the two steps the file is gone or is the queue *)
(* in memory, so a restart replays nothing a connection was given.         *)
(***************************************************************************)
THEOREM NoReplay ==
    ASSUME NothingDiscards
    PROVE  Spec => []NoReplayOfDrained
<1>1. TypeInv /\ KeptInv => NoReplayOfDrained
  <2> SUFFICES ASSUME TypeInv, KeptInv, NEW s \in Sessions, registry = s, sess[s].durable,
                      \A c \in Conns : conn[c].pc # "discard"
               PROVE  disk.queue \in {<< >>, sess[s].queue}
    BY DEF NoReplayOfDrained
  <2>1. Home = s /\ Home # None
    BY DEF Home, Sessions, None
  <2> HIDE DEF Home
  <2> QED
    BY <2>1 DEF KeptInv, Drained
<1> QED
  BY <1>1, KeptAlways, PTL

=============================================================================
