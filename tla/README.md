# Entmoot: TLA+ models, checks and proofs

Entmoot is an MQTT 3.1.1 broker that runs as a mesh: every node serves MQTT clients and
exchanges messages with its peers over zenoh. This directory models the part of it where
tasks, clients, files and the mesh interleave: how a connection gets in, the session layer of
one node, the way of a publish from the socket to the mesh, and the retained-message store that
all nodes replicate; and the algorithms that decide who receives what. TLC checks small
instances; TLAPS proves nearly all safety properties for instances of any size.

## 1. Inventory

| Component | State | Operations | Interacts with |
|---|---|---|---|
| Session registry, `session.rs` | client id -> session, under a mutex | attach, detach, sweep, rehydrate | connection tasks, sweeper, start-up |
| Session, `session.rs` | epoch, sink, kick, subscriptions, offline queue, dropped, `offline_since`, under its own mutex; two state files | attach_conn, detach_conn, deliver, evict_slow, insert_sub, remove_sub, abort_subs | connections (a bounded channel and a `Notify` each), forwarding tasks, disk |
| Connection task, `connection.rs` | the client, its will, keep-alive, rate limiter, QoS 2 ids; the writer task's channel | serve, run (a select of packet, keep-alive and kick), subscribe, handle_publish, fire_will | session, zenoh, retained store |
| Retained store, `retained.rs` | replica of topic -> value, dirty flag, match cache; snapshot file | insert, remove, matching_cached, snapshot, load and save | live subscriber, queryable, catch-up and saver tasks; peers over zenoh |
| Start-up and accept loops, `lib.rs`, `main.rs` | broker, connection count | run, spawn_client, sweep task | everything |
| ACLs and authentication, `auth.rs` | rules, users | authenticate, may_publish, may_subscribe | connection, rehydration |
| Topics, `topic.rs` | none | topic and filter to key expression and back, topic_matches, filter_covers | everything |
| Staleness, `staleness.rs` | rules | bound_secs | retained delivery |
| Connect admission, `admission.rs` | GCRA limiter | admit | serve |
| Configuration, metrics, health, web console, chaos scripts, examples | settings, counters | text in, text out | - |

What is hard here:

* **Takeover.** Two connections of one client id race. The loser may be reading, sending,
  subscribing or half-way through detaching; an epoch fences it off.
* **deliver.** A forwarding task copies the sink, waits without a lock in a bounded channel,
  and acts on what it copied: the client may have reconnected, or stopped reading for ever.
* **Two locks and two files.** attach and sweep hold the registry's mutex for a part of their
  work only; the queue file is deleted after the session's mutex is released; cleanSession=1
  removes files that an older session object still writes to.
* **Lost wakeups.** The kick is a `Notify::notify_waiters`, which reaches only a task that
  waits at that moment.
* **Crashes.** Only the files survive, and rehydration rewrites them while it replays them.
* **Replication.** Live samples, catch-up replies and a snapshot from disk all write the same
  replica, in any order and without comparing origin times.
* **Lock-free flags.** The saver's dirty flag and the match cache are updated after the map,
  outside its lock; the connection count is raised first and compared afterwards.
* **Two matchers.** One subscription is served by zenoh's matching of keys for live messages and
  by `topic_matches` for retained ones; a third algorithm, `filter_covers`, decides whether it
  may exist at all.
* **Acknowledgement and loss.** The old task works on what it had received while the client
  resends it elsewhere; acknowledgements are lost with the writer; resends use up the rate.

What makes each component correct:

* Session: a superseded connection changes nothing of its successor; no QoS 1 message
  disappears without being counted or is delivered twice; the offline queue is bounded, ordered
  and only used offline; the files say what memory says; what is offline expires; what was
  persisted resumes.
* Connection: it ends when it is superseded or evicted; its will is fired or discarded; its
  lifecycle events tell the truth; what it acknowledges has been relayed and stored; every
  valid publish is acknowledged in the end; the rate limit is what it says.
* Accept loops and admission: the connection limit holds and no place is lost; a quiet second
  leaves a second's worth of CONNECTs.
* Topics, ACLs, staleness: what is delivered is what the MQTT standard says, inside the scope
  and the grants; the broker's own spaces are its own; stale values are flagged.
* Retained store: the replicas converge; a delete clears; a late joiner catches up; the
  snapshot misses no update; the cache is never older than the last mutation.

`PROJECT.json` lists the hazards one by one, each at its line and with the properties that
would catch it.

## 2. Modules

| Module | What it is |
|---|---|
| `SessionState` | the data of `session.rs` and what each method does to it: one operator per critical section or file operation |
| `Broker` | the processes of one node that work on the session of one client id |
| `BrokerProperties` | what that should guarantee |
| `Mailbox` | the session seen from outside: a bounded first-in first-out box; `Broker` is shown to implement it |
| `BrokerTypeProofs`, `BrokerQueueProofs`, `BrokerFenceProofs` | theorems about `Broker`, each extending the one before |
| `MCBroker` | instances for TLC |
| `Retained`, `RetainedProperties`, `RetainedProofs`, `MCRetained` | the same for the retained store of all nodes |
| `Topic`, `TopicProofs` | the algorithms of `topic.rs`, and theorems about them |
| `Routing`, `RoutingProperties`, `RoutingProofs`, `MCRouting` | ACLs, topics, retained look-up, staleness and the broker's own topics, composed: who receives what |
| `ConnectGate`, `GateProofs`, `MCGate` | accept loops, connection limit, CONNECT, admission, authentication |
| `PublishPath`, `PublishProofs`, `MCPublish` | a PUBLISH from the socket to the mesh and its acknowledgement, with the rate limit |
| `TokenBucket` | what the rate limit promises: a bucket that fills by itself; `PublishPath` is shown to implement it |

A connection's life is cut in three: `ConnectGate` has it up to authentication, `Broker` from
attach to its end, and `PublishPath` has what happens in `Client::run` to its publishes, which
`Broker` abstracts to "some replies". `Routing` says which of the messages that `Broker` and
`PublishPath` pass along are for whom.

### Broker and the code

`Broker` is about **one client id**: the registry is a map from client id to session, and two
client ids share no session, connection, forwarding task or file. `registry` is that one
entry. `sess`, `conn` and `task` are all the session objects, connections and forwarding tasks
made so far; a handle (`Arc`, channel, `Notify`, `JoinHandle`) is the number of the object it
refers to, 0 for `None`. Sinks and kicks are named by the connection that installed them.

An action ends where the code awaits or gives up a mutex. The control state (`pc`) of a
connection follows `serve` and `Client::run`:

    attach -> discard -> connack -> hello -> drain -> select <-> subscribe/insert,
    unsubscribe, reply;  select -> ended -> (purge -> unmap ->) bye -> closed

with `replace` before `attach` when cleanSession=1 discards an existing session. That of a
forwarding task follows `deliver`: `recv -> look -> send -> blocked -> timeout -> failed ->
look`, or `offline`. Coarser than the code, and why that is harmless:

* attach's branch for an unknown client id, and its replacement of a session, each touch one
  thing that others can see apart from the registry, whose mutex is held.
* `kick_current` and `abort_subs` of a replaced session commute with everything in between, so
  they are one action; `Purge` includes `discard_state_files`, which does nothing for a clean
  session.
* An identity change at reconnect rewrites the subscription file with the same filters; the
  identity is not modelled.
* A packet other than SUBSCRIBE and UNSUBSCRIBE is "some replies" (`PublishPath` has the
  details); protocol errors, the rate limit, a failed read and the keep-alive all end `run` in
  the same way (`RunFails`).
* How long ago a session went offline is left open: it may be expired at any moment.
* A file operation is atomic (the code writes a temporary file and renames it) and does not
  fail. Packet ids, metrics and the kick reason are left out.

tokio is modelled by what the code relies on: a bounded channel (`Room`, `Closed`), `notify_waiters`
without a stored permit, `abort`, which takes effect when the task next waits, and a `select`
that may take either ready branch.

### Retained and the code

Each node has a record with the fields of `RetainedStore` (`map`, `dirty`, `cache`) and the
state of its tasks. A value is the number of the write that made it, which is also its origin
time: clocks are in step, the best case for comparing them. insert and remove are three steps
(`Mutate`, `MarkDirty`, `Invalidate`), a cached lookup is two (`Scan`, `Fill`), a save is three
(`TakeDirty`, `CopyMap`, `SaveSnapshot` or `SaveFails`), as in the code. zenoh is external:
`chan[m][n]` is first-in first-out per pair of nodes, with no order across publishers; a lost
link loses a suffix of what was under way; a query reaches every queryable connected at that
moment, the node's own included, and replies come in any order. Left out: cache eviction and
shared loads (which only change who scans), the query timeout, malformed envelopes, snapshots
that fail to parse, and zenoh's consolidation of replies, which keeps one of several replies
for a topic: here the one inserted last stays.

The dirty flag is accessed with relaxed ordering. Interleavings are still enough for it: an
insert that follows the saver's read of the map happens after it through the map's lock, so the
saver's swap, sequenced before that read, cannot take the flag that the insert sets.

Nodes start, link up, lose a link, die and write whenever they like; only the numbers of writes
and of faults (a death or a lost link) are bounded. `Writers` says from which nodes a topic is
written: with several the replicas part (`ReplicasStayAgreed` in section 3), so the property about
replication that holds speaks of topics with one. `failed` records that the saver's last
write failed, which the code logs and forgets: the update stays unsaved until the next one.

### Topic, Routing and the code

`topic.rs` splits strings at `/`; here a topic, filter or key is the sequence that the split
yields, and the scope a sequence of chunks that may be empty. Of the characters of a level only
their class is kept: a plain name, one that holds a wildcard among others (`Partials`), one that
starts with `@` or holds `*`, `$` or `?` (`Reserved`), `+`, `#`, or empty. That the classes are
disjoint is `TopicAssumption`. Loops with early returns are written as the condition under which
they return true. An error is the empty sequence.

`Routing` composes these operators with `Acl`, `StalenessPolicy`, `RetainedStore::matching`,
`flag_if_stale`, `publish_client_event`, `fire_will` and `sys_publish`, over a fabric that nodes
of several scopes share. One action is one packet or one publication of the broker, and `sent`
holds the copies it makes, so that a property can compare them with what the standard says.
Replication is instantaneous and sessions are sets of filters: their interleavings and failures
are in `Retained` and `Broker`. zenoh's matching is external (`ZenohMatches`): `*` and `**` do not
stand for a chunk that starts with `@`. The reference, `FiltersOf`, is written the other way
round, from MQTT's own account: it generates the filters that match a topic.
`RoutingAssumption` lets topics, filters and rules be any sequence of levels, valid or not, and
takes the ids of nodes and clients, and what nodes publish under `$SYS`, to be plain names: the
put of an event or statistic under another id fails, and the code only logs it.

Two things that the code decides and the properties take as they are: a granted pattern `#`
covers filters below `$SYS` and `$meta` too, since `filter_covers` does not treat `$` specially;
and scopes are isolated from each other if they differ at some chunk, while a scope that
continues another one shares keys with it.

### ConnectGate and the code

`pc` follows a connection from `accept` through the handshake task (TLS only), `spawn_client`,
the wait for CONNECT, admission and authentication to service, and to the drop of its guard.
`fetch_add` and the comparison are two steps. A TLS handshake takes as long as it likes, has no
timeout, outlives `shutdown` and is not counted, as in the code. governor's limiter is external:
a cell per tick up to the capacity, and the clock ticks once per cell. `quiet` and `burst` are
history variables for `QuietSecondGivesHeadroom`. Passwords are compared, not hashed; an
identity decides only whether a connection is served, and a certificate with an empty name is an
identity too (lib.rs:149-155, connection.rs:72-76). What follows authentication is `Broker`'s, here one
state that ends at any time.

### PublishPath and the code

attach and detach are no more than `owner` here: a new connection kicks the last attached one
that has not detached, and the kick is lost unless that one waits in its select.

The client is external: an MQTT 3.1.1 client with a window of unacknowledged messages, which it
resends in order on a new connection without waiting for the node to notice that the old one is
gone. On the node's side `pc` follows `handle_publish`: `select -> put -> retain -> ack ->
select`, one action per await, and `bail` is whatever breaks the loop. Each connection has its
rate limiter and its QoS 2 ids. A lost connection loses any tail of both directions; the abort
of the writer loses any tail of what it had not written; the task of a lost connection works on.
A put or retained write may fail.

The limiter's f64 seconds and tokens are integers here: a second is `Ticks` ticks, a token
`Ticks` units, so a tick is worth `Rate` units and nothing is rounded. (In the code rounding may
shift a decision by far less than a token.) A `last` beyond a second is a second, since the
bucket is full by then. Outbound back-pressure is `Broker`'s; here the writer's channel has room.

## 3. Runs

All bounds are constants of the modules and named `Max...`, or sets and sequences of inputs.
Deadlock is checked for `MCRouting`, `MCGate` and `MCPublish`, where time always passes or a
client can always act. It is not for `Broker` and `Retained`: a client may fall silent for ever,
and bounded instances run out of messages.

### What holds

| Run | Instance | Shows |
|---|---|---|
| `MCTakeover` | 2 connections, 1 session, 1 subscription, 2 messages, queue and channel of 1 | fencing (`SinkIsCurrent`, `SinkLostForCause`); the queue is used only offline and bounded; `EveryMessageAccountedFor`; the queue file holds nothing already drained; seen from outside the session is a `Mailbox` (`ImplementsMailbox`) |
| `MCDeliver` | 2 connections, the second after the first is gone (`ComesBack`), whose client may stop reading or be lost inside `serve`; 3 messages, queue of 2, sweeper (fair) | `QueueInOrder` through retries and drop-oldest, `DeliverReturns`; `OfflineExpires`: a session without a connection is swept or taken up again, once its sink is gone or a message is on its way to it |
| `MCClean` | 2 clean connections, 2 sessions, no slow-consumer grace (sends may wait for ever) | `NewestIsRegistered`, `NoOrphanTask` |
| `MCRestart` | 2 filters, 2 QoS values, 1 crash, any ACL afterwards | `TypeOK`, `SubsFileMirrors`, and (fair) `RestartResumes` |
| `MCRetainedNode` | 1 node, 3 writes and deletes, look-ups, failing saves, 1 crash (fair) | `SnapshotCurrent`, `SnapshotCatchesUp` |
| `MCRetainedMesh` | 2 nodes, 1 topic written at one of them, 2 writes or deletes at any time, links that come up at any time, 1 crash or lost link (fair) | `StaysInSync`: once a node has caught up, the next write puts it right and nothing but the loss of its link to the writer, or its end, makes it wrong again; `LateJoinerCatchesUp` for a node that is linked before it asks |
| `MCRouting` | 3 nodes, 2 scopes, 3 clients with different grants, 7 topics and 16 filters of every kind, 2 subscriptions, 1 retained message, 2 staleness rules, 3 seconds | live delivery and retained delivery are as MQTT specifies, in the scope (`LiveAsSpecified`, `RetainedAsSpecified`); `ReadsAreGranted`; `SpacesAreTheBrokers`; `StaleIsFlagged`: a value older than its bound is flagged, a younger one is not |
| `MCGate` | 2 connections at each listener, a limit of 2, rate 2 with a burst of 1, three logins, a certificate with an empty name (fair) | `LimitHolds`, `CountSettles`, `QuietSecondGivesHeadroom` |
| `MCPublish` | 3 messages (retained QoS 1, denied QoS 2, QoS 1 on an invalid topic), a window of 2, rate 2 in thirds of a second, 2 connections at a time, 1 fault (fair) | `AckedIsRelayed`, `NoIdLeft`; `EveryPublishIsSettled` until a message on an invalid topic is among those resent; the limiter refuses exactly what is too much for some window (`RefusesAsWindows`) and is a `TokenBucket` (`ImplementsBucket`) |

Why these bounds are enough to meet the interesting cases: a takeover needs two connections; a
channel of capacity 1 is full after one packet, so sends block, time out and are retried; one
more message than the queue holds makes it drop; two filters make rehydration partial; two
nodes suffice for every order of live sample, reply and snapshot. What larger instances could
add for the properties under section 4 is excluded by proof; the liveness properties were checked
at these bounds only. For `MCRouting`, one
subscription and one retained message are enough to compare two matchers on every pair, and the
second subscription is there for flags and events that reach a third party; the theorems of
`TopicProofs` hold for levels and lengths of any number. At the gate, two connections race for
the last place while a third is being rejected. For the rate, ticks of a third of a second make
tokens that do not divide a tick; its three messages meet every way through `handle_publish`
but that of QoS 0, which is the way of QoS 1 without an acknowledgement; one fault is enough to
have an old task and a new one at work on the same message. `ImplementsMailbox` speaks of session 1 and its one subscription, which is all there is
in that instance.

Two state constraints keep the liveness checks small. `ComesBack` in `MCDeliver` has the second
connection come after the first is closed, its writer gone and the last message published, and
then send nothing and read no further than CONNACK. That leaves out nothing of `QueueInOrder`,
which is proved without it, but `DeliverReturns` and `OfflineExpires` are not checked while two
connections race. The second connection is there to find a backlog, fail while it is sent
(`ServeFails`) and leave its sink behind. `Staggered` in `MCRetainedMesh` has the second node start
when the first has caught up with itself, unless a fault came before; a death of the first one
brings back every order of two nodes that join at once. `StaysInSync` is proved without it.

### Where the code and its documentation part

Each of these runs checks one sentence of the repository against the model, and TLC finds a
behaviour that contradicts it. The findings in `PROJECT.json` quote the sentences.

| Run | What happens |
|---|---|
| `TakeoverKicks` | the old connection is busy when it is kicked, misses it and stays (fair) |
| `WillIsSettled` | a failure during CONNACK or backlog skips the will (and detach) |
| `CacheNeverStale` | a scan that overlaps an insert fills the cache after the invalidation |

The statements below have no configuration of their own. Each is refuted in seconds
(`EveryPublishIsAcked` in a minute) when it takes the place of the properties of a run above,
with these constants and the others as in that run:

| Statement | Start from | Instance | What happens |
|---|---|---|---|
| `QueuedSurvives` | `WillIsSettled` | `OutCap = 4` | the late delete of the queue file removes a newly queued message, though PLAN.md:117 says "Already-queued messages survive a node restart" |
| `BacklogFirst` | `WillIsSettled` | `OutCap = 4`, `MaxMsgs = 2` | a live message overtakes the backlog: the sink is installed first |
| `OfflineExpires` | `MCDeliver` | `MaxMsgs = 0`, `MaxCrashes = 1` | a rehydrated session has no `offline_since` and never expires, though config.rs:35 says "Seconds an offline persistent session (cleanSession=0) is kept" |
| `LostExpires` | `MCDeliver` | as it is | CONNACK or the backlog cannot be sent (connection.rs:116, :133): `serve` returns without detach, the sink stays and `offline_since` is unset, so that the sweep never takes the session, unless a later message finds the channel closed; config.rs:35 as above |
| `EvictedDisconnects` | `MCDeliver` | `MaxMsgs = 1`, requests subscribe and reply, `Expiry = FALSE` | the kick of an eviction is lost: the task waits in the very channel that is full |
| `PersistentStaysRegistered` | `MCClean` | both clean flags, `DataDir = TRUE`, `MaxTasks = 0` | a clean connection's late detach unregisters the session a persistent one has taken over |
| `PersistentIsDurable` | `MCClean` | both clean flags, `DataDir = TRUE`, `MaxTasks = 0` | a persistent connection takes over a clean session, which has no files |
| `CleanDiscards` | `MCClean` | both clean flags, `DataDir = TRUE` | a superseded connection writes the subscription file back |
| `LastEventIsTrue` | `WillIsSettled` | as it is | a superseded connection's disconnect event comes last |
| `SweepSparesOnline` | `WillIsSettled` | `Expiry = TRUE` | a session expires between attach's look-up and `attach_conn` |
| `RestartResumes` | `MCRestart` | `MaxCrashes = 2`, `MaxSessions = 3`, `MaxTasks = 5` | a crash during rehydration loses the filters not yet replayed |
| `CatchUpOnlyFresher` | `MCRetainedMesh` | as it is | a reply under way replaces a newer live value |
| `ReplicasAgree` | `MCRetainedMesh` | as it is | what is written while two nodes are not linked never reaches the other side: the only catch-up query goes out a fixed delay after start-up, here before the link is up |
| `ReplicasStayAgreed` | `MCRetainedMesh` | as it is | a link is lost while something is written, and catch-up does not run again |
| `ReplicasStayAgreed` | `MCRetainedMesh` | `Writers <- BothWrite`, `MaxFaults = 0` | two writers, two orders of arrival, two different replicas (with one writer and no fault TLC finds no violation) |
| `ClearedEverywhere` | `MCRetainedMesh` | `Savers <- TwoNodes` | a deleted value returns from an old snapshot |
| `FlaggedOnlyBeyond` | `MCRouting` | as it is | at an age of exactly the bound the value is flagged (`age < bound` returns, connection.rs:388), though connection.rs:377 says "exceeds its staleness bound", config.rs:58 "older than this" and config.example.toml:21 "if exceeded" |
| `EveryPublishIsAcked` | `MCPublish` | as it is | a QoS 1 or 2 message on an invalid topic ends the connection unacknowledged (connection.rs:289-290), and its client resends it on the next one for ever, the very thing that the comment on a denied message avoids: "stalling the ack would just make the device retry forever" |
| `EveryPublishIsSettled` | `MCPublish` | `Rate = 1`, `Ticks = 2`, `MaxFaults = 0` | a client with more unacknowledged messages than `max_publish_rate` resends them all at once, is cut for its rate, and the aborted writer takes the acknowledgement of the first with it, each time |

### Fairness

`Broker`: weak fairness for each connection task, writer abort and forwarding task (the runtime
schedules every task that can run), for the sweeper (an interval timer), for start-up (a
supervisor restarts the process), and for the end of a connection whose writer is gone (its
socket is dead, so its read fails). A send past its grace is a timer of the forwarding task.
Nothing is assumed of clients: reading, sending, connecting and acknowledging are never fair.
`ConnectGate`: weak fairness for each step of the node for a connection, the expiry of its wait
for CONNECT included, and for time; clients may stay silent at any point.
`PublishPath`: weak fairness for each connection's task, which also notices in the end that its
client is gone (the keep-alive, or the takeover), and of the client that it reconnects
while it has something to say, reads what it is sent and notices a closed stream, without which
nothing can be promised to it; faults are bounded by `MaxFaults`, not unfair. Time is not fair.
`Retained`: weak fairness for the tasks of a node that answer queries, catch up, save, and finish
an insert or remove. Starting, links coming up, the delivery of samples, writes and look-ups are
not fair.

## 4. Proofs

TLAPS proves the following for every value of the constants that satisfies the assumptions of
the modules and the hypothesis named: any number of connections, sessions, messages, nodes,
topics and crashes, topics and filters of any length, any rate.

### The session layer: `BrokerTypeProofs`, `BrokerQueueProofs`, `BrokerFenceProofs`

| Theorem | Property | Hypothesis | Inductive invariant and argument |
|---|---|---|---|
| `TypeCorrect` | `TypeOK` | - | `TypeOK` is not inductive: a step uses the session, message or channel that its control state implies. `HandlesOK` says those handles are there. |
| `QueueCorrect` | `QueueOnlyOffline` | - | `QueueInv`, per session record and for the file. Only `push_queue` fills a queue, under `StillOffline`; only `attach_conn` installs a sink, and it empties the queue in the same critical section. |
| `QueueFits` | `QueueBounded` | - | `QueueInv` |
| `FileMirrors` | `SubsFileMirrors` | `NothingDiscards` | `KeptInv`: one session object serves the client id for the life of the process, registered or being rehydrated (`OneSession`); its subscriptions name tasks already spawned, so that spawning one changes no QoS in the file (`KnownTasks`); the file is its subscriptions, or what is left to rehydrate is accounted for (`Mirrored`). |
| `NoReplay` | `NoReplayOfDrained` | `NothingDiscards` | `KeptInv`: unless a connection is between draining and deleting, the file is empty or the queue in memory (`Drained`). |
| `Fencing` | `SinkIsCurrent` | - | `FenceInv`: handles refer to objects already made (`MadeOK`); epochs of connections that ever attached to one session differ and do not exceed the session's (`EpochsOK`); a sink belongs to the connection with the session's epoch (`SinksOK`); a forwarding task sends to a channel that was a sink, and a failed send means that it is closed or replaced (`SendsOK`). |
| `SinkSafety` | `SinkLostForCause` | - | an action property from `FenceInv`: an owner's detach comes from the connection with the session's epoch, which is the sink's; clearing after a failed send needs `SendsOK`. |
| `TasksAreOwned` | `NoOrphanTask` | `CleanOnly` | `CleanInv`: no two connections share a session and each keeps the epoch of its own (`OwnSession`), so every connection owns its session when it detaches; a task nobody has aborted is in the subscriptions of a session whose connection is yet to abort them, or in the hands of its SUBSCRIBE (`Owned`). |
| `NewestCorrect` | `NewestIsRegistered` | `CleanOnly`, no expiry | `NewestInv`, on top of `CleanInv`: the newest connection's session is registered from the step that makes it until that connection unmaps it; nobody else's `RemoveEntry` fits. |
| `OrderCorrect` | `QueueInOrder` | `MaxTasks = 1` | `OrderInv`: messages are numbered as they are published, and from the queue over the message in deliver's hands to the inbox they get newer (`TaskLines`), none newer than the last published one (`QueueLines`). A failed send keeps its message in hand, so the retry pushes it before anything newer. |
| `MailboxImplemented` | `ImplementsMailbox` | `OneMailbox` | `MailInv`, with all of the above. The box is the queue, the message in deliver's hands and the inbox, in this order. A live send hands over the head of the box only if the queue is empty at that moment: `CarriesOK` says that it is, from the step at which deliver found a sink until it looks again, because nobody else pushes (`QueueInv` has the queue empty when the sink is there). `attach_conn` hands the queue over, the head of the box again; `push_queue` on a full queue drops the head of the box. Every step of `Broker` is one of these, an arrival, or leaves the box alone. |
| `AccountCorrect` | `EveryMessageAccountedFor` | `OneMailbox` | `CountInv`, the equation for the one session together with what a connection that has not come yet lacks. Backlogs and channels are counted as sets of places (connection, index): one lemma each says how the count changes when one place is added (`PairsPut`), removed (`PairsTake`) or all of a backlog at once (`PairsFill`). |

The hypotheses are what the runs assume and what makes the statement true of this code:

* `NothingDiscards` (no cleanSession=1, no expiry). With either, an older session object, still
  in the hands of a superseded connection or a sweep, writes or deletes the files of its
  successor (`CleanDiscards` in section 3).
* `CleanOnly` (cleanSession=1 only). A persistent connection shares the session of the one
  before it, and a mix of both unregisters a session in use (`PersistentStaysRegistered`).
* No expiry for `NewestCorrect`: an evicted slow consumer leaves its session offline while its
  connection is still ending, and the sweep may take it out of the registry by then. `NoOrphanTask`
  needs no such hypothesis.
* `OneMailbox`: `NothingDiscards`, one subscription of QoS 1, no UNSUBSCRIBE, a queue that holds
  something, and one life of the process. What an aborted subscription, a replaced session or a
  crash takes along is lost by design (only the queue survives, on disk), QoS 0 is dropped while
  the client is offline, and with `max_queued_per_session = 0` so is everything. The properties
  say the same ("while the process lives and no subscription is aborted").
* `MaxTasks = 1`, that is one subscription made per life of the process: two tasks of one session
  take their turns at the queue as the runtime schedules them, and two subscriptions promise no
  order between each other.

### The retained store: `RetainedProofs`

| Theorem | Property | Hypothesis | Inductive invariant and argument |
|---|---|---|---|
| `RetainedTypeCorrect` | `TypeOK` of `Retained` | - | inductive as it stands |
| `SnapshotSafe` | `SnapshotCurrent` | - | `SaverInv`: unless the flag is set, an insert is about to set it, or the last save failed, an idle saver's file equals the map, and a saver about to write holds a copy of the map. |
| `ReplicaStaysInSync` | `StaysInSync` | - | an action property from `SyncInv`: queries and replies belong to nodes that still ask (`OnlyAskingNodesAsked`), so the replica of one that has caught up changes by its live subscriber only; samples on a topic are in the channels of its home alone (`SamplesAtHome`). Applying the head of a channel leaves the last sample on a topic what it was; a write appends to the channel of every linked node. |

The second theorem claims for the replication what this code does guarantee. It says nothing of
how a node comes to be in sync when nothing is written any more: that is the catch-up's, and the
statements about it that fail are in section 3.

### Admission and publishing: `GateProofs`, `PublishProofs`

| Theorem | Property | Inductive invariant and argument |
|---|---|---|
| `LimitSafe` | `LimitHolds` (and `TypeOK` of `ConnectGate`) | `GateInv`: `conn_count` is the number of guards alive, and the connections that are inside, together with those counted within the limit that have not compared yet, are at most `max_connections`. |
| `QuietCorrect` | `QuietSecondGivesHeadroom` | an action property from `HeadroomInv`: the limiter has a cell for every tick since the last CONNECT, and the CONNECTs since the last quiet second took at most one each |
| `PublishTypeCorrect` | `TypeOK` of `PublishPath` | with it, that a task inside `handle_publish` has a message |
| `AckedCorrect` | `AckedIsRelayed` | `AckInv`: every acknowledgement under way, every publish between its last write and its acknowledgement, every QoS 2 id held and every message past PUBREC belongs to a message relayed, and stored if retained, or denied |
| `IdsCorrect` | `NoIdLeft` | `IdInv`: an id held on the client's current connection is still pending there, at the stage that the packets in both directions say: a PUBREL or its resend is behind every PUBLISH that could enter the id once more |
| `WindowsCorrect` | `RefusesAsWindows` | `WindowInv`: the tokens left are the tightest of all windows that end now, a full bucket and what time brought less what was accepted since, and some window attains it; `OrderInv` says that the client publishes each message once per connection and in order, `BucketInv` when the limiter last looked at the clock |
| `BucketImplemented` | `ImplementsBucket` | `BucketInv`; the bucket's content is the refill that the limiter would compute now. Every step of `PublishPath` is a step of `TokenBucket` or leaves it alone |

### Topics and routing: `TopicProofs`, `RoutingProofs`

| Theorem | Statement | Argument |
|---|---|---|
| `CoverSound` | `filter_covers(o, i)` and `topic_matches(i, t)` imply `topic_matches(o, t)` | by the index at which the loop of `filter_covers` returns |
| `MatchAgrees` | for valid `f` and `t`, zenoh matches their keys iff `topic_matches(f, t)` | the scope is a common prefix of plain chunks; then level by level |
| `RoundTrip` | the topic taken from a live or retained key is the one published | the scope is stripped, and no level of a valid topic is a verbatim chunk |
| `ScopesIsolate` | for scopes that differ at some chunk, no filter of one matches a key of the other, live or retained | the chunks that differ are plain names |
| `ReadsCorrect` | `[]ReadsAreGranted` | `RoutingInv`: every subscription went through `may_subscribe`. From the receiver's filter to the pattern that covers it by `CoverSound`, and from the key to the topic by `Heard`, which holds under nested scopes too |
| `SpacesCorrect` | `[]SpacesAreTheBrokers` | a valid topic has no level of the broker's spaces, and a wildcard stands for no verbatim chunk |
| `RetainedMatchCorrect` | `[]RetainedAsSpecified` | `topic_matches` accepts exactly the filters that `FiltersOf` generates (`PlainMatches`), read level by level in both directions |
| `LiveCorrect` | `[]LiveAsSpecified`, for `ScopesDisjoint` | `MatchAgrees`, `PlainMatches` and their counterparts for keys below `@sys` and `@meta` |
| `StaleCorrect` | `[]StaleIsFlagged`, for `ScopesDisjoint` and `RulesWellFormed` | what exceeds its bound has reached it, and that is what the code flags (`ReachedIsFlagged`); `bound_secs` takes the first rule that matches; the rest as for live copies of the event and of each flag |

`ScopesDisjoint`: of two nodes, the scopes are equal or differ at some chunk. A scope that
continues another one hears the part of its topics that lies below, under a shorter name.
`RulesWellFormed`: `#` is the last level of a rule's filter. The configuration does not check it,
and `topic_matches` takes a `#` in the middle for the end, which `FiltersOf` does not.

### Method, and what is only model-checked

The proofs about state machines are by induction over the steps, one lemma or step per action
or group of actions that touch the same thing; frame lemmas cover the steps that leave alone what
an invariant is about.

Only model-checked: liveness under fairness (`RestartResumes`, `OfflineExpires`,
`DeliverReturns`, `SnapshotCatchesUp`, `LateJoinerCatchesUp`, `CountSettles`,
`EveryPublishIsSettled`), which the prover does not do, as it has no support for `ENABLED`.
Every invariant, action property and refinement of a passing run is stated by a theorem.

## 5. Not modelled

* Configuration parsing, the counters and their rendering, health endpoints, the web console, TLS
  set-up, scripts and examples: input, output and text. The settings that matter are constants.
* Packet framing (`read_from`, `encode`) and its size limit: a failure ends `run` as any other.
* Packet ids of outbound messages: `next_pkid` wraps at 2^16 and may reuse the id of a message
  that the client has not acknowledged, but the node keeps nothing per outbound id and answers
  PUBACK, PUBREC and PUBCOMP without looking anything up.
* Keep-alive as a duration: `run` may end at any moment. A connection that reaches the end of its
  stream ends with an error and fires its will, although the comment at connection.rs:192 lists
  "peer closed after clean traffic" among the clean ends; the models follow the code.
* Failing file operations of the session layer, which the code only logs; those of the retained
  store are modelled.

## 6. Plan

Done: `SessionState`, `Broker`, `Retained`, `Topic`, `Routing`, `ConnectGate` and `PublishPath`
with their runs, the abstract `Mailbox` and `TokenBucket`, and the theorems above.

1. `EveryMessageAccountedFor` with any number of subscriptions: `CountInv` with a sum over the
   tasks, and without what `MailInv` says of the only one.
2. `Replica`: an abstract last-writer-wins register per topic, as the reference for what the
   retained store would have to do to converge, and which of its steps `Retained` lacks.
