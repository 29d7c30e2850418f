---------------------------- MODULE PublishPath -----------------------------
(***************************************************************************)
(* The way in: what crates/entmoot-node/src/connection.rs does with a      *)
(* PUBLISH, from the socket to the mesh and back to the client as an       *)
(* acknowledgement, with the publish rate limit.                           *)
(*                                                                         *)
(* The client is an MQTT 3.1.1 client outside the repository: it publishes *)
(* its messages in order, keeps those of QoS 1 and 2 until the handshake   *)
(* is complete, and sends them again on its next connection.  It does not  *)
(* wait for the server to notice that it has gone: the task of the old     *)
(* connection may still work on what it had received.                      *)
(*                                                                         *)
(* The session, the outbound queue's limit and the will are in module      *)
(* Broker.  A token is counted in units as in module TokenBucket, where    *)
(* the code has f64.                                                       *)
(***************************************************************************)
EXTENDS Naturals, Sequences, FiniteSets

CONSTANTS
    Messages,   \* what the client publishes, in this order: a sequence of
                \* [qos, retain, valid, permitted]
    Window,     \* how many messages the client has unacknowledged at most
    Rate,       \* max_publish_rate, 0 for no limit
    Ticks,      \* ticks of the clock in a second
    Slots,      \* names for the connections alive at the same time
    None,       \* no connection
    Watched,    \* any of Slots: the one whose rate is looked at
    MaxFaults   \* bound: lost connections and failed writes to zenoh

ASSUME PublishAssumption ==
    /\ Messages \in Seq([qos : 0..2, retain : BOOLEAN, valid : BOOLEAN, permitted : BOOLEAN])
    /\ Window \in Nat
    /\ Rate \in Nat
    /\ Ticks \in Nat \ {0}
    /\ None \notin Slots
    /\ Watched \in Slots
    /\ MaxFaults \in Nat

VARIABLES
    client,    \* the client's side
    conn,      \* a record for every connection: its task and both directions
    sent,      \* history: how long ago each accepted publish of Watched was
    relayed,   \* history: messages put on their key
    stored,    \* history: messages written to the retained key
    faults     \* lost connections and failed writes so far

vars == <<client, conn, sent, relayed, stored, faults>>

Ids == DOMAIN Messages

\* What the client sends, and what it is sent.
Bye      == [kind |-> "disconnect", id |-> 0]
Inbound  == [kind : {"publish", "pubrel"}, id : Ids] \cup {Bye}
Outbound == [kind : {"puback", "pubrec", "pubcomp"}, id : Ids]

-----------------------------------------------------------------------------
(***************************************************************************)
(* RateLimiter.                                                            *)
(***************************************************************************)
Token == Ticks
Full  == Rate * Ticks

\* The first statement of allow, `last' ticks after the one before.
\* Mutant: the bucket is not capped.
Refill_uncapped(r) == r.tokens + Rate * r.last

Refill(r) ==
    LET tokens == r.tokens + Rate * r.last
    IN  IF tokens <= Full THEN tokens ELSE Full

\* RateLimiter::new.
NewLimiter == [tokens |-> Full, last |-> 0]

\* Mutant: any fraction of a token will do.
allow_fraction(r) == Rate = 0 \/ Refill(r) > 0

\* What allow answers ...
allow(r) == Rate = 0 \/ Refill(r) >= Token

\* Mutant: `last' stays where it is.
allowed_keeps_last(r) == [r EXCEPT !.tokens = Refill(r) - Token]

\* ... and leaves behind when it answers TRUE, and when it answers FALSE.
allowed(r) == IF Rate = 0 THEN r ELSE [tokens |-> Refill(r) - Token, last |-> 0]

refused(r) == [tokens |-> Refill(r), last |-> 0]

-----------------------------------------------------------------------------
Closed == [pc |-> "closed", in |-> << >>, out |-> << >>, msg |-> 0, owner |-> FALSE, kicked |-> FALSE,
           rate |-> NewLimiter, cut |-> FALSE, inflight_qos2 |-> {}]

Init ==
    /\ client = [at |-> None, next |-> 1, pending |-> << >>]
    /\ conn = [c \in Slots |-> Closed]
    /\ sent = << >>
    /\ relayed = {}
    /\ stored = {}
    /\ faults = 0

Prefixes(s) == {SubSeq(s, 1, n) : n \in 0..Len(s)}

Fault == faults < MaxFaults /\ faults' = faults + 1

-----------------------------------------------------------------------------
(***************************************************************************)
(* The client.                                                             *)
(***************************************************************************)
\* What it sends for an unacknowledged message.
Resend(p) == [kind |-> IF p.stage = "rel" THEN "pubrel" ELSE "publish", id |-> p.id]

\* attach_conn kicks the connection that attached last, unless that has
\* detached; the kick reaches it if it waits in its select.
Superseded(r) ==
    [r EXCEPT !.kicked = @ \/ (r.owner /\ r.pc = "select"), !.owner = FALSE]

\* A new connection, with what the client sends again on it.
Connect(c) ==
    /\ client.at = None
    /\ conn[c].pc = "closed"
    /\ client.pending # << >> \/ client.next \in Ids
    /\ client' = [client EXCEPT !.at = c]
    /\ conn' = [d \in Slots |->
                  IF d = c
                  THEN [Closed EXCEPT !.pc = "select", !.owner = TRUE,
                                      !.in = [i \in DOMAIN client.pending |-> Resend(client.pending[i])]]
                  ELSE Superseded(conn[d])]
    /\ UNCHANGED <<sent, relayed, stored, faults>>

Publish(c) ==
    /\ client.at = c
    /\ client.next \in Ids
    /\ Len(client.pending) < Window
    /\ client' = [client EXCEPT !.next = @ + 1,
                                !.pending = IF Messages[client.next].qos = 0 THEN @
                                            ELSE Append(@, [id |-> client.next, stage |-> "pub"])]
    /\ conn' = [conn EXCEPT ![c].in = Append(@, [kind |-> "publish", id |-> client.next])]
    /\ UNCHANGED <<sent, relayed, stored, faults>>

\* The message is done with.
Without(pending, id) ==
    LET i == CHOOSE i \in DOMAIN pending : pending[i].id = id
    IN  IF \E j \in DOMAIN pending : pending[j].id = id
        THEN SubSeq(pending, 1, i - 1) \o SubSeq(pending, i + 1, Len(pending))
        ELSE pending

\* An acknowledgement arrives: PUBREC begins the second half of a handshake.
Receive(c) ==
    /\ client.at = c
    /\ conn[c].out # << >>
    /\ LET a    == Head(conn[c].out)
           rest == Tail(conn[c].out)
       IN  IF a.kind = "pubrec"
           THEN /\ client' = [client EXCEPT !.pending =
                                [i \in DOMAIN @ |-> IF @[i].id = a.id THEN [@[i] EXCEPT !.stage = "rel"] ELSE @[i]]]
                /\ conn' = [conn EXCEPT ![c].out = rest,
                                        ![c].in = Append(@, [kind |-> "pubrel", id |-> a.id])]
           ELSE /\ client' = [client EXCEPT !.pending = Without(@, a.id)]
                /\ conn' = [conn EXCEPT ![c].out = rest]
    /\ UNCHANGED <<sent, relayed, stored, faults>>

\* The client reads the end of a stream that the server closed.
Notice(c) ==
    /\ client.at = c
    /\ conn[c].pc = "closed"
    /\ conn[c].out = << >>
    /\ client' = [client EXCEPT !.at = None]
    /\ UNCHANGED <<conn, sent, relayed, stored, faults>>

\* The connection is lost, with any tail of what is under way; the server has
\* not noticed yet.
Lose(c) ==
    /\ client.at = c
    /\ Fault
    /\ client' = [client EXCEPT !.at = None]
    /\ \E s \in Prefixes(conn[c].in) :
          conn' = [conn EXCEPT ![c].in = s, ![c].out = << >>]
    /\ UNCHANGED <<sent, relayed, stored>>

\* DISCONNECT, from a client that has nothing unacknowledged.
Leave(c) ==
    /\ client.at = c
    /\ client.pending = << >>
    /\ client' = [client EXCEPT !.at = None]
    /\ conn' = [conn EXCEPT ![c].in = Append(@, Bye)]
    /\ UNCHANGED <<sent, relayed, stored, faults>>

-----------------------------------------------------------------------------
(***************************************************************************)
(* Client::run and handle_publish.  Whatever goes wrong breaks the loop;   *)
(* pc = "bail" is the way out.                                             *)
(***************************************************************************)
Reads(c, kind) ==
    /\ conn[c].pc = "select"
    /\ conn[c].in # << >>
    /\ Head(conn[c].in).kind = kind

Id(c) == Head(conn[c].in).id

\* A wakeup is gone when select! takes the packet.
Took(r) == [r EXCEPT !.in = Tail(@), !.kicked = FALSE]

\* handle_publish up to its first await: over the rate ...
RateRefuses(c) ==
    /\ Reads(c, "publish")
    /\ ~allow(conn[c].rate)
    /\ conn' = [conn EXCEPT ![c] = [Took(conn[c]) EXCEPT !.pc = "bail", !.cut = TRUE,
                                                         !.rate = refused(conn[c].rate)]]
    /\ UNCHANGED <<client, sent, relayed, stored, faults>>

\* Mutant: what the ACL denies is not acknowledged.
Verdict_silent(m) ==
    IF ~m.valid THEN "bail" ELSE IF m.permitted THEN "put" ELSE "select"

\* ... an invalid topic, a topic the ACL denies (dropped, and acknowledged all
\* the same), or one to be relayed.
Verdict(m) ==
    IF ~m.valid THEN "bail" ELSE IF m.permitted THEN "put" ELSE "ack"

Accept(c) ==
    /\ Reads(c, "publish")
    /\ allow(conn[c].rate)
    /\ conn' = [conn EXCEPT ![c] = [Took(conn[c]) EXCEPT !.rate = allowed(conn[c].rate), !.msg = Id(c),
                                                         !.pc = Verdict(Messages[Id(c)])]]
    /\ sent' = IF c = Watched THEN <<0>> \o sent ELSE sent
    /\ UNCHANGED <<client, relayed, stored, faults>>

\* Mutant: a retained message is acknowledged before it is stored.
AfterPut_early(m) == "ack"

\* The message is put on its key.
AfterPut(m) == IF m.retain THEN "retain" ELSE "ack"

Put(c) ==
    /\ conn[c].pc = "put"
    /\ relayed' = relayed \cup {conn[c].msg}
    /\ conn' = [conn EXCEPT ![c].pc = AfterPut(Messages[conn[c].msg])]
    /\ UNCHANGED <<client, sent, stored, faults>>

\* The retained key is written, or deleted when the payload is empty.
WriteRetained(c) ==
    /\ conn[c].pc = "retain"
    /\ stored' = stored \cup {conn[c].msg}
    /\ conn' = [conn EXCEPT ![c].pc = "ack"]
    /\ UNCHANGED <<client, sent, relayed, faults>>

\* Either may fail: the client gets no acknowledgement.
WriteFails(c) ==
    /\ conn[c].pc \in {"put", "retain"}
    /\ Fault
    /\ conn' = [conn EXCEPT ![c].pc = "bail"]
    /\ UNCHANGED <<client, sent, relayed, stored>>

\* A packet into the channel of the writer.
Acked(r, kind, id) == [r EXCEPT !.out = Append(@, [kind |-> kind, id |-> id]), !.pc = "select"]

Ack(c) ==
    /\ conn[c].pc = "ack"
    /\ LET m == conn[c].msg
           r == conn[c]
       IN  conn' = [conn EXCEPT ![c] =
                      CASE Messages[m].qos = 0 -> [r EXCEPT !.pc = "select"]
                        [] Messages[m].qos = 1 -> Acked(r, "puback", m)
                        [] Messages[m].qos = 2 ->
                             Acked([r EXCEPT !.inflight_qos2 = @ \cup {m}], "pubrec", m)]
    /\ UNCHANGED <<client, sent, relayed, stored, faults>>

\* Mutant: the packet id is kept.
Release_kept(ids, id) == ids

Release(ids, id) == ids \ {id}

ReadPubRel(c) ==
    /\ Reads(c, "pubrel")
    /\ conn' = [conn EXCEPT ![c] =
                  Acked([Took(conn[c]) EXCEPT !.inflight_qos2 = Release(@, Id(c))], "pubcomp", Id(c))]
    /\ UNCHANGED <<client, sent, relayed, stored, faults>>

\* The writer has met the end of a lost connection: send fails.
SendFails(c) ==
    /\ client.at # c
    /\ \/ conn[c].pc = "ack" /\ Messages[conn[c].msg].qos # 0
       \/ Reads(c, "pubrel")
    /\ conn' = [conn EXCEPT ![c].pc = "bail"]
    /\ UNCHANGED <<client, sent, relayed, stored, faults>>

ReadDisconnect(c) ==
    /\ Reads(c, "disconnect")
    /\ conn' = [conn EXCEPT ![c] = [Took(conn[c]) EXCEPT !.pc = "bail"]]
    /\ UNCHANGED <<client, sent, relayed, stored, faults>>

\* The client has gone and all that it had sent is read, or the loop sees that
\* it was notified: select! takes either.
ReadError(c) ==
    /\ conn[c].pc = "select"
    /\ \/ client.at # c /\ conn[c].in = << >>
       \/ conn[c].kicked
    /\ conn' = [conn EXCEPT ![c].pc = "bail"]
    /\ UNCHANGED <<client, sent, relayed, stored, faults>>

\* The task returns.  Its writer is aborted, and what it had not written is lost.
Return(c) ==
    /\ conn[c].pc = "bail"
    /\ \E s \in Prefixes(conn[c].out) :
          conn' = [conn EXCEPT ![c] = [Closed EXCEPT !.out = IF client.at = c THEN s ELSE << >>]]
    /\ sent' = IF c = Watched THEN << >> ELSE sent
    /\ UNCHANGED <<client, relayed, stored, faults>>

-----------------------------------------------------------------------------
Aged(n, max) == IF n < max THEN n + 1 ELSE max

Monus(a, b) == IF a > b THEN a - b ELSE 0

\* Bound: an age beyond which Within cannot fail, with the publishes there are.
MaxAge == IF Rate = 0 THEN 0 ELSE (Monus(Len(Messages), Rate) * Token) \div Rate + 1

\* A tick.  A bucket is full after a second, however long it is left alone.
Tick ==
    /\ conn' = [c \in Slots |-> IF conn[c].pc = "closed" THEN conn[c]
                                ELSE [conn[c] EXCEPT !.rate.last = Aged(@, Ticks)]]
    /\ sent' = [i \in DOMAIN sent |-> Aged(sent[i], MaxAge)]
    /\ UNCHANGED <<client, relayed, stored, faults>>

Serve(c) ==
    \/ RateRefuses(c) \/ Accept(c) \/ Put(c) \/ WriteRetained(c) \/ Ack(c)
    \/ ReadPubRel(c) \/ ReadDisconnect(c) \/ ReadError(c) \/ Return(c)

Next ==
    \/ \E c \in Slots :
          \/ Connect(c) \/ Publish(c) \/ Receive(c) \/ Notice(c) \/ Lose(c) \/ Leave(c)
          \/ RateRefuses(c) \/ Accept(c) \/ Put(c) \/ WriteRetained(c) \/ WriteFails(c) \/ Ack(c)
          \/ ReadPubRel(c) \/ SendFails(c) \/ ReadDisconnect(c) \/ ReadError(c) \/ Return(c)
    \/ Tick

Spec == Init /\ [][Next]_vars

\* The runtime keeps polling every connection's task; the client reconnects
\* while it has something to say, and reads what it is sent.
Fairness ==
    /\ WF_vars(\E c \in Slots : Connect(c))
    /\ \A c \in Slots : WF_vars(Serve(c)) /\ WF_vars(Receive(c)) /\ WF_vars(Notice(c))

FairSpec == Spec /\ Fairness

-----------------------------------------------------------------------------
ClientRecord ==
    [at : Slots \cup {None}, next : 1..(Len(Messages) + 1),
     pending : Seq([id : Ids, stage : {"pub", "rel"}])]

ConnRecord ==
    [pc : {"closed", "select", "put", "retain", "ack", "bail"},
     in : Seq(Inbound), out : Seq(Outbound), msg : Ids \cup {0},
     owner : BOOLEAN, kicked : BOOLEAN,
     rate : [tokens : 0..Full, last : 0..Ticks], cut : BOOLEAN, inflight_qos2 : SUBSET Ids]

TypeOK ==
    /\ client \in ClientRecord
    /\ conn \in [Slots -> ConnRecord]
    /\ sent \in Seq(0..MaxAge)
    /\ relayed \subseteq Ids
    /\ stored \subseteq Ids
    /\ faults \in 0..MaxFaults

(***************************************************************************)
(* A client that was told PUBACK or PUBREC may forget the message: unless  *)
(* the ACL dropped it, it was put on its key, and on the retained key if   *)
(* it is retained, whatever was lost, resent or handled by an old task     *)
(* meanwhile (handle_publish acknowledges last).                           *)
(***************************************************************************)
Waiting(m) ==
    \E i \in DOMAIN client.pending : client.pending[i] = [id |-> m, stage |-> "pub"]

AckedIsRelayed ==
    \A m \in Ids :
        (m < client.next /\ Messages[m].qos > 0 /\ ~Waiting(m) /\ Messages[m].permitted)
            => /\ m \in relayed
               /\ Messages[m].retain => m \in stored

(***************************************************************************)
(* The limiter refuses a publish exactly when it would be one too many for *)
(* some stretch of time: in no window of w seconds does a connection get   *)
(* more than max_publish_rate * (1 + w) publishes accepted, and a client   *)
(* that stays within that is never disconnected for its rate (allow).      *)
(***************************************************************************)
Within ==
    \A k \in 0..Len(sent) :
        (k + 1) * Token <= Full + Rate * (IF k = 0 THEN 0 ELSE sent[k])

RefusesAsWindows ==
    Reads(Watched, "publish") /\ Rate # 0
        => (allow(conn[Watched].rate) <=> Within)

(***************************************************************************)
(* "inbound QoS 2 packet ids awaiting PUBREL": once the client has         *)
(* completed its handshakes, its connection holds no packet id back.       *)
(***************************************************************************)
NoIdLeft ==
    \A c \in Slots :
        (client.at = c /\ client.pending = << >> /\ conn[c].pc = "select" /\ conn[c].in = << >>)
            => conn[c].inflight_qos2 = {}

(***************************************************************************)
(* "Ack even when the ACL dropped the message [...] stalling the ack would *)
(* just make the device retry forever": what the client publishes with     *)
(* QoS 1 or 2 is acknowledged in the end, through rate-limit disconnects   *)
(* and a bounded number of faults, if its window is within the rate and    *)
(* until it publishes on an invalid topic with QoS 1 or 2.  Such a message *)
(* ends every connection that it is resent on, unacknowledged, for ever,   *)
(* and takes the acknowledgements around it along (EveryPublishIsAcked).   *)
(***************************************************************************)
Pending(m) == \E i \in DOMAIN client.pending : client.pending[i].id = m

EveryPublishIsSettled ==
    \A m \in Ids : Pending(m) ~> (~Pending(m) \/ \E n \in Ids : Pending(n) /\ ~Messages[n].valid)

(***************************************************************************)
(* The bucket that is refilled when a publish comes is a bucket that fills *)
(* by itself (TokenBucket), for any connection.                            *)
(***************************************************************************)
Bucket == INSTANCE TokenBucket
    WITH level <- Refill(conn[Watched].rate), taken <- Len(sent), cut <- conn[Watched].cut

ImplementsBucket == Bucket!Spec

-----------------------------------------------------------------------------
(***************************************************************************)
(* What the code does not do: without the exception above, "stalling the   *)
(* ack would just make the device retry forever" is what happens.          *)
(***************************************************************************)
EveryPublishIsAcked == \A m \in Ids : Pending(m) ~> ~Pending(m)

=============================================================================
