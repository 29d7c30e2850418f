------------------------------ MODULE Routing -------------------------------
(***************************************************************************)
(* How a message finds its readers: ACL rules (auth.rs), the mapping of    *)
(* topics and filters to zenoh keys (topic.rs), the retained lookup        *)
(* (retained.rs), staleness flags (staleness.rs) and the broker's own      *)
(* topics, composed over a fabric that nodes of several scopes share.      *)
(*                                                                         *)
(* A step is one packet or one publication of the broker, with everything  *)
(* it delivers.  Sessions and replicas are as simple as they can be here:  *)
(* Broker and Retained have their interleavings and their failures.        *)
(***************************************************************************)
EXTENDS Topic, FiniteSets, FiniteSetsExt

CONSTANTS
    Nodes,         \* nodes on the fabric
    ScopeOf,       \* cfg.scope of every node
    Clients,       \* clients, each with a session at one node
    Home,          \* the node of every client
    User,          \* the authenticated identity of every client
    Rules,         \* the ACL rules: records [user, publish, subscribe]
    DefaultAllow,  \* auth.default_policy = "allow"
    StaleRules,    \* the sequence of staleness rules: records [filter, bound]
    DefaultBound,  \* retained_staleness_secs
    TopicNames,    \* topics that clients try to publish on
    FilterNames,   \* filters that clients try to subscribe to
    SysSuffixes,   \* what the nodes publish under $SYS
    MaxSubs,       \* bound: subscriptions, of all clients
    MaxStored,     \* bound: retained messages, of all nodes
    MaxClock       \* bound: seconds

\* Topics, filters and rules are any strings; the ids of nodes and clients,
\* and what the nodes publish under $SYS, are names (the put of an event or
\* of a statistic under another id fails and is only logged).
ASSUME RoutingAssumption ==
    /\ ScopeOf \in [Nodes -> Seq(Names)]
    /\ Home \in [Clients -> Nodes]
    /\ Nodes \cup Clients \cup {"clients"} \subseteq Names
    /\ TopicNames \subseteq LevelSeq
    /\ FilterNames \subseteq LevelSeq
    /\ \A suffix \in SysSuffixes : suffix \in Seq(Names) /\ suffix # << >>
    /\ \A r \in Rules : r.publish \subseteq LevelSeq /\ r.subscribe \subseteq LevelSeq
    /\ StaleRules \in Seq([filter : LevelSeq, bound : Nat])
    /\ DefaultAllow \in BOOLEAN
    /\ DefaultBound \in Nat
    /\ MaxSubs \in Nat
    /\ MaxStored \in Nat
    /\ MaxClock \in Nat

VARIABLES
    subs,    \* every client's subscriptions: granted filters
    stored,  \* every node's retained replica: pairs of topic and written_at
    clock,   \* the time in seconds
    sent     \* the publication or subscription under way and the copies it sent

vars == <<subs, stored, clock, sent>>

-----------------------------------------------------------------------------
(***************************************************************************)
(* Acl and StalenessPolicy.                                                *)
(***************************************************************************)
rules_for(user) == {r \in Rules : r.user = "*" \/ r.user = user}

may_publish(user, t) ==
    DefaultAllow \/ \E r \in rules_for(user) : \E p \in r.publish : topic_matches(p, t)

may_subscribe(user, f) ==
    DefaultAllow \/ \E r \in rules_for(user) : \E p \in r.subscribe : filter_covers(p, f)

\* Mutant: the last rule that matches wins.
bound_secs_last(t) ==
    LET found == {i \in DOMAIN StaleRules : topic_matches(StaleRules[i].filter, t)}
    IN  IF found = {} THEN DefaultBound ELSE StaleRules[Max(found)].bound

bound_secs(t) ==
    LET found == {i \in DOMAIN StaleRules : topic_matches(StaleRules[i].filter, t)}
    IN  IF found = {} THEN DefaultBound ELSE StaleRules[Min(found)].bound

-----------------------------------------------------------------------------
(***************************************************************************)
(* The fabric.                                                             *)
(***************************************************************************)
Scope(c) == ScopeOf[Home[c]]

\* What a put on key delivers: zenoh hands the sample to every matching
\* subscriber, whose task takes the topic from the key, or skips it.
Relayed(key, s) ==
    {[to |-> c, topic |-> keyexpr_to_topic(key, Scope(c)), retain |-> FALSE] :
        c \in {d \in Clients :
                 /\ keyexpr_to_topic(key, Scope(d)) # Invalid
                 /\ \E f \in s[d] : ZenohMatches(filter_to_keyexpr(f, Scope(d)), key)}}

\* publish_client_event, for c.
Event(c) == meta_keyexpr(<<"clients", Home[c], c>>, Scope(c))

\* Mutant: filter and topic are swapped in the call.
matching_swapped(c, f) == {e \in stored[Home[c]] : topic_matches(e.topic, f)}

\* RetainedStore::matching, at the client's node.
matching(c, f) == {e \in stored[Home[c]] : topic_matches(f, e.topic)}

Stale(e) ==
    /\ bound_secs(e.topic) # 0
    /\ clock - e.at >= bound_secs(e.topic)

\* Nothing is under way; there is one message at a time.
Idle == [kind |-> "none", by |-> "none", name |-> << >>, copies |-> {}]

Done(kind, c, name, copies) ==
    sent' = [kind |-> kind, by |-> c, name |-> name, copies |-> copies]

-----------------------------------------------------------------------------
TypeOK ==
    /\ subs \in [Clients -> SUBSET FilterNames]
    /\ \A n \in Nodes : \A e \in stored[n] : e.topic \in TopicNames /\ e.at \in 0..MaxClock
    /\ clock \in 0..MaxClock
    /\ \A m \in sent.copies : m.to \in Clients /\ m.topic # Invalid

Init ==
    /\ subs = [c \in Clients |-> {}]
    /\ stored = [n \in Nodes |-> {}]
    /\ clock = 0
    /\ sent = Idle

\* SUBSCRIBE with one filter: the subscription, its lifecycle event, and
\* the retained messages with a flag for each that is stale.
SubscribeRefused(c, f) ==
    /\ sent = Idle
    /\ \/ filter_to_keyexpr(f, Scope(c)) = Invalid
       \/ ~may_subscribe(User[c], f)
    /\ UNCHANGED vars

Subscribe(c, f) ==
    LET s       == [subs EXCEPT ![c] = @ \cup {f}]
        matches == matching(c, f)
    IN  /\ sent = Idle
        /\ filter_to_keyexpr(f, Scope(c)) # Invalid
        /\ may_subscribe(User[c], f)
        /\ Cardinality({p \in Clients \X FilterNames : p[2] \in s[p[1]]}) <= MaxSubs
        /\ subs' = s
        /\ Done("subscribe", c, f,
                UNION {Relayed(Event(c), s),
                       {[to |-> c, topic |-> e.topic, retain |-> TRUE] : e \in matches},
                       UNION {Relayed(meta_keyexpr(e.topic, Scope(c)), s)
                                : e \in {m \in matches : Stale(m)}}})
        /\ UNCHANGED <<stored, clock>>

\* The effect of a put, or a delete, under the retained key: the live
\* subscribers of retained.rs apply it at every node it reaches.
Applied(n, key, keep) ==
    LET t == retained_keyexpr_to_topic(key, ScopeOf[n])
        others == {e \in stored[n] : e.topic # t}
    IN  IF ~ZenohMatches(retained_filter(ScopeOf[n]), key) \/ t = Invalid THEN stored[n]
        ELSE IF keep THEN others \cup {[topic |-> t, at |-> clock]}
        ELSE others

\* A message goes to its key, and its retained copy is put, or deleted, if
\* there is one to write.
Relay(c, t, writes, keep) ==
    LET ke == topic_to_keyexpr(t, Scope(c))
    IN  /\ sent = Idle
        /\ ke # Invalid
        /\ may_publish(User[c], t)
        /\ Done("publish", c, t, Relayed(ke, subs))
        /\ stored' = IF ~writes THEN stored
                     ELSE [n \in Nodes |-> Applied(n, retained_keyexpr(t, Scope(c)), keep)]
        /\ Cardinality(UNION {stored'[n] : n \in Nodes}) <= MaxStored
        /\ UNCHANGED <<subs, clock>>

\* handle_publish; retain is "no", "put", or "clear" for an empty payload.
Publish(c, t, retain) == Relay(c, t, retain # "no", retain = "put")

\* fire_will: an empty retained will clears nothing.
FireWill(c, t, retain) == Relay(c, t, retain = "put", TRUE)

\* An invalid topic ends the connection, a denied message is dropped; a will
\* is dropped for either.
PublishDropped(c, t) ==
    /\ sent = Idle
    /\ \/ topic_to_keyexpr(t, Scope(c)) = Invalid
       \/ ~may_publish(User[c], t)
    /\ UNCHANGED vars

\* One turn of sys_publish.
SysPublish(n, suffix) ==
    /\ sent = Idle
    /\ Done("sys", n, suffix, Relayed(sys_keyexpr(suffix, ScopeOf[n]), subs))
    /\ UNCHANGED <<subs, stored, clock>>

Tick ==
    /\ sent = Idle
    /\ clock < MaxClock
    /\ clock' = clock + 1
    /\ UNCHANGED <<subs, stored, sent>>

\* The clients have read their copies.
Taken ==
    /\ sent # Idle
    /\ sent' = Idle
    /\ UNCHANGED <<subs, stored, clock>>

Next ==
    \/ \E c \in Clients, f \in FilterNames : Subscribe(c, f) \/ SubscribeRefused(c, f)
    \/ \E c \in Clients, t \in TopicNames : PublishDropped(c, t)
    \/ \E c \in Clients, t \in TopicNames, retain \in {"no", "put", "clear"} :
         Publish(c, t, retain) \/ FireWill(c, t, retain)
    \/ \E n \in Nodes, suffix \in SysSuffixes : SysPublish(n, suffix)
    \/ Taken \/ Tick

Spec == Init /\ [][Next]_vars

=============================================================================
