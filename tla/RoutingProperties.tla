------------------------- MODULE RoutingProperties --------------------------
(***************************************************************************)
(* What Routing promises, against the MQTT standard's own account of       *)
(* filters: FiltersOf(t) generates every filter that matches t, by         *)
(* blurring levels to `+' and cutting the rest off with `#'; wildcards     *)
(* never stand for a first level that starts with `$' (MQTT-4.7.2-1).      *)
(***************************************************************************)
EXTENDS Routing

Blurred(t, S, n) == [i \in 1..n |-> IF i \in S THEN "+" ELSE t[i]]

FiltersOf(t) ==
    LET first == IF t[1] \in Spaces THEN 2 ELSE 1
    IN  {Blurred(t, S, Len(t)) : S \in SUBSET (first..Len(t))}
        \cup UNION {{Append(Blurred(t, S, k), "#") : S \in SUBSET (first..k)}
                      : k \in (first - 1)..Len(t)}

\* The clients with a subscription for t, in the scope of the node or
\* client that speaks.
Readers(t, scope) ==
    {c \in Clients : Scope(c) = scope /\ subs[c] \cap FiltersOf(t) # {}}

LiveCopies == {<<m.to, m.topic>> : m \in {x \in sent.copies : ~x.retain}}

(***************************************************************************)
(* A publication reaches exactly the clients of its scope with a filter    *)
(* that matches it, under the topic it was published on: the detour over   *)
(* zenoh keys neither loses, leaks, nor renames (topic.rs, config.rs:18    *)
(* "isolating the MQTT namespace on a shared fabric").                     *)
(***************************************************************************)
LiveAsSpecified ==
    /\ sent.kind = "publish" =>
         LiveCopies = Readers(sent.name, Scope(sent.by)) \X {sent.name}
    /\ sent.kind = "sys" =>
         LET t == <<"$SYS">> \o sent.name
         IN  LiveCopies = Readers(t, ScopeOf[sent.by]) \X {t}

(***************************************************************************)
(* A new subscription is handed exactly the retained messages that a live  *)
(* publication on the same topic would bring it: topic_matches on the      *)
(* stored topics and zenoh's matching of keys agree (retained.rs:183).     *)
(***************************************************************************)
RetainedAsSpecified ==
    sent.kind = "subscribe" =>
        {m.topic : m \in {x \in sent.copies : x.retain}}
          = {e.topic : e \in {x \in stored[Home[sent.by]] : sent.name \in FiltersOf(x.topic)}}

\* A filter matches the broker's own topics only by naming their space.
Granted(user, t) ==
    \/ DefaultAllow
    \/ \E r \in Rules : r.user \in {"*", user} /\ \E p \in r.subscribe : topic_matches(p, t)

(***************************************************************************)
(* Whatever a client is sent, live or retained, it has a grant for: a      *)
(* filter that filter_covers lets through brings in no topic that the      *)
(* granted pattern does not match (auth.rs:70, topic.rs:157).              *)
(***************************************************************************)
ReadsAreGranted == \A m \in sent.copies : Granted(User[m.to], m.topic)

(***************************************************************************)
(* No client can publish in, or retain a message under, the broker's own   *)
(* keyspaces, and a message from them reaches only who subscribed below    *)
(* that very space (topic.rs:204 "unforgeable", "invisible to `#'/`+'").   *)
(***************************************************************************)
SpacesAreTheBrokers ==
    /\ \A n \in Nodes : \A e \in stored[n] : \A i \in DOMAIN e.topic : e.topic[i] \in Names
    /\ \A m \in sent.copies :
         m.topic[1] \in Spaces =>
            /\ sent.kind \in {"sys", "subscribe"}
            /\ \E f \in subs[m.to] : f[1] = m.topic[1]

\* A retained value is past the bound of the first rule for its topic, or the
\* default if there is none, by so many seconds; no bound is 0.
RuleFor(i, t)       == StaleRules[i].filter \in FiltersOf(t)
OldFor(e, b, extra) == b > 0 /\ e.at + b + extra <= clock

Overdue(e, extra) ==
    \/ \E i \in DOMAIN StaleRules :
         /\ RuleFor(i, e.topic)
         /\ \A j \in 1..(i - 1) : ~RuleFor(j, e.topic)
         /\ OldFor(e, StaleRules[i].bound, extra)
    \/ /\ \A i \in DOMAIN StaleRules : ~RuleFor(i, e.topic)
       /\ OldFor(e, DefaultBound, extra)

\* The retained values that a subscription is handed, those of them that have
\* reached their bound, and those that exceed it.
Shown    == {e \in stored[Home[sent.by]] : sent.name \in FiltersOf(e.topic)}
Reached  == {e \in Shown : Overdue(e, 0)}
Exceeded == {e \in Shown : Overdue(e, 1)}

\* The broker speaks on $meta, to everyone of the scope who listens there, of
\* the subscription itself and of these values, and of nothing else.
MetaTopics(values) == {<<"clients", Home[sent.by], sent.by>>} \cup {e.topic : e \in values}

Flagging(values) ==
    LiveCopies = UNION {Readers(t, Scope(sent.by)) \X {t} :
                          t \in {<<"$meta">> \o u : u \in MetaTopics(values)}}

(***************************************************************************)
(* A subscription flags every retained value that it is handed and whose   *)
(* age exceeds its bound (connection.rs:377, config.rs:58, :62 "the first  *)
(* matching rule (in list order) wins"), and none that is younger.  A      *)
(* value exactly as old as its bound may be flagged or not: the documents  *)
(* say "exceeds" and "older than", the code flags it (FlaggedOnlyBeyond).  *)
(***************************************************************************)
StaleIsFlagged ==
    sent.kind = "subscribe" =>
        \E values \in SUBSET Reached : Exceeded \subseteq values /\ Flagging(values)

-----------------------------------------------------------------------------
(***************************************************************************)
(* What the code does not do.  "If this topic's age exceeds its staleness  *)
(* bound" (connection.rs:377), "older than this" (config.rs:58): no other  *)
(* value is flagged.  flag_if_stale returns early only when the age is     *)
(* below the bound.                                                        *)
(***************************************************************************)
FlaggedOnlyBeyond == sent.kind = "subscribe" => Flagging(Exceeded)

=============================================================================
