------------------------------ MODULE MCBroker ------------------------------
(***************************************************************************)
(* Instances of Broker for TLC: one or two topic filters, and topics known *)
(* by which of them they match.  The remaining bounds are in the .cfg      *)
(* files.  The client may always fall silent, so a behaviour may stop.     *)
(***************************************************************************)
EXTENDS BrokerProperties

CONSTANTS f1, f2

OneFilter  == {f1}
TwoFilters == {f1, f2}

\* A client that comes back once its connection is gone and the last message was
\* published, and then sends nothing and reads no further than CONNACK: a bound on
\* what the second connection adds, for liveness.
ComesBack ==
    \A c, d \in Conns :
        c < d /\ conn[d].pc # "free" =>
            /\ conn[c].pc = "closed"
            /\ Closed(c)
            /\ pubs = MaxMsgs
            /\ conn[d].pc \notin Requests
            /\ conn[d].written <= 1

\* Every topic matches every filter: overlapping subscriptions.
Overlapping == {Filters}

=============================================================================
