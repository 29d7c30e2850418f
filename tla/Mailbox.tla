------------------------------ MODULE Mailbox -------------------------------
(***************************************************************************)
(* What a persistent session promises for one QoS 1 subscription, without  *)
(* connections, channels, locks or tasks: a first-in first-out box.  What  *)
(* the mesh delivers goes in at the end; what comes out at the front is    *)
(* handed over to some connection, once.  Only when more than Capacity     *)
(* messages are in the box may its oldest be dropped.                      *)
(***************************************************************************)
EXTENDS Naturals, Sequences

CONSTANTS
    Message,    \* messages, numbered as they are published
    Capacity    \* max_queued_per_session

VARIABLES
    box,      \* received and not handed over, oldest first
    handed,   \* handed over to a connection
    dropped   \* how many had to give way

vars == <<box, handed, dropped>>

Init == box = << >> /\ handed = {} /\ dropped = 0

Known == handed \cup {box[i] : i \in DOMAIN box}

Arrive(m) ==
    /\ \A k \in Known : k < m
    /\ box' = Append(box, m)
    /\ UNCHANGED <<handed, dropped>>

\* A connection gets the oldest n messages.
Hand(n) ==
    /\ handed' = handed \cup {box[i] : i \in 1..n}
    /\ box' = SubSeq(box, n + 1, Len(box))
    /\ UNCHANGED dropped

Drop ==
    /\ Len(box) > Capacity
    /\ box' = Tail(box)
    /\ dropped' = dropped + 1
    /\ UNCHANGED handed

Next ==
    \/ \E m \in Message : Arrive(m)
    \/ \E n \in 1..Len(box) : Hand(n)
    \/ Drop

Spec == Init /\ [][Next]_vars

=============================================================================
