----------------------------- MODULE MCPublish ------------------------------
(***************************************************************************)
(* A client with a retained QoS 1 message, one of QoS 2 that the ACL       *)
(* denies and, last, one of QoS 1 with an invalid topic.                   *)
(***************************************************************************)
EXTENDS PublishPath

MCMessages ==
    << [qos |-> 1, retain |-> TRUE,  valid |-> TRUE,  permitted |-> TRUE],
       [qos |-> 2, retain |-> FALSE, valid |-> TRUE,  permitted |-> FALSE],
       [qos |-> 1, retain |-> FALSE, valid |-> FALSE, permitted |-> TRUE] >>

=============================================================================
