----------------------------- MODULE MCRouting ------------------------------
(***************************************************************************)
(* Three nodes on one fabric, n3 under a sibling of the scope of n1 and    *)
(* n2; a client with narrow grants and two that may do anything.           *)
(***************************************************************************)
EXTENDS RoutingProperties

MCScopeOf == [n1 |-> <<"s", "x">>, n2 |-> <<"s", "x">>, n3 |-> <<"s", "y">>]
MCHome    == [c1 |-> "n1", c2 |-> "n2", c3 |-> "n3"]
MCUser    == [c1 |-> "plc", c2 |-> "ops", c3 |-> "guest"]

MCRules ==
    {[user |-> "plc", publish |-> {<<"a", "#">>}, subscribe |-> {<<"a", "+">>, <<"$meta", "#">>}],
     [user |-> "ops", publish |-> {<<"#">>}, subscribe |-> {<<"#">>}],
     [user |-> "*", publish |-> {<<"a", "b">>}, subscribe |-> {<<"+", "b">>}]}

MCStaleRules == <<[filter |-> <<"a", "b">>, bound |-> 2], [filter |-> <<"a", "#">>, bound |-> 0]>>

MCTopicNames ==
    {<<"a">>, <<"a", "b">>, <<"b", "b">>, <<"a", "b", "b">>, <<"a", "+">>, <<"$SYS", "b">>, <<"a", "@x">>}

MCFilterNames ==
    {<<"a", "b">>, <<"a", "+">>, <<"a", "#">>, <<"+", "b">>, <<"+", "#">>, <<"+">>, <<"#">>,
     <<"a", "+", "#">>, <<"$SYS", "+">>, <<"$SYS", "#">>, <<"$meta", "#">>, <<"$meta", "a", "+">>,
     <<"a", "b+">>, <<"@retained", "#">>, <<"", "a">>, <<"#", "a">>}

MCSysSuffixes == {<<"b">>, <<"b", "b">>}

=============================================================================
