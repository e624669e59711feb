----------------------------- MODULE MCPeerBook -----------------------------
(***************************************************************************)
(* Up to three nodes a, b, c.  Node a listens on an address of its local   *)
(* network and advertises a public one; "x" is the address of a stranger   *)
(* and "0" one that nobody can dial.                                       *)
(***************************************************************************)
EXTENDS PeerBook, TLC

MCAddrs == {"a", "local", "b", "c", "x", "0"}
MCDialable == MCAddrs \ {"0"}
MCBound == [n \in Nodes |-> IF n = "a" THEN "local" ELSE n]
MCAdvertised == [n \in Nodes |-> n]

\* Two nodes whose configurations hold what is refused, a stranger and a kill: both
\* sync, or only the one that mines.  Three nodes in a line, where each is configured
\* with the next: all sync and mine, or the first syncs and the second mines.
MCEnvironments ==
  {[nodes |-> {"a", "b"},
    configured |-> "a" :> <<"0", "b", "b">> @@ "b" :> <<"local", "b">>,
    syncing |-> syncing, mining |-> {"a"},
    added |-> {"x", "local"},
    listings |-> {<<"a", "local">>, <<"x", "0">>, <<"c", "c", "b">>},
    max_crashes |-> 1] : syncing \in {{"a"}, {"a", "b"}}}
  \cup
  {[nodes |-> {"a", "b", "c"},
    configured |-> "a" :> <<"b">> @@ "b" :> <<"c">> @@ "c" :> << >>,
    syncing |-> nodes[1], mining |-> nodes[2],
    added |-> {}, listings |-> {}, max_crashes |-> 0] :
     nodes \in {<<{"a", "b", "c"}, {"a", "b", "c"}>>, <<{"a"}, {"b"}>>}}
=============================================================================
