------------------------------ MODULE MCNetwork ------------------------------
(***************************************************************************)
(* Chains of up to three blocks; at two heights rival blocks that win the  *)
(* tie against the block of their height, in one environment a branch of   *)
(* two rivals.                                                             *)
(***************************************************************************)
EXTENDS Network

CONSTANTS n1, n2, n3

MCModels == {"g", "m"}

Blk(hash, height, parent, before, after) ==
  [hash |-> hash, height |-> height, previous_block |-> parent,
   model_before |-> before, model_after |-> after, header_ok |-> TRUE, trace_ok |-> TRUE]

MCBlocks ==
  {Blk(1, 0, 0, "g", "m"), Blk(5, 0, 0, "g", "g"),
   Blk(2, 1, 1, "m", "g"), Blk(6, 1, 1, "m", "m"), Blk(7, 1, 5, "g", "m"),
   Blk(3, 2, 2, "g", "m")}

\* In units: a hash is 1, a header 2, a block 3.
Config(peers, locator, response, bytes) ==
  [peers |-> peers, mining |-> TRUE, sync |-> TRUE, storage |-> TRUE,
   max_locator_hashes |-> locator, max_blocks_per_response |-> response,
   max_message_bytes |-> bytes]

Absent == [Config(<< >>, 1, 1, 0) EXCEPT !.mining = FALSE, !.sync = FALSE]

Environment(c1, c2, c3, hashes, max_crashes) ==
  [config |-> n1 :> c1 @@ n2 :> c2 @@ n3 :> c3,
   mined |-> {b \in MCBlocks : b.hash \in hashes}, max_crashes |-> max_crashes]

Pair(c1, c2, hashes, max_crashes) ==
  Environment([c1 EXCEPT !.peers = <<n2>>], [c2 EXCEPT !.peers = <<n1>>], Absent, hashes, max_crashes)

Quiet(c) == [c EXCEPT !.sync = FALSE]

\* A node that syncs from one that only answers: two rounds for the longest chain; a
\* branch as long as a response; a kill of a node without a log.  Two nodes that sync
\* from each other: like limits but for the response; a locator that the other side
\* drops; two headers that do not fit; a block that does not fit.  A node that does
\* not sync and whose limits are zero; kills, of a node with and one without a log;
\* and a ring of three nodes of which one mines.
MCEnvironments ==
  {Pair(Config(<< >>, 3, 2, 9), Quiet(Config(<< >>, 3, 3, 9)), {1, 2, 3, 5, 6}, 0),
   Pair(Config(<< >>, 3, 1, 9), Quiet(Config(<< >>, 3, 3, 9)), {1, 2, 5, 7}, 0),
   Pair([Config(<< >>, 3, 2, 9) EXCEPT !.storage = FALSE], Quiet(Config(<< >>, 3, 2, 9)), {1, 2, 5}, 1),
   Pair(Config(<< >>, 3, 2, 9), Config(<< >>, 3, 3, 9), {1, 2, 3, 5, 6}, 0),
   Pair(Config(<< >>, 3, 2, 9), Config(<< >>, 2, 2, 9), {1, 2, 5}, 0),
   Pair(Config(<< >>, 3, 2, 3), Config(<< >>, 3, 2, 9), {1, 2, 5}, 0),
   Pair(Config(<< >>, 3, 1, 2), Config(<< >>, 3, 2, 9), {1, 2, 3}, 0),
   Pair(Config(<< >>, 3, 2, 9), Quiet(Config(<< >>, 0, 0, 9)), {1, 2, 3, 5}, 0),
   Pair([Config(<< >>, 3, 2, 9) EXCEPT !.storage = FALSE], Config(<< >>, 3, 2, 9), {1, 2, 5}, 1),
   Environment(Config(<<n2>>, 3, 2, 9),
               [Config(<<n3>>, 3, 2, 9) EXCEPT !.mining = FALSE],
               [Config(<<n1>>, 3, 2, 9) EXCEPT !.mining = FALSE], {1, 2}, 0)}
=============================================================================
