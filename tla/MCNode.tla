-------------------------------- MODULE MCNode --------------------------------
(***************************************************************************)
(* Two branches of three blocks from genesis that overtake each other at   *)
(* every height, one more tip at the end, and blocks to refuse: a forged   *)
(* twin, a block with too little work, and one of another model.           *)
(***************************************************************************)
EXTENDS Node

MCModels == {"g", "m"}

Blk(hash, height, parent, before, after) ==
  [hash |-> hash, height |-> height, previous_block |-> parent,
   model_before |-> before, model_after |-> after, header_ok |-> TRUE, trace_ok |-> TRUE]

MCBlocks ==
  {Blk(3, 0, 0, "g", "m"), Blk(6, 1, 3, "m", "g"), Blk(1, 2, 6, "g", "m"),
   Blk(5, 0, 0, "g", "g"), Blk(2, 1, 5, "g", "m"), Blk(4, 2, 2, "m", "g"),
   [Blk(2, 1, 5, "g", "m") EXCEPT !.trace_ok = FALSE],
   [Blk(7, 1, 3, "m", "m") EXCEPT !.header_ok = FALSE],
   Blk(8, 1, 3, "g", "m")}

MCStoredBlocks == {<< >>, <<Blk(3, 0, 0, "g", "m")>>}
=============================================================================
