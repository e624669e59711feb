------------------------------ MODULE MCBlockLog ------------------------------
(***************************************************************************)
(* A chain of three blocks, a second child of genesis of larger hash, and  *)
(* a block with a forged trace that must never be written.                 *)
(***************************************************************************)
EXTENDS BlockLog

MCModels == {"g", "m"}

Blk(hash, height, parent, before, after) ==
  [hash |-> hash, height |-> height, previous_block |-> parent,
   model_before |-> before, model_after |-> after, header_ok |-> TRUE, trace_ok |-> TRUE]

MCBlocks ==
  {Blk(2, 0, 0, "g", "m"), Blk(1, 1, 2, "m", "g"), Blk(3, 2, 1, "g", "m"),
   Blk(5, 0, 0, "g", "g"),
   [Blk(6, 1, 2, "m", "m") EXCEPT !.trace_ok = FALSE]}
NoLog == {EmptyFile}

MCInheritedLogs ==
  NoLog \cup {[lines |-> <<<<Record(b, Older)>>>>, tail |-> << >>] : b \in {c \in MCBlocks : c.hash = 2}}
=============================================================================
