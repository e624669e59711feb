------------------------------ MODULE BlockTree ------------------------------
(***************************************************************************)
(* The block tree of a node: crates/chesscoin-core/src/application.rs,     *)
(* ForkChoiceState, with the ChainState it is replayed into.               *)
(*                                                                         *)
(* Data abstraction.  A digest is a natural number; its order stands for   *)
(* the big-endian byte order the tie-break compares, and Zero stands for   *)
(* Digest::zero().  A block is a record of the header fields the fork      *)
(* choice reads, of its own hash, and of two verdicts on the rest:         *)
(*   header_ok   sample count and proof of work (both bound by the hash),  *)
(*   trace_ok    everything checked of the trace: its models, length,      *)
(*               root, commitments, continuity and sampled transitions.    *)
(* block_hash covers the header alone, so two blocks may share a hash and  *)
(* differ in trace_ok.  Otherwise the hash is collision-free.              *)
(*                                                                         *)
(* Every operation is an operator on a value fc = [nodes, best_tip], so    *)
(* that the fork choice, the node and its storage run the same code on     *)
(* their own copies.  best_tip = Zero stands for None.                     *)
(***************************************************************************)
EXTENDS Naturals, Sequences, FiniteSets

CONSTANTS
  Blocks,              \* the blocks that miners and peers may present
  Models,              \* model states
  GenesisModel,        \* ModelState::genesis()
  DifficultyZeroBits   \* ChainConfig.difficulty_zero_bits

-----------------------------------------------------------------------------
Zero == 0

BlockType ==
  [hash : Nat \ {Zero}, height : Nat, previous_block : Nat,
   model_before : Models, model_after : Models,
   header_ok : BOOLEAN, trace_ok : BOOLEAN]

\* What block_hash covers.
Header(b) ==
  [hash |-> b.hash, height |-> b.height, previous_block |-> b.previous_block,
   model_before |-> b.model_before, model_after |-> b.model_after,
   header_ok |-> b.header_ok]

\* 1 << min(difficulty, 120): the same score for every block of a chain.
ConfiguredBlockWorkScore ==
  2 ^ (IF DifficultyZeroBits < 120 THEN DifficultyZeroBits ELSE 120)

ASSUME BlocksAssumption == Blocks \subseteq BlockType
ASSUME GenesisAssumption == GenesisModel \in Models
ASSUME HashAssumption ==
  \A b, c \in Blocks : b.hash = c.hash => Header(b) = Header(c)
ASSUME WorkAssumption == ConfiguredBlockWorkScore \in Nat \ {0}

-----------------------------------------------------------------------------
EmptyForkChoice == [nodes |-> [h \in {} |-> h], best_tip |-> Zero]

Known(fc) == DOMAIN fc.nodes
ContainsBlock(fc, hash) == hash \in Known(fc)
HasTip(fc) == fc.best_tip \in Known(fc)

BestHash(fc) == fc.best_tip
BestHeight(fc) == IF HasTip(fc) THEN fc.nodes[fc.best_tip].next_height ELSE 0
BestModel(fc) ==
  IF HasTip(fc) THEN fc.nodes[fc.best_tip].block.model_after ELSE GenesisModel

\* The blocks from genesis to each known block; the walk stops at a node whose
\* parent is Zero or unknown.
ChainTo(fc) ==
  LET chain[h \in Known(fc)] ==
        LET node == fc.nodes[h]
        IN  IF node.parent \in Known(fc) THEN Append(chain[node.parent], node.block)
                                         ELSE <<node.block>>
  IN  chain

BestChain(fc) == IF HasTip(fc) THEN ChainTo(fc)[fc.best_tip] ELSE << >>

-----------------------------------------------------------------------------
GenesisContext == [height |-> 0, hash |-> Zero, model |-> GenesisModel]

\* Mutant: a child is checked against the model its parent started from.
NodeContextBefore(node) ==
  [height |-> node.next_height, hash |-> node.hash, model |-> node.block.model_before]

NodeContext(node) ==
  [height |-> node.next_height, hash |-> node.hash, model |-> node.block.model_after]

ParentKnown(fc, b) == b.previous_block = Zero \/ b.previous_block \in Known(fc)

ParentContext(fc, b) ==
  IF b.previous_block = Zero THEN GenesisContext ELSE NodeContext(fc.nodes[b.previous_block])

ParentScore(fc, b) ==
  IF b.previous_block = Zero THEN 0 ELSE fc.nodes[b.previous_block].work_score

ValidateBlockAfter(parent, b) ==
  /\ b.height = parent.height
  /\ b.previous_block = parent.hash
  /\ b.model_before = parent.model
  /\ b.header_ok
  /\ b.trace_ok

-----------------------------------------------------------------------------
\* Mutant: no tie-break, the first of two equal branches stays.
IsBetterTipFirstSeen(candidate, best) == candidate.work_score > best.work_score

\* work score, then height, then the bytes of the hash
IsBetterTip(candidate, best) ==
  \/ candidate.work_score > best.work_score
  \/ /\ candidate.work_score = best.work_score
     /\ \/ candidate.next_height > best.next_height
        \/ /\ candidate.next_height = best.next_height
           /\ candidate.hash > best.hash

\* Mutant: the score is that of the block alone.
ForkNodeOwnScore(fc, b) ==
  [hash |-> b.hash, parent |-> b.previous_block, block |-> b,
   next_height |-> b.height + 1, work_score |-> ConfiguredBlockWorkScore]

ForkNode(fc, b) ==
  [hash |-> b.hash, parent |-> b.previous_block, block |-> b,
   next_height |-> b.height + 1,
   work_score |-> ParentScore(fc, b) + ConfiguredBlockWorkScore]

WithNode(nodes, node) ==
  [h \in DOMAIN nodes \cup {node.hash} |-> IF h = node.hash THEN node ELSE nodes[h]]

\* Mutant: the tip follows the latest block.
MaybeUpdateBestLatest(nodes, best_tip, candidate) == candidate

MaybeUpdateBest(nodes, best_tip, candidate) ==
  IF best_tip \in DOMAIN nodes /\ ~IsBetterTip(nodes[candidate], nodes[best_tip])
  THEN best_tip
  ELSE candidate

InsertResult(fc, b) ==
  IF ContainsBlock(fc, b.hash) THEN "Ok"
  ELSE IF ~ParentKnown(fc, b) THEN "UnknownParent"
  ELSE IF ~ValidateBlockAfter(ParentContext(fc, b), b) THEN "InvalidBlock"
  ELSE "Ok"

\* Mutant: no early return for a block that is already known.
AttachesAgain(fc, b) == InsertResult(fc, b) = "Ok"

\* insert_block accepts b as a block it did not know.
Attaches(fc, b) == ~ContainsBlock(fc, b.hash) /\ InsertResult(fc, b) = "Ok"

InsertBlock(fc, b) ==
  IF Attaches(fc, b)
  THEN LET nodes == WithNode(fc.nodes, ForkNode(fc, b))
       IN  [nodes |-> nodes, best_tip |-> MaybeUpdateBest(nodes, fc.best_tip, b.hash)]
  ELSE fc

\* The blocks mine_next_block may return: seed, entropy and nonce choose among
\* the blocks of the best tip that meet the work and carry an honest trace.
MineNextBlock(fc) ==
  {b \in Blocks : /\ b.height = BestHeight(fc)
                  /\ b.previous_block = BestHash(fc)
                  /\ b.model_before = BestModel(fc)
                  /\ b.header_ok
                  /\ b.trace_ok}

-----------------------------------------------------------------------------
(* ChainState: the active chain, a sequence of blocks.                       *)

HeadHash(chain) == IF chain = << >> THEN Zero ELSE chain[Len(chain)].hash
CurrentModel(chain) ==
  IF chain = << >> THEN GenesisModel ELSE chain[Len(chain)].model_after

ValidateNextBlock(chain, b) ==
  ValidateBlockAfter(
    [height |-> Len(chain), hash |-> HeadHash(chain), model |-> CurrentModel(chain)], b)

\* chain_from_blocks applies the blocks one by one and fails at the first one
\* that does not validate.
ChainFromBlocksOk(blocks) ==
  \A i \in 1..Len(blocks) : ValidateNextBlock(SubSeq(blocks, 1, i - 1), blocks[i])

-----------------------------------------------------------------------------
(* What holds of a fork choice, said of a value.                             *)

NodeType ==
  [hash : Nat \ {Zero}, parent : Nat, block : Blocks, next_height : Nat, work_score : Nat]

ForkChoiceType(fc) ==
  /\ fc = [nodes |-> fc.nodes, best_tip |-> fc.best_tip]
  /\ fc.nodes = [h \in DOMAIN fc.nodes |-> fc.nodes[h]]
  /\ \A h \in DOMAIN fc.nodes : fc.nodes[h] \in NodeType
  /\ DOMAIN fc.nodes \subseteq Nat \ {Zero}
  /\ fc.best_tip \in Nat

\* Each node hangs from a known parent (or genesis), starts from its parent's
\* height and model, and adds one block's work to its parent's score.
NodesLinked(fc) ==
  \A h \in Known(fc) :
    LET node == fc.nodes[h]
    IN  /\ node.hash = h
        /\ node.block.hash = h
        /\ node.parent = node.block.previous_block
        /\ node.next_height = node.block.height + 1
        /\ ParentKnown(fc, node.block)
        /\ ValidateBlockAfter(ParentContext(fc, node.block), node.block)
        /\ node.work_score = ParentScore(fc, node.block) + ConfiguredBlockWorkScore

\* The order of two known blocks the fork choice promises, said of the headers
\* alone and not of the bookkeeping in the nodes: longer chain, then larger hash.
Heavier(fc, h, k) ==
  LET height(x) == fc.nodes[x].block.height
  IN  height(h) > height(k) \/ (height(h) = height(k) /\ h > k)

TipIsHeaviest(fc) ==
  /\ Known(fc) = {} <=> fc.best_tip = Zero
  /\ Known(fc) # {} =>
       /\ HasTip(fc)
       /\ \A h \in Known(fc) \ {fc.best_tip} : Heavier(fc, fc.best_tip, h)

\* The score of a block counts the blocks of its chain: "most work" is "longest".
WorkIsHeight(fc) ==
  \A h \in Known(fc) :
    fc.nodes[h].work_score = fc.nodes[h].next_height * ConfiguredBlockWorkScore

\* The block of a hash; twins share its header.
BlockOf(hash) == CHOOSE b \in Blocks : b.hash = hash

TreeInv(fc) == ForkChoiceType(fc) /\ NodesLinked(fc) /\ WorkIsHeight(fc)

ForkChoiceInv(fc) == TreeInv(fc) /\ TipIsHeaviest(fc)
=============================================================================
