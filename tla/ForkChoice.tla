------------------------------ MODULE ForkChoice ------------------------------
(***************************************************************************)
(* ForkChoiceState as a component: any sequence of insert_block, of blocks *)
(* from anywhere in any order, and of mine_next_block.  The operations are *)
(* in BlockTree; HeaviestTip states what they promise.                     *)
(*                                                                         *)
(* The specification carries the name of its component, because the proofs *)
(* about every component with a block tree of its own extend it.           *)
(***************************************************************************)
EXTENDS BlockTree

VARIABLE tree

-----------------------------------------------------------------------------
ForkChoiceInit == tree = EmptyForkChoice

\* A block from anywhere is offered: attached, already known, or refused.
Insert(b) == tree' = InsertBlock(tree, b)

\* mine_next_block on the best tip, then insert_block.
Mine(b) ==
  /\ b \in MineNextBlock(tree)
  /\ tree' = InsertBlock(tree, b)

ForkChoiceNext == \E b \in Blocks : Insert(b) \/ Mine(b)

ForkChoiceSpec == ForkChoiceInit /\ [][ForkChoiceNext]_tree

-----------------------------------------------------------------------------
(* Properties                                                                *)

\* Type invariant of ForkChoiceState.
ForkChoiceTypeOK == ForkChoiceType(tree)

\* The known blocks form a tree that a full validation of each block against its
\* stored parent accepts again, and work_score is its depth in blocks: the score
\* kept from the parent at insertion never goes stale.
TreeIsValid ==
  /\ ForkChoiceTypeOK
  /\ NodesLinked(tree)
  /\ WorkIsHeight(tree)

\* best_tip is the heaviest known block whatever the order of arrival
\* (maybe_update_best, which compares the newcomer with the current tip only).
BestIsHeaviest == TipIsHeaviest(tree)

\* The best chain replays into an active chain that ends in best_tip: the
\* error of chain_from_blocks in activate_best_chain can never be taken.
BestChainActivates ==
  LET chain == BestChain(tree)
  IN  /\ ChainFromBlocksOk(chain)
      /\ HeadHash(chain) = BestHash(tree)
      /\ Len(chain) = BestHeight(tree)

\* A block mined on the best tip is new, validates, and becomes the best tip:
\* mine_once unwraps both results with expect(), under the node's lock.
MinedBlockBecomesBest ==
  \A b \in MineNextBlock(tree) :
    /\ Attaches(tree, b)
    /\ InsertBlock(tree, b).best_tip = b.hash

\* A known block keeps its body, parent, height and score for ever, even when a
\* twin with the same header and another trace is offered later.
KnownForever ==
  [][\A h \in Known(tree) :
       /\ h \in Known(tree)'
       /\ tree'.nodes[h] = tree.nodes[h]]_tree

\* The node never leaves its tip except for a strictly heavier one, that of the
\* block that just arrived: no switch back, no switch to an old branch.
TipOnlyImproves ==
  [][tree'.best_tip # tree.best_tip =>
       /\ tree'.best_tip \in Known(tree)' \ Known(tree)
       /\ HasTip(tree) =>
            Heavier(tree', tree'.best_tip, tree.best_tip)]_tree

-----------------------------------------------------------------------------
(* What the component promises.                                              *)

ForkChoiceTip == INSTANCE HeaviestTip WITH
        Tips <- {b.hash : b \in Blocks},
        None <- Zero,
        Height <- [hash \in {b.hash : b \in Blocks} |-> BlockOf(hash).height],
        known <- Known(tree),
        head <- tree.best_tip

\* The fork choice implements HeaviestTip: its head is a function of the set of
\* blocks it knows.
IsHeaviestTip == ForkChoiceTip!Spec
=============================================================================
