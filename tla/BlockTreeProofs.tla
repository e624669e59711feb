-------------------------- MODULE BlockTreeProofs --------------------------
(***************************************************************************)
(* Lemmas about the operations on a block tree and about the functions of  *)
(* a sync, and theorems about ForkChoice, for every universe of blocks.    *)
(*                                                                         *)
(* The inductive invariant is ForkChoiceInv: best_tip is compared with the *)
(* newcomer alone, so that it is the heaviest of all known blocks follows  *)
(* only when scores stand for heights (WorkIsHeight), which in turn needs  *)
(* every node to be linked to a stored parent (NodesLinked).               *)
(*                                                                         *)
(* ChainTo is recursive over parents.  That the recursion ends, and what   *)
(* it gives, is proved by induction over the levels of the tree: a block   *)
(* on level k + 1 has its parent on level k.                               *)
(*                                                                         *)
(* What an honest peer answers to a locator is a part of its chain, and    *)
(* what the screening of headers lets through hangs on the tree it was     *)
(* screened against (Screened), also when that has grown since.            *)
(*                                                                         *)
(* The lemmas are about values, so that the proofs about the node, its     *)
(* storage and the network can cite them; the theorems about ForkChoice    *)
(* are at the end.                                                         *)
(***************************************************************************)
EXTENDS ForkChoice, SyncRules, TLAPS

-----------------------------------------------------------------------------
LEMMA BlockFacts ==
  ASSUME NEW b \in Blocks
  PROVE  /\ b.hash \in Nat \ {Zero}
         /\ b.height \in Nat
         /\ b.previous_block \in Nat
         /\ b.model_before \in Models
         /\ b.model_after \in Models
BY BlocksAssumption DEF BlockType

\* Two blocks with one hash agree on what the hash covers.
LEMMA SameHeader ==
  ASSUME NEW b \in Blocks, NEW c \in Blocks, b.hash = c.hash
  PROVE  b.height = c.height /\ b.previous_block = c.previous_block
<1>1. Header(b) = Header(c)
  BY HashAssumption
<1>2. QED
  BY <1>1 DEF Header

\* The score order of two nodes is their height order.
LEMMA ScoreOrder ==
  ASSUME NEW m \in Nat, NEW n \in Nat
  PROVE  /\ m * ConfiguredBlockWorkScore > n * ConfiguredBlockWorkScore <=> m > n
         /\ m * ConfiguredBlockWorkScore = n * ConfiguredBlockWorkScore <=> m = n
<1> DEFINE W == ConfiguredBlockWorkScore
<1>1. W \in Nat /\ W > 0
  BY WorkAssumption
<1> HIDE DEF W
<1>2. ASSUME NEW i \in Nat, NEW j \in Nat, i > j
      PROVE  i * W > j * W
  <2>1. PICK d \in Nat : i = j + 1 + d
    <3>1. i - j - 1 \in Nat /\ i = j + 1 + (i - j - 1)
      BY <1>2
    <3>2. QED BY <3>1
  <2>2. i * W = j * W + W + d * W
    BY <1>1, <2>1
  <2>3. d * W \in Nat /\ j * W \in Nat
    BY <1>1
  <2>4. QED
    BY <1>1, <2>2, <2>3
<1>3. m * W > n * W <=> m > n
  <2>1. CASE m > n BY <1>2, <2>1
  <2>2. CASE m = n BY <1>1, <2>2
  <2>3. CASE n > m
    <3>1. n * W > m * W BY <1>2, <2>3
    <3>2. n * W \in Nat /\ m * W \in Nat BY <1>1
    <3>3. QED BY <2>3, <3>1, <3>2
  <2>4. QED BY <2>1, <2>2, <2>3
<1>4. m * W = n * W <=> m = n
  <2>1. CASE m > n
    <3>1. m * W > n * W BY <1>2, <2>1
    <3>2. n * W \in Nat /\ m * W \in Nat BY <1>1
    <3>3. QED BY <2>1, <3>1, <3>2
  <2>2. CASE m = n BY <2>2
  <2>3. CASE n > m
    <3>1. n * W > m * W BY <1>2, <2>3
    <3>2. n * W \in Nat /\ m * W \in Nat BY <1>1
    <3>3. QED BY <2>3, <3>1, <3>2
  <2>4. QED BY <2>1, <2>2, <2>3
<1>5. QED
  BY <1>3, <1>4 DEF W

-----------------------------------------------------------------------------
LEMMA EmptyInv == ForkChoiceInv(EmptyForkChoice)
<1>1. /\ EmptyForkChoice.nodes = [h \in {} |-> h]
      /\ EmptyForkChoice.best_tip = Zero
      /\ Known(EmptyForkChoice) = {}
  BY DEF EmptyForkChoice, Known
<1>2. ForkChoiceType(EmptyForkChoice)
  BY <1>1 DEF ForkChoiceType, EmptyForkChoice, Known, Zero
<1>3. NodesLinked(EmptyForkChoice) /\ WorkIsHeight(EmptyForkChoice)
  BY <1>1 DEF NodesLinked, WorkIsHeight
<1>4. TipIsHeaviest(EmptyForkChoice)
  BY <1>1 DEF TipIsHeaviest
<1>5. QED
  BY <1>2, <1>3, <1>4 DEF ForkChoiceInv, TreeInv

\* What is known of the nodes of a fork choice whose tree is valid.
LEMMA NodeFacts ==
  ASSUME NEW fc, TreeInv(fc), NEW h \in Known(fc)
  PROVE  /\ h \in Nat \ {Zero}
         /\ fc.nodes[h].hash = h
         /\ fc.nodes[h].block \in Blocks
         /\ fc.nodes[h].block.hash = h
         /\ fc.nodes[h].block.height \in Nat
         /\ fc.nodes[h].next_height = fc.nodes[h].block.height + 1
         /\ fc.nodes[h].next_height \in Nat
         /\ fc.nodes[h].work_score \in Nat
         /\ fc.nodes[h].work_score = fc.nodes[h].next_height * ConfiguredBlockWorkScore
<1>1. fc.nodes[h] \in NodeType /\ h \in Nat \ {Zero}
  BY DEF TreeInv, ForkChoiceType, Known
<1>2. fc.nodes[h].hash = h /\ fc.nodes[h].block.hash = h
      /\ fc.nodes[h].next_height = fc.nodes[h].block.height + 1
  BY DEF TreeInv, NodesLinked
<1>3. fc.nodes[h].work_score = fc.nodes[h].next_height * ConfiguredBlockWorkScore
  BY DEF TreeInv, WorkIsHeight
<1>4. fc.nodes[h].block \in Blocks
  BY <1>1 DEF NodeType
<1>5. QED
  BY <1>1, <1>2, <1>3, <1>4, BlockFacts DEF NodeType

\* is_better_tip, which compares scores, agrees with the order of the headers.
LEMMA BetterIsHeavier ==
  ASSUME NEW fc, TreeInv(fc), NEW h \in Known(fc), NEW k \in Known(fc)
  PROVE  IsBetterTip(fc.nodes[h], fc.nodes[k]) <=> Heavier(fc, h, k)
<1> DEFINE m == fc.nodes[h].next_height
           n == fc.nodes[k].next_height
<1>1. /\ m \in Nat /\ n \in Nat
      /\ fc.nodes[h].work_score = m * ConfiguredBlockWorkScore
      /\ fc.nodes[k].work_score = n * ConfiguredBlockWorkScore
      /\ fc.nodes[h].hash = h /\ fc.nodes[k].hash = k
      /\ m = fc.nodes[h].block.height + 1 /\ fc.nodes[h].block.height \in Nat
      /\ n = fc.nodes[k].block.height + 1 /\ fc.nodes[k].block.height \in Nat
      /\ h \in Nat /\ k \in Nat
  BY NodeFacts
<1>2. /\ fc.nodes[h].work_score > fc.nodes[k].work_score <=> m > n
      /\ fc.nodes[h].work_score = fc.nodes[k].work_score <=> m = n
  BY <1>1, ScoreOrder
<1> HIDE DEF m, n
<1>3. IsBetterTip(fc.nodes[h], fc.nodes[k]) <=> m > n \/ (m = n /\ h > k)
  BY <1>1, <1>2 DEF IsBetterTip, m, n
<1>4. Heavier(fc, h, k) <=> m > n \/ (m = n /\ h > k)
  BY <1>1 DEF Heavier
<1>5. QED
  BY <1>3, <1>4

-----------------------------------------------------------------------------
(* insert_block, when it attaches a block                                    *)

LEMMA Inserted ==
  ASSUME NEW fc, NEW b \in Blocks, Attaches(fc, b)
  PROVE  LET new == InsertBlock(fc, b)
         IN  /\ new = [nodes |-> new.nodes, best_tip |-> new.best_tip]
             /\ new.nodes = [h \in DOMAIN new.nodes |-> new.nodes[h]]
             /\ b.hash \notin Known(fc)
             /\ Known(new) = Known(fc) \cup {b.hash}
             /\ new.nodes[b.hash] = ForkNode(fc, b)
             /\ \A h \in Known(fc) : new.nodes[h] = fc.nodes[h]
             /\ new.best_tip = MaybeUpdateBest(new.nodes, fc.best_tip, b.hash)
             /\ ParentKnown(fc, b)
             /\ ValidateBlockAfter(ParentContext(fc, b), b)
<1> DEFINE new == InsertBlock(fc, b)
           nodes == WithNode(fc.nodes, ForkNode(fc, b))
<1>1. b.hash \notin Known(fc)
  BY DEF Attaches, ContainsBlock
<1>2. ParentKnown(fc, b) /\ ValidateBlockAfter(ParentContext(fc, b), b)
  BY <1>1 DEF Attaches, InsertResult, ContainsBlock
<1>3. new = [nodes |-> nodes, best_tip |-> MaybeUpdateBest(nodes, fc.best_tip, b.hash)]
  BY DEF InsertBlock
<1>4. new.nodes = nodes /\ new.best_tip = MaybeUpdateBest(nodes, fc.best_tip, b.hash)
  BY <1>3
<1>5. ForkNode(fc, b).hash = b.hash
  BY DEF ForkNode
<1>6. nodes = [h \in Known(fc) \cup {b.hash} |->
                 IF h = b.hash THEN ForkNode(fc, b) ELSE fc.nodes[h]]
  BY <1>5 DEF WithNode, Known
<1> HIDE DEF new, nodes
<1>7. /\ DOMAIN nodes = Known(fc) \cup {b.hash}
      /\ nodes[b.hash] = ForkNode(fc, b)
      /\ \A h \in Known(fc) : nodes[h] = fc.nodes[h]
      /\ nodes = [h \in DOMAIN nodes |-> nodes[h]]
  BY <1>1, <1>6
<1>8. QED
  BY <1>1, <1>2, <1>3, <1>4, <1>7 DEF new, Known

\* The context and the score of a block whose parent is known are unchanged by
\* the insertion of another block.
LEMMA ContextKept ==
  ASSUME NEW fc, NEW b \in Blocks, Attaches(fc, b), ForkChoiceInv(fc),
         NEW c \in Blocks, ParentKnown(fc, c)
  PROVE  LET new == InsertBlock(fc, b)
         IN  /\ ParentKnown(new, c)
             /\ ParentContext(new, c) = ParentContext(fc, c)
             /\ ParentScore(new, c) = ParentScore(fc, c)
<1> DEFINE new == InsertBlock(fc, b)
<1>1. Known(new) = Known(fc) \cup {b.hash} /\ \A h \in Known(fc) : new.nodes[h] = fc.nodes[h]
  BY Inserted
<1> HIDE DEF new
<1>2. CASE c.previous_block = Zero
  BY <1>2 DEF ParentKnown, ParentContext, ParentScore, new
<1>3. CASE c.previous_block # Zero
  <2>1. c.previous_block \in Known(fc)
    BY <1>3 DEF ParentKnown
  <2>2. QED
    BY <1>1, <1>3, <2>1 DEF ParentKnown, ParentContext, ParentScore, new
<1>4. QED
  BY <1>2, <1>3

LEMMA InsertedNodeType ==
  ASSUME NEW fc, ForkChoiceInv(fc), NEW b \in Blocks, Attaches(fc, b)
  PROVE  /\ ForkNode(fc, b) \in NodeType
         /\ ForkNode(fc, b).work_score
              = ForkNode(fc, b).next_height * ConfiguredBlockWorkScore
<1> DEFINE W == ConfiguredBlockWorkScore
<1>1. ParentKnown(fc, b) /\ ValidateBlockAfter(ParentContext(fc, b), b)
  BY Inserted
<1>2. W \in Nat
  BY WorkAssumption
<1>3. b.height \in Nat /\ b.hash \in Nat \ {Zero} /\ b.previous_block \in Nat
  BY BlockFacts
<1>4. /\ ParentScore(fc, b) \in Nat
      /\ ParentScore(fc, b) = b.height * W
  <2>1. CASE b.previous_block = Zero
    <3>1. b.height = 0 /\ ParentScore(fc, b) = 0
      BY <1>1, <2>1 DEF ValidateBlockAfter, ParentContext, GenesisContext, ParentScore
    <3>2. QED BY <1>2, <3>1
  <2>2. CASE b.previous_block # Zero
    <3>1. b.previous_block \in Known(fc)
      BY <1>1, <2>2 DEF ParentKnown
    <3>2. /\ b.height = fc.nodes[b.previous_block].next_height
          /\ ParentScore(fc, b) = fc.nodes[b.previous_block].work_score
      BY <1>1, <2>2 DEF ValidateBlockAfter, ParentContext, NodeContext, ParentScore
    <3>3. QED BY <3>1, <3>2, NodeFacts DEF ForkChoiceInv
  <2>3. QED BY <2>1, <2>2
<1> HIDE DEF W
<1>5. /\ ForkNode(fc, b).hash = b.hash
      /\ ForkNode(fc, b).parent = b.previous_block
      /\ ForkNode(fc, b).block = b
      /\ ForkNode(fc, b).next_height = b.height + 1
      /\ ForkNode(fc, b).work_score = ParentScore(fc, b) + W
      /\ ForkNode(fc, b) = [hash |-> b.hash, parent |-> b.previous_block, block |-> b,
                            next_height |-> b.height + 1,
                            work_score |-> ParentScore(fc, b) + W]
  BY DEF ForkNode, W
<1>6. ForkNode(fc, b).work_score = ForkNode(fc, b).next_height * W
  <2>1. (b.height + 1) * W = b.height * W + W
    BY <1>2, <1>3
  <2>2. QED BY <1>4, <1>5, <2>1
<1>7. ForkNode(fc, b) \in NodeType
  <2>1. b.height + 1 \in Nat /\ ParentScore(fc, b) + W \in Nat
    BY <1>2, <1>3, <1>4
  <2>2. QED BY <1>3, <1>5, <2>1 DEF NodeType
<1>8. QED
  BY <1>6, <1>7 DEF W

\* The tree and its bookkeeping survive an insertion.
LEMMA InsertKeepsTree ==
  ASSUME NEW fc, ForkChoiceInv(fc), NEW b \in Blocks, Attaches(fc, b)
  PROVE  LET new == InsertBlock(fc, b)
         IN  TreeInv(new)
<1> DEFINE new == InsertBlock(fc, b)
<1>1. /\ new = [nodes |-> new.nodes, best_tip |-> new.best_tip]
      /\ new.nodes = [h \in DOMAIN new.nodes |-> new.nodes[h]]
      /\ Known(new) = Known(fc) \cup {b.hash}
      /\ new.nodes[b.hash] = ForkNode(fc, b)
      /\ \A h \in Known(fc) : new.nodes[h] = fc.nodes[h]
      /\ new.best_tip = MaybeUpdateBest(new.nodes, fc.best_tip, b.hash)
      /\ ParentKnown(fc, b)
      /\ ValidateBlockAfter(ParentContext(fc, b), b)
  BY Inserted
<1>2. \A c \in Blocks : ParentKnown(fc, c) =>
        /\ ParentKnown(new, c)
        /\ ParentContext(new, c) = ParentContext(fc, c)
        /\ ParentScore(new, c) = ParentScore(fc, c)
  BY ContextKept
<1>3. /\ ForkNode(fc, b) \in NodeType
      /\ ForkNode(fc, b).work_score
           = ForkNode(fc, b).next_height * ConfiguredBlockWorkScore
  BY InsertedNodeType
<1>4. b.hash \in Nat \ {Zero}
  BY BlockFacts
<1> HIDE DEF new
<1>5. ForkChoiceType(new)
  <2>1. \A h \in DOMAIN new.nodes : new.nodes[h] \in NodeType
    BY <1>1, <1>3 DEF ForkChoiceInv, TreeInv, ForkChoiceType, Known
  <2>2. DOMAIN new.nodes \subseteq Nat \ {Zero}
    BY <1>1, <1>4 DEF ForkChoiceInv, TreeInv, ForkChoiceType, Known
  <2>3. new.best_tip \in Nat
    BY <1>1, <1>4 DEF MaybeUpdateBest, ForkChoiceInv, TreeInv, ForkChoiceType
  <2>4. QED
    BY <1>1, <2>1, <2>2, <2>3 DEF ForkChoiceType
<1>6. NodesLinked(new)
  <2> SUFFICES ASSUME NEW h \in Known(new)
               PROVE  LET node == new.nodes[h]
                      IN  /\ node.hash = h
                          /\ node.block.hash = h
                          /\ node.parent = node.block.previous_block
                          /\ node.next_height = node.block.height + 1
                          /\ ParentKnown(new, node.block)
                          /\ ValidateBlockAfter(ParentContext(new, node.block), node.block)
                          /\ node.work_score
                               = ParentScore(new, node.block) + ConfiguredBlockWorkScore
    BY DEF NodesLinked
  <2>1. CASE h \in Known(fc)
    <3>1. new.nodes[h] = fc.nodes[h] /\ fc.nodes[h].block \in Blocks
      BY <1>1, <2>1, NodeFacts DEF ForkChoiceInv
    <3>2. LET node == fc.nodes[h]
          IN  /\ node.hash = h
              /\ node.block.hash = h
              /\ node.parent = node.block.previous_block
              /\ node.next_height = node.block.height + 1
              /\ ParentKnown(fc, node.block)
              /\ ValidateBlockAfter(ParentContext(fc, node.block), node.block)
              /\ node.work_score = ParentScore(fc, node.block) + ConfiguredBlockWorkScore
      BY <2>1 DEF ForkChoiceInv, TreeInv, NodesLinked
    <3>3. QED
      BY <1>2, <3>1, <3>2
  <2>2. CASE h = b.hash
    <3>1. /\ new.nodes[h].hash = h
          /\ new.nodes[h].block = b
          /\ new.nodes[h].parent = b.previous_block
          /\ new.nodes[h].next_height = b.height + 1
          /\ new.nodes[h].work_score = ParentScore(fc, b) + ConfiguredBlockWorkScore
      BY <1>1, <2>2 DEF ForkNode
    <3>2. QED
      BY <1>1, <1>2, <2>2, <3>1
  <2>3. QED
    BY <1>1, <2>1, <2>2
<1>7. WorkIsHeight(new)
  BY <1>1, <1>3 DEF WorkIsHeight, ForkChoiceInv, TreeInv
<1>8. QED
  BY <1>5, <1>6, <1>7 DEF new, TreeInv

\* Heavier is a strict total order of the known blocks.
LEMMA HeavierOrder ==
  ASSUME NEW fc, NEW S \in SUBSET (Nat \ {Zero}),
         \A h \in S : fc.nodes[h].block.height \in Nat,
         NEW h \in S, NEW k \in S, NEW l \in S
  PROVE  /\ Heavier(fc, h, k) /\ Heavier(fc, k, l) => Heavier(fc, h, l)
         /\ h # k => Heavier(fc, h, k) \/ Heavier(fc, k, h)
         /\ ~(Heavier(fc, h, k) /\ Heavier(fc, k, h))
BY DEF Heavier

\* The tip is the heaviest block again: the newcomer beats the old tip, and with
\* it every other block, or loses to it.
LEMMA InsertKeepsHeaviest ==
  ASSUME NEW fc, ForkChoiceInv(fc), NEW b \in Blocks, Attaches(fc, b)
  PROVE  LET new == InsertBlock(fc, b)
         IN  /\ TipIsHeaviest(new)
             /\ new.best_tip # fc.best_tip =>
                  /\ new.best_tip = b.hash
                  /\ HasTip(fc) => Heavier(new, b.hash, fc.best_tip)
<1> DEFINE new == InsertBlock(fc, b)
           S == Known(new)
<1>1. /\ b.hash \notin Known(fc)
      /\ S = Known(fc) \cup {b.hash}
      /\ \A h \in Known(fc) : new.nodes[h] = fc.nodes[h]
      /\ new.best_tip = MaybeUpdateBest(new.nodes, fc.best_tip, b.hash)
      /\ new.nodes[b.hash] = ForkNode(fc, b)
  BY Inserted
<1>2. TreeInv(new)
  BY InsertKeepsTree
<1>3. b.hash \in Nat \ {Zero}
  BY BlockFacts
<1> HIDE DEF new
<1>4. \A h \in Known(fc) : h \in Nat \ {Zero} /\ new.nodes[h].block.height \in Nat
  BY <1>1, NodeFacts DEF ForkChoiceInv
<1>5. new.nodes[b.hash].block.height \in Nat
  BY <1>1, BlockFacts DEF ForkNode
<1>6. S \in SUBSET (Nat \ {Zero}) /\ \A h \in S : new.nodes[h].block.height \in Nat
  BY <1>1, <1>3, <1>4, <1>5
<1>7. \A h, k \in Known(fc) : Heavier(new, h, k) <=> Heavier(fc, h, k)
  BY <1>1 DEF Heavier
<1>8. CASE Known(fc) = {}
  <2>1. new.best_tip = b.hash /\ S = {b.hash} /\ ~HasTip(fc)
    BY <1>1, <1>8 DEF MaybeUpdateBest, ForkChoiceInv, TipIsHeaviest, HasTip, Known
  <2>2. QED
    BY <1>3, <2>1 DEF TipIsHeaviest, HasTip, new
<1>9. CASE Known(fc) # {}
  <2> DEFINE tip == fc.best_tip
  <2>1. /\ tip \in Known(fc) /\ HasTip(fc)
        /\ \A h \in Known(fc) \ {tip} : Heavier(new, tip, h)
    BY <1>7, <1>9 DEF ForkChoiceInv, TreeInv, TipIsHeaviest, HasTip
  <2> HIDE DEF tip
  <2>2. IsBetterTip(new.nodes[b.hash], new.nodes[tip]) <=> Heavier(new, b.hash, tip)
    BY <1>1, <1>2, <2>1, BetterIsHeavier DEF TreeInv
  <2>3. new.best_tip = IF Heavier(new, b.hash, tip) THEN b.hash ELSE tip
    BY <1>1, <2>1, <2>2 DEF MaybeUpdateBest, Known, tip
  <2>4. new.best_tip \in S /\ S # {} /\ new.best_tip # Zero
    BY <1>1, <1>3, <1>4, <2>1, <2>3
  <2>5. \A h \in S \ {new.best_tip} : Heavier(new, new.best_tip, h)
    <3> SUFFICES ASSUME NEW h \in S, h # new.best_tip
                 PROVE  Heavier(new, new.best_tip, h)
      OBVIOUS
    <3>1. b.hash \in S /\ tip \in S /\ b.hash # tip
      BY <1>1, <2>1
    <3>2. CASE Heavier(new, b.hash, tip)
      <4>1. new.best_tip = b.hash /\ h \in Known(fc)
        BY <1>1, <2>3, <3>2
      <4>2. CASE h = tip BY <3>2, <4>1, <4>2
      <4>3. CASE h # tip
        <5>1. Heavier(new, tip, h) BY <2>1, <4>1, <4>3
        <5>2. QED BY <1>6, <3>1, <3>2, <4>1, <5>1, HeavierOrder
      <4>4. QED BY <4>2, <4>3
    <3>3. CASE ~Heavier(new, b.hash, tip)
      <4>1. new.best_tip = tip /\ h # tip
        BY <2>3, <3>3
      <4>2. CASE h = b.hash
        BY <1>6, <3>1, <3>3, <4>1, <4>2, HeavierOrder
      <4>3. CASE h \in Known(fc)
        BY <2>1, <4>1, <4>3
      <4>4. QED BY <1>1, <4>2, <4>3
    <3>4. QED BY <3>2, <3>3
  <2>6. TipIsHeaviest(new)
    BY <2>4, <2>5 DEF TipIsHeaviest, HasTip
  <2>7. QED
    BY <2>3, <2>6 DEF new, tip
<1>10. QED
  BY <1>8, <1>9

LEMMA InsertKeepsInv ==
  ASSUME NEW fc, ForkChoiceInv(fc), NEW b \in Blocks
  PROVE  ForkChoiceInv(InsertBlock(fc, b))
<1>1. CASE Attaches(fc, b)
  BY <1>1, InsertKeepsTree, InsertKeepsHeaviest DEF ForkChoiceInv
<1>2. CASE ~Attaches(fc, b)
  BY <1>2 DEF InsertBlock
<1>3. QED
  BY <1>1, <1>2

\* A block mined on the tip is new, validates and becomes the tip.  Were it
\* known, it would be a known block higher than the tip.
LEMMA MinedBlockAttaches ==
  ASSUME NEW fc, ForkChoiceInv(fc), NEW b \in MineNextBlock(fc)
  PROVE  Attaches(fc, b) /\ InsertBlock(fc, b).best_tip = b.hash
<1> DEFINE tip == fc.best_tip
<1>1. /\ b \in Blocks
      /\ b.height = BestHeight(fc)
      /\ b.previous_block = tip
      /\ b.model_before = BestModel(fc)
      /\ b.header_ok /\ b.trace_ok
  BY DEF MineNextBlock, BestHash
<1>2. b.hash \in Nat \ {Zero} /\ b.height \in Nat
  BY <1>1, BlockFacts
<1>3. b.hash \notin Known(fc)
  <2> SUFFICES ASSUME b.hash \in Known(fc) PROVE FALSE
    OBVIOUS
  <2>1. fc.nodes[b.hash].block \in Blocks /\ fc.nodes[b.hash].block.hash = b.hash
    BY NodeFacts DEF ForkChoiceInv
  <2>2. fc.nodes[b.hash].block.height = b.height
    BY <1>1, <2>1, SameHeader
  <2>3. HasTip(fc) /\ \A h \in Known(fc) \ {tip} : Heavier(fc, tip, h)
    BY DEF ForkChoiceInv, TipIsHeaviest
  <2>4. /\ b.height = fc.nodes[tip].block.height + 1
        /\ fc.nodes[tip].block.height \in Nat
    BY <1>1, <2>3, NodeFacts DEF BestHeight, HasTip, ForkChoiceInv
  <2>5. tip # b.hash
    BY <2>2, <2>4
  <2>6. Heavier(fc, tip, b.hash)
    BY <2>3, <2>5
  <2>7. QED
    BY <2>2, <2>4, <2>6 DEF Heavier
<1>4. CASE Known(fc) = {}
  <2>1. tip = Zero /\ ~HasTip(fc)
    BY <1>4 DEF ForkChoiceInv, TipIsHeaviest, HasTip
  <2>2. ParentKnown(fc, b) /\ ValidateBlockAfter(ParentContext(fc, b), b)
    BY <1>1, <2>1 DEF ParentKnown, ValidateBlockAfter, ParentContext, GenesisContext,
                      BestHeight, BestModel
  <2>3. Attaches(fc, b)
    BY <1>3, <2>2 DEF Attaches, InsertResult, ContainsBlock
  <2>4. InsertBlock(fc, b).best_tip = MaybeUpdateBest(InsertBlock(fc, b).nodes, tip, b.hash)
    BY <1>1, <2>3, Inserted
  <2>5. Zero \notin DOMAIN InsertBlock(fc, b).nodes
    BY <1>1, <2>3, InsertKeepsTree DEF TreeInv, ForkChoiceType, Zero
  <2>6. QED
    BY <2>1, <2>3, <2>4, <2>5 DEF MaybeUpdateBest
<1>5. CASE Known(fc) # {}
  <2>1. /\ tip \in Known(fc) /\ HasTip(fc) /\ tip # Zero
    BY <1>5, NodeFacts DEF ForkChoiceInv, TipIsHeaviest, HasTip
  <2>2. /\ fc.nodes[tip].hash = tip
        /\ fc.nodes[tip].next_height = fc.nodes[tip].block.height + 1
        /\ fc.nodes[tip].block.height \in Nat
    BY <2>1, NodeFacts DEF ForkChoiceInv
  <2>3. ParentKnown(fc, b) /\ ValidateBlockAfter(ParentContext(fc, b), b)
    BY <1>1, <2>1, <2>2 DEF ParentKnown, ValidateBlockAfter, ParentContext, NodeContext,
                            BestHeight, BestModel
  <2>4. Attaches(fc, b)
    BY <1>3, <2>3 DEF Attaches, InsertResult, ContainsBlock
  <2> DEFINE new == InsertBlock(fc, b)
  <2>5. /\ new.nodes[b.hash] = ForkNode(fc, b)
        /\ new.nodes[tip] = fc.nodes[tip]
        /\ Known(new) = Known(fc) \cup {b.hash}
    <3>1. /\ new.nodes[b.hash] = ForkNode(fc, b)
          /\ Known(new) = Known(fc) \cup {b.hash}
          /\ \A h \in Known(fc) : new.nodes[h] = fc.nodes[h]
      BY <1>1, <2>4, Inserted, ZenonT(30)
    <3>2. QED
      BY <2>1, <3>1
  <2>6. TipIsHeaviest(new)
    BY <1>1, <2>4, InsertKeepsHeaviest
  <2>7. new.best_tip # fc.best_tip => new.best_tip = b.hash
    BY <1>1, <2>4, InsertKeepsHeaviest
  <2> HIDE DEF new
  <2>8. new.nodes[b.hash].block.height = new.nodes[tip].block.height + 1
    BY <1>1, <2>1, <2>2, <2>5 DEF ForkNode, BestHeight
  <2>9. ~Heavier(new, tip, b.hash)
    BY <2>2, <2>5, <2>8 DEF Heavier
  <2>10. new.best_tip # tip
    BY <1>3, <2>1, <2>5, <2>6, <2>9 DEF TipIsHeaviest
  <2>11. QED
    BY <2>4, <2>7, <2>10 DEF new
<1>6. QED
  BY <1>4, <1>5

-----------------------------------------------------------------------------
(* The chain to a known block                                                *)

\* The loop that inserts stored or synced blocks, and induction.
Insertion(context, fc, b) == InsertBlock(fc, b)

Inserts == INSTANCE FoldTheorems WITH Step <- Insertion

\* The equation that ChainTo solves, for the blocks of a set.
IsChainMap(fc, set, f) ==
  f = [h \in set |->
         IF fc.nodes[h].parent \in Known(fc) THEN Append(f[fc.nodes[h].parent], fc.nodes[h].block)
                                             ELSE <<fc.nodes[h].block>>]

\* The known blocks on the first k levels of the tree.
Levels(fc, k) == {h \in Known(fc) : fc.nodes[h].next_height <= k}

\* The walk from a block to its parent goes down one level and ends in genesis.
LEMMA ParentBelow ==
  ASSUME NEW fc, TreeInv(fc), NEW h \in Known(fc)
  PROVE  LET node == fc.nodes[h]
         IN  /\ node.next_height \in Nat \ {0}
             /\ node.next_height = node.block.height + 1
             /\ node.parent = node.block.previous_block
             /\ node.parent \in Known(fc) => fc.nodes[node.parent].next_height = node.next_height - 1
             /\ node.parent \notin Known(fc) => node.parent = Zero /\ node.next_height = 1
<1> DEFINE node == fc.nodes[h]
<1>1. /\ node.block \in Blocks
      /\ node.block.height \in Nat
      /\ node.next_height = node.block.height + 1
      /\ node.parent = node.block.previous_block
  BY NodeFacts, BlockFacts DEF TreeInv, NodesLinked
<1>2. ParentKnown(fc, node.block) /\ node.block.height = ParentContext(fc, node.block).height
  BY DEF TreeInv, NodesLinked, ValidateBlockAfter
<1>3. CASE node.parent \in Known(fc)
  <2>1. node.parent # Zero
    BY <1>3, NodeFacts
  <2>2. ParentContext(fc, node.block) = NodeContext(fc.nodes[node.parent])
    BY <1>1, <2>1 DEF ParentContext
  <2>3. node.block.height = fc.nodes[node.parent].next_height
    BY <1>2, <2>2 DEF NodeContext
  <2>4. QED
    BY <1>1, <1>3, <2>3
<1>4. CASE node.parent \notin Known(fc)
  <2>1. node.block.previous_block = Zero
    BY <1>1, <1>2, <1>4 DEF ParentKnown
  <2>2. node.block.height = 0
    BY <1>2, <2>1 DEF ParentContext, GenesisContext
  <2>3. QED
    BY <1>1, <1>4, <2>1, <2>2
<1>5. QED
  BY <1>3, <1>4

\* A solution for k levels extends to k + 1.
LEMMA NextLevel ==
  ASSUME NEW fc, TreeInv(fc), NEW k \in Nat, NEW f, IsChainMap(fc, Levels(fc, k), f)
  PROVE  \E g : IsChainMap(fc, Levels(fc, k + 1), g)
<1> DEFINE Rule(m, h) ==
      IF fc.nodes[h].parent \in Known(fc) THEN Append(m[fc.nodes[h].parent], fc.nodes[h].block)
                                          ELSE <<fc.nodes[h].block>>
    g == [h \in Levels(fc, k + 1) |-> Rule(f, h)]
<1>1. ASSUME NEW h \in Levels(fc, k + 1), fc.nodes[h].parent \in Known(fc)
      PROVE  fc.nodes[h].parent \in Levels(fc, k)
  BY <1>1, ParentBelow DEF Levels
<1>2. \A h \in Levels(fc, k) : h \in Levels(fc, k + 1) /\ f[h] = g[h]
  <2>1. \A h \in Levels(fc, k) : h \in Levels(fc, k + 1)
    BY ParentBelow DEF Levels
  <2>2. \A h \in Levels(fc, k) : f[h] = Rule(f, h)
    BY DEF IsChainMap
  <2>3. QED
    BY <2>1, <2>2
<1>3. \A h \in Levels(fc, k + 1) : Rule(f, h) = Rule(g, h)
  <2> SUFFICES ASSUME NEW h \in Levels(fc, k + 1) PROVE Rule(f, h) = Rule(g, h)
    OBVIOUS
  <2>1. CASE fc.nodes[h].parent \in Known(fc)
    <3>1. fc.nodes[h].parent \in Levels(fc, k)
      BY <1>1, <2>1
    <3>2. f[fc.nodes[h].parent] = g[fc.nodes[h].parent]
      BY <1>2, <3>1
    <3> HIDE DEF g
    <3>3. QED
      BY <2>1, <3>2
  <2>2. CASE fc.nodes[h].parent \notin Known(fc)
    BY <2>2
  <2>3. QED
    BY <2>1, <2>2
<1>4. g = [h \in Levels(fc, k + 1) |-> Rule(g, h)]
  <2> HIDE DEF Rule
  <2>1. QED BY <1>3
<1>5. QED
  <2> HIDE DEF g
  <2>1. IsChainMap(fc, Levels(fc, k + 1), g)
    BY <1>4 DEF IsChainMap
  <2>2. QED BY <2>1

LEMMA LevelsMapped ==
  ASSUME NEW fc, TreeInv(fc)
  PROVE  \A k \in Nat : \E f : IsChainMap(fc, Levels(fc, k), f)
<1> DEFINE S == {k \in Nat : \E f : IsChainMap(fc, Levels(fc, k), f)}
<1>1. 0 \in S
  <2>1. Levels(fc, 0) = {}
    BY ParentBelow DEF Levels
  <2>2. IsChainMap(fc, Levels(fc, 0), [h \in {} |-> h])
    BY <2>1 DEF IsChainMap
  <2>3. QED BY <2>2
<1>2. ASSUME NEW k \in Nat, k \in S
      PROVE  k + 1 \in S
  BY <1>2, NextLevel
<1>3. Nat \subseteq S
  <2> HIDE DEF S
  <2>1. QED BY <1>1, <1>2, Inserts!Induction
<1>4. QED BY <1>3

\* What a known block's record says of its parent and body determines its chain: two
\* solutions agree where both are defined, also solutions for two fork choices of
\* which one has grown from the other.
Grows(fc, new) ==
  /\ Known(fc) \subseteq Known(new)
  /\ \A h \in Known(fc) : new.nodes[h] = fc.nodes[h]

LEMMA SameChains ==
  ASSUME NEW fc, NEW new, TreeInv(fc), TreeInv(new), Grows(fc, new),
         NEW A \in SUBSET Known(fc), NEW B \in SUBSET Known(new), A \subseteq B,
         \A h \in A : fc.nodes[h].parent \in Known(fc) => fc.nodes[h].parent \in A,
         NEW f, IsChainMap(fc, A, f), NEW g, IsChainMap(new, B, g)
  PROVE  \A h \in A : f[h] = g[h]
<1> DEFINE S == {k \in Nat : \A h \in A : fc.nodes[h].next_height <= k => f[h] = g[h]}
<1>1. 0 \in S
  BY ParentBelow
<1>2. ASSUME NEW k \in Nat, k \in S
      PROVE  k + 1 \in S
  <2> SUFFICES ASSUME NEW h \in A, fc.nodes[h].next_height <= k + 1
               PROVE  f[h] = g[h]
    OBVIOUS
  <2> DEFINE node == fc.nodes[h]
  <2>1. new.nodes[h] = node /\ h \in B
    BY DEF Grows
  <2>2. CASE node.parent \in Known(fc)
    <3>1. node.parent \in A /\ node.parent \in Known(new)
      BY <2>2 DEF Grows
    <3>2. fc.nodes[node.parent].next_height <= k
      BY <2>2, ParentBelow
    <3>3. f[node.parent] = g[node.parent]
      BY <1>2, <3>1, <3>2
    <3>4. f[h] = Append(f[node.parent], node.block)
      BY <2>2 DEF IsChainMap
    <3>5. g[h] = Append(g[node.parent], node.block)
      BY <2>1, <3>1 DEF IsChainMap
    <3>6. QED BY <3>3, <3>4, <3>5
  <2>3. CASE node.parent \notin Known(fc)
    <3>1. node.parent = Zero
      BY <2>3, ParentBelow
    <3>2. node.parent \notin Known(new)
      BY <3>1, NodeFacts
    <3>3. f[h] = <<node.block>>
      BY <2>3 DEF IsChainMap
    <3>4. g[h] = <<node.block>>
      BY <2>1, <3>2 DEF IsChainMap
    <3>5. QED BY <3>3, <3>4
  <2>4. QED BY <2>2, <2>3
<1>3. Nat \subseteq S
  <2> HIDE DEF S
  <2>1. QED BY <1>1, <1>2, Inserts!Induction
<1>4. QED
  BY <1>3, ParentBelow

\* ChainTo solves its equation: the recursion over parents ends for every block of a
\* valid tree.
LEMMA ChainToUnfolds ==
  ASSUME NEW fc, TreeInv(fc)
  PROVE  IsChainMap(fc, Known(fc), ChainTo(fc))
<1> DEFINE F(k) == CHOOSE f : IsChainMap(fc, Levels(fc, k), f)
           level(h) == fc.nodes[h].next_height
           g == [h \in Known(fc) |-> F(level(h))[h]]
<1>1. \A k \in Nat : IsChainMap(fc, Levels(fc, k), F(k))
  BY LevelsMapped
<1> HIDE DEF F
<1>2. ASSUME NEW j \in Nat, NEW k \in Nat, j <= k, NEW h \in Levels(fc, j)
      PROVE  F(j)[h] = F(k)[h]
  <2>1. Levels(fc, j) \subseteq Levels(fc, k)
    BY <1>2, ParentBelow DEF Levels
  <2>2. \A l \in Levels(fc, j) : fc.nodes[l].parent \in Known(fc) => fc.nodes[l].parent \in Levels(fc, j)
    BY ParentBelow DEF Levels
  <2>3. Grows(fc, fc)
    BY DEF Grows
  <2>4. Levels(fc, j) \subseteq Known(fc) /\ Levels(fc, k) \subseteq Known(fc)
    BY DEF Levels
  <2>5. QED
    BY <1>1, <2>1, <2>2, <2>3, <2>4, SameChains
<1> DEFINE Rule(m, h) ==
      IF fc.nodes[h].parent \in Known(fc) THEN Append(m[fc.nodes[h].parent], fc.nodes[h].block)
                                          ELSE <<fc.nodes[h].block>>
<1>3. ASSUME NEW h \in Known(fc)
      PROVE  g[h] = Rule(g, h)
  <2>1. level(h) \in Nat /\ h \in Levels(fc, level(h))
    BY ParentBelow DEF Levels
  <2>2. F(level(h))[h] = Rule(F(level(h)), h)
    BY <1>1, <2>1 DEF IsChainMap
  <2>3. CASE fc.nodes[h].parent \in Known(fc)
    <3> DEFINE p == fc.nodes[h].parent
    <3>1. level(p) \in Nat /\ level(p) <= level(h) /\ p \in Levels(fc, level(p))
      BY <2>3, ParentBelow DEF Levels
    <3>2. F(level(p))[p] = F(level(h))[p]
      BY <2>1, <3>1, <1>2
    <3>3. g[p] = F(level(h))[p]
      BY <2>3, <3>2
    <3>4. QED
      BY <2>2, <2>3, <3>3
  <2>4. CASE fc.nodes[h].parent \notin Known(fc)
    BY <2>2, <2>4
  <2>5. QED BY <2>3, <2>4
<1>4. g = [h \in Known(fc) |-> Rule(g, h)]
  <2> HIDE DEF Rule
  <2> DEFINE r == [h \in Known(fc) |-> Rule(g, h)]
  <2>1. \A h \in Known(fc) : g[h] = r[h] BY <1>3
  <2>2. QED BY <2>1
<1> HIDE DEF g
<1>5. IsChainMap(fc, Known(fc), g)
  BY <1>4 DEF IsChainMap
<1>6. ChainTo(fc) = CHOOSE f : IsChainMap(fc, Known(fc), f)
  BY DEF ChainTo, IsChainMap
<1>7. QED
  BY <1>5, <1>6

\* The blocks before the last one of a chain are its prefix.
LEMMA PrefixesOfAppend ==
  ASSUME NEW s \in Seq(Blocks), NEW b \in Blocks
  PROVE  /\ Append(s, b) \in Seq(Blocks)
         /\ Len(Append(s, b)) = Len(s) + 1
         /\ Append(s, b)[Len(s) + 1] = b
         /\ \A i \in 1..Len(s) : Append(s, b)[i] = s[i]
         /\ \A i \in 0..Len(s) : SubSeq(Append(s, b), 1, i) = SubSeq(s, 1, i)
         /\ SubSeq(Append(s, b), 1, Len(s) + 1) = Append(s, b)
         /\ SubSeq(s, 1, Len(s)) = s
OBVIOUS

\* A chain that replays replays with one more block that validates after it.
LEMMA ReplayOneMore ==
  ASSUME NEW s \in Seq(Blocks), NEW b \in Blocks
  PROVE  ChainFromBlocksOk(Append(s, b)) <=> ChainFromBlocksOk(s) /\ ValidateNextBlock(s, b)
<1> DEFINE t == Append(s, b)
<1>1. /\ Len(t) = Len(s) + 1 /\ Len(s) \in Nat
      /\ t[Len(s) + 1] = b /\ SubSeq(t, 1, Len(s)) = s
      /\ \A i \in 1..Len(s) : t[i] = s[i] /\ SubSeq(t, 1, i - 1) = SubSeq(s, 1, i - 1)
  BY PrefixesOfAppend
<1> HIDE DEF t
<1>2. ChainFromBlocksOk(t) <=>
        /\ \A i \in 1..Len(s) : ValidateNextBlock(SubSeq(t, 1, i - 1), t[i])
        /\ ValidateNextBlock(SubSeq(t, 1, Len(s) + 1 - 1), t[Len(s) + 1])
  BY <1>1 DEF ChainFromBlocksOk
<1>3. Len(s) + 1 - 1 = Len(s)
  BY <1>1
<1>4. QED
  BY <1>1, <1>2, <1>3 DEF t, ChainFromBlocksOk

\* The chain to a known block.
ChainGood(fc, h) ==
  LET c == ChainTo(fc)[h]
  IN  /\ c \in Seq(Blocks)
      /\ Len(c) = fc.nodes[h].next_height
      /\ c # << >>
      /\ c[Len(c)] = fc.nodes[h].block
      /\ ChainFromBlocksOk(c)
      /\ \A i \in 1..Len(c) :
           /\ c[i].hash \in Known(fc)
           /\ fc.nodes[c[i].hash].block = c[i]
           /\ SubSeq(c, 1, i) = ChainTo(fc)[c[i].hash]

\* A block without a known parent starts a chain.
LEMMA ChainOfRoot ==
  ASSUME NEW fc, TreeInv(fc), NEW h \in Known(fc), fc.nodes[h].parent \notin Known(fc)
  PROVE  ChainGood(fc, h)
<1> DEFINE b == fc.nodes[h].block
           c == ChainTo(fc)[h]
<1>1. c = <<b>>
  BY ChainToUnfolds DEF IsChainMap
<1>2. b \in Blocks /\ b.hash = h
  BY NodeFacts
<1>3. fc.nodes[h].parent = Zero /\ fc.nodes[h].next_height = 1
  BY ParentBelow
<1>4. ValidateNextBlock(<< >>, b)
  <2>1. b.previous_block = Zero
    BY <1>3, ParentBelow
  <2>2. ValidateBlockAfter(GenesisContext, b)
    BY <2>1 DEF TreeInv, NodesLinked, ParentContext
  <2>3. Len(<< >>) = 0
    OBVIOUS
  <2>4. QED
    BY <2>2, <2>3 DEF ValidateNextBlock, GenesisContext, HeadHash, CurrentModel
<1> HIDE DEF b, c
<1>5. /\ c \in Seq(Blocks) /\ Len(c) = 1 /\ c[1] = b /\ SubSeq(c, 1, 0) = << >>
      /\ SubSeq(c, 1, 1) = c /\ c # << >>
  <2>1. c \in Seq(Blocks) /\ Len(c) = 1 /\ c[1] = b
    BY <1>1, <1>2
  <2>2. SubSeq(c, 1, 0) = << >>
    OBVIOUS
  <2>3. SubSeq(c, 1, Len(c)) = c
    <3>1. \A s \in Seq(Blocks) : SubSeq(s, 1, Len(s)) = s
      OBVIOUS
    <3>2. QED BY <2>1, <3>1
  <2>4. c # << >>
    BY <1>1
  <2>5. SubSeq(c, 1, 1) = c
    BY <2>1, <2>3
  <2>6. QED BY <2>1, <2>2, <2>4, <2>5
<1>6. ChainFromBlocksOk(c)
  <2>1. \A i \in 1..Len(c) : i = 1 /\ i - 1 = 0
    BY <1>5
  <2>2. QED BY <1>4, <1>5, <2>1 DEF ChainFromBlocksOk
<1>7. QED
  BY <1>2, <1>3, <1>5, <1>6 DEF ChainGood, b, c

\* Any other block is appended to the chain of its parent.
LEMMA ChainOfChild ==
  ASSUME NEW fc, TreeInv(fc), NEW h \in Known(fc), fc.nodes[h].parent \in Known(fc),
         ChainGood(fc, fc.nodes[h].parent)
  PROVE  ChainGood(fc, h)
<1> DEFINE b == fc.nodes[h].block
           c == ChainTo(fc)[h]
           p == fc.nodes[h].parent
           s == ChainTo(fc)[p]
<1>1. c = Append(s, b)
  BY ChainToUnfolds DEF IsChainMap
<1>2. b \in Blocks /\ b.hash = h /\ p = b.previous_block /\ p # Zero
  BY NodeFacts, ParentBelow
<1>3. /\ fc.nodes[p].next_height = fc.nodes[h].next_height - 1
      /\ fc.nodes[h].next_height \in Nat
  BY ParentBelow
<1>4. /\ s \in Seq(Blocks) /\ s # << >> /\ Len(s) = fc.nodes[p].next_height
      /\ s[Len(s)] = fc.nodes[p].block /\ ChainFromBlocksOk(s)
      /\ \A i \in 1..Len(s) :
           /\ s[i].hash \in Known(fc)
           /\ fc.nodes[s[i].hash].block = s[i]
           /\ SubSeq(s, 1, i) = ChainTo(fc)[s[i].hash]
  BY DEF ChainGood
<1> HIDE DEF s
<1>0. Len(s) \in Nat
  BY <1>4
<1>5. ValidateNextBlock(s, b)
  <2>1. ValidateBlockAfter(NodeContext(fc.nodes[p]), b)
    BY <1>2 DEF TreeInv, NodesLinked, ParentContext
  <2>2. fc.nodes[p].hash = p /\ fc.nodes[p].block.hash = p
    BY NodeFacts
  <2>3. HeadHash(s) = p /\ CurrentModel(s) = fc.nodes[p].block.model_after
    BY <1>4, <2>2 DEF HeadHash, CurrentModel
  <2>4. QED
    BY <1>0, <1>4, <2>1, <2>2, <2>3 DEF NodeContext, ValidateNextBlock
<1> HIDE DEF b, c, p
<1>6. /\ c \in Seq(Blocks) /\ Len(c) = Len(s) + 1 /\ c[Len(s) + 1] = b
      /\ SubSeq(c, 1, Len(s) + 1) = c
      /\ \A i \in 1..Len(s) : c[i] = s[i] /\ SubSeq(c, 1, i) = SubSeq(s, 1, i)
  BY <1>1, <1>2, <1>4, PrefixesOfAppend
<1>7. ChainFromBlocksOk(c)
  BY <1>1, <1>2, <1>4, <1>5, ReplayOneMore
<1>8. \A i \in 1..Len(c) : i \in 1..Len(s) \/ i = Len(s) + 1
  BY <1>0, <1>6
<1>9. c # << >>
  BY <1>0, <1>6
<1>10. Len(c) = fc.nodes[h].next_height
  BY <1>0, <1>3, <1>4, <1>6
<1>11. fc.nodes[h].block = b
  BY DEF b
<1>12. ASSUME NEW i \in 1..Len(c)
       PROVE  /\ c[i].hash \in Known(fc)
              /\ fc.nodes[c[i].hash].block = c[i]
              /\ SubSeq(c, 1, i) = ChainTo(fc)[c[i].hash]
  <2>1. CASE i \in 1..Len(s)
    BY <1>4, <1>6, <2>1
  <2>2. CASE i = Len(s) + 1
    BY <1>2, <1>6, <1>11, <2>2 DEF c
  <2>3. QED BY <1>8, <2>1, <2>2
<1>13. QED
  BY <1>6, <1>7, <1>9, <1>10, <1>11, <1>12 DEF ChainGood, c

\* The walk back from any known block gives a chain that chain_from_blocks accepts.
LEMMA ChainsReplay ==
  ASSUME NEW fc, TreeInv(fc)
  PROVE  \A h \in Known(fc) : ChainGood(fc, h)
<1> DEFINE S == {k \in Nat : \A h \in Known(fc) : fc.nodes[h].next_height <= k => ChainGood(fc, h)}
<1>1. 0 \in S
  BY ParentBelow
<1>2. ASSUME NEW k \in Nat, k \in S
      PROVE  k + 1 \in S
  <2> SUFFICES ASSUME NEW h \in Known(fc), fc.nodes[h].next_height <= k + 1
               PROVE  ChainGood(fc, h)
    OBVIOUS
  <2>1. CASE fc.nodes[h].parent \in Known(fc)
    <3>1. fc.nodes[fc.nodes[h].parent].next_height <= k
      BY <2>1, ParentBelow
    <3>2. QED BY <1>2, <2>1, <3>1, ChainOfChild
  <2>2. QED BY <2>1, ChainOfRoot
<1>3. Nat \subseteq S
  <2> HIDE DEF S
  <2>1. QED BY <1>1, <1>2, Inserts!Induction
<1>4. QED
  BY <1>3, ParentBelow

\* The best chain ends in best_tip and replays.
LEMMA BestChainReplays ==
  ASSUME NEW fc, ForkChoiceInv(fc)
  PROVE  LET chain == BestChain(fc)
         IN  /\ chain \in Seq(Blocks)
             /\ ChainFromBlocksOk(chain)
             /\ HeadHash(chain) = fc.best_tip
             /\ Len(chain) = BestHeight(fc)
             /\ CurrentModel(chain) = BestModel(fc)
             /\ chain = << >> <=> Known(fc) = {}
             /\ chain # << >> => HasTip(fc) /\ chain[Len(chain)] = fc.nodes[fc.best_tip].block
<1>1. CASE HasTip(fc)
  <2>1. ChainGood(fc, fc.best_tip) /\ BestChain(fc) = ChainTo(fc)[fc.best_tip]
    BY <1>1, ChainsReplay DEF HasTip, BestChain, ForkChoiceInv
  <2>2. fc.nodes[fc.best_tip].block.hash = fc.best_tip
    BY <1>1, NodeFacts DEF HasTip, ForkChoiceInv
  <2>3. QED
    BY <1>1, <2>1, <2>2 DEF ChainGood, HeadHash, CurrentModel, BestHeight, BestModel, HasTip
<1>2. CASE ~HasTip(fc)
  <2>1. BestChain(fc) = << >> /\ fc.best_tip = Zero /\ Known(fc) = {}
    BY <1>2 DEF BestChain, ForkChoiceInv, TipIsHeaviest
  <2>2. ChainFromBlocksOk(<< >>) /\ << >> \in Seq(Blocks) /\ Len(<< >>) = 0
    BY DEF ChainFromBlocksOk
  <2>3. QED
    BY <1>2, <2>1, <2>2 DEF HeadHash, CurrentModel, BestHeight, BestModel
<1>3. QED
  BY <1>1, <1>2

-----------------------------------------------------------------------------
(* How chains change while the tree grows                                    *)

LEMMA InsertGrows ==
  ASSUME NEW fc, NEW b \in Blocks
  PROVE  Grows(fc, InsertBlock(fc, b))
<1>1. CASE Attaches(fc, b)
  <2>1. /\ Known(InsertBlock(fc, b)) = Known(fc) \cup {b.hash}
        /\ \A h \in Known(fc) : InsertBlock(fc, b).nodes[h] = fc.nodes[h]
    BY <1>1, Inserted
  <2>2. QED BY <2>1 DEF Grows
<1>2. CASE ~Attaches(fc, b)
  BY <1>2 DEF Grows, InsertBlock
<1>3. QED BY <1>1, <1>2

LEMMA GrowsOn ==
  ASSUME NEW fc, NEW mid, NEW new, Grows(fc, mid), Grows(mid, new)
  PROVE  Grows(fc, new)
BY DEF Grows

\* The chain to a known block never changes.
LEMMA ChainsKept ==
  ASSUME NEW fc, NEW new, TreeInv(fc), TreeInv(new), Grows(fc, new), NEW h \in Known(fc)
  PROVE  ChainTo(new)[h] = ChainTo(fc)[h]
<1>1. IsChainMap(fc, Known(fc), ChainTo(fc)) /\ IsChainMap(new, Known(new), ChainTo(new))
  BY ChainToUnfolds
<1>2. Known(fc) \subseteq Known(new)
  BY DEF Grows
<1>3. QED
  BY <1>1, <1>2, SameChains

\* The chain to a new block is that to its parent and the block.
LEMMA ChainToNew ==
  ASSUME NEW fc, ForkChoiceInv(fc), NEW b \in Blocks, Attaches(fc, b)
  PROVE  LET new == InsertBlock(fc, b)
         IN  /\ b.previous_block \in Known(fc) =>
                  ChainTo(new)[b.hash] = Append(ChainTo(fc)[b.previous_block], b)
             /\ b.previous_block = Zero => ChainTo(new)[b.hash] = <<b>>
             /\ b.previous_block = Zero \/ b.previous_block \in Known(fc)
<1> DEFINE new == InsertBlock(fc, b)
           p == b.previous_block
<1>1. TreeInv(new) /\ TreeInv(fc)
  BY InsertKeepsTree DEF ForkChoiceInv
<1>2. /\ b.hash \in Known(new) /\ new.nodes[b.hash].parent = p /\ new.nodes[b.hash].block = b
      /\ Known(fc) \subseteq Known(new)
  <2>1. /\ Known(new) = Known(fc) \cup {b.hash}
        /\ new.nodes[b.hash] = ForkNode(fc, b)
    BY Inserted
  <2>2. QED BY <2>1 DEF ForkNode
<1>3. p = Zero \/ p \in Known(fc)
  BY Inserted DEF ParentKnown
<1>4. Zero \notin Known(new)
  BY <1>1, NodeFacts
<1>5. IsChainMap(new, Known(new), ChainTo(new))
  BY <1>1, ChainToUnfolds
<1>6. p \in Known(fc) => ChainTo(new)[p] = ChainTo(fc)[p]
  BY <1>1, InsertGrows, ChainsKept
<1> HIDE DEF new, p
<1>7. /\ p \in Known(new) => ChainTo(new)[b.hash] = Append(ChainTo(new)[p], b)
      /\ p \notin Known(new) => ChainTo(new)[b.hash] = <<b>>
  BY <1>2, <1>5 DEF IsChainMap
<1>8. QED
  BY <1>2, <1>3, <1>4, <1>6, <1>7 DEF new, p

\* A known block is no higher than the tip, a child of the tip is better than the tip.
LEMMA NothingAboveTip ==
  ASSUME NEW fc, ForkChoiceInv(fc), NEW h \in Known(fc)
  PROVE  /\ fc.best_tip \in Known(fc)
         /\ fc.nodes[h].next_height <= fc.nodes[fc.best_tip].next_height
<1>1. HasTip(fc) /\ \A k \in Known(fc) \ {fc.best_tip} : Heavier(fc, fc.best_tip, k)
  BY DEF ForkChoiceInv, TipIsHeaviest
<1>2. \A k \in Known(fc) : fc.nodes[k].next_height = fc.nodes[k].block.height + 1
                           /\ fc.nodes[k].next_height \in Nat /\ fc.nodes[k].block.height \in Nat
  BY ParentBelow, NodeFacts DEF ForkChoiceInv
<1>3. fc.best_tip \in Known(fc)
  BY <1>1 DEF HasTip
<1>4. CASE h = fc.best_tip
  BY <1>2, <1>3, <1>4
<1>5. CASE h # fc.best_tip
  BY <1>1, <1>2, <1>3, <1>5 DEF Heavier
<1>6. QED BY <1>3, <1>4, <1>5

LEMMA ChildOfTipIsTip ==
  ASSUME NEW fc, ForkChoiceInv(fc), NEW b \in Blocks, Attaches(fc, b),
         b.previous_block = fc.best_tip
  PROVE  InsertBlock(fc, b).best_tip = b.hash
<1> DEFINE new == InsertBlock(fc, b)
<1>1. ForkChoiceInv(new)
  BY InsertKeepsInv
<1>2. /\ b.hash \in Known(new) /\ b.hash \notin Known(fc) /\ new.nodes[b.hash] = ForkNode(fc, b)
      /\ Known(fc) \subseteq Known(new)
      /\ \A h \in Known(fc) : new.nodes[h] = fc.nodes[h]
  <2>1. Known(new) = Known(fc) \cup {b.hash}
    BY Inserted
  <2>2. QED BY <2>1, Inserted
<1>3. new.best_tip # fc.best_tip => new.best_tip = b.hash
  BY InsertKeepsHeaviest
<1>4. CASE fc.best_tip = Zero
  <2>1. new.best_tip \in Known(new)
    BY <1>1, <1>2 DEF ForkChoiceInv, TipIsHeaviest, HasTip
  <2>2. Zero \notin Known(new)
    BY <1>1, NodeFacts DEF ForkChoiceInv
  <2>3. QED BY <1>3, <1>4, <2>1, <2>2
<1>5. CASE fc.best_tip # Zero
  <2>1. fc.best_tip \in Known(fc)
    BY <1>5 DEF ForkChoiceInv, TipIsHeaviest, HasTip
  <2>2. new.nodes[b.hash].next_height - 1 = new.nodes[fc.best_tip].next_height
        /\ new.nodes[b.hash].next_height \in Nat
    <3>1. new.nodes[b.hash].parent = fc.best_tip
      BY <1>2 DEF ForkNode
    <3>2. QED BY <1>1, <1>2, <2>1, <3>1, ParentBelow DEF ForkChoiceInv
  <2>3. new.nodes[b.hash].next_height <= new.nodes[new.best_tip].next_height
    BY <1>1, <1>2, NothingAboveTip
  <2>4. new.best_tip # fc.best_tip
    BY <2>2, <2>3
  <2>5. QED BY <1>3, <2>4
<1>6. QED BY <1>4, <1>5

\* What an attached block does to the best chain: nothing, or it is the new head; then
\* the chain is extended if the block's parent was the head, and left otherwise.
LEMMA BestChainStep ==
  ASSUME NEW fc, ForkChoiceInv(fc), NEW b \in Blocks, Attaches(fc, b)
  PROVE  LET new == InsertBlock(fc, b)
             c == BestChain(fc)
             d == BestChain(new)
         IN  /\ new.best_tip = fc.best_tip => d = c
             /\ new.best_tip # fc.best_tip => new.best_tip = b.hash
             /\ b.previous_block = fc.best_tip => d = Append(c, b)
             /\ (b.previous_block # fc.best_tip /\ new.best_tip = b.hash /\ c # << >>) =>
                  ~(Len(c) <= Len(d) /\ SubSeq(d, 1, Len(c)) = c)
<1> DEFINE new == InsertBlock(fc, b)
           c == BestChain(fc)
           d == BestChain(new)
           p == b.previous_block
<1>1. ForkChoiceInv(new) /\ TreeInv(new) /\ TreeInv(fc)
  BY InsertKeepsInv DEF ForkChoiceInv
<1>2. /\ b.hash \in Known(new) /\ b.hash \notin Known(fc)
      /\ Known(new) = Known(fc) \cup {b.hash}
      /\ new.nodes[b.hash] = ForkNode(fc, b)
      /\ \A h \in Known(fc) : new.nodes[h] = fc.nodes[h]
  <2>1. Known(new) = Known(fc) \cup {b.hash} /\ b.hash \notin Known(fc)
    BY Inserted
  <2>2. new.nodes[b.hash] = ForkNode(fc, b) /\ \A h \in Known(fc) : new.nodes[h] = fc.nodes[h]
    BY Inserted
  <2> HIDE DEF new
  <2>3. QED BY <2>1, <2>2
<1>3. new.best_tip # fc.best_tip => new.best_tip = b.hash
  BY InsertKeepsHeaviest
<1>4. \A h \in Known(fc) : ChainTo(new)[h] = ChainTo(fc)[h]
  BY <1>1, InsertGrows, ChainsKept
<1>5. new.best_tip \in Known(new) /\ d = ChainTo(new)[new.best_tip]
  <2>1. new.best_tip \in Known(new)
    BY <1>1, <1>2, NothingAboveTip
  <2>2. QED BY <2>1 DEF BestChain, HasTip
<1>6. IF fc.best_tip = Zero THEN c = << >> ELSE fc.best_tip \in Known(fc) /\ c = ChainTo(fc)[fc.best_tip]
  BY <1>1, NodeFacts DEF BestChain, HasTip, ForkChoiceInv, TipIsHeaviest
<1>z. Zero \notin Known(new)
  BY <1>1, NodeFacts
<1>7. ASSUME new.best_tip = fc.best_tip PROVE d = c
  BY <1>4, <1>5, <1>6, <1>7, <1>z
<1>8. ASSUME p = fc.best_tip PROVE d = Append(c, b)
  <2>1. d = ChainTo(new)[b.hash]
    BY <1>5, <1>8, ChildOfTipIsTip
  <2>2. CASE p = Zero
    <3>1. ChainTo(new)[b.hash] = <<b>>
      BY <2>2, ChainToNew
    <3>2. Append(<< >>, b) = <<b>>
      OBVIOUS
    <3>3. QED BY <1>6, <1>8, <2>1, <2>2, <3>1, <3>2
  <2>3. CASE p # Zero
    <3>1. ChainTo(new)[b.hash] = Append(ChainTo(fc)[p], b)
      BY <1>6, <1>8, <2>3, ChainToNew
    <3>2. QED BY <1>6, <1>8, <2>1, <2>3, <3>1
  <2>4. QED BY <2>2, <2>3
<1>9. ASSUME p # fc.best_tip, new.best_tip = b.hash, c # << >>,
             Len(c) <= Len(d), SubSeq(d, 1, Len(c)) = c
      PROVE  FALSE
  <2>1. fc.best_tip \in Known(fc) /\ fc.best_tip # Zero
    BY <1>6, <1>9
  <2>2. c \in Seq(Blocks) /\ Len(c) \in Nat \ {0} /\ c[Len(c)].hash = fc.best_tip
        /\ Len(c) = fc.nodes[fc.best_tip].next_height
    <3>1. c \in Seq(Blocks) /\ HeadHash(c) = fc.best_tip /\ Len(c) = BestHeight(fc)
      BY BestChainReplays
    <3>2. QED BY <1>9, <2>1, <3>1 DEF HeadHash, BestHeight, HasTip
  <2>3. ChainGood(new, b.hash) /\ d = ChainTo(new)[b.hash]
    BY <1>1, <1>2, <1>5, <1>9, ChainsReplay
  <2>4. CASE p = Zero
    <3>1. d = <<b>>
      BY <2>3, <2>4, ChainToNew
    <3>2. Len(c) = 1 /\ d[1] = b
      BY <1>9, <2>2, <3>1
    <3>3. c[1] = d[1]
      BY <1>9, <2>2, <3>1, <3>2
    <3>4. QED BY <1>2, <2>1, <2>2, <3>2, <3>3
  <2>5. CASE p # Zero
    <3> DEFINE s == ChainTo(fc)[p]
    <3>1. p \in Known(fc) /\ d = Append(s, b)
      BY <2>3, <2>5, ChainToNew
    <3>2. ChainGood(fc, p) /\ fc.nodes[p].next_height <= fc.nodes[fc.best_tip].next_height
      BY <1>1, <3>1, ChainsReplay, NothingAboveTip
    <3>3. s \in Seq(Blocks) /\ Len(s) <= Len(c) /\ s[Len(s)].hash = p /\ s # << >>
      <4>1. fc.nodes[p].block.hash = p
        BY <1>1, <3>1, NodeFacts
      <4>2. QED BY <2>2, <3>2, <4>1 DEF ChainGood
    <3> HIDE DEF c, d, s
    <3>4. /\ d \in Seq(Blocks) /\ Len(d) = Len(s) + 1 /\ d[Len(d)] = b
          /\ \A i \in 1..Len(s) : d[i] = s[i]
      BY <3>1, <3>3
    <3>5. Len(s) \in Nat \ {0}
      BY <3>3
    <3>6. c[Len(c)] = d[Len(c)]
      BY <1>9, <2>2, <3>4, <3>5
    <3>7. CASE Len(c) = Len(s)
      BY <1>9, <2>2, <3>3, <3>4, <3>5, <3>6, <3>7
    <3>8. CASE Len(c) = Len(d)
      BY <1>2, <2>1, <2>2, <3>4, <3>6, <3>8
    <3>9. QED BY <1>9, <2>2, <3>3, <3>4, <3>5, <3>7, <3>8
  <2>6. QED BY <2>4, <2>5
<1>10. QED
  BY <1>3, <1>7, <1>8, <1>9

-----------------------------------------------------------------------------
(* Blocks inserted one after the other                                       *)

\* Inserting a list of blocks, of which some may be refused, keeps the tree valid,
\* its tip the heaviest, and every block known before.
LEMMA InsertsKeepInv ==
  ASSUME NEW fc, ForkChoiceInv(fc), NEW blocks \in Seq(Blocks)
  PROVE  /\ ForkChoiceInv(Inserts!Fold(0, fc, blocks))
         /\ Grows(fc, Inserts!Fold(0, fc, blocks))
<1> DEFINE n == Len(blocks)
<1>1. n \in Nat /\ DOMAIN blocks = 1..n /\ \A i \in 1..n : blocks[i] \in Blocks
  OBVIOUS
<1>2. PICK r : Inserts!Runs(0, fc, blocks, n, r) /\ Inserts!Fold(0, fc, blocks) = r[n]
  BY <1>1, Inserts!FoldRuns
<1> HIDE DEF n
<1> DEFINE S == {k \in Nat : ForkChoiceInv(r[k]) /\ Grows(fc, r[k])}
<1>3. 0 \in S
  BY <1>2 DEF Inserts!Runs, Grows
<1>4. ASSUME NEW k \in 1..n, k - 1 \in S
      PROVE  k \in S
  <2>1. r[k] = InsertBlock(r[k - 1], blocks[k]) /\ k \in Nat
    BY <1>1, <1>2 DEF Inserts!Runs, Insertion
  <2>2. ForkChoiceInv(r[k]) /\ Grows(r[k - 1], r[k])
    BY <1>1, <1>4, <2>1, InsertKeepsInv, InsertGrows
  <2>3. QED
    BY <1>4, <2>1, <2>2, GrowsOn
<1>5. 0..n \subseteq S
  <2> HIDE DEF S
  <2>1. QED BY <1>1, <1>3, <1>4, Inserts!Counting
<1>6. QED
  BY <1>1, <1>2, <1>5

\* The tree after the first k blocks of a list is that after k - 1 with the k-th
\* block inserted.
LEMMA InsertsInOrder ==
  ASSUME NEW fc, ForkChoiceInv(fc), NEW blocks \in Seq(Blocks)
  PROVE  LET after(k) == Inserts!Fold(0, fc, SubSeq(blocks, 1, k))
         IN  /\ after(0) = fc
             /\ after(Len(blocks)) = Inserts!Fold(0, fc, blocks)
             /\ \A k \in 1..Len(blocks) : after(k) = InsertBlock(after(k - 1), blocks[k])
             /\ \A k \in 0..Len(blocks) : ForkChoiceInv(after(k)) /\ Grows(fc, after(k))
<1> DEFINE after(k) == Inserts!Fold(0, fc, SubSeq(blocks, 1, k))
<1>1. SubSeq(blocks, 1, 0) = << >> /\ SubSeq(blocks, 1, Len(blocks)) = blocks
  OBVIOUS
<1>2. after(0) = fc
  BY <1>1, Inserts!FoldEmpty
<1>3. ASSUME NEW k \in 1..Len(blocks)
      PROVE  after(k) = InsertBlock(after(k - 1), blocks[k])
  BY Inserts!FoldLast DEF Insertion
<1>4. ASSUME NEW k \in 0..Len(blocks)
      PROVE  ForkChoiceInv(after(k)) /\ Grows(fc, after(k))
  <2>1. SubSeq(blocks, 1, k) \in Seq(Blocks)
    OBVIOUS
  <2>2. QED BY <2>1, InsertsKeepInv
<1>5. QED
  BY <1>1, <1>2, <1>3, <1>4

-----------------------------------------------------------------------------
(* A batch of blocks                                                       *)

LEMMA InsertsAreFold ==
  ASSUME NEW fc, NEW blocks
  PROVE  FoldLeft(InsertBlock, fc, blocks) = Inserts!Fold(0, fc, blocks)
BY DEF Inserts!Fold, Insertion, FoldLeft, MapThenFoldSet, Max,
       Inserts!FoldLeft, Inserts!MapThenFoldSet, Inserts!Max

\* The fork choice after i blocks of a batch.
After(fc, batch, i) == Inserts!Fold(0, fc, SubSeq(batch, 1, i))

\* A batch is valid when each block inserts after those before it: the best chain of
\* the copy always replays.
LEMMA ValidBatch ==
  ASSUME NEW fc, ForkChoiceInv(fc), NEW batch \in Seq(Blocks)
  PROVE  BatchIsValid(fc, batch) <=>
           \A i \in 1..Len(batch) : InsertResult(After(fc, batch, i - 1), batch[i]) = "Ok"
<1>1. \A i : FoldLeft(InsertBlock, fc, SubSeq(batch, 1, i)) = After(fc, batch, i)
  BY InsertsAreFold DEF After
<1>2. Len(batch) \in 0..Len(batch)
  OBVIOUS
<1>3. ForkChoiceInv(After(fc, batch, Len(batch)))
  BY <1>2, InsertsInOrder DEF After
<1>4. ChainFromBlocksOk(BestChain(After(fc, batch, Len(batch))))
  BY <1>3, BestChainReplays
<1>5. BatchIsValid(fc, batch) <=>
        /\ \A i \in 1..Len(batch) : InsertResult(After(fc, batch, i - 1), batch[i]) = "Ok"
        /\ ChainFromBlocksOk(BestChain(After(fc, batch, Len(batch))))
  BY <1>1 DEF BatchIsValid
<1>6. QED
  BY <1>4, <1>5

-----------------------------------------------------------------------------
(* Screened headers                                                        *)

HeaderRecords == {Header(b) : b \in Blocks}

\* Headers that passed the screening: they hang on one another, and the first on a
\* block of the tree, at its height.  It need not be on the active chain any more.
Screened(fc, headers) ==
  /\ headers \in Seq(HeaderRecords)
  /\ headers # << >>
  /\ ParentKnown(fc, headers[1])
  /\ headers[1].height = IF headers[1].previous_block = Zero THEN 0
                         ELSE fc.nodes[headers[1].previous_block].next_height
  /\ ContiguousFrom(headers[1].previous_block, headers[1].height, headers)

\* What was screened stays screened while handlers insert blocks.
LEMMA ScreenedStays ==
  ASSUME NEW fc, NEW new, Grows(fc, new), NEW headers, Screened(fc, headers)
  PROVE  Screened(new, headers)
BY DEF Screened, Grows, ParentKnown

LEMMA LeastOf ==
  ASSUME NEW I \in SUBSET Nat, I # {}
  PROVE  Min(I) \in I /\ \A i \in I : Min(I) <= i
<1>1. \E m \in I : \A i \in I : m <= i
  BY Inserts!LeastNumber
<1>2. QED
  BY <1>1 DEF Min

\* A hash of the active chain is a known block, and it is on the chain at its height.
LEMMA OnChain ==
  ASSUME NEW fc, ForkChoiceInv(fc), NEW i \in 1..Len(BestChain(fc))
  PROVE  /\ BestChain(fc)[i].hash \in Known(fc)
         /\ fc.nodes[BestChain(fc)[i].hash].next_height = i
<1> DEFINE chain == BestChain(fc)
<1>0. chain \in Seq(Blocks)
  BY BestChainReplays
<1>1. HasTip(fc) /\ chain = ChainTo(fc)[fc.best_tip] /\ TreeInv(fc)
  BY <1>0, BestChainReplays DEF BestChain, ForkChoiceInv
<1>2. ChainGood(fc, fc.best_tip)
  BY <1>1, ChainsReplay DEF HasTip
<1>3. chain[i].hash \in Known(fc) /\ SubSeq(chain, 1, i) = ChainTo(fc)[chain[i].hash]
  BY <1>1, <1>2 DEF ChainGood
<1>4. Len(ChainTo(fc)[chain[i].hash]) = fc.nodes[chain[i].hash].next_height
  <2>1. ChainGood(fc, chain[i].hash)
    BY <1>1, <1>3, ChainsReplay
  <2>2. QED BY <2>1 DEF ChainGood
<1>5. Len(SubSeq(chain, 1, i)) = i
  <2>1. \A s \in Seq(Blocks) : \A j \in 1..Len(s) : Len(SubSeq(s, 1, j)) = j
    OBVIOUS
  <2>2. QED BY <1>0, <2>1
<1>6. QED
  BY <1>3, <1>4, <1>5

\* The screening lets through only headers that hang on a known block.
LEMMA ScreeningIsSound ==
  ASSUME NEW fc, ForkChoiceInv(fc), NEW locator, NEW headers \in Seq(HeaderRecords), headers # << >>,
         HeadersExtendLocator(BestChain(fc), locator, headers)
  PROVE  Screened(fc, headers)
<1> DEFINE p == headers[1].previous_block
           chain == BestChain(fc)
           I == {i \in 1..Len(Hashes(chain)) : Hashes(chain)[i] = p}
<1>0. I \in SUBSET Nat /\ (I # {} => Min(I) \in I)
  <2>1. chain \in Seq(Blocks) /\ Len(Hashes(chain)) \in Nat
    BY BestChainReplays DEF Hashes
  <2>2. I \in SUBSET Nat
    BY <2>1
  <2> HIDE DEF I
  <2>3. QED BY <2>2, LeastOf
<1>1. /\ AnchorOk(chain, locator, p)
      /\ ContiguousFrom(p, AnchorHeight(chain, p), headers)
  BY DEF HeadersExtendLocator
<1>2. 1 \in 1..Len(headers)
  OBVIOUS
<1>3. headers[1].height = AnchorHeight(chain, p)
  <2>1. AnchorHeight(chain, p) \in Nat
    <3>1. CASE p = Zero
      BY <3>1 DEF AnchorHeight
    <3>2. CASE p # Zero /\ I = {}
      BY <3>2 DEF AnchorHeight, SelectInSeq
    <3>3. CASE p # Zero /\ I # {}
      <4>1. Min(I) \in I
        BY <1>0, <3>3
      <4>2. AnchorHeight(chain, p) = Min(I)
        BY <3>3 DEF AnchorHeight, SelectInSeq
      <4>3. QED BY <1>0, <4>1, <4>2
    <3>4. QED BY <3>1, <3>2, <3>3
  <2>2. headers[1].height = AnchorHeight(chain, p) + 1 - 1
    BY <1>1, <1>2 DEF ContiguousFrom
  <2>3. QED BY <2>1, <2>2
<1>4. CASE p = Zero
  BY <1>1, <1>3, <1>4 DEF Screened, ParentKnown, AnchorHeight
<1>5. CASE p # Zero
  <2>1. Contains(Hashes(chain), p)
    BY <1>1, <1>5 DEF AnchorOk
  <2>2. I # {}
    BY <2>1 DEF Contains
  <2>3. Len(Hashes(chain)) = Len(chain) /\ Len(chain) \in Nat
        /\ \A i \in 1..Len(chain) : Hashes(chain)[i] = chain[i].hash
    BY BestChainReplays DEF Hashes
  <2>5. Min(I) \in I
    BY <1>0, <2>2
  <2>6. AnchorHeight(chain, p) = Min(I)
    BY <1>5, <2>2 DEF AnchorHeight, SelectInSeq
  <2> HIDE DEF I
  <2>7. Min(I) \in 1..Len(chain) /\ chain[Min(I)].hash = p
    BY <2>3, <2>5 DEF I
  <2>8. p \in Known(fc) /\ fc.nodes[p].next_height = Min(I)
    BY <2>7, OnChain
  <2>9. QED
    BY <1>1, <1>3, <1>5, <2>6, <2>8 DEF Screened, ParentKnown
<1>6. QED
  BY <1>4, <1>5

\* A block that hangs on a known one is validated against the header of its parent.
LEMMA ChildContext ==
  ASSUME NEW fc, TreeInv(fc), NEW b \in Blocks, NEW c \in Blocks,
         c.hash \in Known(fc), b.previous_block = c.hash
  PROVE  /\ ParentKnown(fc, b)
         /\ ParentContext(fc, b).height = c.height + 1
         /\ ParentContext(fc, b).hash = c.hash
         /\ ParentContext(fc, b).model = c.model_after
<1> DEFINE known == fc.nodes[c.hash]
<1>1. /\ known.block \in Blocks /\ known.block.hash = c.hash /\ known.hash = c.hash
      /\ known.next_height = known.block.height + 1
      /\ c.hash # Zero
  BY NodeFacts
<1>2. Header(known.block) = Header(c)
  BY <1>1, HashAssumption
<1>3. known.block.height = c.height /\ known.block.model_after = c.model_after
  BY <1>2 DEF Header
<1>4. ParentContext(fc, b) = NodeContext(known)
  BY <1>1 DEF ParentContext
<1>5. QED
  BY <1>1, <1>3, <1>4 DEF NodeContext, ParentKnown

\* The bodies an honest peer sends for headers.
HonestBodies(fc, headers, batch) ==
  /\ HeadersOf(batch) = headers
  /\ batch[1].model_before = ParentContext(fc, batch[1]).model
  /\ \A i \in 1..Len(batch) :
       batch[i].trace_ok /\ (i > 1 => batch[i].model_before = batch[i - 1].model_after)

\* They attach one by one to the tree the headers hang on, whatever of them is known
\* already.
LEMMA HonestBodiesAttach ==
  ASSUME NEW fc, ForkChoiceInv(fc), NEW headers, Screened(fc, headers),
         NEW batch \in Seq(Blocks), HonestBodies(fc, headers, batch)
  PROVE  BatchIsValid(fc, batch)
<1> DEFINE l == Len(batch)
           after(k) == After(fc, batch, k)
           Good(k) == k > 0 => /\ InsertResult(after(k - 1), batch[k]) = "Ok"
                               /\ batch[k].hash \in Known(after(k))
           S == {k \in Nat : Good(k)}
<1>1. l \in Nat /\ \A k \in 1..l : batch[k] \in Blocks
  OBVIOUS
<1>2. /\ after(0) = fc
      /\ \A k \in 1..l : after(k) = InsertBlock(after(k - 1), batch[k])
      /\ \A k \in 0..l : ForkChoiceInv(after(k))
  BY InsertsInOrder DEF After
<1>3. /\ Len(headers) = l
      /\ \A k \in 1..l : headers[k] = Header(batch[k])
  <2>1. HeadersOf(batch) = headers
    BY DEF HonestBodies
  <2>2. QED BY <1>1, <2>1 DEF HeadersOf
<1>4. \A k \in 1..l : /\ headers[k].hash = batch[k].hash
                      /\ headers[k].previous_block = batch[k].previous_block
                      /\ headers[k].height = batch[k].height
                      /\ headers[k].header_ok = batch[k].header_ok
  <2>1. \A b : /\ Header(b).hash = b.hash /\ Header(b).previous_block = b.previous_block
               /\ Header(b).height = b.height /\ Header(b).header_ok = b.header_ok
    BY DEF Header
  <2>2. QED BY <1>3, <2>1
<1>5. /\ \A k \in 1..l : batch[k].header_ok /\ batch[k].trace_ok
      /\ \A k \in 2..l : /\ batch[k].previous_block = batch[k - 1].hash
                         /\ batch[k].height = batch[k - 1].height + 1
                         /\ batch[k].model_before = batch[k - 1].model_after
  <2>1. ContiguousFrom(headers[1].previous_block, headers[1].height, headers)
    BY DEF Screened
  <2>2. \A k \in 1..l : /\ headers[k].previous_block =
                             IF k = 1 THEN headers[1].previous_block ELSE headers[k - 1].hash
                        /\ headers[k].height = headers[1].height + k - 1
                        /\ headers[k].header_ok
    BY <1>3, <2>1 DEF ContiguousFrom
  <2>3. ASSUME NEW k \in 2..l
        PROVE  /\ batch[k].previous_block = batch[k - 1].hash
               /\ batch[k].height = batch[k - 1].height + 1
               /\ batch[k].model_before = batch[k - 1].model_after
    <3>1. k \in 1..l /\ k - 1 \in 1..l /\ 1 \in 1..l /\ k > 1 /\ k # 1 /\ k \in Nat
      BY <1>1
    <3>2. batch[1].height \in Nat /\ headers[1].height = batch[1].height
      BY <1>1, <1>4, <3>1, BlockFacts
    <3>3. /\ headers[k].height = headers[1].height + k - 1
          /\ headers[k - 1].height = headers[1].height + (k - 1) - 1
          /\ headers[k].previous_block = headers[k - 1].hash
      BY <2>2, <3>1
    <3>4. batch[k].previous_block = batch[k - 1].hash
      BY <1>4, <3>1, <3>3
    <3>5. batch[k].height = batch[k - 1].height + 1
      <4>1. /\ headers[k].height = batch[k].height
            /\ headers[k - 1].height = batch[k - 1].height
        BY <1>4, <3>1
      <4> DEFINE first == headers[1].height
                 mine == batch[k].height
                 before == batch[k - 1].height
      <4>2. first \in Nat /\ mine = first + k - 1 /\ before = first + (k - 1) - 1
        BY <3>2, <3>3, <4>1
      <4> HIDE DEF first, mine, before
      <4>3. mine = before + 1
        BY <3>1, <4>2
      <4>4. QED BY <4>3 DEF mine, before
    <3>6. batch[k].model_before = batch[k - 1].model_after
      BY <3>1 DEF HonestBodies
    <3>7. QED BY <3>4, <3>5, <3>6
  <2>4. QED BY <1>4, <2>2, <2>3 DEF HonestBodies
<1> HIDE DEF l, after
<1>6. 0 \in S
  OBVIOUS
<1>7. ASSUME NEW k \in 1..l, k - 1 \in S
      PROVE  k \in S
  <2> DEFINE b == batch[k]
             old == after(k - 1)
  <2>1. k \in Nat /\ k > 0 /\ k - 1 \in 0..l /\ b \in Blocks
    BY <1>1
  <2>2. ForkChoiceInv(old) /\ TreeInv(old) /\ after(k) = InsertBlock(old, b)
    BY <1>2, <2>1 DEF ForkChoiceInv
  <2>3. ASSUME b.hash \notin Known(old)
        PROVE  ParentKnown(old, b) /\ ValidateBlockAfter(ParentContext(old, b), b)
    <3>1. CASE k = 1
      <4>1. old = fc /\ 1 \in 1..l
        BY <1>2, <3>1
      <4>2. /\ headers[1].previous_block = b.previous_block
            /\ headers[1].height = b.height
        BY <1>4, <3>1, <4>1
      <4>3. ParentKnown(fc, b)
        BY <4>2 DEF Screened, ParentKnown
      <4>4. /\ ParentContext(fc, b).height = b.height
            /\ ParentContext(fc, b).hash = b.previous_block
        <5>1. CASE b.previous_block = Zero
          BY <4>2, <5>1 DEF Screened, ParentContext, GenesisContext
        <5>2. CASE b.previous_block # Zero
          <6>1. fc.nodes[b.previous_block].hash = b.previous_block
            BY <4>3, <5>2, NodeFacts DEF ForkChoiceInv, ParentKnown
          <6>2. QED BY <4>2, <5>2, <6>1 DEF Screened, ParentContext, NodeContext
        <5>3. QED BY <5>1, <5>2
      <4>5. b.model_before = ParentContext(fc, b).model
        BY <3>1 DEF HonestBodies
      <4>6. QED BY <1>5, <4>1, <4>3, <4>4, <4>5 DEF ValidateBlockAfter
    <3>2. CASE k # 1
      <4>1. k \in 2..l /\ k - 1 \in 1..l /\ k - 1 > 0
        BY <1>1, <3>2
      <4>2. batch[k - 1].hash \in Known(old) /\ batch[k - 1] \in Blocks
        BY <1>1, <1>7, <4>1
      <4>3. /\ b.previous_block = batch[k - 1].hash
            /\ b.height = batch[k - 1].height + 1
            /\ b.model_before = batch[k - 1].model_after
            /\ b.header_ok /\ b.trace_ok
        BY <1>5, <4>1
      <4> DEFINE c == batch[k - 1]
      <4> HIDE DEF c, b, old
      <4>4. /\ c \in Blocks /\ c.hash \in Known(old) /\ b.previous_block = c.hash
            /\ b.height = c.height + 1 /\ b.model_before = c.model_after
            /\ b.header_ok /\ b.trace_ok
        BY <4>2, <4>3 DEF c
      <4>5. QED BY <2>1, <2>2, <4>4, ChildContext DEF ValidateBlockAfter
    <3>3. QED BY <3>1, <3>2
  <2>4. InsertResult(old, b) = "Ok"
    BY <2>3 DEF InsertResult, ContainsBlock
  <2>5. b.hash \in Known(after(k))
    <3>1. CASE b.hash \in Known(old)
      <4>1. after(k) = old
        BY <2>2, <3>1 DEF InsertBlock, Attaches, ContainsBlock
      <4>2. QED BY <3>1, <4>1
    <3>2. CASE b.hash \notin Known(old)
      <4>1. Attaches(old, b)
        BY <2>4, <3>2 DEF Attaches, ContainsBlock
      <4> HIDE DEF b, old
      <4>2. Known(InsertBlock(old, b)) = Known(old) \cup {b.hash}
        BY <2>1, <4>1, Inserted
      <4>3. QED BY <2>2, <4>2
    <3>3. QED BY <3>1, <3>2
  <2>6. QED BY <2>1, <2>4, <2>5
<1>8. 0..l \subseteq S
  <2> HIDE DEF S
  <2>1. QED BY <1>1, <1>6, <1>7, Inserts!Counting
<1>9. \A k \in 1..l : InsertResult(after(k - 1), batch[k]) = "Ok"
  BY <1>1, <1>8
<1>10. QED
  BY <1>9, ValidBatch DEF l, after

-----------------------------------------------------------------------------
(* What an honest peer answers                                             *)

\* A chain that a node can have: blocks that replay.
IsChain(chain) == chain \in Seq(Blocks) /\ ChainFromBlocksOk(chain)

\* Each block continues the one before it.
LEMMA ChainLinks ==
  ASSUME NEW chain, IsChain(chain), NEW i \in 1..Len(chain)
  PROVE  /\ chain[i] \in Blocks
         /\ chain[i].hash \in Nat \ {Zero}
         /\ chain[i].height = i - 1
         /\ chain[i].header_ok /\ chain[i].trace_ok
         /\ i = 1 => chain[i].previous_block = Zero /\ chain[i].model_before = GenesisModel
         /\ i # 1 => /\ i - 1 \in 1..Len(chain)
                     /\ chain[i].previous_block = chain[i - 1].hash
                     /\ chain[i].model_before = chain[i - 1].model_after
<1> DEFINE s == SubSeq(chain, 1, i - 1)
<1>1. chain \in Seq(Blocks) /\ chain[i] \in Blocks
  BY DEF IsChain
<1>2. Len(s) = i - 1 /\ (i # 1 => s[i - 1] = chain[i - 1]) /\ (i # 1 => i - 1 \in 1..Len(chain))
  BY <1>1
<1>3. i = 1 => s = << >>
  BY <1>1
<1>4. i # 1 => s # << >>
  BY <1>2
<1>5. ValidateNextBlock(s, chain[i])
  BY DEF IsChain, ChainFromBlocksOk
<1> HIDE DEF s
<1>6. /\ chain[i].height = Len(s)
      /\ chain[i].previous_block = HeadHash(s)
      /\ chain[i].model_before = CurrentModel(s)
      /\ chain[i].header_ok /\ chain[i].trace_ok
  BY <1>5 DEF ValidateNextBlock, ValidateBlockAfter
<1>7. chain[i].hash \in Nat \ {Zero}
  BY <1>1, BlockFacts
<1>8. CASE i = 1
  BY <1>1, <1>2, <1>3, <1>6, <1>7, <1>8 DEF HeadHash, CurrentModel
<1>9. CASE i # 1
  BY <1>1, <1>2, <1>4, <1>6, <1>7, <1>9 DEF HeadHash, CurrentModel
<1>10. QED
  BY <1>8, <1>9

\* Where a hash is on a chain, 0 if it is not.
Index(chain, hash) == SelectInSeq(Hashes(chain), LAMBDA h : h = hash)

\* A hash is on two chains at the same place, its height, or not at all.
LEMMA SamePlace ==
  ASSUME NEW c, IsChain(c), NEW i \in 1..Len(c), NEW d, IsChain(d), NEW j \in 1..Len(d),
         c[i].hash = d[j].hash
  PROVE  i = j
<1>1. c[i].height = i - 1 /\ d[j].height = j - 1 /\ c[i] \in Blocks /\ d[j] \in Blocks
  BY ChainLinks
<1>2. c[i].height = d[j].height
  BY <1>1, SameHeader
<1>3. QED
  BY <1>1, <1>2

LEMMA IndexIs ==
  ASSUME NEW chain, IsChain(chain), NEW hash
  PROVE  /\ Index(chain, hash) \in 0..Len(chain)
         /\ Index(chain, hash) # 0 => chain[Index(chain, hash)].hash = hash
         /\ \A i \in 1..Len(chain) : chain[i].hash = hash => Index(chain, hash) = i
<1> DEFINE hs == Hashes(chain)
           I == {i \in 1..Len(hs) : hs[i] = hash}
<1>1. Len(hs) = Len(chain) /\ Len(chain) \in Nat /\ \A i \in 1..Len(chain) : hs[i] = chain[i].hash
  BY DEF Hashes, IsChain
<1>2. Index(chain, hash) = IF I # {} THEN Min(I) ELSE 0
  BY DEF Index, SelectInSeq
<1>3. I \in SUBSET Nat
  BY <1>1
<1>4. I # {} => Min(I) \in I
  <2> HIDE DEF I
  <2>1. QED
    BY <1>3, LeastOf
<1>5. \A i : i \in I <=> i \in 1..Len(chain) /\ chain[i].hash = hash
  BY <1>1
<1> HIDE DEF I
<1>6. \A i \in I, j \in I : i = j
  BY <1>5, SamePlace
<1>7. \A i \in I : Min(I) = i
  BY <1>4, <1>6
<1>8. /\ Index(chain, hash) \in 0..Len(chain)
      /\ Index(chain, hash) # 0 => chain[Index(chain, hash)].hash = hash
  BY <1>1, <1>2, <1>4, <1>5
<1>9. \A i \in 1..Len(chain) : chain[i].hash = hash => Index(chain, hash) = i
  BY <1>2, <1>5, <1>7
<1>10. QED
  BY <1>8, <1>9

\* The entry of a locator that blocks_after_locator starts at, and where that is.
OnIt(chain, hash) == hash = Zero \/ Index(chain, hash) # 0

Common(chain, locator) == SelectInSeq(locator, LAMBDA h : OnIt(chain, h))

AnswerStart(chain, locator) ==
  IF Common(chain, locator) = 0 THEN 0 ELSE Index(chain, locator[Common(chain, locator)])

AnswerEnd(chain, start, limit) == IF start + limit < Len(chain) THEN start + limit ELSE Len(chain)

LEMMA AnswerFromStart ==
  ASSUME NEW chain, NEW locator, NEW limit
  PROVE  BlocksAfterLocator(chain, locator, limit)
           = SubSeq(chain, AnswerStart(chain, locator) + 1, AnswerEnd(chain, AnswerStart(chain, locator), limit))
BY DEF BlocksAfterLocator, AnswerStart, Common, OnIt, Index, AnswerEnd

\* Genesis is no block of a chain.
LEMMA ZeroOffChain ==
  ASSUME NEW chain, IsChain(chain)
  PROVE  Index(chain, Zero) = 0
<1>1. \A i \in 1..Len(chain) : chain[i].hash # Zero
  BY ChainLinks
<1>2. Len(chain) \in Nat
  BY DEF IsChain
<1>3. QED
  BY <1>1, <1>2, IndexIs

\* The first entry that is on the chain decides.
LEMMA CommonIs ==
  ASSUME NEW chain, NEW X, NEW locator \in Seq(X), NEW k \in 1..Len(locator),
         OnIt(chain, locator[k]), \A j \in 1..(k - 1) : ~OnIt(chain, locator[j])
  PROVE  Common(chain, locator) = k
<1> DEFINE I == {j \in 1..Len(locator) : OnIt(chain, locator[j])}
<1>1. Common(chain, locator) = IF I # {} THEN Min(I) ELSE 0
  BY DEF Common, SelectInSeq
<1>2. I \in SUBSET Nat /\ k \in I
  OBVIOUS
<1>3. \A i \in I : k <= i
  <2>1. \A i \in 1..Len(locator) : ~(k <= i) => i \in 1..(k - 1)
    OBVIOUS
  <2>2. QED
    BY <2>1
<1> HIDE DEF I
<1>4. Min(I) \in I /\ \A i \in I : Min(I) <= i
  BY <1>2, LeastOf
<1>5. Min(I) \in Nat /\ k \in Nat /\ Min(I) <= k /\ k <= Min(I)
  BY <1>2, <1>3, <1>4
<1>6. QED
  BY <1>1, <1>2, <1>5

LEMMA NothingCommon ==
  ASSUME NEW chain, NEW X, NEW locator \in Seq(X),
         \A j \in 1..Len(locator) : ~OnIt(chain, locator[j])
  PROVE  Common(chain, locator) = 0
BY DEF Common, SelectInSeq

LEMMA CommonCases ==
  ASSUME NEW chain, NEW X, NEW locator \in Seq(X)
  PROVE  \/ Common(chain, locator) = 0
         \/ /\ Common(chain, locator) \in 1..Len(locator)
            /\ OnIt(chain, locator[Common(chain, locator)])
<1> DEFINE I == {j \in 1..Len(locator) : OnIt(chain, locator[j])}
<1>1. Common(chain, locator) = IF I # {} THEN Min(I) ELSE 0
  BY DEF Common, SelectInSeq
<1>2. I \in SUBSET Nat
  OBVIOUS
<1>3. I # {} => Min(I) \in I
  <2> HIDE DEF I
  <2>1. QED
    BY <1>2, LeastOf
<1>4. QED
  BY <1>1, <1>3

\* An answer starts at genesis or behind an entry of the locator.
LEMMA StartCases ==
  ASSUME NEW chain, IsChain(chain), NEW X, NEW locator \in Seq(X)
  PROVE  /\ AnswerStart(chain, locator) \in 0..Len(chain)
         /\ AnswerStart(chain, locator) # 0 =>
              \E k \in 1..Len(locator) : locator[k] = chain[AnswerStart(chain, locator)].hash
<1> DEFINE k == Common(chain, locator)
<1>1. Len(chain) \in Nat
  BY DEF IsChain
<1>2. CASE k = 0
  BY <1>1, <1>2 DEF AnswerStart
<1>3. CASE k # 0
  <2>1. k \in 1..Len(locator)
    BY <1>3, CommonCases
  <2>2. AnswerStart(chain, locator) = Index(chain, locator[k])
    BY <1>3 DEF AnswerStart
  <2> HIDE DEF k
  <2>3. QED
    BY <2>1, <2>2, IndexIs
<1>4. QED
  BY <1>2, <1>3

\* A part of a chain.
Part(chain, start, end) == SubSeq(chain, start + 1, end)

LEMMA PartIs ==
  ASSUME NEW chain \in Seq(Blocks), NEW start \in 0..Len(chain), NEW end \in start..Len(chain)
  PROVE  LET headers == HeadersOf(Part(chain, start, end))
         IN  /\ headers \in Seq(HeaderRecords)
             /\ Len(headers) = end - start
             /\ \A i \in 1..(end - start) : /\ headers[i] = Header(chain[start + i])
                                           /\ start + i \in 1..Len(chain)
<1> DEFINE part == Part(chain, start, end)
<1>1. part \in Seq(Blocks) /\ Len(part) = end - start
  BY DEF Part
<1>2. \A i \in 1..(end - start) : part[i] = chain[start + i] /\ start + i \in 1..Len(chain)
  BY DEF Part
<1> HIDE DEF part
<1>3. \A i \in 1..Len(part) : Header(part[i]) \in HeaderRecords
  BY <1>1 DEF HeaderRecords
<1>4. HeadersOf(part) \in Seq(HeaderRecords)
  BY <1>1, <1>3 DEF HeadersOf
<1>5. Len(HeadersOf(part)) = Len(part)
  BY <1>1 DEF HeadersOf
<1>6. \A i \in 1..Len(part) : HeadersOf(part)[i] = Header(part[i])
  BY DEF HeadersOf
<1>7. QED
  BY <1>1, <1>2, <1>4, <1>5, <1>6 DEF part

\* The answer to a locator is a part of the chain, within the limit.
LEMMA AnswerIsPart ==
  ASSUME NEW chain, IsChain(chain), NEW X, NEW locator \in Seq(X), NEW limit \in Nat
  PROVE  LET start == AnswerStart(chain, locator)
             end == AnswerEnd(chain, start, limit)
         IN  /\ start \in 0..Len(chain)
             /\ end \in start..Len(chain)
             /\ end - start <= limit
             /\ BlocksAfterLocator(chain, locator, limit) = Part(chain, start, end)
<1> DEFINE start == AnswerStart(chain, locator)
           end == AnswerEnd(chain, start, limit)
<1>1. start \in 0..Len(chain) /\ Len(chain) \in Nat
  BY StartCases DEF IsChain
<1>2. BlocksAfterLocator(chain, locator, limit) = Part(chain, start, end)
  BY AnswerFromStart DEF Part
<1> HIDE DEF start
<1>3. end \in start..Len(chain) /\ end - start <= limit
  BY <1>1 DEF AnswerEnd
<1>4. QED
  BY <1>1, <1>2, <1>3 DEF start

\* The headers of a part of a chain continue what the part starts at.
LEMMA PartContinues ==
  ASSUME NEW chain, IsChain(chain), NEW start \in 0..Len(chain), NEW end \in start..Len(chain),
         start < end
  PROVE  LET headers == HeadersOf(Part(chain, start, end))
             parent == headers[1].previous_block
         IN  /\ headers # << >>
             /\ start = 0 => parent = Zero
             /\ start # 0 => start \in 1..Len(chain) /\ parent = chain[start].hash
             /\ ContiguousFrom(parent, start, headers)
<1> DEFINE headers == HeadersOf(Part(chain, start, end))
           parent == headers[1].previous_block
           n == end - start
<1>0. chain \in Seq(Blocks) /\ Len(chain) \in Nat
  BY DEF IsChain
<1>1. /\ headers \in Seq(HeaderRecords)
      /\ Len(headers) = n
      /\ \A i \in 1..n : headers[i] = Header(chain[start + i]) /\ start + i \in 1..Len(chain)
  BY <1>0, PartIs
<1> HIDE DEF headers
<1>2. n \in Nat /\ 1 \in 1..n /\ start \in Nat
  BY <1>0
<1>3. headers # << >>
  BY <1>1, <1>2
<1>4. ASSUME NEW i \in 1..n
      PROVE  /\ headers[i].height = start + i - 1
             /\ headers[i].hash = chain[start + i].hash
             /\ headers[i].previous_block = chain[start + i].previous_block
             /\ headers[i].header_ok
  <2> DEFINE b == chain[start + i]
  <2>1. b.height = (start + i) - 1 /\ b.header_ok
    BY <1>1, ChainLinks
  <2>2. headers[i] = Header(b)
    BY <1>1
  <2> HIDE DEF b
  <2>3. /\ Header(b).height = b.height /\ Header(b).hash = b.hash
        /\ Header(b).previous_block = b.previous_block /\ Header(b).header_ok = b.header_ok
    BY DEF Header
  <2>4. QED
    BY <2>1, <2>2, <2>3 DEF b
<1>5. start = 0 => parent = Zero
  <2>1. start = 0 => start + 1 = 1
    BY <1>2
  <2>2. 1 \in 1..Len(chain) /\ chain[1].previous_block = Zero
    BY <1>0, ChainLinks
  <2>3. parent = chain[start + 1].previous_block
    BY <1>2, <1>4
  <2>4. QED
    BY <2>1, <2>2, <2>3
<1>6. start # 0 => start \in 1..Len(chain) /\ parent = chain[start].hash
  <2>1. start # 0 => start + 1 # 1 /\ (start + 1) - 1 = start
    BY <1>2
  <2>2. start + 1 \in 1..Len(chain)
    BY <1>1, <1>2
  <2>3. start # 0 => chain[start + 1].previous_block = chain[start].hash /\ start \in 1..Len(chain)
    BY <2>1, <2>2, ChainLinks
  <2>4. QED
    BY <1>2, <1>4, <2>3
<1>7. ASSUME NEW i \in 1..n, i # 1
      PROVE  headers[i].previous_block = headers[i - 1].hash
  <2>1. i - 1 \in 1..n /\ start + i # 1 /\ (start + i) - 1 = start + (i - 1)
    BY <1>2, <1>7
  <2>2. chain[start + i].previous_block = chain[(start + i) - 1].hash
    <3> DEFINE j == start + i
    <3>1. j \in 1..Len(chain) /\ j # 1
      BY <1>1, <2>1
    <3> HIDE DEF j
    <3>2. chain[j].previous_block = chain[j - 1].hash
      BY <3>1, ChainLinks
    <3>3. QED
      BY <3>2 DEF j
  <2>3. QED
    BY <1>4, <2>1, <2>2
<1>8. ContiguousFrom(parent, start, headers)
  BY <1>1, <1>4, <1>7 DEF ContiguousFrom
<1>9. QED
  BY <1>3, <1>5, <1>6, <1>8 DEF headers

\* The screening lets an honest answer through that starts at genesis, where that was
\* asked for, or behind a block of the own chain that is in the locator.
LEMMA HonestPartScreened ==
  ASSUME NEW own, IsChain(own), NEW locator,
         NEW chain, IsChain(chain), NEW start \in 0..Len(chain), NEW end \in start..Len(chain),
         start = 0 => own = << >> \/ Contains(locator, Zero),
         start # 0 => /\ Contains(locator, chain[start].hash)
                      /\ \E i \in 1..Len(own) : own[i].hash = chain[start].hash
  PROVE  HeadersExtendLocator(own, locator, HeadersOf(Part(chain, start, end)))
<1> DEFINE headers == HeadersOf(Part(chain, start, end))
           parent == headers[1].previous_block
<1>1. Len(chain) \in Nat /\ chain \in Seq(Blocks) /\ start \in Nat
  BY DEF IsChain
<1>2. CASE ~(start < end)
  <2>1. Len(headers) = 0 /\ headers \in Seq(HeaderRecords)
    BY <1>1, <1>2, PartIs
  <2> HIDE DEF headers
  <2>2. headers = << >>
    BY <2>1
  <2>3. QED
    BY <2>2 DEF HeadersExtendLocator, headers
<1>3. CASE start < end
  <2>1. /\ start = 0 => parent = Zero
        /\ start # 0 => start \in 1..Len(chain) /\ parent = chain[start].hash
        /\ ContiguousFrom(parent, start, headers)
    BY <1>3, PartContinues
  <2> HIDE DEF headers
  <2>2. CASE start = 0
    BY <2>1, <2>2 DEF HeadersExtendLocator, AnchorOk, AnchorHeight, headers
  <2>3. CASE start # 0
    <3>1. PICK i \in 1..Len(own) : own[i].hash = chain[start].hash
      BY <2>3
    <3>2. parent = own[i].hash /\ parent # Zero
      BY <2>1, <2>3, <3>1, ChainLinks
    <3>3. i = start
      BY <2>1, <2>3, <3>1, SamePlace
    <3>4. Index(own, parent) = i
      BY <3>2, IndexIs
    <3>5. AnchorHeight(own, parent) = start
      BY <3>2, <3>3, <3>4 DEF AnchorHeight, Index
    <3>6. Contains(Hashes(own), parent)
      <4>1. own \in Seq(Blocks)
        BY DEF IsChain
      <4>2. Len(Hashes(own)) = Len(own) /\ Hashes(own)[i] = own[i].hash
        BY <4>1 DEF Hashes
      <4>3. QED
        BY <3>2, <4>2 DEF Contains
    <3>7. Contains(locator, parent)
      BY <2>1, <2>3
    <3>8. AnchorOk(own, locator, parent)
      BY <3>2, <3>6, <3>7 DEF AnchorOk
    <3>9. QED
      BY <2>1, <3>5, <3>8 DEF HeadersExtendLocator, headers
  <2>4. QED
    BY <2>2, <2>3
<1>4. QED
  BY <1>2, <1>3

-----------------------------------------------------------------------------
(* Locators                                                                *)

\* The entries of a locator: the newest hashes of its chain, newest first, and genesis
\* behind them when all of them fit.
Newest(chain, max) == IF Len(chain) < max THEN Len(chain) ELSE max

LEMMA LocatorEntries ==
  ASSUME NEW chain \in Seq(Blocks), NEW max \in Nat
  PROVE  LET locator == BlockLocator(chain, max)
             n == Newest(chain, max)
         IN  /\ locator \in Seq(Nat)
             /\ n \in 0..Len(chain) /\ n <= max
             /\ \A i \in 1..n : /\ i \in 1..Len(locator)
                               /\ Len(chain) - i + 1 \in 1..Len(chain)
                               /\ locator[i] = chain[Len(chain) - i + 1].hash
             /\ (n < max /\ chain # << >>) =>
                  Len(locator) = n + 1 /\ locator[n + 1] = Zero
             /\ ~(n < max /\ chain # << >>) => Len(locator) = n
<1> DEFINE n == Newest(chain, max)
           r == Reverse(chain)
           s == SubSeq(r, 1, n)
           tail == IF n < max /\ chain # << >> THEN <<Zero>> ELSE << >>
           locator == BlockLocator(chain, max)
<1>1. /\ max \in Nat /\ Len(chain) \in Nat
      /\ n \in 0..Len(chain) /\ n <= max /\ n \in Nat
  BY DEF Newest
<1>2. locator = Hashes(s) \o tail
  BY DEF BlockLocator, Newest
<1> HIDE DEF n, locator
<1>3. /\ r \in Seq(Blocks) /\ Len(r) = Len(chain)
      /\ \A i \in 1..Len(chain) : r[i] = chain[(Len(chain) - i) + 1]
  BY DEF Reverse
<1> HIDE DEF r
<1>4. s \in Seq(Blocks) /\ Len(s) = n /\ \A i \in 1..n : s[i] = r[i] /\ i \in 1..Len(chain)
  BY <1>1, <1>3
<1> HIDE DEF s
<1>5. /\ Hashes(s) \in Seq(Nat) /\ Len(Hashes(s)) = n
      /\ \A i \in 1..n : Hashes(s)[i] = s[i].hash
  <2>1. \A i \in 1..Len(s) : s[i].hash \in Nat
    BY <1>4, BlockFacts
  <2>2. QED
    BY <1>1, <1>4, <2>1 DEF Hashes
<1>6. /\ tail \in Seq(Nat)
      /\ (n < max /\ chain # << >>) => Len(tail) = 1 /\ tail[1] = Zero
      /\ ~(n < max /\ chain # << >>) => Len(tail) = 0
  BY DEF Zero
<1> HIDE DEF tail
<1>7. \A p, q \in Seq(Nat) : /\ p \o q \in Seq(Nat) /\ Len(p \o q) = Len(p) + Len(q)
                            /\ \A i \in 1..Len(p) : (p \o q)[i] = p[i]
                            /\ Len(q) = 1 => (p \o q)[Len(p) + 1] = q[1]
  OBVIOUS
<1>8. /\ locator \in Seq(Nat) /\ Len(locator) = n + Len(tail)
      /\ \A i \in 1..n : locator[i] = Hashes(s)[i]
      /\ Len(tail) = 1 => locator[n + 1] = tail[1]
  <2> DEFINE p == Hashes(s)
  <2>1. /\ p \in Seq(Nat) /\ tail \in Seq(Nat) /\ Len(p) = n /\ locator = p \o tail
    BY <1>2, <1>5, <1>6
  <2> HIDE DEF p
  <2>2. locator \in Seq(Nat) /\ Len(locator) = n + Len(tail)
    BY <1>7, <2>1
  <2>3. \A i \in 1..n : locator[i] = p[i]
    BY <1>7, <2>1
  <2>4. Len(tail) = 1 => locator[n + 1] = tail[1]
    BY <1>7, <2>1
  <2>5. QED BY <2>2, <2>3, <2>4 DEF p
<1>9. \A i \in 1..n : /\ i \in 1..Len(locator)
                     /\ Len(chain) - i + 1 \in 1..Len(chain)
                     /\ locator[i] = chain[Len(chain) - i + 1].hash
  <2> TAKE i \in 1..n
  <2>0. i \in 1..Len(chain) /\ s[i] = r[i] /\ locator[i] = s[i].hash
    BY <1>4, <1>5, <1>8
  <2>1. locator[i] = chain[(Len(chain) - i) + 1].hash /\ i \in 1..Len(chain)
    BY <1>3, <2>0
  <2>2. Len(tail) \in Nat
    BY <1>6
  <2>3. i \in 1..Len(locator)
    BY <1>1, <1>8, <2>2
  <2>4. QED
    BY <1>1, <2>1, <2>3
<1>10. (n < max /\ chain # << >>) => Len(locator) = n + 1 /\ locator[n + 1] = Zero
  BY <1>6, <1>8
<1>11. ~(n < max /\ chain # << >>) => Len(locator) = n
  BY <1>1, <1>6, <1>8
<1>12. QED
  BY <1>1, <1>8, <1>9, <1>10, <1>11 DEF n, locator

LEMMA ContainsIsMember ==
  ASSUME NEW X, NEW s \in Seq(X), NEW e
  PROVE  Contains(s, e) <=> e \in ToSet(s)
BY DEF Contains, ToSet

-----------------------------------------------------------------------------
(* Theorems about ForkChoice                                                 *)

\* The inductive invariant: after any sequence of insert_block and
\* mine_next_block the tree is valid and its tip the heaviest block.
THEOREM ForkChoiceInvariance == ForkChoiceSpec => []ForkChoiceInv(tree)
<1>1. ForkChoiceInit => ForkChoiceInv(tree)
  BY EmptyInv DEF ForkChoiceInit
<1>2. ForkChoiceInv(tree) /\ [ForkChoiceNext]_tree => ForkChoiceInv(tree)'
  <2> SUFFICES ASSUME ForkChoiceInv(tree), [ForkChoiceNext]_tree
               PROVE  ForkChoiceInv(tree)'
    OBVIOUS
  <2>1. ASSUME NEW b \in Blocks, Insert(b) \/ Mine(b)
        PROVE  ForkChoiceInv(tree)'
    <3>1. tree' = InsertBlock(tree, b)
      BY <2>1 DEF Insert, Mine
    <3>2. ForkChoiceInv(InsertBlock(tree, b))
      BY InsertKeepsInv
    <3>3. QED BY <3>1, <3>2
  <2>2. CASE UNCHANGED tree
    BY <2>2
  <2>3. QED
    BY <2>1, <2>2 DEF ForkChoiceNext
<1>3. QED
  BY <1>1, <1>2, PTL DEF ForkChoiceSpec

\* ForkChoiceState is always well typed.
THEOREM ForkChoiceTypeCorrect == ForkChoiceSpec => []ForkChoiceTypeOK
<1>1. ForkChoiceInv(tree) => ForkChoiceTypeOK
  BY DEF ForkChoiceInv, TreeInv, ForkChoiceTypeOK
<1>2. QED
  BY <1>1, ForkChoiceInvariance, PTL

\* Each stored block validates against its stored parent, and its score is the
\* work of its whole chain.
THEOREM TreeAlwaysValid == ForkChoiceSpec => []TreeIsValid
<1>1. ForkChoiceInv(tree) => TreeIsValid
  BY DEF ForkChoiceInv, TreeInv, TreeIsValid, ForkChoiceTypeOK
<1>2. QED
  BY <1>1, ForkChoiceInvariance, PTL

\* maybe_update_best keeps best_tip at the heaviest of all known blocks, although
\* it compares the newcomer with the tip alone.
THEOREM TipAlwaysHeaviest == ForkChoiceSpec => []BestIsHeaviest
<1>1. ForkChoiceInv(tree) => BestIsHeaviest
  BY DEF ForkChoiceInv, BestIsHeaviest
<1>2. QED
  BY <1>1, ForkChoiceInvariance, PTL

\* The expect() of mine_once on insert_block never fires, and the mined block is
\* what activate_best_chain switches to.
THEOREM MinedBlockAlwaysBest == ForkChoiceSpec => []MinedBlockBecomesBest
<1>1. ForkChoiceInv(tree) => MinedBlockBecomesBest
  BY MinedBlockAttaches DEF MinedBlockBecomesBest
<1>2. QED
  BY <1>1, ForkChoiceInvariance, PTL

\* The walk back from best_tip ends in genesis, and replaying what it visits through
\* ChainState is never refused: activate_best_chain cannot fail, whatever was inserted.
THEOREM BestChainAlwaysActivates == ForkChoiceSpec => []BestChainActivates
<1>1. ForkChoiceInv(tree) => BestChainActivates
  BY BestChainReplays DEF BestChainActivates, BestHash
<1>2. QED
  BY <1>1, ForkChoiceInvariance, PTL

\* No step forgets or replaces a known block.
THEOREM NeverForgets == ForkChoiceSpec => KnownForever
<1>1. [ForkChoiceNext]_tree =>
        [\A h \in Known(tree) :
           /\ h \in Known(tree)'
           /\ tree'.nodes[h] = tree.nodes[h]]_tree
  <2> SUFFICES ASSUME NEW b \in Blocks, tree' = InsertBlock(tree, b),
                      NEW h \in Known(tree)
               PROVE  /\ h \in Known(tree')
                      /\ tree'.nodes[h] = tree.nodes[h]
    BY DEF ForkChoiceNext, Insert, Mine, Known
  <2>1. CASE Attaches(tree, b)
    <3>1. LET new == InsertBlock(tree, b)
          IN  /\ Known(new) = Known(tree) \cup {b.hash}
              /\ \A k \in Known(tree) : new.nodes[k] = tree.nodes[k]
      BY <2>1, Inserted
    <3>2. QED BY <3>1
  <2>2. CASE ~Attaches(tree, b)
    BY <2>2 DEF InsertBlock
  <2>3. QED
    BY <2>1, <2>2
<1>2. QED
  BY <1>1, PTL DEF ForkChoiceSpec, KnownForever

LEMMA TipStep ==
  ASSUME ForkChoiceInv(tree), ForkChoiceNext, tree'.best_tip # tree.best_tip
  PROVE  /\ tree'.best_tip \in Known(tree') \ Known(tree)
         /\ HasTip(tree) =>
              Heavier(tree', tree'.best_tip, tree.best_tip)
<1>1. PICK b \in Blocks : tree' = InsertBlock(tree, b)
  BY DEF ForkChoiceNext, Insert, Mine
<1>2. Attaches(tree, b)
  BY <1>1 DEF InsertBlock
<1>3. LET new == InsertBlock(tree, b)
      IN  /\ b.hash \notin Known(tree)
          /\ Known(new) = Known(tree) \cup {b.hash}
  BY <1>2, Inserted
<1>4. LET new == InsertBlock(tree, b)
      IN  new.best_tip # tree.best_tip =>
            /\ new.best_tip = b.hash
            /\ HasTip(tree) => Heavier(new, b.hash, tree.best_tip)
  BY <1>2, InsertKeepsHeaviest
<1>5. QED
  BY <1>1, <1>3, <1>4

\* The tip changes only to the block that just arrived, and only upwards.
THEOREM TipNeverWorse == ForkChoiceSpec => TipOnlyImproves
<1>1. ForkChoiceInv(tree) /\ [ForkChoiceNext]_tree =>
        [tree'.best_tip # tree.best_tip =>
           /\ tree'.best_tip \in Known(tree)' \ Known(tree)
           /\ HasTip(tree) =>
                Heavier(tree', tree'.best_tip, tree.best_tip)]_tree
  BY TipStep DEF Known
<1>2. QED
  BY <1>1, ForkChoiceInvariance, PTL DEF ForkChoiceSpec, TipOnlyImproves

-----------------------------------------------------------------------------
(* The fork choice implements HeaviestTip                                    *)

\* In the refinement a known hash has the height of the block stored under it.
LEMMA HeightOfKnown ==
  ASSUME NEW fc, TreeInv(fc), NEW h \in Known(fc)
  PROVE  /\ h \in {b.hash : b \in Blocks}
         /\ BlockOf(h).height = fc.nodes[h].block.height
<1>1. fc.nodes[h].block \in Blocks /\ fc.nodes[h].block.hash = h
  BY NodeFacts
<1>2. BlockOf(h) \in Blocks /\ BlockOf(h).hash = h
  BY <1>1 DEF BlockOf
<1>3. QED
  BY <1>1, <1>2, SameHeader

\* A tip that is the heaviest of the tree is the head the abstract node shows.
LEMMA TipIsHead ==
  ASSUME NEW fc, ForkChoiceInv(fc)
  PROVE  ForkChoiceTip!IsHead(fc.best_tip, Known(fc))
<1>1. CASE Known(fc) = {}
  BY <1>1 DEF ForkChoiceTip!IsHead, ForkChoiceInv, TipIsHeaviest
<1>2. CASE Known(fc) # {}
  <2>1. /\ fc.best_tip \in Known(fc)
        /\ \A h \in Known(fc) \ {fc.best_tip} : Heavier(fc, fc.best_tip, h)
    BY <1>2 DEF ForkChoiceInv, TipIsHeaviest, HasTip
  <2>2. \A h \in Known(fc) :
          /\ h \in {b.hash : b \in Blocks}
          /\ BlockOf(h).height = fc.nodes[h].block.height
    BY HeightOfKnown DEF ForkChoiceInv
  <2>3. \A h \in Known(fc) \ {fc.best_tip} : ForkChoiceTip!Greater(fc.best_tip, h)
    BY <2>1, <2>2 DEF ForkChoiceTip!Greater, Heavier
  <2>4. QED
    BY <1>2, <2>1, <2>3 DEF ForkChoiceTip!IsHead
<1>3. QED
  BY <1>1, <1>2

\* Every step of the fork choice is a Learn step of HeaviestTip or leaves it alone.
LEMMA ForkChoiceStepRefines ==
  ASSUME ForkChoiceInv(tree), ForkChoiceInv(tree'), [ForkChoiceNext]_tree
  PROVE  [ForkChoiceTip!Next]_(ForkChoiceTip!vars)
<1>1. CASE UNCHANGED tree
  BY <1>1 DEF ForkChoiceTip!vars, Known
<1>2. CASE ForkChoiceNext
  <2>1. PICK b \in Blocks : tree' = InsertBlock(tree, b)
    BY <1>2 DEF ForkChoiceNext, Insert, Mine
  <2>2. CASE ~Attaches(tree, b)
    <3>1. tree' = tree
      BY <2>1, <2>2 DEF InsertBlock
    <3>2. QED BY <3>1 DEF ForkChoiceTip!vars, Known
  <2>3. CASE Attaches(tree, b)
    <3>1. LET new == InsertBlock(tree, b)
          IN  /\ b.hash \notin Known(tree)
              /\ Known(new) = Known(tree) \cup {b.hash}
      BY <2>3, Inserted
    <3>2. Known(tree)' = Known(tree) \cup {b.hash}
      BY <2>1, <3>1 DEF Known
    <3>3. ForkChoiceTip!IsHead(tree'.best_tip, Known(tree'))
      BY TipIsHead
    <3>4. ForkChoiceTip!Learn({b.hash})
      BY <3>1, <3>2, <3>3 DEF ForkChoiceTip!Learn, ForkChoiceTip!IsHead, ForkChoiceTip!Greater, Known
    <3>5. QED
      BY <3>4 DEF ForkChoiceTip!Next
  <2>4. QED BY <2>2, <2>3
<1>3. QED
  BY <1>1, <1>2

\* The head of the fork choice is a function of the blocks it knows, in whatever
\* order they came.
THEOREM RefinesHeaviestTip == ForkChoiceSpec => IsHeaviestTip
<1>1. ForkChoiceInit => ForkChoiceTip!Init
  BY DEF ForkChoiceInit, ForkChoiceTip!Init, ForkChoiceTip!IsHead, EmptyForkChoice, Known
<1>2. ForkChoiceInv(tree) /\ ForkChoiceInv(tree)' /\ [ForkChoiceNext]_tree
        => [ForkChoiceTip!Next]_(ForkChoiceTip!vars)
  BY ForkChoiceStepRefines
<1>3. QED
  BY <1>1, <1>2, ForkChoiceInvariance, PTL DEF ForkChoiceSpec, IsHeaviestTip, ForkChoiceTip!Spec
=============================================================================
