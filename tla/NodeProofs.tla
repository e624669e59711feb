------------------------------ MODULE NodeProofs ------------------------------
(***************************************************************************)
(* Theorems about Node, for every set of blocks, any limits and any        *)
(* interleaving of mining, gossip and the critical sections of a sync.     *)
(*                                                                         *)
(* NodeInv is the inductive invariant.  NodeGood says of the node state    *)
(* that the active chain is the best branch of a valid tree; a critical    *)
(* section is GoodStep when it keeps that and counts what it did.  For a   *)
(* batch of blocks this is an induction over the batch, in FoldTheorems.   *)
(***************************************************************************)
EXTENDS Node, BlockTreeProofs, FiniteSetTheorems

-----------------------------------------------------------------------------
(* The node state, said of a value                                           *)

NodeRecord(n) ==
  n = [fork_choice |-> n.fork_choice, chain |-> n.chain,
       accepted_blocks |-> n.accepted_blocks, rejected_blocks |-> n.rejected_blocks,
       mined_blocks |-> n.mined_blocks, synced_blocks |-> n.synced_blocks,
       failed_syncs |-> n.failed_syncs, reorgs |-> n.reorgs]

\* The active chain is the best branch of a valid tree.
NodeGood(n) ==
  /\ NodeRecord(n)
  /\ \A c \in Counters : n[c] \in Nat
  /\ ForkChoiceInv(n.fork_choice)
  /\ IsFiniteSet(Known(n.fork_choice))
  /\ n.chain = BestChain(n.fork_choice)

\* The blocks that the counters of a node account for.
Learned(n) == n.accepted_blocks + n.mined_blocks + n.synced_blocks

-----------------------------------------------------------------------------
LEMMA HeadOfGood ==
  ASSUME NEW n, NodeGood(n)
  PROVE  /\ HeadHash(n.chain) = n.fork_choice.best_tip
         /\ n.chain \in Seq(Blocks)
         /\ ChainFromBlocksOk(n.chain)
         /\ n.chain = << >> <=> n.fork_choice.best_tip = Zero
<1>1. ForkChoiceInv(n.fork_choice) /\ n.chain = BestChain(n.fork_choice)
  BY DEF NodeGood
<1>2. n.chain = << >> <=> Known(n.fork_choice) = {}
  BY <1>1, BestChainReplays
<1>3. QED
  BY <1>1, <1>2, BestChainReplays DEF ForkChoiceInv, TipIsHeaviest

\* activate_best_chain after an attached block never fails and makes the best chain
\* the active one.
LEMMA ActivatedAfter ==
  ASSUME NEW n, NodeGood(n), NEW b \in Blocks, Attaches(n.fork_choice, b),
         NEW m, NodeRecord(m), m.fork_choice = InsertBlock(n.fork_choice, b), m.chain = n.chain
  PROVE  /\ ActivationOk(m)
         /\ ActivateBestChain(m) = [m EXCEPT !.chain = BestChain(m.fork_choice)]
<1> DEFINE fc == n.fork_choice
<1>1. ForkChoiceInv(fc) /\ ForkChoiceInv(m.fork_choice)
  BY InsertKeepsInv DEF NodeGood
<1>2. ActivationOk(m)
  BY <1>1, BestChainReplays DEF ActivationOk
<1>3. HeadHash(m.chain) = fc.best_tip /\ m.chain = BestChain(fc)
  BY HeadOfGood DEF NodeGood
<1>4. CASE fc.best_tip = m.fork_choice.best_tip
  <2>1. BestChain(m.fork_choice) = m.chain
    BY <1>1, <1>3, <1>4, BestChainStep
  <2>2. [m EXCEPT !.chain = BestChain(m.fork_choice)] = m
    BY <2>1 DEF NodeRecord
  <2>3. QED
    BY <1>2, <1>3, <1>4, <2>2 DEF ActivateBestChain, BestHash
<1>5. CASE fc.best_tip # m.fork_choice.best_tip
  BY <1>2, <1>3, <1>5 DEF ActivateBestChain, BestHash
<1>6. QED
  BY <1>4, <1>5

\* A reorg is counted exactly when the active chain is left.
LEMMA ReorgIsSwitch ==
  ASSUME NEW n, NodeGood(n), NEW b \in Blocks, Attaches(n.fork_choice, b),
         NEW m, m.chain = BestChain(InsertBlock(n.fork_choice, b))
  PROVE  IsReorg(n, m, b) <=> n.chain # << >> /\ ~IsPrefix(n.chain, m.chain)
<1> DEFINE fc == n.fork_choice
           new == InsertBlock(fc, b)
           c == n.chain
           d == m.chain
<1>1. /\ ForkChoiceInv(fc) /\ ForkChoiceInv(new)
      /\ c = BestChain(fc) /\ d = BestChain(new)
      /\ b.hash \notin Known(fc) /\ b.hash # Zero
  BY InsertKeepsInv, Inserted, BlockFacts DEF NodeGood
<1>2. /\ HeadHash(c) = fc.best_tip /\ HeadHash(d) = new.best_tip
      /\ c = << >> <=> fc.best_tip = Zero
      /\ c \in Seq(Blocks) /\ d \in Seq(Blocks)
  BY <1>1, HeadOfGood, BestChainReplays
<1>3. /\ new.best_tip = fc.best_tip => d = c
      /\ new.best_tip # fc.best_tip => new.best_tip = b.hash
      /\ b.previous_block = fc.best_tip => d = Append(c, b)
      /\ (b.previous_block # fc.best_tip /\ new.best_tip = b.hash /\ c # << >>) =>
           ~(Len(c) <= Len(d) /\ SubSeq(d, 1, Len(c)) = c)
  BY <1>1, BestChainStep
<1>4. IsReorg(n, m, b) <=> /\ c # << >> /\ b.previous_block # fc.best_tip /\ new.best_tip = b.hash
  BY <1>2 DEF IsReorg
<1>5. \A s \in Seq(Blocks) : SubSeq(s, 1, Len(s)) = s
  OBVIOUS
<1> HIDE DEF c, d, fc, new
<1>6. IsPrefix(c, d) <=> Len(c) <= Len(d) /\ SubSeq(d, 1, Len(c)) = c
  BY <1>2, <1>5 DEF IsPrefix
<1>7. CASE new.best_tip = fc.best_tip
  <2>1. IsPrefix(c, d)
    BY <1>2, <1>3, <1>5, <1>6, <1>7
  <2>2. c # << >> => fc.best_tip # b.hash
    BY <1>1, <1>2 DEF ForkChoiceInv, TipIsHeaviest, HasTip
  <2>3. QED BY <1>4, <1>7, <2>1, <2>2 DEF c, d
<1>8. CASE b.previous_block = fc.best_tip
  <2>1. Len(d) = Len(c) + 1 /\ SubSeq(d, 1, Len(c)) = c
    <3>1. d = Append(c, b) BY <1>3, <1>8
    <3>2. Len(c) \in 0..Len(c) BY <1>2
    <3>3. QED BY <1>2, <1>5, <3>1, <3>2, PrefixesOfAppend
  <2>2. IsPrefix(c, d)
    BY <1>2, <1>6, <2>1
  <2>3. QED BY <1>4, <1>8, <2>2 DEF c, d
<1>9. CASE new.best_tip # fc.best_tip /\ b.previous_block # fc.best_tip
  BY <1>3, <1>4, <1>6, <1>9 DEF c, d
<1>10. QED
  BY <1>7, <1>8, <1>9

\* Three outcomes of insert_block, of which one attaches the block.
LEMMA ApplicationCases ==
  ASSUME NEW n, NEW b
  PROVE  /\ Application(n, b) \in {"AlreadyKnown", "Accepted", "Rejected"}
         /\ Application(n, b) = "Accepted" <=> Attaches(n.fork_choice, b)
         /\ Application(n, b) = "Rejected" <=> InsertResult(n.fork_choice, b) # "Ok"
BY DEF Application, Attaches, InsertResult

\* What apply_incoming_block does to a node: the block is inserted, the best chain is
\* active, one counter goes up for an accepted block, and reorgs for a switch.
LEMMA AppliedBlock ==
  ASSUME NEW n, NodeGood(n), NEW b \in Blocks, NEW source \in {"Gossip", "Sync"}
  PROVE  LET m == ApplyIncomingBlock(n, b, source)
         IN  /\ NodeGood(m)
             /\ m.fork_choice = InsertBlock(n.fork_choice, b)
             /\ m.accepted_blocks = n.accepted_blocks +
                  (IF Attaches(n.fork_choice, b) /\ source = "Gossip" THEN 1 ELSE 0)
             /\ m.synced_blocks = n.synced_blocks +
                  (IF Attaches(n.fork_choice, b) /\ source = "Sync" THEN 1 ELSE 0)
             /\ m.mined_blocks = n.mined_blocks
             /\ m.failed_syncs = n.failed_syncs
             /\ m.reorgs = n.reorgs +
                  (IF n.chain # << >> /\ ~IsPrefix(n.chain, m.chain) THEN 1 ELSE 0)
             /\ Known(m.fork_choice) = IF Attaches(n.fork_choice, b)
                  THEN Known(n.fork_choice) \cup {b.hash} ELSE Known(n.fork_choice)
<1> DEFINE m == ApplyIncomingBlock(n, b, source)
           fc == n.fork_choice
           inserted == [n EXCEPT !.fork_choice = InsertBlock(@, b)]
           activated == [inserted EXCEPT !.chain = BestChain(InsertBlock(fc, b))]
           reorged == IF IsReorg(n, activated, b)
                      THEN [activated EXCEPT !.reorgs = @ + 1] ELSE activated
<1>1. CASE Attaches(fc, b)
  <2>1. Application(n, b) = "Accepted"
    BY <1>1, ApplicationCases
  <2>2. NodeRecord(inserted) /\ inserted.fork_choice = InsertBlock(fc, b) /\ inserted.chain = n.chain
    BY DEF NodeGood, NodeRecord
  <2>3. ActivationOk(inserted) /\ ActivateBestChain(inserted) = activated
    <3> DEFINE k == inserted
    <3>1. NodeRecord(k) /\ k.fork_choice = InsertBlock(fc, b) /\ k.chain = n.chain
      BY <2>2
    <3>2. activated = [k EXCEPT !.chain = BestChain(InsertBlock(fc, b))]
      OBVIOUS
    <3> HIDE DEF k, activated
    <3>3. ActivationOk(k) /\ ActivateBestChain(k) = [k EXCEPT !.chain = BestChain(k.fork_choice)]
      BY <1>1, <3>1, ActivatedAfter
    <3>4. ActivationOk(k) /\ ActivateBestChain(k) = activated
      BY <3>1, <3>2, <3>3
    <3>5. QED
      BY <3>4 DEF k
  <2>4. m = Counted(reorged, source)
    BY <2>1, <2>3 DEF ApplyIncomingBlock
  <2>5. activated.chain = BestChain(InsertBlock(fc, b))
    BY DEF NodeGood, NodeRecord
  <2>6. IsReorg(n, activated, b) <=> n.chain # << >> /\ ~IsPrefix(n.chain, activated.chain)
    BY <1>1, <2>5, ReorgIsSwitch
  <2>7. /\ NodeRecord(m)
        /\ m.fork_choice = InsertBlock(fc, b)
        /\ m.chain = BestChain(InsertBlock(fc, b))
        /\ m.accepted_blocks = n.accepted_blocks + (IF source = "Gossip" THEN 1 ELSE 0)
        /\ m.synced_blocks = n.synced_blocks + (IF source = "Sync" THEN 1 ELSE 0)
        /\ m.mined_blocks = n.mined_blocks
        /\ m.failed_syncs = n.failed_syncs
        /\ m.rejected_blocks = n.rejected_blocks
        /\ m.reorgs = n.reorgs + (IF IsReorg(n, activated, b) THEN 1 ELSE 0)
    <3> DEFINE new == InsertBlock(fc, b)
               best == BestChain(new)
               reorg == IsReorg(n, activated, b)
               one == IF IsReorg(n, activated, b) THEN 1 ELSE 0
    <3>1. n.reorgs \in Nat /\ n.accepted_blocks \in Nat /\ n.synced_blocks \in Nat
      BY DEF NodeGood, Counters
    <3>2. reorged = [fork_choice |-> new, chain |-> best,
             accepted_blocks |-> n.accepted_blocks, rejected_blocks |-> n.rejected_blocks,
             mined_blocks |-> n.mined_blocks, synced_blocks |-> n.synced_blocks,
             failed_syncs |-> n.failed_syncs, reorgs |-> n.reorgs + one]
      <4>1. activated = [fork_choice |-> new, chain |-> best,
             accepted_blocks |-> n.accepted_blocks, rejected_blocks |-> n.rejected_blocks,
             mined_blocks |-> n.mined_blocks, synced_blocks |-> n.synced_blocks,
             failed_syncs |-> n.failed_syncs, reorgs |-> n.reorgs]
        <5>1. inserted = [fork_choice |-> new, chain |-> n.chain,
             accepted_blocks |-> n.accepted_blocks, rejected_blocks |-> n.rejected_blocks,
             mined_blocks |-> n.mined_blocks, synced_blocks |-> n.synced_blocks,
             failed_syncs |-> n.failed_syncs, reorgs |-> n.reorgs]
          <6> HIDE DEF new
          <6>1. inserted = [n EXCEPT !.fork_choice = new]
            BY DEF new
          <6> HIDE DEF inserted
          <6>2. QED BY <6>1 DEF NodeGood, NodeRecord
        <5> HIDE DEF inserted, new, best
        <5>2. activated = [inserted EXCEPT !.chain = best]
          BY DEF best, new
        <5>3. QED BY <5>1, <5>2
      <4> HIDE DEF activated, new, best
      <4>2. QED BY <3>1, <4>1
    <3> HIDE DEF reorged, one, new, best
    <3>3. QED
      BY <2>4, <3>1, <3>2 DEF Counted, NodeRecord, one, new, best
  <2>8. Known(InsertBlock(fc, b)) = Known(fc) \cup {b.hash}
    BY <1>1, Inserted
  <2>9. IsFiniteSet(Known(fc) \cup {b.hash}) /\ ForkChoiceInv(InsertBlock(fc, b))
    BY FS_AddElement, InsertKeepsInv DEF NodeGood
  <2>10. \A c \in Counters : m[c] \in Nat
    BY <2>7 DEF Counters, NodeGood
  <2> HIDE DEF m, reorged, activated, inserted
  <2>11. NodeGood(m)
    BY <2>7, <2>8, <2>9, <2>10 DEF NodeGood
  <2>12. QED
    BY <1>1, <2>5, <2>6, <2>7, <2>8, <2>11 DEF m
<1>2. CASE ~Attaches(fc, b)
  <2>1. InsertBlock(fc, b) = fc
    BY <1>2 DEF InsertBlock
  <2>2. Application(n, b) \in {"AlreadyKnown", "Rejected"}
    BY <1>2, ApplicationCases
  <2>3. m = n \/ m = [n EXCEPT !.rejected_blocks = @ + 1]
    BY <2>2 DEF ApplyIncomingBlock
  <2>4. IsPrefix(n.chain, n.chain)
    <3>1. n.chain \in Seq(Blocks)
      BY HeadOfGood
    <3>2. QED BY <3>1 DEF IsPrefix
  <2>5. /\ m.fork_choice = fc /\ m.chain = n.chain
        /\ m.accepted_blocks = n.accepted_blocks /\ m.synced_blocks = n.synced_blocks
        /\ m.mined_blocks = n.mined_blocks /\ m.failed_syncs = n.failed_syncs
        /\ m.reorgs = n.reorgs
    <3> HIDE DEF m
    <3>1. QED BY <2>3 DEF NodeGood, NodeRecord
  <2>6. n.accepted_blocks \in Nat /\ n.synced_blocks \in Nat /\ n.reorgs \in Nat
    BY DEF NodeGood, Counters
  <2>7. NodeGood(m)
    <3> HIDE DEF m
    <3>1. QED BY <2>3 DEF NodeGood, NodeRecord, Counters
  <2> HIDE DEF m
  <2>8. QED
    BY <1>2, <2>1, <2>4, <2>5, <2>6, <2>7 DEF m
<1>3. QED
  BY <1>1, <1>2

-----------------------------------------------------------------------------
(* A batch                                                                   *)

\* The loop of validate_sync_batch, and that of apply_sync_batch.
Apply(context, acc, b) ==
  IF acc.refused THEN acc
  ELSE [node |-> ApplyIncomingBlock(acc.node, b, "Sync"),
        refused |-> Application(acc.node, b) = "Rejected"]

Applies == INSTANCE FoldTheorems WITH Step <- Apply

LEMMA ApplyBatchIsFold ==
  ASSUME NEW n, NEW batch
  PROVE  ApplyBatch(n, batch) = Applies!Fold(0, [node |-> n, refused |-> FALSE], batch)
BY DEF ApplyBatch, Applies!Fold, Apply, FoldLeft, MapThenFoldSet, Max,
       Applies!FoldLeft, Applies!MapThenFoldSet, Applies!Max

\* The nodes that the application of a valid batch goes through: no block is refused.
BatchRun(n, batch, r) ==
  /\ r[0] = n
  /\ \A i \in 0..Len(batch) :
       NodeGood(r[i]) /\ r[i].fork_choice = After(n.fork_choice, batch, i)
  /\ \A i \in 1..Len(batch) :
       /\ r[i] = ApplyIncomingBlock(r[i - 1], batch[i], "Sync")
       /\ InsertResult(r[i - 1].fork_choice, batch[i]) = "Ok"

LEMMA ValidBatchRuns ==
  ASSUME NEW n, NodeGood(n), NEW batch \in Seq(Blocks), BatchIsValid(n.fork_choice, batch)
  PROVE  \E r : /\ BatchRun(n, batch, r)
                /\ ApplyBatch(n, batch) = [node |-> r[Len(batch)], refused |-> FALSE]
<1> DEFINE fc == n.fork_choice
           base == [node |-> n, refused |-> FALSE]
           l == Len(batch)
<1>1. l \in Nat /\ DOMAIN batch = 1..l /\ \A i \in 1..l : batch[i] \in Blocks
  OBVIOUS
<1>2. PICK q : Applies!Runs(0, base, batch, l, q) /\ Applies!Fold(0, base, batch) = q[l]
  BY <1>1, Applies!FoldRuns
<1>3. /\ After(fc, batch, 0) = fc
      /\ \A i \in 1..l : After(fc, batch, i) = InsertBlock(After(fc, batch, i - 1), batch[i])
  BY InsertsInOrder DEF After, NodeGood
<1>4. \A i \in 1..l : InsertResult(After(fc, batch, i - 1), batch[i]) = "Ok"
  BY ValidBatch DEF NodeGood
<1> HIDE DEF l, base, fc
<1> DEFINE Good(i) == /\ q[i] = [node |-> q[i].node, refused |-> FALSE]
                      /\ NodeGood(q[i].node)
                      /\ q[i].node.fork_choice = After(fc, batch, i)
           S == {i \in Nat : Good(i)}
<1>5. 0 \in S
  <2>1. q[0] = base
    BY <1>2 DEF Applies!Runs
  <2>2. q[0] = [node |-> n, refused |-> FALSE] /\ q[0].node = n
    BY <2>1 DEF base
  <2>3. q[0] = [node |-> q[0].node, refused |-> FALSE]
    BY <2>2
  <2>4. NodeGood(q[0].node) /\ q[0].node.fork_choice = After(fc, batch, 0)
    BY <1>3, <2>2 DEF fc
  <2>5. QED BY <2>3, <2>4
<1>6. ASSUME NEW i \in 1..l, i - 1 \in S
      PROVE  /\ i \in S
             /\ q[i].node = ApplyIncomingBlock(q[i - 1].node, batch[i], "Sync")
             /\ InsertResult(q[i - 1].node.fork_choice, batch[i]) = "Ok"
  <2> DEFINE m == q[i - 1].node
  <2>1. q[i] = Apply(0, q[i - 1], batch[i]) /\ i \in Nat /\ batch[i] \in Blocks
    BY <1>1, <1>2 DEF Applies!Runs
  <2>2. ~q[i - 1].refused /\ NodeGood(m) /\ m.fork_choice = After(fc, batch, i - 1)
    BY <1>6
  <2>3. InsertResult(m.fork_choice, batch[i]) = "Ok"
    BY <1>4, <2>2
  <2>4. Application(m, batch[i]) # "Rejected"
    BY <2>3, ApplicationCases
  <2>5. q[i] = [node |-> ApplyIncomingBlock(m, batch[i], "Sync"), refused |-> FALSE]
    BY <2>1, <2>2, <2>4 DEF Apply
  <2>6. /\ NodeGood(ApplyIncomingBlock(m, batch[i], "Sync"))
        /\ ApplyIncomingBlock(m, batch[i], "Sync").fork_choice = InsertBlock(m.fork_choice, batch[i])
    BY <2>1, <2>2, AppliedBlock
  <2>7. q[i].node = ApplyIncomingBlock(m, batch[i], "Sync") /\ ~q[i].refused
    BY <2>5
  <2>8. After(fc, batch, i) = InsertBlock(m.fork_choice, batch[i])
    BY <1>3, <2>2
  <2> HIDE DEF m
  <2>9. Good(i)
    BY <2>5, <2>6, <2>7, <2>8
  <2>10. QED
    BY <2>1, <2>3, <2>7, <2>9 DEF m
<1>7. 0..l \subseteq S
  <2>1. \A i \in 1..l : i - 1 \in S => i \in S
    BY <1>6
  <2> HIDE DEF S
  <2>2. QED BY <1>1, <1>5, <2>1, Inserts!Counting
<1> DEFINE r == [i \in 0..l |-> q[i].node]
<1>8. BatchRun(n, batch, r)
  <2>1. r[0] = n
    <3>1. q[0] = base /\ 0 \in 0..l
      BY <1>1, <1>2 DEF Applies!Runs
    <3>2. QED BY <3>1 DEF base
  <2>2. \A i \in 0..l : NodeGood(r[i]) /\ r[i].fork_choice = After(fc, batch, i)
    BY <1>7
  <2>3. ASSUME NEW i \in 1..l
        PROVE  /\ r[i] = ApplyIncomingBlock(r[i - 1], batch[i], "Sync")
               /\ InsertResult(r[i - 1].fork_choice, batch[i]) = "Ok"
    <3>1. i \in 0..l /\ i - 1 \in 0..l
      BY <1>1
    <3>2. QED BY <1>6, <1>7, <3>1
  <2> HIDE DEF r
  <2>4. QED BY <2>1, <2>2, <2>3 DEF BatchRun, l, fc
<1>9. ApplyBatch(n, batch) = [node |-> r[l], refused |-> FALSE]
  <2>1. ApplyBatch(n, batch) = q[l]
    BY <1>2, ApplyBatchIsFold DEF base
  <2>2. l \in 0..l
    BY <1>1
  <2>3. QED BY <1>7, <2>1, <2>2
<1>10. QED
  BY <1>8, <1>9 DEF l

\* Of the blocks of a valid batch each is known afterwards, those that are new are
\* counted as synced, and nothing else is counted.
LEMMA BatchCounts ==
  ASSUME NEW n, NodeGood(n), NEW batch \in Seq(Blocks), NEW r, BatchRun(n, batch, r)
  PROVE  LET m == r[Len(batch)]
         IN  /\ NodeGood(m)
             /\ Grows(n.fork_choice, m.fork_choice)
             /\ \A i \in 1..Len(batch) : batch[i].hash \in Known(m.fork_choice)
             /\ m.accepted_blocks = n.accepted_blocks
             /\ m.mined_blocks = n.mined_blocks
             /\ m.failed_syncs = n.failed_syncs
             /\ Cardinality(Known(m.fork_choice)) + Learned(n)
                  = Cardinality(Known(n.fork_choice)) + Learned(m)
<1> DEFINE l == Len(batch)
           Good(k) == /\ Grows(n.fork_choice, r[k].fork_choice)
                      /\ \A i \in 1..k : batch[i].hash \in Known(r[k].fork_choice)
                      /\ r[k].accepted_blocks = n.accepted_blocks
                      /\ r[k].mined_blocks = n.mined_blocks
                      /\ r[k].failed_syncs = n.failed_syncs
                      /\ Cardinality(Known(r[k].fork_choice)) + Learned(n)
                           = Cardinality(Known(n.fork_choice)) + Learned(r[k])
           S == {k \in Nat : Good(k)}
<1>1. l \in Nat /\ \A i \in 1..l : batch[i] \in Blocks
  OBVIOUS
<1>2. /\ r[0] = n
      /\ \A i \in 0..l : NodeGood(r[i])
      /\ \A i \in 1..l : /\ r[i] = ApplyIncomingBlock(r[i - 1], batch[i], "Sync")
                         /\ InsertResult(r[i - 1].fork_choice, batch[i]) = "Ok"
  BY DEF BatchRun
<1> HIDE DEF l
<1>3. 0 \in S
  BY <1>2 DEF Grows
<1>4. ASSUME NEW k \in 1..l, k - 1 \in S
      PROVE  k \in S
  <2> DEFINE o == r[k - 1]
             m == r[k]
             b == batch[k]
  <2>1. k \in Nat /\ k - 1 \in 0..l /\ k \in 0..l /\ b \in Blocks
    BY <1>1
  <2>2. NodeGood(o) /\ NodeGood(m) /\ m = ApplyIncomingBlock(o, b, "Sync")
    BY <1>2, <2>1
  <2>3. /\ m.fork_choice = InsertBlock(o.fork_choice, b)
        /\ m.accepted_blocks = o.accepted_blocks
        /\ m.mined_blocks = o.mined_blocks
        /\ m.failed_syncs = o.failed_syncs
        /\ m.synced_blocks = o.synced_blocks + (IF Attaches(o.fork_choice, b) THEN 1 ELSE 0)
        /\ Known(m.fork_choice) = IF Attaches(o.fork_choice, b)
             THEN Known(o.fork_choice) \cup {b.hash} ELSE Known(o.fork_choice)
    <3> HIDE DEF m, o, b
    <3>1. o.accepted_blocks \in Nat /\ o.synced_blocks \in Nat
      BY <2>2 DEF NodeGood, Counters
    <3>2. /\ m.accepted_blocks = o.accepted_blocks +
               (IF Attaches(o.fork_choice, b) /\ "Sync" = "Gossip" THEN 1 ELSE 0)
          /\ m.synced_blocks = o.synced_blocks +
               (IF Attaches(o.fork_choice, b) /\ "Sync" = "Sync" THEN 1 ELSE 0)
      BY <2>1, <2>2, AppliedBlock
    <3>3. m.accepted_blocks = o.accepted_blocks
      BY <3>1, <3>2
    <3>4. m.synced_blocks = o.synced_blocks + (IF Attaches(o.fork_choice, b) THEN 1 ELSE 0)
      BY <3>1, <3>2
    <3>5. QED BY <2>1, <2>2, <3>3, <3>4, AppliedBlock
  <2>4. Attaches(o.fork_choice, b) <=> b.hash \notin Known(o.fork_choice)
    BY <1>2 DEF Attaches, ContainsBlock
  <2>5. Grows(o.fork_choice, m.fork_choice)
    BY <2>1, <2>3, InsertGrows
  <2>6. Cardinality(Known(m.fork_choice)) = Cardinality(Known(o.fork_choice))
          + (IF Attaches(o.fork_choice, b) THEN 1 ELSE 0)
    <3>1. IsFiniteSet(Known(o.fork_choice)) /\ Cardinality(Known(o.fork_choice)) \in Nat
      BY <2>2, FS_CardinalityType DEF NodeGood
    <3>2. CASE Attaches(o.fork_choice, b)
      <4>1. b.hash \notin Known(o.fork_choice) /\ Known(m.fork_choice) = Known(o.fork_choice) \cup {b.hash}
        BY <2>3, <2>4, <3>2
      <4>2. QED BY <3>1, <3>2, <4>1, FS_AddElement
    <3>3. CASE ~Attaches(o.fork_choice, b)
      <4>1. Known(m.fork_choice) = Known(o.fork_choice)
        BY <2>3, <3>3
      <4>2. QED BY <3>1, <3>3, <4>1
    <3>4. QED BY <3>2, <3>3
  <2>7. b.hash \in Known(m.fork_choice)
    BY <2>3, <2>4
  <2>8. \A c \in Counters : o[c] \in Nat /\ n[c] \in Nat
    BY <2>2 DEF NodeGood
  <2>9. /\ o.accepted_blocks \in Nat /\ o.mined_blocks \in Nat /\ o.synced_blocks \in Nat
        /\ n.accepted_blocks \in Nat /\ n.mined_blocks \in Nat /\ n.synced_blocks \in Nat
    BY <2>8 DEF Counters
  <2>10. /\ Cardinality(Known(o.fork_choice)) \in Nat
         /\ Cardinality(Known(n.fork_choice)) \in Nat
    BY <2>2, FS_CardinalityType DEF NodeGood
  <2>11. Good(k - 1)
    BY <1>4
  <2> HIDE DEF m, o, b
  <2>12. Grows(n.fork_choice, m.fork_choice)
    BY <2>5, <2>11, GrowsOn DEF o
  <2>13. \A i \in 1..k : batch[i].hash \in Known(m.fork_choice)
    <3>1. \A i \in 1..(k - 1) : batch[i].hash \in Known(m.fork_choice)
      BY <2>5, <2>11 DEF o, Grows
    <3>2. \A i \in 1..k : i \in 1..(k - 1) \/ i = k
      BY <2>1
    <3>3. QED BY <2>7, <3>1, <3>2 DEF b
  <2>14. Cardinality(Known(m.fork_choice)) + Learned(n)
           = Cardinality(Known(n.fork_choice)) + Learned(m)
    <3>1. /\ Learned(o) = o.accepted_blocks + o.mined_blocks + o.synced_blocks
          /\ Learned(m) = o.accepted_blocks + o.mined_blocks + m.synced_blocks
          /\ Learned(n) \in Nat
      BY <2>3, <2>9 DEF Learned
    <3>2. Cardinality(Known(o.fork_choice)) + Learned(n)
            = Cardinality(Known(n.fork_choice)) + Learned(o)
      BY <2>11 DEF o
    <3>3. m.synced_blocks = o.synced_blocks + (IF Attaches(o.fork_choice, b) THEN 1 ELSE 0)
      BY <2>3
    <3> DEFINE one == IF Attaches(o.fork_choice, b) THEN 1 ELSE 0
    <3>4. one \in Nat /\ m.synced_blocks = o.synced_blocks + one
          /\ Cardinality(Known(m.fork_choice)) = Cardinality(Known(o.fork_choice)) + one
      BY <2>6, <3>3
    <3> HIDE DEF one
    <3>5. Learned(m) = Learned(o) + one /\ Learned(o) \in Nat
      BY <2>9, <3>1, <3>4
    <3> DEFINE cm == Cardinality(Known(m.fork_choice))
               co == Cardinality(Known(o.fork_choice))
               cn == Cardinality(Known(n.fork_choice))
    <3>6. /\ co \in Nat /\ cn \in Nat /\ cm = co + one /\ co + Learned(n) = cn + Learned(o)
          /\ Learned(n) \in Nat
      BY <2>10, <3>1, <3>2, <3>4
    <3> HIDE DEF cm, co, cn
    <3>7. cm + Learned(n) = cn + Learned(m)
      <4> DEFINE ln == Learned(n)
                 lo == Learned(o)
                 lm == Learned(m)
      <4>1. /\ ln \in Nat /\ lo \in Nat /\ co \in Nat /\ cn \in Nat /\ one \in Nat
            /\ lm = lo + one /\ cm = co + one /\ co + ln = cn + lo
        BY <3>4, <3>5, <3>6
      <4> HIDE DEF ln, lo, lm
      <4>2. cm + ln = cn + lm
        BY <4>1
      <4>3. QED
        BY <4>2 DEF ln, lm
    <3>8. QED BY <3>7 DEF cm, cn
  <2>15. QED
    BY <2>1, <2>3, <2>11, <2>12, <2>13, <2>14 DEF m, o
<1>5. 0..l \subseteq S
  <2> HIDE DEF S
  <2>1. QED BY <1>1, <1>3, <1>4, Inserts!Counting
<1>6. l \in 0..l /\ Good(l)
  BY <1>1, <1>5
<1>7. QED
  BY <1>2, <1>6 DEF l

\* The blocks of a batch whose headers were screened hang on one another.
Linked(batch) ==
  \A i \in 2..Len(batch) : batch[i].previous_block = batch[i - 1].hash

\* No known block is a child of the tip.
LEMMA NoChildOfTip ==
  ASSUME NEW fc, ForkChoiceInv(fc), NEW b \in Blocks, b.hash \in Known(fc)
  PROVE  b.previous_block # fc.best_tip
<1> DEFINE known == fc.nodes[b.hash]
<1>1. TreeInv(fc)
  BY DEF ForkChoiceInv
<1>2. known.block \in Blocks /\ known.block.hash = b.hash
  BY <1>1, NodeFacts
<1>3. known.parent = b.previous_block /\ known.next_height \in Nat
  BY <1>1, <1>2, SameHeader, ParentBelow
<1>4. fc.best_tip \in Known(fc) /\ known.next_height <= fc.nodes[fc.best_tip].next_height
  BY NothingAboveTip
<1>5. known.parent = fc.best_tip => fc.nodes[fc.best_tip].next_height = known.next_height - 1
  BY <1>1, <1>4, ParentBelow
<1>6. QED
  BY <1>3, <1>4, <1>5

\* However many of them become the best tip one after the other, such a batch leaves
\* the active chain at most once, and that is counted once.
LEMMA BatchReorgs ==
  ASSUME NEW n, NodeGood(n), NEW batch \in Seq(Blocks), Linked(batch),
         NEW r, BatchRun(n, batch, r)
  PROVE  LET m == r[Len(batch)]
         IN  m.reorgs = n.reorgs +
               (IF n.chain # << >> /\ ~IsPrefix(n.chain, m.chain) THEN 1 ELSE 0)
<1> DEFINE l == Len(batch)
           c == n.chain
           left(k) == c # << >> /\ ~IsPrefix(c, r[k].chain)
           Good(k) == /\ r[k].reorgs = n.reorgs + (IF left(k) THEN 1 ELSE 0)
                      /\ \/ r[k].chain = c
                         \/ k > 0 /\ HeadHash(r[k].chain) = batch[k].hash
                      /\ Grows(n.fork_choice, r[k].fork_choice)
           S == {k \in Nat : Good(k)}
<1>1. l \in Nat /\ \A i \in 1..l : batch[i] \in Blocks
  OBVIOUS
<1>2. /\ r[0] = n
      /\ \A i \in 0..l : NodeGood(r[i])
      /\ \A i \in 1..l : /\ r[i] = ApplyIncomingBlock(r[i - 1], batch[i], "Sync")
                         /\ InsertResult(r[i - 1].fork_choice, batch[i]) = "Ok"
  BY DEF BatchRun
<1>3. c \in Seq(Blocks) /\ n.reorgs \in Nat
  BY HeadOfGood DEF NodeGood, Counters
<1>4. \A i \in 2..l : batch[i].previous_block = batch[i - 1].hash
  BY DEF Linked
<1>5. IsPrefix(c, c)
  BY <1>3 DEF IsPrefix
<1> HIDE DEF l
<1>6. 0 \in S
  <2>1. Grows(n.fork_choice, n.fork_choice)
    BY DEF Grows
  <2> HIDE DEF c
  <2>2. ~left(0)
    BY <1>2, <1>5 DEF c
  <2>3. QED BY <1>2, <1>3, <2>1, <2>2 DEF c
<1>7. ASSUME NEW k \in 1..l, k - 1 \in S
      PROVE  k \in S
  <2> DEFINE o == r[k - 1]
             m == r[k]
             b == batch[k]
             fc == o.fork_choice
  <2>1. k \in Nat /\ k - 1 \in 0..l /\ k \in 0..l /\ b \in Blocks /\ k > 0
    BY <1>1
  <2>2. NodeGood(o) /\ NodeGood(m) /\ m = ApplyIncomingBlock(o, b, "Sync")
    BY <1>2, <2>1
  <2> HIDE DEF m, o, b
  <2>3. /\ m.fork_choice = InsertBlock(fc, b)
        /\ m.reorgs = o.reorgs + (IF o.chain # << >> /\ ~IsPrefix(o.chain, m.chain) THEN 1 ELSE 0)
    BY <2>1, <2>2, AppliedBlock
  <2>4. /\ ForkChoiceInv(fc) /\ o.chain = BestChain(fc) /\ m.chain = BestChain(InsertBlock(fc, b))
        /\ HeadHash(o.chain) = fc.best_tip
        /\ HeadHash(m.chain) = InsertBlock(fc, b).best_tip
        /\ o.chain \in Seq(Blocks) /\ m.chain \in Seq(Blocks)
        /\ o.reorgs \in Nat
    BY <2>2, <2>3, HeadOfGood DEF NodeGood, Counters
  <2>5. Good(k - 1)
    BY <1>7
  <2>6. Grows(n.fork_choice, m.fork_choice)
    <3>1. Grows(n.fork_choice, fc) BY <2>5 DEF o
    <3>2. Grows(fc, m.fork_choice) BY <2>1, <2>3, InsertGrows
    <3>3. QED BY <3>1, <3>2, GrowsOn
  <2>7. /\ o.reorgs = n.reorgs + (IF c # << >> /\ ~IsPrefix(c, o.chain) THEN 1 ELSE 0)
        /\ o.chain = c \/ (k - 1 > 0 /\ HeadHash(o.chain) = batch[k - 1].hash)
    BY <2>5 DEF o
  <2>8. CASE m.chain = o.chain
    <3>1. IsPrefix(o.chain, m.chain)
      BY <2>4, <2>8 DEF IsPrefix
    <3>2. m.reorgs = o.reorgs
      BY <2>3, <2>4, <3>1
    <3>3. o.chain = c
      <4> SUFFICES ASSUME k - 1 > 0, HeadHash(o.chain) = batch[k - 1].hash
                   PROVE  FALSE
        BY <2>7
      <4>1. k \in 2..l
        BY <2>1
      <4>2. b.previous_block = fc.best_tip
        BY <1>4, <2>4, <4>1 DEF b
      <4>3. CASE Attaches(fc, b)
        <5>1. m.chain = Append(o.chain, b)
          BY <2>1, <2>4, <4>2, <4>3, BestChainStep
        <5>2. QED
          BY <2>1, <2>4, <2>8, <5>1, PrefixesOfAppend
      <4>4. CASE ~Attaches(fc, b)
        <5>1. b.hash \in Known(fc)
          BY <1>2, <4>4 DEF Attaches, ContainsBlock, o, b
        <5>2. QED
          BY <2>1, <2>4, <4>2, <5>1, NoChildOfTip
      <4>5. QED BY <4>3, <4>4
    <3>4. QED
      BY <2>1, <2>6, <2>7, <2>8, <3>2, <3>3 DEF m
  <2>9. CASE m.chain # o.chain
    <3>1. Attaches(fc, b)
      BY <2>4, <2>9 DEF InsertBlock
    <3>2. InsertBlock(fc, b).best_tip = b.hash
      BY <2>1, <2>4, <2>9, <3>1, BestChainStep
    <3>3. HeadHash(m.chain) = batch[k].hash
      BY <2>4, <3>2 DEF b
    <3>4. CASE o.chain = c
      <4>1. o.reorgs = n.reorgs
        BY <1>3, <1>5, <2>7, <3>4
      <4>2. QED
        BY <2>1, <2>3, <2>6, <3>3, <3>4, <4>1 DEF m
    <3>5. CASE k - 1 > 0 /\ HeadHash(o.chain) = batch[k - 1].hash
      <4>1. b.previous_block = fc.best_tip
        <5>1. k \in 2..l BY <2>1, <3>5
        <5>2. QED BY <1>4, <2>4, <3>5, <5>1 DEF b
      <4>2. m.chain = Append(o.chain, b)
        BY <2>1, <2>4, <3>1, <4>1, BestChainStep
      <4>3. /\ Len(m.chain) = Len(o.chain) + 1
            /\ \A i \in 0..Len(o.chain) : SubSeq(m.chain, 1, i) = SubSeq(o.chain, 1, i)
            /\ SubSeq(m.chain, 1, Len(m.chain)) = m.chain
            /\ SubSeq(o.chain, 1, Len(o.chain)) = o.chain
            /\ Len(o.chain) \in Nat
        <5>1. SubSeq(m.chain, 1, Len(o.chain) + 1) = m.chain
          BY <2>1, <2>4, <4>2, PrefixesOfAppend
        <5>2. QED
          BY <2>1, <2>4, <4>2, <5>1, PrefixesOfAppend
      <4>4. Len(c) \in Nat /\ SubSeq(c, 1, Len(c)) = c
        BY <1>3
      <4>5. m.reorgs = o.reorgs
        <5>1. IsPrefix(o.chain, m.chain)
          BY <4>3 DEF IsPrefix
        <5>2. QED BY <2>3, <2>4, <5>1
      <4>6. ASSUME c # << >>
            PROVE  IsPrefix(c, o.chain) <=> IsPrefix(c, m.chain)
        <5>1. c # m.chain
          <6>1. n.fork_choice.best_tip \in Known(fc)
            <7>1. NodeGood(n) /\ n.fork_choice.best_tip # Zero /\ ForkChoiceInv(n.fork_choice)
              BY <4>6, HeadOfGood DEF NodeGood
            <7>2. n.fork_choice.best_tip \in Known(n.fork_choice)
              BY <7>1 DEF ForkChoiceInv, TipIsHeaviest, HasTip
            <7>3. QED BY <2>5, <7>2 DEF Grows, o
          <6>2. b.hash \notin Known(fc)
            BY <3>1 DEF Attaches, ContainsBlock
          <6>3. HeadHash(c) = n.fork_choice.best_tip
            BY HeadOfGood
          <6>4. QED BY <3>3, <6>1, <6>2, <6>3 DEF b
        <5> HIDE DEF c
        <5>2. CASE Len(c) <= Len(o.chain)
          <6>1. Len(c) \in 0..Len(o.chain)
            BY <4>3, <4>4, <5>2
          <6>2. SubSeq(m.chain, 1, Len(c)) = SubSeq(o.chain, 1, Len(c))
            BY <4>3, <6>1
          <6>3. Len(c) <= Len(m.chain)
            BY <4>3, <4>4, <5>2
          <6>4. QED BY <5>2, <6>2, <6>3 DEF IsPrefix
        <5>3. CASE Len(c) > Len(o.chain)
          BY <4>3, <4>4, <5>1, <5>3 DEF IsPrefix
        <5>4. QED BY <4>3, <4>4, <5>2, <5>3
      <4>7. m.reorgs = n.reorgs + (IF c # << >> /\ ~IsPrefix(c, m.chain) THEN 1 ELSE 0)
        BY <1>3, <2>7, <4>5, <4>6
      <4>8. QED
        BY <2>1, <2>6, <3>3, <4>7 DEF m
    <3>6. QED BY <2>7, <3>4, <3>5
  <2>10. QED BY <2>8, <2>9
<1>8. 0..l \subseteq S
  <2> HIDE DEF S
  <2>1. QED BY <1>1, <1>6, <1>7, Inserts!Counting
<1>9. l \in 0..l /\ Good(l)
  BY <1>1, <1>8
<1>10. QED
  BY <1>9 DEF l

-----------------------------------------------------------------------------
(* The inductive invariant of the specification                              *)

\* A locator was taken from a chain, which need not be the active one any more.
LocatorGood(locator) ==
  /\ locator \in Seq(Nat)
  /\ Len(locator) <= MaxLocatorHashes
  /\ \E chain \in Seq(Blocks) : locator = BlockLocator(chain, MaxLocatorHashes)

\* Where the loop is in its sync, with what it has fetched so far.
LoopGood ==
  \/ loop = Idle
  \/ \E peers \in 1..SyncPeers : \E locator :
       LocatorGood(locator) /\ loop = AskHeaders(peers, locator)
  \/ \E peers \in 1..SyncPeers : \E locator, headers :
       /\ LocatorGood(locator)
       /\ Len(headers) \in 1..MaxBlocksPerResponse
       /\ Screened(node.fork_choice, headers)
       /\ loop = AskBlocks(peers, locator, headers)

BlockHashes == {b.hash : b \in Blocks}

\* EachBlockOnce, with the shape of the history variables.
CountsGood ==
  /\ relayed \in [BlockHashes -> Nat]
  /\ loaded \subseteq Known(node.fork_choice)
  /\ Cardinality(Known(node.fork_choice)) = Cardinality(loaded) + Learned(node)
  /\ \A h \in BlockHashes :
       /\ relayed[h] <= 1
       /\ relayed[h] = 1 => h \in Known(node.fork_choice) \ loaded
  /\ Cardinality({h \in BlockHashes : relayed[h] = 1})
       = node.accepted_blocks + node.mined_blocks

NodeInv ==
  /\ NodeGood(node)
  /\ LoopGood
  /\ CountsGood
  /\ syncs \in 0..MaxSyncs

\* The action properties, said of one step.
ReorgStep ==
  node'.reorgs - node.reorgs
    = IF node.chain # << >> /\ ~IsPrefix(node.chain, node'.chain) THEN 1 ELSE 0

SyncStep ==
  (loop.at = "Blocks" /\ loop' # loop) =>
    \/ /\ node'.failed_syncs = node.failed_syncs
       /\ \A i \in 1..Len(loop.headers) : loop.headers[i].hash \in Known(node'.fork_choice)
    \/ node' = [node EXCEPT !.failed_syncs = @ + 1]

GoodStep ==
  /\ NodeInv'
  /\ Grows(node.fork_choice, node'.fork_choice)
  /\ ReorgStep
  /\ SyncStep

-----------------------------------------------------------------------------

LEMMA LoopStays ==
  ASSUME LoopGood, Grows(node.fork_choice, node'.fork_choice), UNCHANGED loop
  PROVE  LoopGood'
BY ScreenedStays DEF LoopGood, Idle, AskHeaders, AskBlocks, LocatorGood

\* The next peer is asked with the locator of this sync.
LEMMA NextPeerGood ==
  ASSUME LoopGood, loop.at \in {"Headers", "Blocks"}, loop' = NextPeer
  PROVE  LoopGood' /\ loop' # loop
<1>1. PICK peers \in 1..SyncPeers : \E locator :
        /\ LocatorGood(locator)
        /\ loop.peers = peers /\ loop.locator = locator
        /\ \/ loop.at = "Headers"
           \/ loop.at = "Blocks"
  BY DEF LoopGood, AskHeaders, AskBlocks, Idle
<1>2. CASE peers = 1
  <2>1. loop' = Idle
    BY <1>1, <1>2 DEF NextPeer
  <2>2. QED BY <1>1, <2>1 DEF LoopGood, Idle
<1>3. CASE peers # 1
  <2>1. loop' = AskHeaders(peers - 1, loop.locator) /\ peers - 1 \in 1..SyncPeers
    BY <1>1, <1>3, SyncAssumption DEF NextPeer
  <2>2. LoopGood'
    BY <1>1, <2>1 DEF LoopGood, LocatorGood
  <2>3. loop'.peers # loop.peers
    BY <1>1, <2>1 DEF AskHeaders
  <2>4. QED BY <2>2, <2>3
<1>4. QED
  BY <1>2, <1>3

\* A locator has at most max_locator_hashes entries, genesis included.
LEMMA LocatorType ==
  ASSUME NEW chain \in Seq(Blocks)
  PROVE  LocatorGood(BlockLocator(chain, MaxLocatorHashes))
<1> DEFINE max == MaxLocatorHashes
           locator == BlockLocator(chain, max)
           n == Newest(chain, max)
<1>1. max \in Nat
  BY SyncAssumption
<1>2. /\ locator \in Seq(Nat) /\ n \in 0..Len(chain) /\ n <= max
      /\ (n < max /\ chain # << >>) => Len(locator) = n + 1
      /\ ~(n < max /\ chain # << >>) => Len(locator) = n
  BY <1>1, LocatorEntries
<1> HIDE DEF n, locator
<1>3. Len(locator) <= max
  BY <1>1, <1>2
<1>4. QED
  BY <1>2, <1>3 DEF LocatorGood, locator

-----------------------------------------------------------------------------
(* The steps                                                                 *)

\* mine_once: the mined block is new, extends the active chain and is its new head.
LEMMA MinedNode ==
  ASSUME NEW n, NodeGood(n), NEW b \in MineNextBlock(n.fork_choice)
  PROVE  LET m == [ActivateBestChain([n EXCEPT !.fork_choice = InsertBlock(@, b)])
                     EXCEPT !.mined_blocks = @ + 1]
         IN  /\ NodeGood(m)
             /\ b.hash \notin Known(n.fork_choice)
             /\ Known(m.fork_choice) = Known(n.fork_choice) \cup {b.hash}
             /\ Grows(n.fork_choice, m.fork_choice)
             /\ m.accepted_blocks = n.accepted_blocks
             /\ m.synced_blocks = n.synced_blocks
             /\ m.mined_blocks = n.mined_blocks + 1
             /\ m.failed_syncs = n.failed_syncs
             /\ m.reorgs = n.reorgs
             /\ IsPrefix(n.chain, m.chain)
<1> DEFINE fc == n.fork_choice
           new == InsertBlock(fc, b)
           best == BestChain(new)
           inserted == [n EXCEPT !.fork_choice = InsertBlock(@, b)]
           m == [ActivateBestChain(inserted) EXCEPT !.mined_blocks = @ + 1]
<1>1. b \in Blocks /\ b.previous_block = fc.best_tip
  BY DEF MineNextBlock, BestHash
<1>2. ForkChoiceInv(fc) /\ n.chain = BestChain(fc)
  BY DEF NodeGood
<1>3. Attaches(fc, b) /\ new.best_tip = b.hash
  BY <1>2, MinedBlockAttaches
<1>4. /\ b.hash \notin Known(fc)
      /\ Known(new) = Known(fc) \cup {b.hash}
  BY <1>1, <1>3, Inserted
<1>5. ForkChoiceInv(new) /\ Grows(fc, new)
  BY <1>1, <1>2, InsertKeepsInv, InsertGrows
<1>6. best = Append(n.chain, b)
  BY <1>1, <1>2, <1>3, BestChainStep
<1>7. inserted = [fork_choice |-> new, chain |-> n.chain,
        accepted_blocks |-> n.accepted_blocks, rejected_blocks |-> n.rejected_blocks,
        mined_blocks |-> n.mined_blocks, synced_blocks |-> n.synced_blocks,
        failed_syncs |-> n.failed_syncs, reorgs |-> n.reorgs]
  <2> HIDE DEF new
  <2>1. inserted = [n EXCEPT !.fork_choice = new]
    BY DEF new
  <2> HIDE DEF inserted
  <2>2. QED BY <2>1 DEF NodeGood, NodeRecord
<1> HIDE DEF inserted
<1>8. ActivateBestChain(inserted) = [inserted EXCEPT !.chain = best]
  <2>1. NodeRecord(inserted) /\ inserted.fork_choice = InsertBlock(fc, b) /\ inserted.chain = n.chain
    BY <1>7 DEF NodeRecord
  <2>2. QED BY <1>1, <1>3, <2>1, ActivatedAfter
<1> HIDE DEF new, best, fc
<1>9. ActivateBestChain(inserted) = [fork_choice |-> new, chain |-> best,
        accepted_blocks |-> n.accepted_blocks, rejected_blocks |-> n.rejected_blocks,
        mined_blocks |-> n.mined_blocks, synced_blocks |-> n.synced_blocks,
        failed_syncs |-> n.failed_syncs, reorgs |-> n.reorgs]
  BY <1>7, <1>8
<1>10. m = [fork_choice |-> new, chain |-> best,
        accepted_blocks |-> n.accepted_blocks, rejected_blocks |-> n.rejected_blocks,
        mined_blocks |-> n.mined_blocks + 1, synced_blocks |-> n.synced_blocks,
        failed_syncs |-> n.failed_syncs, reorgs |-> n.reorgs]
  BY <1>9
<1> HIDE DEF m
<1>11. IsPrefix(n.chain, best)
  <2>1. n.chain \in Seq(Blocks)
    BY HeadOfGood
  <2>2. Len(n.chain) \in 0..Len(n.chain)
    BY <2>1
  <2>3. Len(best) = Len(n.chain) + 1 /\ SubSeq(best, 1, Len(n.chain)) = n.chain
    BY <1>1, <1>6, <2>1, <2>2, PrefixesOfAppend
  <2>4. QED BY <2>1, <2>3 DEF IsPrefix
<1>12. NodeGood(m)
  <2>1. IsFiniteSet(Known(new))
    BY <1>4, FS_AddElement DEF NodeGood, fc
  <2>2. \A c \in Counters : n[c] \in Nat
    BY DEF NodeGood
  <2>3. \A c \in Counters : m[c] \in Nat
    BY <1>10, <2>2 DEF Counters
  <2>4. m.chain = BestChain(m.fork_choice)
    BY <1>10 DEF best
  <2>5. QED BY <1>5, <1>10, <2>1, <2>3, <2>4 DEF NodeGood, NodeRecord
<1>13. QED
  BY <1>4, <1>5, <1>10, <1>11, <1>12 DEF m, inserted, fc

\* The counters after a block that was learned alone, by mining or by gossip, and is
\* broadcast in this step.
LEMMA OneMoreCounted ==
  ASSUME NodeGood(node), CountsGood, NEW h \in BlockHashes,
         h \notin Known(node.fork_choice),
         Known(node'.fork_choice) = Known(node.fork_choice) \cup {h},
         relayed' = [relayed EXCEPT ![h] = @ + 1],
         loaded' = loaded,
         node'.accepted_blocks + node'.mined_blocks
           = node.accepted_blocks + node.mined_blocks + 1,
         node'.synced_blocks = node.synced_blocks,
         NodeGood(node')
  PROVE  CountsGood'
<1> DEFINE once == {k \in BlockHashes : relayed[k] = 1}
           known == Known(node.fork_choice)
<1>1. /\ relayed \in [BlockHashes -> Nat]
      /\ loaded \subseteq known
      /\ Cardinality(known) = Cardinality(loaded) + Learned(node)
      /\ \A k \in BlockHashes : relayed[k] <= 1 /\ (relayed[k] = 1 => k \in known \ loaded)
      /\ Cardinality(once) = node.accepted_blocks + node.mined_blocks
  BY DEF CountsGood
<1>2. /\ node.accepted_blocks \in Nat /\ node.mined_blocks \in Nat /\ node.synced_blocks \in Nat
      /\ node'.accepted_blocks \in Nat /\ node'.mined_blocks \in Nat
      /\ IsFiniteSet(known)
  BY DEF NodeGood, Counters
<1>3. relayed[h] = 0
  BY <1>1
<1>4. /\ relayed' \in [BlockHashes -> Nat]
      /\ relayed'[h] = 1
      /\ \A k \in BlockHashes \ {h} : relayed'[k] = relayed[k]
  BY <1>1, <1>3
<1>5. {k \in BlockHashes : relayed'[k] = 1} = once \cup {h}
  BY <1>4
<1>6. /\ IsFiniteSet(once) /\ h \notin once
      /\ IsFiniteSet(loaded)
  <2>1. once \subseteq known
    BY <1>1
  <2>2. QED BY <1>1, <1>2, <1>3, <2>1, FS_Subset
<1>7. /\ Cardinality(once \cup {h}) = Cardinality(once) + 1
      /\ Cardinality(known \cup {h}) = Cardinality(known) + 1
      /\ Cardinality(loaded) \in Nat
  BY <1>2, <1>6, FS_AddElement, FS_CardinalityType
<1>8. Learned(node') = Learned(node) + 1 /\ Learned(node) \in Nat
  BY <1>2 DEF Learned
<1> HIDE DEF once, known
<1>9. Cardinality(known \cup {h}) = Cardinality(loaded) + Learned(node')
  BY <1>1, <1>7, <1>8
<1>10. Cardinality(once \cup {h}) = node'.accepted_blocks + node'.mined_blocks
  BY <1>1, <1>7
<1>11. Known(node'.fork_choice) = known \cup {h}
  BY DEF known
<1>12. \A k \in BlockHashes :
         relayed'[k] <= 1 /\ (relayed'[k] = 1 => k \in (known \cup {h}) \ loaded)
  BY <1>1, <1>4 DEF known
<1>13. QED
  BY <1>1, <1>4, <1>5, <1>9, <1>10, <1>11, <1>12 DEF CountsGood, Known, BlockHashes

\* The counters after a step that broadcasts nothing.
LEMMA NothingBroadcast ==
  ASSUME CountsGood,
         Known(node.fork_choice) \subseteq Known(node'.fork_choice),
         UNCHANGED <<relayed, loaded>>,
         node'.accepted_blocks = node.accepted_blocks,
         node'.mined_blocks = node.mined_blocks,
         Cardinality(Known(node'.fork_choice)) + Learned(node)
           = Cardinality(Known(node.fork_choice)) + Learned(node'),
         NodeGood(node), NodeGood(node')
  PROVE  CountsGood'
<1>1. ASSUME NEW n, NodeGood(n)
      PROVE  Learned(n) \in Nat /\ Cardinality(Known(n.fork_choice)) \in Nat
  <2>1. n.accepted_blocks \in Nat /\ n.mined_blocks \in Nat /\ n.synced_blocks \in Nat
    BY <1>1 DEF NodeGood, Counters
  <2>2. Cardinality(Known(n.fork_choice)) \in Nat
    BY <1>1, FS_CardinalityType DEF NodeGood
  <2>3. QED BY <2>1, <2>2 DEF Learned
<1>2. Cardinality(loaded) \in Nat
  <2>1. IsFiniteSet(loaded)
    BY FS_Subset DEF NodeGood, CountsGood
  <2>2. QED BY <2>1, FS_CardinalityType
<1> DEFINE known == Cardinality(Known(node.fork_choice))
           known2 == Cardinality(Known(node'.fork_choice))
<1>3. /\ known \in Nat /\ known2 \in Nat
      /\ Learned(node) \in Nat /\ Learned(node') \in Nat
      /\ known = Cardinality(loaded) + Learned(node)
      /\ known2 + Learned(node) = known + Learned(node')
  BY <1>1 DEF CountsGood
<1> HIDE DEF known, known2
<1>4. known2 = Cardinality(loaded) + Learned(node')
  BY <1>2, <1>3
<1>5. QED
  BY <1>4 DEF CountsGood, known2, Known

LEMMA MineOnceGood ==
  ASSUME NodeInv, NEW b \in Blocks, MineOnce(b)
  PROVE  GoodStep
<1>1. NodeGood(node) /\ LoopGood /\ CountsGood /\ b \in MineNextBlock(node.fork_choice)
  BY DEF NodeInv, MineOnce
<1>2. /\ NodeGood(node')
      /\ b.hash \notin Known(node.fork_choice)
      /\ Known(node'.fork_choice) = Known(node.fork_choice) \cup {b.hash}
      /\ Grows(node.fork_choice, node'.fork_choice)
      /\ node'.accepted_blocks = node.accepted_blocks
      /\ node'.synced_blocks = node.synced_blocks
      /\ node'.mined_blocks = node.mined_blocks + 1
      /\ node'.reorgs = node.reorgs
      /\ IsPrefix(node.chain, node'.chain)
  BY <1>1, MinedNode DEF MineOnce
<1>3. /\ loop' = loop /\ loaded' = loaded /\ syncs' = syncs
      /\ relayed' = [relayed EXCEPT ![b.hash] = @ + 1]
  BY DEF MineOnce
<1>4. /\ node.accepted_blocks \in Nat /\ node.mined_blocks \in Nat /\ node.reorgs \in Nat
  BY <1>1 DEF NodeGood, Counters
<1>5. CountsGood'
  <2>1. b.hash \in BlockHashes
    BY DEF BlockHashes
  <2>2. node'.accepted_blocks + node'.mined_blocks = node.accepted_blocks + node.mined_blocks + 1
    BY <1>2, <1>4
  <2>3. QED BY <1>1, <1>2, <1>3, <2>1, <2>2, OneMoreCounted
<1>6. LoopGood'
  BY <1>1, <1>2, <1>3, LoopStays
<1>7. ReorgStep
  BY <1>2, <1>4 DEF ReorgStep
<1>8. QED
  BY <1>2, <1>3, <1>5, <1>6, <1>7 DEF GoodStep, NodeInv, SyncStep

LEMMA GossipBlockGood ==
  ASSUME NodeInv, NEW b \in Blocks, GossipBlock(b)
  PROVE  GoodStep
<1> DEFINE fc == node.fork_choice
<1>1. NodeGood(node) /\ LoopGood /\ CountsGood
  BY DEF NodeInv
<1>2. /\ node' = ApplyIncomingBlock(node, b, "Gossip")
      /\ loop' = loop /\ loaded' = loaded /\ syncs' = syncs
      /\ relayed' = IF Application(node, b) = "Accepted"
                    THEN [relayed EXCEPT ![b.hash] = @ + 1] ELSE relayed
  BY DEF GossipBlock
<1>3. /\ node.accepted_blocks \in Nat /\ node.mined_blocks \in Nat
      /\ node.synced_blocks \in Nat /\ node.reorgs \in Nat
  BY <1>1 DEF NodeGood, Counters
<1>4. /\ NodeGood(node')
      /\ node'.fork_choice = InsertBlock(fc, b)
      /\ node'.accepted_blocks = node.accepted_blocks + (IF Attaches(fc, b) THEN 1 ELSE 0)
      /\ node'.synced_blocks = node.synced_blocks
      /\ node'.mined_blocks = node.mined_blocks
      /\ node'.reorgs = node.reorgs +
           (IF node.chain # << >> /\ ~IsPrefix(node.chain, node'.chain) THEN 1 ELSE 0)
      /\ Known(node'.fork_choice) = IF Attaches(fc, b) THEN Known(fc) \cup {b.hash} ELSE Known(fc)
  <2>1. /\ node'.accepted_blocks = node.accepted_blocks +
             (IF Attaches(fc, b) /\ "Gossip" = "Gossip" THEN 1 ELSE 0)
        /\ node'.synced_blocks = node.synced_blocks +
             (IF Attaches(fc, b) /\ "Gossip" = "Sync" THEN 1 ELSE 0)
    BY <1>1, <1>2, AppliedBlock
  <2>2. node'.accepted_blocks = node.accepted_blocks + (IF Attaches(fc, b) THEN 1 ELSE 0)
    BY <2>1
  <2>3. node'.synced_blocks = node.synced_blocks
    BY <1>3, <2>1
  <2>4. QED BY <1>1, <1>2, <2>2, <2>3, AppliedBlock
<1>5. Grows(fc, node'.fork_choice)
  BY <1>4, InsertGrows
<1>6. LoopGood'
  BY <1>1, <1>2, <1>5, LoopStays
<1>7. ReorgStep
  BY <1>3, <1>4 DEF ReorgStep
<1>8. Application(node, b) = "Accepted" <=> Attaches(fc, b)
  BY ApplicationCases
<1>9. CountsGood'
  <2>1. CASE Attaches(fc, b)
    <3>1. b.hash \in BlockHashes /\ b.hash \notin Known(fc)
      BY <2>1 DEF BlockHashes, Attaches, ContainsBlock
    <3>2. /\ Known(node'.fork_choice) = Known(fc) \cup {b.hash}
          /\ relayed' = [relayed EXCEPT ![b.hash] = @ + 1]
      BY <1>2, <1>4, <1>8, <2>1
    <3>3. node'.accepted_blocks + node'.mined_blocks = node.accepted_blocks + node.mined_blocks + 1
      BY <1>3, <1>4, <2>1
    <3>4. QED BY <1>1, <1>2, <1>4, <3>1, <3>2, <3>3, OneMoreCounted
  <2>2. CASE ~Attaches(fc, b)
    <3>1. /\ Known(node'.fork_choice) = Known(fc) /\ relayed' = relayed
          /\ node'.accepted_blocks = node.accepted_blocks
      BY <1>2, <1>3, <1>4, <1>8, <2>2
    <3>2. Learned(node') = Learned(node)
      BY <1>4, <3>1 DEF Learned
    <3>3. QED BY <1>1, <1>2, <1>4, <3>1, <3>2, NothingBroadcast
  <2>3. QED BY <2>1, <2>2
<1>10. QED
  BY <1>2, <1>4, <1>5, <1>6, <1>7, <1>9 DEF GoodStep, NodeInv, SyncStep

LEMMA BeginSyncGood ==
  ASSUME NodeInv, BeginSync
  PROVE  GoodStep
<1>1. /\ node' = node /\ relayed' = relayed /\ loaded' = loaded
      /\ loop = Idle
      /\ loop' = AskHeaders(SyncPeers, BlockLocator(node.chain, MaxLocatorHashes))
      /\ syncs < MaxSyncs /\ syncs' = syncs + 1
  BY DEF BeginSync
<1>2. node.chain \in Seq(Blocks) /\ NodeGood(node)
  BY HeadOfGood DEF NodeInv
<1>3. LoopGood'
  <2>1. LocatorGood(BlockLocator(node.chain, MaxLocatorHashes))
    BY <1>2, LocatorType
  <2>2. SyncPeers \in 1..SyncPeers
    BY SyncAssumption
  <2>3. QED BY <1>1, <2>1, <2>2 DEF LoopGood, LocatorGood
<1>4. syncs' \in 0..MaxSyncs
  BY <1>1, SyncAssumption DEF NodeInv
<1>5. CountsGood'
  BY <1>1 DEF NodeInv, CountsGood
<1>6. node'.reorgs - node.reorgs = 0 /\ IsPrefix(node.chain, node'.chain)
  BY <1>1, <1>2 DEF NodeGood, Counters, IsPrefix
<1>7. QED
  BY <1>1, <1>2, <1>3, <1>4, <1>5, <1>6 DEF GoodStep, NodeInv, ReorgStep, SyncStep, Grows, Idle

\* A step of the loop that leaves the node as it is.
LEMMA IdleNodeGood ==
  ASSUME NodeInv, node' = node, LoopGood', loop.at # "Blocks", UNCHANGED <<relayed, loaded, syncs>>
  PROVE  GoodStep
<1>1. NodeGood(node) /\ node.chain \in Seq(Blocks)
  BY HeadOfGood DEF NodeInv
<1>2. CountsGood'
  BY DEF NodeInv, CountsGood
<1>3. node'.reorgs - node.reorgs = 0 /\ IsPrefix(node.chain, node'.chain)
  BY <1>1 DEF NodeGood, Counters, IsPrefix
<1>4. QED
  BY <1>1, <1>2, <1>3 DEF GoodStep, NodeInv, ReorgStep, SyncStep, Grows

\* One failed sync is counted, and nothing else of the node changes.
LEMMA FailedNode ==
  ASSUME NEW n, NodeGood(n)
  PROVE  LET m == [n EXCEPT !.failed_syncs = @ + 1]
         IN  /\ NodeGood(m)
             /\ m.fork_choice = n.fork_choice
             /\ m.chain = n.chain
             /\ m.accepted_blocks = n.accepted_blocks
             /\ m.mined_blocks = n.mined_blocks
             /\ m.synced_blocks = n.synced_blocks
             /\ m.reorgs = n.reorgs
<1> DEFINE m == [n EXCEPT !.failed_syncs = @ + 1]
<1>1. m = [fork_choice |-> n.fork_choice, chain |-> n.chain,
       accepted_blocks |-> n.accepted_blocks, rejected_blocks |-> n.rejected_blocks,
       mined_blocks |-> n.mined_blocks, synced_blocks |-> n.synced_blocks,
       failed_syncs |-> n.failed_syncs + 1, reorgs |-> n.reorgs]
  BY DEF NodeGood, NodeRecord
<1> HIDE DEF m
<1>2. \A c \in Counters : m[c] \in Nat
  BY <1>1 DEF Counters, NodeGood
<1>3. QED
  BY <1>1, <1>2 DEF NodeGood, NodeRecord, m

LEMMA SyncFailsGood ==
  ASSUME NodeInv, loop.at \in {"Headers", "Blocks"}, SyncFails, UNCHANGED <<relayed, loaded, syncs>>
  PROVE  GoodStep
<1>1. NodeGood(node) /\ node.chain \in Seq(Blocks) /\ LoopGood /\ CountsGood
  BY HeadOfGood DEF NodeInv
<1>2. node' = [node EXCEPT !.failed_syncs = @ + 1] /\ loop' = NextPeer
  BY DEF SyncFails
<1>3. /\ NodeGood(node')
      /\ node'.fork_choice = node.fork_choice
      /\ node'.chain = node.chain
      /\ node'.accepted_blocks = node.accepted_blocks
      /\ node'.mined_blocks = node.mined_blocks
      /\ node'.synced_blocks = node.synced_blocks
      /\ node'.reorgs = node.reorgs
  BY <1>1, <1>2, FailedNode
<1>4. LoopGood'
  BY <1>1, <1>2, NextPeerGood
<1>5. CountsGood'
  <2>1. Learned(node') = Learned(node)
    BY <1>3 DEF Learned
  <2>2. QED BY <1>1, <1>3, <2>1, NothingBroadcast
<1>6. node'.reorgs - node.reorgs = 0 /\ IsPrefix(node.chain, node'.chain)
  BY <1>1, <1>3 DEF NodeGood, Counters, IsPrefix
<1>7. QED
  BY <1>2, <1>3, <1>4, <1>5, <1>6 DEF GoodStep, NodeInv, ReorgStep, SyncStep, Grows

LEMMA ReceiveHeadersGood ==
  ASSUME NodeInv, NEW headers \in HeaderResponses, ReceiveHeaders(headers)
  PROVE  GoodStep
<1>1. headers \in Seq(HeaderRecords) /\ Len(headers) <= MaxBlocksPerResponse
  <2>1. headers \in Seq(HeaderRecords) /\ Len(headers) \in 0..MaxBlocksPerResponse
    BY SyncAssumption DEF HeaderResponses, BoundedSeq, SeqOf, HeaderRecords
  <2>2. QED BY <2>1, SyncAssumption
<1>2. loop.at = "Headers" /\ UNCHANGED <<relayed, loaded, syncs>>
  BY DEF ReceiveHeaders
<1>3. CASE ~HeadersExtendLocator(node.chain, loop.locator, headers)
  BY <1>2, <1>3, SyncFailsGood DEF ReceiveHeaders
<1>4. CASE HeadersExtendLocator(node.chain, loop.locator, headers)
  <2>1. /\ node' = node
        /\ loop' = IF HasUnknownBlock(headers)
                   THEN AskBlocks(loop.peers, loop.locator, headers) ELSE NextPeer
    BY <1>4 DEF ReceiveHeaders
  <2>2. LoopGood'
    <3>1. CASE HasUnknownBlock(headers)
      <4>1. Len(headers) \in 1..MaxBlocksPerResponse /\ headers # << >>
        BY <1>1, <3>1, SyncAssumption DEF HasUnknownBlock
      <4>2. Screened(node.fork_choice, headers)
        BY <1>1, <1>4, <4>1, ScreeningIsSound DEF NodeInv, NodeGood
      <4>3. PICK peers \in 1..SyncPeers : \E locator :
              LocatorGood(locator) /\ loop = AskHeaders(peers, locator)
        BY <1>2 DEF NodeInv, LoopGood, Idle, AskBlocks
      <4>4. loop.peers = peers /\ LocatorGood(loop.locator)
        BY <4>3 DEF AskHeaders
      <4>5. loop' = AskBlocks(peers, loop.locator, headers)
        BY <2>1, <3>1, <4>4
      <4>6. QED BY <2>1, <4>1, <4>2, <4>4, <4>5 DEF LoopGood, LocatorGood
    <3>2. CASE ~HasUnknownBlock(headers)
      BY <1>2, <2>1, <3>2, NextPeerGood DEF NodeInv
    <3>3. QED BY <3>1, <3>2
  <2>3. QED BY <1>2, <2>1, <2>2, IdleNodeGood
<1>5. QED BY <1>3, <1>4

-----------------------------------------------------------------------------
\* A body that has the hash of a screened header has that header, whatever its trace.
LEMMA BodiesOfHeaders ==
  ASSUME NEW fc, NEW headers, Screened(fc, headers), NEW batch \in Seq(Blocks),
         Hashes(batch) = [i \in 1..Len(headers) |-> headers[i].hash]
  PROVE  /\ Len(batch) = Len(headers)
         /\ \A i \in 1..Len(batch) : Header(batch[i]) = headers[i]
         /\ Linked(batch)
<1>1. headers \in Seq(HeaderRecords) /\ Len(headers) \in Nat /\ Len(batch) \in Nat
      /\ \A i \in 1..Len(batch) : batch[i] \in Blocks
  BY DEF Screened
<1>2. DOMAIN Hashes(batch) = 1..Len(batch)
      /\ \A i \in 1..Len(batch) : Hashes(batch)[i] = batch[i].hash
  BY DEF Hashes
<1>3. Len(batch) = Len(headers)
  <2>1. 1..Len(batch) = 1..Len(headers)
    BY <1>2
  <2>2. QED BY <1>1, <2>1
<1>4. ASSUME NEW i \in 1..Len(batch)
      PROVE  Header(batch[i]) = headers[i]
  <2>1. headers[i] \in HeaderRecords /\ batch[i] \in Blocks
    BY <1>1, <1>3
  <2>2. PICK b \in Blocks : headers[i] = Header(b)
    BY <2>1 DEF HeaderRecords
  <2>3. batch[i].hash = headers[i].hash
    BY <1>2, <1>3
  <2>4. headers[i].hash = b.hash
    BY <2>2 DEF Header
  <2>5. QED BY <2>1, <2>2, <2>3, <2>4, HashAssumption
<1>5. Linked(batch)
  <2> SUFFICES ASSUME NEW i \in 2..Len(batch)
               PROVE  batch[i].previous_block = batch[i - 1].hash
    BY DEF Linked
  <2>1. i \in 1..Len(headers) /\ i - 1 \in 1..Len(headers) /\ i # 1
    BY <1>1, <1>3
  <2>2. headers[i].previous_block = headers[i - 1].hash
    BY <2>1 DEF Screened, ContiguousFrom
  <2>3. Header(batch[i]) = headers[i] /\ Header(batch[i - 1]) = headers[i - 1]
    BY <1>3, <1>4, <2>1
  <2>4. /\ Header(batch[i]).previous_block = batch[i].previous_block
        /\ Header(batch[i - 1]).hash = batch[i - 1].hash
    BY DEF Header
  <2>5. QED BY <2>2, <2>3, <2>4
<1>6. QED BY <1>3, <1>4, <1>5

LEMMA ReceiveBlocksGood ==
  ASSUME NodeInv, NEW batch \in BlockResponses, ReceiveBlocks(batch)
  PROVE  GoodStep
<1> DEFINE fc == node.fork_choice
           l == Len(batch)
<1>1. batch \in Seq(Blocks)
  BY SyncAssumption DEF BlockResponses, BoundedSeq, SeqOf
<1>2. /\ loop.at = "Blocks"
      /\ Hashes(batch) = [i \in 1..Len(loop.headers) |-> loop.headers[i].hash]
      /\ UNCHANGED <<relayed, loaded, syncs>>
  BY DEF ReceiveBlocks
<1>3. NodeGood(node) /\ LoopGood /\ CountsGood
  BY DEF NodeInv
<1>4. Screened(fc, loop.headers)
  BY <1>2, <1>3 DEF LoopGood, Idle, AskHeaders, AskBlocks
<1>5. CASE ~BatchIsValid(fc, batch)
  BY <1>2, <1>5, SyncFailsGood DEF ReceiveBlocks
<1>6. CASE BatchIsValid(fc, batch)
  <2>1. PICK r : /\ BatchRun(node, batch, r)
                 /\ ApplyBatch(node, batch) = [node |-> r[Len(batch)], refused |-> FALSE]
    BY <1>1, <1>3, <1>6, ValidBatchRuns
  <2>2. node' = r[Len(batch)] /\ loop' = NextPeer
    BY <1>6, <2>1 DEF ReceiveBlocks
  <2>3. /\ Len(batch) = Len(loop.headers)
        /\ \A i \in 1..Len(batch) : Header(batch[i]) = loop.headers[i]
        /\ Linked(batch)
    BY <1>1, <1>2, <1>4, BodiesOfHeaders
  <2>4. /\ NodeGood(node')
        /\ Grows(fc, node'.fork_choice)
        /\ \A i \in 1..Len(batch) : batch[i].hash \in Known(node'.fork_choice)
        /\ node'.accepted_blocks = node.accepted_blocks
        /\ node'.mined_blocks = node.mined_blocks
        /\ node'.failed_syncs = node.failed_syncs
        /\ Cardinality(Known(node'.fork_choice)) + Learned(node)
             = Cardinality(Known(fc)) + Learned(node')
    BY <1>1, <1>3, <2>1, <2>2, BatchCounts
  <2>5. node'.reorgs = node.reorgs +
          (IF node.chain # << >> /\ ~IsPrefix(node.chain, node'.chain) THEN 1 ELSE 0)
    BY <1>1, <1>3, <2>1, <2>2, <2>3, BatchReorgs
  <2>6. ReorgStep
    <3>1. node.reorgs \in Nat
      BY <1>3 DEF NodeGood, Counters
    <3>2. QED BY <2>5, <3>1 DEF ReorgStep
  <2>7. LoopGood'
    BY <1>2, <1>3, <2>2, NextPeerGood
  <2>8. CountsGood'
    <3>1. Known(fc) \subseteq Known(node'.fork_choice)
      BY <2>4 DEF Grows
    <3>2. QED BY <1>2, <1>3, <2>4, <3>1, NothingBroadcast
  <2>9. SyncStep
    <3>1. \A i \in 1..Len(loop.headers) : loop.headers[i].hash \in Known(node'.fork_choice)
      <4>1. \A i \in 1..Len(batch) : Header(batch[i]).hash = batch[i].hash
        BY DEF Header
      <4>2. QED BY <2>3, <2>4, <4>1
    <3>2. QED BY <2>4, <3>1 DEF SyncStep
  <2>10. QED
    BY <1>2, <2>4, <2>6, <2>7, <2>8, <2>9 DEF GoodStep, NodeInv
<1>7. QED BY <1>5, <1>6

LEMMA StepGood ==
  ASSUME NodeInv, Next
  PROVE  GoodStep
<1>1. ASSUME NEW b \in Blocks, MineOnce(b) \/ GossipBlock(b)
      PROVE  GoodStep
  BY <1>1, MineOnceGood, GossipBlockGood
<1>2. CASE PeerFails
  BY <1>2, SyncFailsGood DEF PeerFails
<1>3. QED
  BY <1>1, <1>2, BeginSyncGood, ReceiveHeadersGood, ReceiveBlocksGood DEF Next

-----------------------------------------------------------------------------
(* The start                                                                 *)

\* The tree that the stored blocks leave is finite: a loop over a finite list inserts
\* at most one block each time.
LEMMA InsertsFinite ==
  ASSUME NEW blocks \in Seq(Blocks)
  PROVE  /\ ForkChoiceInv(Inserts!Fold(0, EmptyForkChoice, blocks))
         /\ IsFiniteSet(Known(Inserts!Fold(0, EmptyForkChoice, blocks)))
<1> DEFINE l == Len(blocks)
           after(k) == After(EmptyForkChoice, blocks, k)
           S == {k \in Nat : IsFiniteSet(Known(after(k)))}
<1>1. ForkChoiceInv(EmptyForkChoice) /\ Known(EmptyForkChoice) = {}
  BY EmptyInv DEF Known, EmptyForkChoice
<1>2. /\ after(0) = EmptyForkChoice
      /\ after(l) = Inserts!Fold(0, EmptyForkChoice, blocks)
      /\ \A k \in 1..l : after(k) = InsertBlock(after(k - 1), blocks[k])
      /\ \A k \in 0..l : ForkChoiceInv(after(k))
  BY <1>1, InsertsInOrder DEF After
<1>3. l \in Nat /\ \A k \in 1..l : blocks[k] \in Blocks
  OBVIOUS
<1> HIDE DEF l, after
<1>4. 0 \in S
  BY <1>1, <1>2, FS_EmptySet
<1>5. ASSUME NEW k \in 1..l, k - 1 \in S
      PROVE  k \in S
  <2>1. IsFiniteSet(Known(after(k - 1))) /\ k \in Nat
    BY <1>3, <1>5
  <2>2. CASE Attaches(after(k - 1), blocks[k])
    <3>1. after(k) = InsertBlock(after(k - 1), blocks[k]) /\ blocks[k] \in Blocks
      BY <1>2, <1>3
    <3> DEFINE before == after(k - 1)
               b == blocks[k]
    <3>2. Known(InsertBlock(before, b)) = Known(before) \cup {b.hash}
      <4>1. Attaches(before, b) /\ b \in Blocks
        BY <2>2, <3>1
      <4> HIDE DEF before, b
      <4>2. QED BY <4>1, Inserted
    <3>3. IsFiniteSet(Known(after(k - 1)) \cup {blocks[k].hash})
      BY <2>1, FS_AddElement
    <3>4. QED BY <2>1, <3>1, <3>2, <3>3
  <2>3. CASE ~Attaches(after(k - 1), blocks[k])
    BY <1>2, <2>1, <2>3 DEF InsertBlock
  <2>4. QED BY <2>2, <2>3
<1>6. l \in S
  <2> HIDE DEF S
  <2>1. 0..l \subseteq S
    BY <1>3, <1>4, <1>5, Inserts!Counting
  <2>2. QED BY <1>3, <2>1
<1>7. l \in 0..l
  BY <1>3
<1>8. QED
  BY <1>2, <1>6, <1>7

LEMMA InitGood ==
  ASSUME Init
  PROVE  NodeInv
<1>1. PICK blocks \in StoredBlocks :
        node = NewNode(FoldLeft(InsertBlock, EmptyForkChoice, blocks))
  BY DEF Init
<1> DEFINE fc == Inserts!Fold(0, EmptyForkChoice, blocks)
<1>2. node = NewNode(fc)
  BY <1>1, InsertsAreFold
<1>3. blocks \in Seq(Blocks)
  BY SyncAssumption
<1>4. ForkChoiceInv(fc) /\ IsFiniteSet(Known(fc))
  BY <1>3, InsertsFinite
<1> HIDE DEF fc
<1>5. NodeGood(node) /\ Learned(node) = 0
      /\ node.accepted_blocks + node.mined_blocks = 0
      /\ node.fork_choice = fc
  BY <1>2, <1>4 DEF NewNode, NodeGood, NodeRecord, Counters, Learned
<1>6. /\ loop = Idle
      /\ relayed = [h \in BlockHashes |-> 0]
      /\ loaded = Known(node.fork_choice)
      /\ syncs = 0
  BY DEF Init, BlockHashes
<1>7. CountsGood
  <2>1. Cardinality(Known(node.fork_choice)) \in Nat
    BY <1>4, <1>5, FS_CardinalityType
  <2>2. {h \in BlockHashes : relayed[h] = 1} = {} /\ relayed \in [BlockHashes -> Nat]
    BY <1>6
  <2>3. Cardinality({h \in BlockHashes : relayed[h] = 1}) = 0
    BY <2>2, FS_EmptySet
  <2> DEFINE known == Cardinality(Known(node.fork_choice))
  <2> HIDE DEF known
  <2>4. known = known + Learned(node)
    BY <1>5, <2>1 DEF known
  <2>5. QED
    BY <1>5, <1>6, <2>2, <2>3, <2>4 DEF CountsGood, known
<1>8. QED
  BY <1>5, <1>6, <1>7, SyncAssumption DEF NodeInv, LoopGood

LEMMA StutterGood ==
  ASSUME NodeInv, UNCHANGED vars
  PROVE  NodeInv'
BY DEF NodeInv, vars, LoopGood, LocatorGood, CountsGood

-----------------------------------------------------------------------------
(* Theorems of the specification                                             *)

\* The inductive invariant of all critical sections: the active chain is the best
\* branch of a valid tree, screened headers still hang on it, and the counters account
\* for what is known.
THEOREM NodeInvariance == Spec => []NodeInv
<1>1. NodeInv /\ [Next]_vars => NodeInv'
  BY StepGood, StutterGood DEF GoodStep
<1>2. QED
  BY <1>1, InitGood, PTL DEF Spec

\* NodeState and the sync of the node loop are always well typed.
THEOREM NodeTypeCorrect == Spec => []TypeOK
<1>1. NodeInv => TypeOK
  <2> SUFFICES ASSUME NodeInv PROVE TypeOK
    OBVIOUS
  <2>1. ForkChoiceType(node.fork_choice) /\ node.chain \in Seq(Blocks)
        /\ \A c \in Counters : node[c] \in Nat
    BY HeadOfGood DEF NodeInv, NodeGood, ForkChoiceInv, TreeInv
  <2>2. /\ loop.at \in {"Idle", "Headers", "Blocks"}
        /\ loop # Idle => /\ loop.peers \in 1..SyncPeers
                          /\ loop.locator \in Seq(Nat)
                          /\ Len(loop.locator) <= MaxLocatorHashes
        /\ loop.at = "Blocks" => Len(loop.headers) \in 1..MaxBlocksPerResponse
    BY DEF NodeInv, LoopGood, LocatorGood, Idle, AskHeaders, AskBlocks
  <2>3. relayed \in [{b.hash : b \in Blocks} -> Nat] /\ syncs \in 0..MaxSyncs
    BY DEF NodeInv, CountsGood, BlockHashes
  <2>4. QED BY <2>1, <2>2, <2>3 DEF TypeOK
<1>2. QED
  BY <1>1, NodeInvariance, PTL

\* After every critical section the chain that the node serves, mines on and shows is
\* the best branch of its tree and replays.
THEOREM ChainAlwaysFollowsTip == Spec => []ChainFollowsTip
<1>1. NodeInv /\ TypeOK => ChainFollowsTip
  BY HeadOfGood DEF NodeInv, NodeGood, ChainFollowsTip
<1>2. QED
  BY <1>1, NodeInvariance, NodeTypeCorrect, PTL

\* However mining, gossip and sync interleave, a block is counted once, and broadcast
\* once if it came by mining or gossip.
THEOREM EachBlockAlwaysOnce == Spec => []EachBlockOnce
<1>1. NodeInv => EachBlockOnce
  <2> SUFFICES ASSUME NodeInv PROVE EachBlockOnce
    OBVIOUS
  <2>1. DOMAIN relayed = BlockHashes /\ CountsGood
    BY DEF NodeInv, CountsGood
  <2>2. Cardinality(loaded) \in Nat
    <3>1. IsFiniteSet(loaded)
      BY FS_Subset DEF NodeInv, NodeGood, CountsGood
    <3>2. QED BY <3>1, FS_CardinalityType
  <2>3. node.accepted_blocks \in Nat /\ node.mined_blocks \in Nat /\ node.synced_blocks \in Nat
    BY DEF NodeInv, NodeGood, Counters
  <2>4. Cardinality(loaded) + Learned(node)
          = Cardinality(loaded) + node.accepted_blocks + node.mined_blocks + node.synced_blocks
    <3> DEFINE c == Cardinality(loaded)
    <3>1. c \in Nat BY <2>2
    <3> HIDE DEF c
    <3>2. QED BY <2>3, <3>1 DEF Learned, c
  <2>5. QED
    BY <2>1, <2>4 DEF CountsGood, EachBlockOnce
<1>2. QED
  BY <1>1, NodeInvariance, PTL

\* reorgs goes up by one exactly when the step leaves the active branch, for a whole
\* batch as for one block.
THEOREM ReorgsAlwaysCountSwitches == Spec => ReorgsCountSwitches
<1>1. NodeInv /\ [Next]_vars =>
        [node'.reorgs - node.reorgs
           = IF node.chain # << >> /\ ~IsPrefix(node.chain, node'.chain) THEN 1 ELSE 0]_vars
  BY StepGood DEF GoodStep, ReorgStep
<1>2. QED
  BY <1>1, NodeInvariance, PTL DEF Spec, ReorgsCountSwitches

\* A sync response is applied as a whole or counted as one failed sync.
THEOREM SyncAlwaysAllOrNothing == Spec => SyncAllOrNothing
<1>1. NodeInv /\ [Next]_vars =>
        [(loop.at = "Blocks" /\ loop' # loop) =>
           \/ /\ node'.failed_syncs = node.failed_syncs
              /\ \A i \in 1..Len(loop.headers) : loop.headers[i].hash \in Known(node'.fork_choice)
           \/ node' = [node EXCEPT !.failed_syncs = @ + 1]]_vars
  BY StepGood DEF GoodStep, SyncStep
<1>2. QED
  BY <1>1, NodeInvariance, PTL DEF Spec, SyncAllOrNothing

-----------------------------------------------------------------------------
(* Honest bodies                                                             *)

\* Between the screening and the blocks, handlers may reorganise the chain the headers
\* were screened against; an honest answer is applied all the same.
THEOREM ScreenedHeadersAlwaysAttach == Spec => []ScreenedHeadersAttach
<1>1. NodeInv => ScreenedHeadersAttach
  <2> SUFFICES ASSUME NodeInv, loop.at = "Blocks"
               PROVE  /\ ParentKnown(node.fork_choice, loop.headers[1])
                      /\ \A batch \in BlockResponses :
                           HonestBodies(node.fork_choice, loop.headers, batch)
                             => BatchIsValid(node.fork_choice, batch)
    BY DEF ScreenedHeadersAttach, HonestBodies
  <2>1. Screened(node.fork_choice, loop.headers) /\ ForkChoiceInv(node.fork_choice)
    BY DEF NodeInv, NodeGood, LoopGood, Idle, AskHeaders, AskBlocks
  <2>2. ASSUME NEW batch \in BlockResponses,
               HonestBodies(node.fork_choice, loop.headers, batch)
        PROVE  BatchIsValid(node.fork_choice, batch)
    <3>1. batch \in Seq(Blocks)
      BY SyncAssumption DEF BlockResponses, BoundedSeq, SeqOf
    <3>2. QED BY <2>1, <2>2, <3>1, HonestBodiesAttach
  <2>3. QED BY <2>1, <2>2 DEF Screened
<1>2. QED
  BY <1>1, NodeInvariance, PTL

-----------------------------------------------------------------------------
(* The node implements HeaviestTip                                           *)

\* The head of a node is the head that HeaviestTip prescribes for what it knows.
LEMMA HeadIsHeaviest ==
  ASSUME NEW n, NodeGood(n)
  PROVE  /\ Known(n.fork_choice) \subseteq BlockHashes
         /\ HT!IsHead(HeadHash(n.chain), Known(n.fork_choice))
<1> DEFINE fc == n.fork_choice
<1>1. /\ ForkChoiceInv(fc) /\ TreeInv(fc)
      /\ HeadHash(n.chain) = fc.best_tip
  BY HeadOfGood DEF NodeGood, ForkChoiceInv
<1>2. ASSUME NEW h \in Known(fc)
      PROVE  /\ h \in BlockHashes
             /\ BlockOf(h).height = fc.nodes[h].block.height
  <2>1. fc.nodes[h].block \in Blocks /\ fc.nodes[h].block.hash = h
    BY <1>1, NodeFacts
  <2>2. BlockOf(h) \in Blocks /\ BlockOf(h).hash = h
    BY <2>1 DEF BlockOf
  <2>3. QED BY <2>1, <2>2, SameHeader DEF BlockHashes
<1>3. CASE Known(fc) = {}
  BY <1>1, <1>3 DEF HT!IsHead, ForkChoiceInv, TipIsHeaviest
<1>4. CASE Known(fc) # {}
  <2>1. /\ fc.best_tip \in Known(fc)
        /\ \A h \in Known(fc) \ {fc.best_tip} : Heavier(fc, fc.best_tip, h)
    BY <1>1, <1>4 DEF ForkChoiceInv, TipIsHeaviest, HasTip
  <2>2. \A h \in Known(fc) \ {fc.best_tip} : HT!Greater(fc.best_tip, h)
    BY <1>2, <2>1 DEF HT!Greater, Heavier, BlockHashes
  <2>3. QED
    BY <1>1, <1>2, <1>4, <2>1, <2>2 DEF HT!IsHead
<1>5. QED
  BY <1>3, <1>4

LEMMA NodeStepRefines ==
  ASSUME NodeInv, [Next]_vars
  PROVE  [HT!Next]_(HT!vars)
<1>1. CASE UNCHANGED vars
  BY <1>1 DEF HT!vars, vars, Known
<1>2. CASE Next
  <2> DEFINE known == Known(node.fork_choice)
             known2 == Known(node'.fork_choice)
             tips == known2 \ known
  <2>1. NodeGood(node') /\ known \subseteq known2
    BY <1>2, StepGood DEF GoodStep, NodeInv, Grows
  <2>2. known2 \subseteq BlockHashes /\ HT!IsHead(HeadHash(node'.chain), known2)
    BY <2>1, HeadIsHeaviest
  <2>3. tips \cap known = {} /\ known2 = known \cup tips
    BY <2>1
  <2>4. HT!Learn(tips)
    BY <2>2, <2>3 DEF HT!Learn, Known, HT!IsHead, HT!Greater, HeadHash
  <2>5. tips \in SUBSET {b.hash : b \in Blocks}
    BY <2>2 DEF BlockHashes
  <2>6. QED BY <2>4, <2>5 DEF HT!Next
<1>3. QED
  BY <1>1, <1>2

\* The node implements HeaviestTip: after any interleaving of mining, gossip and sync
\* its head is a function of the blocks it knows.
THEOREM NodeRefinesHeaviestTip == Spec => ImplementsHeaviestTip
<1>1. Init => HT!Init
  <2> SUFFICES ASSUME Init PROVE HT!Init
    OBVIOUS
  <2>1. NodeGood(node)
    BY InitGood DEF NodeInv
  <2>2. QED
    BY <2>1, HeadIsHeaviest DEF HT!Init, BlockHashes
<1>2. NodeInv /\ [Next]_vars => [HT!Next]_(HT!vars)
  BY NodeStepRefines
<1>3. QED
  BY <1>1, <1>2, NodeInvariance, PTL DEF Spec, ImplementsHeaviestTip, HT!Spec

-----------------------------------------------------------------------------
(* What an honest peer answers                                               *)

-----------------------------------------------------------------------------

\* An honest answer to the locator of the loop has the headers of a part of the
\* peer's chain.
LEMMA AnswerHeaders ==
  ASSUME NEW chain, IsChain(chain), NEW X, loop.locator \in Seq(X)
  PROVE  LET start == AnswerStart(chain, loop.locator)
             end == AnswerEnd(chain, start, MaxBlocksPerResponse)
         IN  /\ start \in 0..Len(chain)
             /\ end \in start..Len(chain)
             /\ Answer(chain) = HeadersOf(Part(chain, start, end))
BY AnswerIsPart, SyncAssumption DEF Answer, HeadersAfterLocator

LEMMA PeerChainIs ==
  ASSUME NEW chain \in PeerChains
  PROVE  IsChain(chain)
<1>1. chain \in Seq(Blocks)
  BY SyncAssumption DEF PeerChains, BoundedSeq, SeqOf
<1>2. QED
  BY <1>1 DEF PeerChains, IsChain

-----------------------------------------------------------------------------
\* While headers are awaited, the loop holds a locator of some chain.
LEMMA LocatorHeld ==
  ASSUME NodeInv, loop.at = "Headers"
  PROVE  LocatorGood(loop.locator)
BY DEF NodeInv, LoopGood, Idle, AskHeaders, AskBlocks

\* The active chain of a node in NodeInv is one that a node can have.
LEMMA ActiveChainIs ==
  ASSUME NodeInv
  PROVE  IsChain(node.chain)
BY HeadOfGood DEF NodeInv, NodeGood, IsChain

\* A locator reaches genesis, is full, or was taken from no chain at all.
LEMMA LocatorReach ==
  ASSUME NEW locator, LocatorGood(locator)
  PROVE  Zero \in ToSet(locator) \/ Len(locator) \in {0, MaxLocatorHashes}
<1>1. PICK chain \in Seq(Blocks) : locator = BlockLocator(chain, MaxLocatorHashes)
  BY DEF LocatorGood
<1> DEFINE n == Newest(chain, MaxLocatorHashes)
<1>2. /\ locator \in Seq(Nat) /\ n \in 0..Len(chain) /\ n <= MaxLocatorHashes
      /\ (n < MaxLocatorHashes /\ chain # << >>) => Len(locator) = n + 1 /\ locator[n + 1] = Zero
      /\ ~(n < MaxLocatorHashes /\ chain # << >>) => Len(locator) = n
  BY <1>1, LocatorEntries, SyncAssumption
<1>3. n \in Nat /\ MaxLocatorHashes \in Nat
  BY <1>2, SyncAssumption
<1>4. chain = << >> => n = 0
  BY SyncAssumption DEF Newest
<1> HIDE DEF n
<1>5. CASE n < MaxLocatorHashes /\ chain # << >>
  <2>1. n + 1 \in 1..Len(locator)
    BY <1>2, <1>3, <1>5
  <2>2. QED
    BY <1>2, <1>5, <2>1 DEF ToSet
<1>6. CASE ~(n < MaxLocatorHashes /\ chain # << >>)
  BY <1>2, <1>3, <1>4, <1>6
<1>7. QED
  BY <1>5, <1>6

LEMMA HonestAnswer ==
  ASSUME NodeInv, loop.at = "Headers", NEW chain \in PeerChains
  PROVE  LET headers == Answer(chain)
         IN  \/ HeadersExtendLocator(node.chain, loop.locator, headers)
             \/ /\ headers[1].previous_block \in ToSet(loop.locator) \ {Zero}
                /\ headers[1].previous_block \notin ToSet(Hashes(node.chain))
             \/ /\ headers[1].previous_block = Zero
                /\ Len(loop.locator) \in {0, MaxLocatorHashes}
                /\ Zero \notin ToSet(loop.locator)
<1> DEFINE own == node.chain
           locator == loop.locator
           start == AnswerStart(chain, locator)
           end == AnswerEnd(chain, start, MaxBlocksPerResponse)
           headers == HeadersOf(Part(chain, start, end))
           parent == headers[1].previous_block
<1>1. IsChain(own) /\ IsChain(chain) /\ LocatorGood(locator) /\ locator \in Seq(Nat)
  BY ActiveChainIs, PeerChainIs, LocatorHeld DEF LocatorGood
<1>2. /\ start \in 0..Len(chain) /\ end \in start..Len(chain)
      /\ Answer(chain) = headers
  BY <1>1, AnswerHeaders
<1>3. start # 0 => \E k \in 1..Len(locator) : locator[k] = chain[start].hash
  BY <1>1, StartCases
<1>4. own \in Seq(Blocks) /\ Hashes(own) \in Seq(Nat)
      /\ Len(Hashes(own)) = Len(own) /\ \A i \in 1..Len(own) : Hashes(own)[i] = own[i].hash
  <2>1. own \in Seq(Blocks)
    BY <1>1 DEF IsChain
  <2>2. \A i \in 1..Len(own) : own[i].hash \in Nat
    BY <2>1, BlockFacts
  <2>3. QED
    BY <2>1, <2>2 DEF Hashes
<1>5. start # 0 => start \in 1..Len(chain) /\ chain[start].hash # Zero
                   /\ chain[start].hash \in ToSet(locator)
  <2>1. start # 0 => start \in 1..Len(chain)
    BY <1>1, <1>2 DEF IsChain
  <2>2. QED
    BY <1>1, <1>3, <2>1, ChainLinks DEF ToSet
<1>6. ASSUME start < end
      PROVE  /\ start = 0 => parent = Zero
             /\ start # 0 => parent = chain[start].hash
  BY <1>1, <1>2, <1>6, PartContinues
<1>7. \A h : Contains(locator, h) <=> h \in ToSet(locator)
  BY <1>1, ContainsIsMember
<1>8. ASSUME start = 0 => own = << >> \/ Zero \in ToSet(locator),
             start # 0 => \E i \in 1..Len(own) : own[i].hash = chain[start].hash
      PROVE  HeadersExtendLocator(own, locator, headers)
  <2> HIDE DEF own, locator, start, end
  <2>1. QED
    BY <1>1, <1>2, <1>5, <1>7, <1>8, HonestPartScreened DEF headers
<1>9. ASSUME ~(start < end)
      PROVE  HeadersExtendLocator(own, locator, headers)
  <2>1. headers \in Seq(HeaderRecords) /\ Len(headers) = end - start /\ chain \in Seq(Blocks)
        /\ start \in Nat /\ end \in Nat /\ start <= end
    BY <1>1, <1>2, PartIs DEF IsChain
  <2>2. headers = << >>
    <3> HIDE DEF headers, start, end
    <3>1. QED BY <1>9, <2>1
  <2>3. QED
    BY <2>2 DEF HeadersExtendLocator
<1>10. ASSUME start < end, start = 0, own # << >>, Zero \notin ToSet(locator)
       PROVE  parent = Zero /\ Len(locator) \in {0, MaxLocatorHashes}
  BY <1>1, <1>6, <1>10, LocatorReach
<1>11. ASSUME start < end, start # 0, ~\E i \in 1..Len(own) : own[i].hash = chain[start].hash
       PROVE  parent \in ToSet(locator) \ {Zero} /\ parent \notin ToSet(Hashes(own))
  <2>1. parent = chain[start].hash
    BY <1>6, <1>11
  <2>2. parent \notin ToSet(Hashes(own))
    <3> DEFINE h == chain[start].hash
               hs == Hashes(own)
    <3> HIDE DEF headers, own, start, h, hs
    <3>1. \A i \in 1..Len(own) : hs[i] # h
      BY <1>4, <1>11 DEF h, hs
    <3>2. h \notin ToSet(hs)
      BY <1>4, <3>1 DEF ToSet, hs
    <3>3. QED
      BY <2>1, <3>2 DEF h, hs
  <2>3. QED
    BY <1>5, <1>11, <2>1, <2>2
<1> HIDE DEF own, locator, start, end, headers
<1>12. \/ HeadersExtendLocator(own, locator, headers)
       \/ parent \in ToSet(locator) \ {Zero} /\ parent \notin ToSet(Hashes(own))
       \/ parent = Zero /\ Len(locator) \in {0, MaxLocatorHashes} /\ Zero \notin ToSet(locator)
  BY <1>8, <1>9, <1>10, <1>11
<1>13. QED
  BY <1>2, <1>12 DEF own, locator

\* The two sides of a sync agree on what a locator asks for: an honest answer is
\* refused only if the chain was reorganised since, or the locator was too short.
THEOREM HonestHeadersAlwaysAccepted == Spec => []HonestHeadersAccepted
<1>1. NodeInv => HonestHeadersAccepted
  BY HonestAnswer DEF HonestHeadersAccepted
<1>2. QED
  BY <1>1, NodeInvariance, PTL

-----------------------------------------------------------------------------
(* How far a fork goes back                                                  *)

\* The common prefixes of two chains are the beginnings on which they agree.
Agree(c, d, l) == l <= Len(d) /\ \A i \in 1..l : c[i] = d[i]

LEMMA CommonPrefixesAre ==
  ASSUME NEW c \in Seq(Blocks), NEW d \in Seq(Blocks)
  PROVE  CommonPrefixes({c, d}) = {SubSeq(c, 1, l) : l \in {m \in 0..Len(c) : Agree(c, d, m)}}
<1> DEFINE K == {m \in 0..Len(c) : Agree(c, d, m)}
           P == CommonPrefixes({c, d})
<1>1. ASSUME NEW s \in Seq(Blocks), NEW l \in 0..Len(s)
      PROVE  /\ SubSeq(s, 1, l) \in Seq(Blocks) /\ Len(SubSeq(s, 1, l)) = l
             /\ \A i \in 1..l : SubSeq(s, 1, l)[i] = s[i]
  OBVIOUS
<1>2. \A p : p \in P <=> /\ \E s \in {c, d} : \E l \in 0..Len(s) : p = SubSeq(s, 1, l)
                        /\ IsPrefix(p, c) /\ IsPrefix(p, d)
  BY DEF CommonPrefixes, Prefixes
<1>3. ASSUME NEW s \in Seq(Blocks), NEW p \in Seq(Blocks)
      PROVE  IsPrefix(p, s) <=> Len(p) <= Len(s) /\ \A i \in 1..Len(p) : p[i] = s[i]
  <2>1. SubSeq(p, 1, Len(p)) = p
    OBVIOUS
  <2>2. ASSUME Len(p) <= Len(s)
        PROVE  p = SubSeq(s, 1, Len(p)) <=> \A i \in 1..Len(p) : p[i] = s[i]
    <3>1. Len(p) \in 0..Len(s)
      BY <2>2
    <3>2. /\ SubSeq(s, 1, Len(p)) \in Seq(Blocks) /\ Len(SubSeq(s, 1, Len(p))) = Len(p)
          /\ \A i \in 1..Len(p) : SubSeq(s, 1, Len(p))[i] = s[i]
      BY <1>1, <3>1
    <3> DEFINE q == SubSeq(s, 1, Len(p))
    <3> HIDE DEF q
    <3>3. p = q <=> \A i \in 1..Len(p) : p[i] = q[i]
      BY <3>2 DEF q
    <3>4. QED
      BY <3>2, <3>3 DEF q
  <2>3. QED
    BY <2>1, <2>2 DEF IsPrefix
<1>4. ASSUME NEW l \in K
      PROVE  SubSeq(c, 1, l) \in P
  <2> DEFINE p == SubSeq(c, 1, l)
  <2>1. l \in 0..Len(c) /\ l <= Len(d) /\ \A i \in 1..l : c[i] = d[i]
    BY DEF Agree
  <2>2. p \in Seq(Blocks) /\ Len(p) = l /\ \A i \in 1..l : p[i] = c[i]
    BY <1>1, <2>1
  <2> HIDE DEF p
  <2>3. IsPrefix(p, c) /\ IsPrefix(p, d)
    BY <1>3, <2>1, <2>2
  <2>4. QED
    BY <1>2, <2>1, <2>3 DEF p
<1>5. ASSUME NEW p \in P
      PROVE  \E l \in K : p = SubSeq(c, 1, l)
  <2>0. PICK s \in {c, d} : \E l \in 0..Len(s) : p = SubSeq(s, 1, l)
    BY <1>2
  <2>1. p \in Seq(Blocks) /\ IsPrefix(p, c) /\ IsPrefix(p, d)
    <3>1. s \in Seq(Blocks)
      OBVIOUS
    <3>2. QED
      BY <1>1, <1>2, <2>0, <3>1
  <2>2. /\ Len(p) \in 0..Len(c) /\ Len(p) <= Len(d)
        /\ \A i \in 1..Len(p) : p[i] = c[i] /\ p[i] = d[i]
    BY <1>3, <2>1
  <2>3. Len(p) \in K
    BY <2>2 DEF Agree
  <2>4. p = SubSeq(c, 1, Len(p))
    BY <2>1 DEF IsPrefix
  <2>5. QED
    BY <2>3, <2>4
<1> HIDE DEF K, P
<1>6. P = {SubSeq(c, 1, l) : l \in K}
  BY <1>4, <1>5
<1>7. QED
  BY <1>6 DEF K, P

\* There is a longest one, and behind it the chains differ.
LEMMA LongestAgreement ==
  ASSUME NEW c \in Seq(Blocks), NEW d \in Seq(Blocks)
  PROVE  LET k == Len(LongestCommonPrefix({c, d}))
         IN  /\ k \in 0..Len(c)
             /\ k \in 0..Len(d)
             /\ \A i \in 1..k : c[i] = d[i]
             /\ (k < Len(c) /\ k < Len(d)) => c[k + 1] # d[k + 1]
<1> DEFINE K == {m \in 0..Len(c) : Agree(c, d, m)}
           P == CommonPrefixes({c, d})
           longest == LongestCommonPrefix({c, d})
           Behind == {n \in Nat : Len(c) - n \in K}
<1>1. Len(c) \in Nat /\ Len(d) \in Nat
  OBVIOUS
<1>2. P = {SubSeq(c, 1, l) : l \in K}
  BY CommonPrefixesAre
<1>3. \A l \in K : Len(SubSeq(c, 1, l)) = l
  OBVIOUS
<1>4. 0 \in K /\ K \subseteq 0..Len(c)
  BY <1>1 DEF Agree
<1>5. \E l \in K : \A m \in K : m <= l
  <2>1. Len(c) \in Behind /\ Behind \in SUBSET Nat
    BY <1>1, <1>4
  <2> HIDE DEF K
  <2>2. \A n : n \in Behind <=> n \in Nat /\ Len(c) - n \in K
    OBVIOUS
  <2> HIDE DEF Behind
  <2>3. PICK n \in Behind : \A j \in Behind : n <= j
    BY <2>1, Inserts!LeastNumber
  <2>4. ASSUME NEW m \in K
        PROVE  m <= Len(c) - n
    <3>1. m \in 0..Len(c)
      BY <1>4
    <3>2. Len(c) - m \in Nat /\ Len(c) - (Len(c) - m) = m
      BY <1>1, <3>1
    <3>3. Len(c) - m \in Behind
      BY <2>2, <3>2
    <3>4. n <= Len(c) - m /\ n \in Nat
      BY <2>1, <2>3, <3>3
    <3>5. QED
      BY <1>1, <3>1, <3>4
  <2>5. Len(c) - n \in K
    BY <2>2
  <2>6. QED
    BY <2>4, <2>5
<1> HIDE DEF P
<1>6. longest \in P /\ \A other \in P : Len(other) <= Len(longest)
  <2>1. \E p \in P : \A other \in P : Len(other) <= Len(p)
    <3> HIDE DEF K
    <3>1. PICK l \in K : \A m \in K : m <= l
      BY <1>5
    <3>2. SubSeq(c, 1, l) \in P /\ Len(SubSeq(c, 1, l)) = l
      BY <1>2, <1>3
    <3>3. \A other \in P : Len(other) <= l
      BY <1>2, <1>3, <3>1
    <3>4. QED
      BY <3>2, <3>3
  <2>2. QED
    BY <2>1 DEF LongestCommonPrefix, P
<1> DEFINE k == Len(longest)
<1> HIDE DEF K, longest
<1>7. k \in K /\ \A l \in K : l <= k
  BY <1>2, <1>3, <1>6
<1> HIDE DEF k
<1>8. k \in 0..Len(c) /\ k <= Len(d) /\ \A i \in 1..k : c[i] = d[i]
  BY <1>7 DEF K, Agree
<1>9. ASSUME k < Len(c), k < Len(d), c[k + 1] = d[k + 1]
      PROVE  FALSE
  <2>1. k + 1 \in 0..Len(c) /\ k + 1 <= Len(d) /\ ~(k + 1 <= k)
    BY <1>1, <1>8, <1>9
  <2>2. \A i \in 1..(k + 1) : i \in 1..k \/ i = k + 1
    BY <1>8
  <2>3. k + 1 \in K
    BY <1>8, <1>9, <2>1, <2>2 DEF K, Agree
  <2>4. QED
    BY <1>7, <2>1, <2>3
<1>10. k \in 0..Len(d)
  BY <1>1, <1>8
<1>11. QED
  BY <1>8, <1>9, <1>10 DEF k, longest

\* Blocks of two chains with the same hash are the same, with all blocks below them.
LEMMA SameBelow ==
  ASSUME NEW c, IsChain(c), NEW d, IsChain(d), NEW j \in 1..Len(c), j \in 1..Len(d),
         c[j].hash = d[j].hash
  PROVE  \A i \in 1..j : c[i] = d[i]
<1>0. j \in Nat /\ Len(c) \in Nat /\ Len(d) \in Nat
  BY DEF IsChain
<1> DEFINE S == {n \in Nat : n < j => c[j - n].hash = d[j - n].hash}
<1>1. 0 \in S
  BY <1>0
<1>2. ASSUME NEW n \in Nat, n \in S
      PROVE  n + 1 \in S
  <2>1. CASE n + 1 < j
    <3>1. /\ j - n \in 1..Len(c) /\ j - n \in 1..Len(d) /\ j - n # 1
          /\ (j - n) - 1 = j - (n + 1)
      BY <1>0, <2>1
    <3>2. c[j - n].hash = d[j - n].hash
      BY <1>0, <1>2, <2>1
    <3>3. /\ c[j - n] \in Blocks /\ d[j - n] \in Blocks
          /\ c[j - n].previous_block = c[(j - n) - 1].hash
          /\ d[j - n].previous_block = d[(j - n) - 1].hash
      <4> DEFINE m == j - n
      <4> HIDE DEF m
      <4>1. m \in 1..Len(c) /\ m \in 1..Len(d) /\ m # 1
        BY <3>1 DEF m
      <4>2. c[m] \in Blocks /\ c[m].previous_block = c[m - 1].hash
        BY <4>1, ChainLinks
      <4>3. d[m] \in Blocks /\ d[m].previous_block = d[m - 1].hash
        BY <4>1, ChainLinks
      <4>4. QED
        BY <4>2, <4>3 DEF m
    <3>4. c[j - n].previous_block = d[j - n].previous_block
      BY <3>2, <3>3, SameHeader
    <3>5. c[j - (n + 1)].hash = d[j - (n + 1)].hash
      BY <3>1, <3>3, <3>4
    <3>6. QED
      BY <3>5
  <2>2. QED
    BY <2>1
<1>3. Nat \subseteq S
  <2> HIDE DEF S
  <2>1. QED BY <1>1, <1>2, Inserts!Induction
<1>4. ASSUME NEW i \in 1..j
      PROVE  c[i] = d[i]
  <2>1. j - i \in Nat /\ j - i < j /\ j - (j - i) = i /\ i \in 1..Len(c) /\ i \in 1..Len(d)
    BY <1>0
  <2>2. c[i].hash = d[i].hash
    BY <1>3, <2>1
  <2>3. c[i] \in Blocks /\ d[i] \in Blocks /\ c[i].trace_ok /\ d[i].trace_ok
    BY <2>1, ChainLinks
  <2>4. Header(c[i]) = Header(d[i]) /\ c[i] \in BlockType /\ d[i] \in BlockType
    BY <2>2, <2>3, HashAssumption, BlocksAssumption
  <2>5. \A a, b \in BlockType : (Header(a) = Header(b) /\ a.trace_ok = b.trace_ok) => a = b
    BY DEF BlockType, Header
  <2>6. c[i].trace_ok = d[i].trace_ok
    BY <2>3, <2>4 DEF BlockType
  <2>7. QED
    BY <2>4, <2>5, <2>6
<1>5. QED
  BY <1>4

-----------------------------------------------------------------------------
\* The answer to a fresh locator starts where the chains part, if the locator reaches
\* back that far, and the screening lets it through.
LEMMA StartsWhereChainsPart ==
  ASSUME NEW own, IsChain(own), NEW chain, IsChain(chain),
         NEW k \in 0..Len(own), k \in 0..Len(chain),
         \A i \in 1..k : own[i] = chain[i],
         (k < Len(own) /\ k < Len(chain)) => own[k + 1] # chain[k + 1],
         Len(own) - k < MaxLocatorHashes,
         NEW locator, locator = BlockLocator(own, MaxLocatorHashes)
  PROVE  /\ locator \in Seq(Nat)
         /\ AnswerStart(chain, locator) = k
         /\ k = 0 => own = << >> \/ Contains(locator, Zero)
         /\ k # 0 => /\ Contains(locator, chain[k].hash)
                     /\ \E i \in 1..Len(own) : own[i].hash = chain[k].hash
<1> DEFINE n == Newest(own, MaxLocatorHashes)
           f == Len(own) - k
<1>1. /\ own \in Seq(Blocks) /\ Len(own) \in Nat /\ Len(chain) \in Nat
      /\ MaxLocatorHashes \in Nat /\ f \in Nat /\ k \in Nat
  BY SyncAssumption DEF IsChain
<1>2. /\ locator \in Seq(Nat)
      /\ \A i \in 1..n : /\ i \in 1..Len(locator)
                        /\ Len(own) - i + 1 \in 1..Len(own)
                        /\ locator[i] = own[Len(own) - i + 1].hash
      /\ (n < MaxLocatorHashes /\ own # << >>) => Len(locator) = n + 1 /\ locator[n + 1] = Zero
      /\ ~(n < MaxLocatorHashes /\ own # << >>) => Len(locator) = n
  BY <1>1, LocatorEntries
<1>3. ASSUME NEW j \in 1..Len(locator), OnIt(chain, locator[j]),
             \A i \in 1..(j - 1) : ~OnIt(chain, locator[i])
      PROVE  Common(chain, locator) = j
  <2>1. locator \in Seq(Nat)
    BY <1>2
  <2>2. QED
    BY <1>3, <2>1, CommonIs
<1>4. /\ n \in Nat /\ f <= n /\ (k # 0 => f + 1 \in 1..n)
      /\ k = 0 => n = f /\ n < MaxLocatorHashes
      /\ own = << >> => n = 0
  BY <1>1 DEF Newest
<1> HIDE DEF n
<1>5. ASSUME NEW i \in 1..f
      PROVE  ~OnIt(chain, locator[i])
  <2> DEFINE m == Len(own) - i + 1
  <2>1. i \in 1..n /\ m \in 1..Len(own) /\ k + 1 \in 1..m
    BY <1>1, <1>4
  <2>2. locator[i] = own[m].hash
    BY <1>2, <2>1
  <2> HIDE DEF m
  <2>3. own[m].hash # Zero
    BY <2>1, ChainLinks
  <2>4. Index(chain, own[m].hash) = 0
    <3> DEFINE j == Index(chain, own[m].hash)
    <3>1. SUFFICES ASSUME j # 0 PROVE FALSE
      OBVIOUS
    <3>2. j \in 1..Len(chain) /\ chain[j].hash = own[m].hash
      BY <1>1, <3>1, IndexIs
    <3> HIDE DEF j
    <3>3. j = m
      BY <2>1, <3>2, SamePlace
    <3>4. \A l \in 1..m : own[l] = chain[l]
      BY <2>1, <3>2, <3>3, SameBelow
    <3>5. k < Len(own) /\ k < Len(chain)
      BY <1>1, <2>1, <3>2, <3>3
    <3>6. QED
      BY <2>1, <3>4, <3>5
  <2>5. QED
    BY <2>2, <2>3, <2>4 DEF OnIt
<1>6. CASE k # 0
  <2>1. k \in 1..Len(chain) /\ k \in 1..Len(own) /\ own[k] = chain[k]
    BY <1>1, <1>6
  <2>2. f + 1 \in 1..Len(locator) /\ locator[f + 1] = chain[k].hash
    <3>1. Len(own) - (f + 1) + 1 = k
      BY <1>1
    <3>2. QED
      BY <1>2, <1>4, <1>6, <2>1, <3>1
  <2>3. Index(chain, chain[k].hash) = k
    BY <2>1, IndexIs
  <2>4. OnIt(chain, locator[f + 1])
    BY <1>6, <2>2, <2>3 DEF OnIt
  <2> HIDE DEF f
  <2>5. \A j \in 1..((f + 1) - 1) : ~OnIt(chain, locator[j])
    BY <1>1, <1>5
  <2>6. Common(chain, locator) = f + 1
    BY <1>3, <2>2, <2>4, <2>5
  <2>7. AnswerStart(chain, locator) = k
    BY <1>1, <2>2, <2>3, <2>6 DEF AnswerStart
  <2>8. Contains(locator, chain[k].hash)
    BY <2>2 DEF Contains
  <2>9. QED
    BY <1>2, <1>6, <2>1, <2>7, <2>8
<1>7. CASE k = 0 /\ own # << >>
  <2>1. n = f /\ n + 1 \in 1..Len(locator) /\ locator[n + 1] = Zero /\ (n + 1) - 1 = f
    BY <1>1, <1>2, <1>4, <1>7
  <2>2. OnIt(chain, locator[n + 1])
    BY <2>1 DEF OnIt
  <2> HIDE DEF f
  <2>3. \A j \in 1..((n + 1) - 1) : ~OnIt(chain, locator[j])
    BY <1>5, <2>1
  <2>4. Common(chain, locator) = n + 1
    BY <1>3, <2>1, <2>2, <2>3
  <2>5. AnswerStart(chain, locator) = 0
    BY <2>1, <2>4, ZeroOffChain DEF AnswerStart
  <2>6. Contains(locator, Zero)
    BY <2>1 DEF Contains
  <2>7. QED
    BY <1>2, <1>7, <2>5, <2>6
<1>8. CASE k = 0 /\ own = << >>
  <2>1. Len(locator) = 0
    BY <1>2, <1>4, <1>8
  <2>2. \A j \in 1..Len(locator) : ~OnIt(chain, locator[j])
    BY <2>1
  <2>3. Common(chain, locator) = 0
    BY <1>2, <2>2, NothingCommon
  <2>4. QED
    BY <1>2, <1>8, <2>3 DEF AnswerStart
<1>9. QED
  BY <1>6, <1>7, <1>8

\* The head of a node tells which chains are heavier than its own: none that ends in a
\* known block.
LEMMA HeavierEndsUnknown ==
  ASSUME NEW n, NodeGood(n), NEW chain, IsChain(chain), NEW e \in 1..Len(chain),
         chain[e].hash \in Known(n.fork_choice)
  PROVE  /\ e <= Len(n.chain)
         /\ e = Len(chain) => ~HeavierChain(chain, n.chain)
<1> DEFINE fc == n.fork_choice
           h == chain[e].hash
           own == n.chain
<1>1. /\ ForkChoiceInv(fc) /\ TreeInv(fc) /\ HeadHash(own) = fc.best_tip
      /\ own = BestChain(fc)
  BY HeadOfGood DEF NodeGood, ForkChoiceInv
<1>2. fc.best_tip \in Known(fc) /\ fc.nodes[h].next_height <= fc.nodes[fc.best_tip].next_height
  BY <1>1, NothingAboveTip
<1>3. fc.nodes[h].block.height = e - 1
  <2>1. chain[e] \in Blocks /\ chain[e].height = e - 1
    BY ChainLinks
  <2>2. fc.nodes[h].block \in Blocks /\ fc.nodes[h].block.hash = h
    BY <1>1, NodeFacts
  <2>3. QED
    BY <2>1, <2>2, SameHeader
<1>4. fc.nodes[h].next_height = e
  <2>1. fc.nodes[h].next_height = fc.nodes[h].block.height + 1
    BY <1>1, NodeFacts
  <2>2. QED
    BY <1>3, <2>1
<1>5. Len(own) = fc.nodes[fc.best_tip].next_height
  BY <1>1, <1>2, BestChainReplays DEF BestHeight, HasTip
<1>6. e <= Len(own)
  BY <1>2, <1>4, <1>5
<1>7. ASSUME e = Len(chain)
      PROVE  ~HeavierChain(chain, own)
  <2>1. HeadHash(chain) = h /\ h \in Nat
    <3>1. chain # << >>
      OBVIOUS
    <3>2. QED
      BY <1>7, <3>1, ChainLinks DEF HeadHash
  <2>2. \/ fc.best_tip = h
        \/ Heavier(fc, fc.best_tip, h)
    BY <1>1 DEF ForkChoiceInv, TipIsHeaviest
  <2>3. fc.nodes[fc.best_tip].block.height = Len(own) - 1 /\ Len(own) \in Nat /\ fc.best_tip \in Nat
    <3> DEFINE tip == fc.nodes[fc.best_tip]
    <3>1. /\ tip.next_height = tip.block.height + 1 /\ tip.block.height \in Nat
          /\ fc.best_tip \in Nat
      BY <1>1, <1>2, NodeFacts
    <3> HIDE DEF tip
    <3>2. Len(own) = tip.block.height + 1
      BY <1>5, <3>1 DEF tip
    <3>3. tip.block.height = Len(own) - 1 /\ Len(own) \in Nat
      BY <3>1, <3>2
    <3>4. QED
      BY <3>1, <3>3 DEF tip
  <2>4. \/ fc.best_tip = h /\ Len(own) = e
        \/ Len(own) > e
        \/ Len(own) = e /\ fc.best_tip > h
    BY <1>3, <1>4, <1>5, <2>2, <2>3 DEF Heavier
  <2>5. QED
    BY <1>1, <1>7, <2>1, <2>3, <2>4 DEF HeavierChain
<1>8. QED
  BY <1>6, <1>7

\* A sync with a peer on a heavier chain is answered with an unknown block.
LEMMA FindsMissing ==
  ASSUME NodeInv, FreshLocator, NEW chain \in PeerChains,
         HeavierChain(chain, node.chain),
         ForkDepth(node.chain, chain) < MaxLocatorHashes,
         ForkDepth(node.chain, chain) < MaxBlocksPerResponse
  PROVE  FindsMissingBlocks(chain)
<1> DEFINE own == node.chain
           locator == loop.locator
           k == Len(LongestCommonPrefix({own, chain}))
           end == AnswerEnd(chain, k, MaxBlocksPerResponse)
           headers == HeadersOf(Part(chain, k, end))
<1>1. /\ IsChain(own) /\ IsChain(chain) /\ NodeGood(node)
      /\ own \in Seq(Blocks) /\ chain \in Seq(Blocks)
      /\ locator = BlockLocator(own, MaxLocatorHashes)
  BY ActiveChainIs, PeerChainIs DEF NodeInv, IsChain, FreshLocator
<1>2. /\ k \in 0..Len(own)
      /\ k \in 0..Len(chain)
      /\ \A i \in 1..k : own[i] = chain[i]
      /\ (k < Len(own) /\ k < Len(chain)) => own[k + 1] # chain[k + 1]
  BY <1>1, LongestAgreement
<1>3. Len(own) - k < MaxLocatorHashes /\ Len(own) - k < MaxBlocksPerResponse
  BY DEF ForkDepth
<1>4. HeavierChain(chain, own)
  OBVIOUS
<1> HIDE DEF own, locator, k
<1>5. /\ locator \in Seq(Nat)
      /\ AnswerStart(chain, locator) = k
      /\ k = 0 => own = << >> \/ Contains(locator, Zero)
      /\ k # 0 => /\ Contains(locator, chain[k].hash)
                  /\ \E i \in 1..Len(own) : own[i].hash = chain[k].hash
  BY <1>1, <1>2, <1>3, StartsWhereChainsPart
<1>6. end \in k..Len(chain) /\ Answer(chain) = headers
  BY <1>1, <1>5, AnswerHeaders DEF locator
<1>7. HeadersExtendLocator(own, locator, headers)
  <2> HIDE DEF end
  <2>1. QED
    BY <1>1, <1>2, <1>5, <1>6, HonestPartScreened
<1>8. /\ Len(own) \in Nat /\ Len(chain) \in Nat /\ k \in Nat
      /\ MaxBlocksPerResponse \in Nat \ {0}
  BY <1>1, <1>2, SyncAssumption
<1>9. k < Len(chain)
  <2>1. SUFFICES ASSUME k = Len(chain) PROVE FALSE
    BY <1>2, <1>8
  <2>2. Len(own) = Len(chain) /\ HeadHash(chain) > HeadHash(own)
    BY <1>2, <1>4, <1>8, <2>1 DEF HeavierChain
  <2>3. own = chain
    BY <1>1, <1>2, <2>1, <2>2
  <2>4. HeadHash(own) \in Nat
    BY <1>1, HeadOfGood DEF NodeGood, ForkChoiceInv, TreeInv, ForkChoiceType, own
  <2>5. QED
    BY <2>2, <2>3, <2>4
<1>10. /\ end \in 1..Len(chain) /\ end - k \in 1..(end - k) /\ k + (end - k) = end
       /\ end = Len(chain) \/ end > Len(own)
  BY <1>2, <1>3, <1>8, <1>9 DEF AnswerEnd
<1>11. chain[end].hash \notin Known(node.fork_choice)
  <2> HIDE DEF end
  <2>1. SUFFICES ASSUME chain[end].hash \in Known(node.fork_choice) PROVE FALSE
    OBVIOUS
  <2>2. end <= Len(own) /\ (end = Len(chain) => ~HeavierChain(chain, own))
    BY <1>1, <1>10, <2>1, HeavierEndsUnknown DEF own
  <2>3. end \in Nat
    BY <1>10
  <2>4. QED
    BY <1>4, <1>8, <1>10, <2>2, <2>3
<1>12. Len(headers) = end - k /\ headers[end - k] = Header(chain[end])
  <2> HIDE DEF end
  <2>1. /\ Len(headers) = end - k
        /\ \A i \in 1..(end - k) : headers[i] = Header(chain[k + i])
    BY <1>1, <1>2, <1>6, PartIs
  <2> HIDE DEF headers
  <2>2. QED
    BY <1>10, <2>1
<1> HIDE DEF end, headers
<1>13. HasUnknownBlock(headers)
  <2>1. headers[end - k].hash = chain[end].hash
    BY <1>12 DEF Header
  <2>2. QED
    BY <1>10, <1>11, <1>12, <2>1 DEF HasUnknownBlock, ContainsBlock
<1>14. QED
  BY <1>6, <1>7, <1>13 DEF FindsMissingBlocks, own, locator

\* A sync with a peer on a heavier chain moves on while the fork is shallower than both
\* limits of the sync, whatever side branches are known already.
THEOREM CatchUpAlwaysProgresses == Spec => []CatchUpProgress
<1>1. NodeInv => CatchUpProgress
  BY FindsMissing DEF CatchUpProgress
<1>2. QED
  BY <1>1, NodeInvariance, PTL
=============================================================================
