------------------------------ MODULE SyncRules ------------------------------
(***************************************************************************)
(* The functions of a node that its sync is built from, on both sides of a *)
(* connection: locators, what a peer answers to one, the screening of      *)
(* headers, and the application of blocks to the node state                *)
(* (crates/chesscoin-node/src/runtime.rs).                                 *)
(*                                                                         *)
(* node is the part of NodeState under the mutex that these functions      *)
(* touch.  A header is Header(b) of some block.                            *)
(***************************************************************************)
EXTENDS BlockTree, SequencesExt

Hashes(chain) == [i \in 1..Len(chain) |-> chain[i].hash]

\* Mutant: the walk back from the tip never ends in genesis.
BlockLocatorTipOnly(chain, max_hashes) ==
  Hashes(SubSeq(Reverse(chain), 1, IF Len(chain) < max_hashes THEN Len(chain) ELSE max_hashes))

\* The newest hashes of the chain, newest first, and Zero when all of them fit.
BlockLocator(chain, max_hashes) ==
  LET n == IF Len(chain) < max_hashes THEN Len(chain) ELSE max_hashes
  IN  Hashes(SubSeq(Reverse(chain), 1, n))
        \o (IF n < max_hashes /\ chain # << >> THEN <<Zero>> ELSE << >>)

\* The blocks after the first hash of the locator that is on the chain; Zero is
\* on every chain, and a locator without a common hash starts at genesis.
BlocksAfterLocator(chain, locator, limit) ==
  LET index(hash) == SelectInSeq(Hashes(chain), LAMBDA h : h = hash)
      common == SelectInSeq(locator, LAMBDA h : h = Zero \/ index(h) # 0)
      start == IF common = 0 THEN 0 ELSE index(locator[common])
  IN  SubSeq(chain, start + 1,
             IF start + limit < Len(chain) THEN start + limit ELSE Len(chain))

\* The blocks of chain c that are not on chain d.
ForkDepth(c, d) == Len(c) - Len(LongestCommonPrefix({c, d}))

HeadersOf(blocks) == [i \in 1..Len(blocks) |-> Header(blocks[i])]

HeadersAfterLocator(chain, locator, limit) ==
  HeadersOf(BlocksAfterLocator(chain, locator, limit))

-----------------------------------------------------------------------------
(* validate_headers_after_locator                                            *)

\* The first header continues a hash of the locator that is still on the chain,
\* or genesis, when the locator asked for it or there is no chain yet.
AnchorOk(chain, locator, first_parent) ==
  IF first_parent = Zero
  THEN chain = << >> \/ Contains(locator, Zero)
  ELSE Contains(locator, first_parent) /\ Contains(Hashes(chain), first_parent)

AnchorHeight(chain, first_parent) ==
  IF first_parent = Zero THEN 0 ELSE SelectInSeq(Hashes(chain), LAMBDA h : h = first_parent)

\* Mutant: sample count and work of the headers are left to insert_block.
ContiguousFromUnworked(parent, height, headers) ==
  \A i \in 1..Len(headers) :
    /\ headers[i].previous_block = IF i = 1 THEN parent ELSE headers[i - 1].hash
    /\ headers[i].height = height + i - 1

\* Each header is the next one up: by parent and height, with the configured
\* sample count and enough work.
ContiguousFrom(parent, height, headers) ==
  \A i \in 1..Len(headers) :
    /\ headers[i].previous_block = IF i = 1 THEN parent ELSE headers[i - 1].hash
    /\ headers[i].height = height + i - 1
    /\ headers[i].header_ok

HeadersExtendLocator(chain, locator, headers) ==
  headers # << >> =>
    LET first_parent == headers[1].previous_block
    IN  /\ AnchorOk(chain, locator, first_parent)
        /\ ContiguousFrom(first_parent, AnchorHeight(chain, first_parent), headers)

-----------------------------------------------------------------------------
(* The node state                                                            *)

NewNode(fc) ==
  [fork_choice |-> fc, chain |-> BestChain(fc),
   accepted_blocks |-> 0, rejected_blocks |-> 0, mined_blocks |-> 0,
   synced_blocks |-> 0, failed_syncs |-> 0, reorgs |-> 0]

ActivationOk(node) ==
  \/ HeadHash(node.chain) = BestHash(node.fork_choice)
  \/ ChainFromBlocksOk(BestChain(node.fork_choice))

\* Mutant: a new tip becomes active only when it extends the active chain.
ActivateExtensionOnly(node) ==
  IF IsPrefix(node.chain, BestChain(node.fork_choice))
  THEN [node EXCEPT !.chain = BestChain(node.fork_choice)]
  ELSE node

\* activate_best_chain, where it succeeds.
ActivateBestChain(node) ==
  IF HeadHash(node.chain) = BestHash(node.fork_choice)
  THEN node
  ELSE [node EXCEPT !.chain = BestChain(node.fork_choice)]

\* Mutant: any block beside the head is a reorg.
IsReorgBeside(node, activated, b) ==
  HeadHash(node.chain) # Zero /\ b.previous_block # HeadHash(node.chain)

IsReorg(node, activated, b) ==
  /\ HeadHash(node.chain) # Zero
  /\ b.previous_block # HeadHash(node.chain)
  /\ HeadHash(activated.chain) = b.hash

Counted(node, source) ==
  IF source = "Gossip" THEN [node EXCEPT !.accepted_blocks = @ + 1]
                       ELSE [node EXCEPT !.synced_blocks = @ + 1]

\* Mutant: insert_block returns Ok for a known block as well.
ApplicationUnchecked(node, b) ==
  IF InsertResult(node.fork_choice, b) = "Ok" THEN "Accepted" ELSE "Rejected"

Application(node, b) ==
  IF ContainsBlock(node.fork_choice, b.hash) THEN "AlreadyKnown"
  ELSE IF InsertResult(node.fork_choice, b) = "Ok" THEN "Accepted"
  ELSE "Rejected"

\* apply_incoming_block; the append to the block log is in module BlockLog.
ApplyIncomingBlock(node, b, source) ==
  LET inserted == [node EXCEPT !.fork_choice = InsertBlock(@, b)]
      activated == IF ActivationOk(inserted) THEN ActivateBestChain(inserted) ELSE inserted
      reorged == IF ActivationOk(inserted) /\ IsReorg(node, activated, b)
                 THEN [activated EXCEPT !.reorgs = @ + 1]
                 ELSE activated
  IN  CASE Application(node, b) = "AlreadyKnown" -> node
        [] Application(node, b) = "Accepted" -> Counted(reorged, source)
        [] Application(node, b) = "Rejected" ->
             IF source = "Gossip" THEN [node EXCEPT !.rejected_blocks = @ + 1] ELSE node

-----------------------------------------------------------------------------
(* A batch of blocks received for screened headers                           *)

\* Mutant: only the first block is tried before the batch is applied.
BatchIsValidFirst(fc, batch) ==
  batch # << >> => InsertResult(fc, batch[1]) = "Ok"

\* Mutant: a block that gossip brought in the meantime refuses the batch.
BatchIsValidFresh(fc, batch) ==
  LET after(i) == FoldLeft(InsertBlock, fc, SubSeq(batch, 1, i))
  IN  \A i \in 1..Len(batch) : Attaches(after(i - 1), batch[i])

\* validate_sync_batch: every block inserts into a copy of the fork choice, and
\* the best chain of the copy replays.
BatchIsValid(fc, batch) ==
  LET after(i) == FoldLeft(InsertBlock, fc, SubSeq(batch, 1, i))
  IN  /\ \A i \in 1..Len(batch) : InsertResult(after(i - 1), batch[i]) = "Ok"
      /\ ChainFromBlocksOk(BestChain(after(Len(batch))))

\* The blocks are applied in order; the first that is refused ends the batch.
ApplyBatch(node, batch) ==
  LET apply(acc, b) ==
        IF acc.refused THEN acc
        ELSE [node |-> ApplyIncomingBlock(acc.node, b, "Sync"),
              refused |-> Application(acc.node, b) = "Rejected"]
  IN  FoldLeft(apply, [node |-> node, refused |-> FALSE], batch)
=============================================================================
