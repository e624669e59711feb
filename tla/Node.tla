--------------------------------- MODULE Node ---------------------------------
(***************************************************************************)
(* One running node: the critical sections its threads execute under the   *)
(* mutex of NodeState (crates/chesscoin-node/src/runtime.rs).              *)
(*                                                                         *)
(* The node loop mines and syncs, one after the other, in one thread; an   *)
(* inbound handler per connection applies a gossiped block.  A sync is     *)
(* several critical sections: the locator is taken in one, headers are     *)
(* screened in another, blocks are applied in a third, and between them,   *)
(* while the loop waits for a peer without the lock, handlers go on        *)
(* applying blocks.  Peers answer anything, or nothing.                    *)
(*                                                                         *)
(* Not here: the exchange of peer addresses that opens a sync, the append  *)
(* to the block log (module BlockLog), and the sockets.                    *)
(***************************************************************************)
EXTENDS SyncRules

CONSTANTS
  StoredBlocks,           \* block sequences the log may hold at startup
  MaxLocatorHashes,       \* sync.max_locator_hashes
  MaxBlocksPerResponse,   \* sync.max_blocks_per_response
  SyncPeers,              \* peers asked in one sync
  MaxSyncs,               \* bound: syncs begun
  MaxPeerChain,           \* bound: blocks of a peer's chain
  MaxRejections           \* bound: gossiped blocks that are rejected

ASSUME SyncAssumption ==
  /\ StoredBlocks \subseteq Seq(Blocks)
  /\ MaxLocatorHashes \in Nat \ {0}
  /\ MaxBlocksPerResponse \in Nat \ {0}
  /\ SyncPeers \in Nat \ {0}
  /\ MaxSyncs \in Nat
  /\ MaxPeerChain \in Nat

VARIABLES
  node,        \* NodeState
  loop,        \* where the node loop is in sync_once
  relayed,     \* history: how often broadcast_block was called for a block
  loaded,      \* history: blocks known at startup
  syncs        \* history: syncs begun

vars == <<node, loop, relayed, loaded, syncs>>

-----------------------------------------------------------------------------
Idle == [at |-> "Idle"]

AskHeaders(peers, locator) == [at |-> "Headers", peers |-> peers, locator |-> locator]

AskBlocks(peers, locator, headers) ==
  [at |-> "Blocks", peers |-> peers, locator |-> locator, headers |-> headers]

\* The next peer of this sync is asked with the same locator.
NextPeer == IF loop.peers = 1 THEN Idle ELSE AskHeaders(loop.peers - 1, loop.locator)

Init ==
  /\ \E blocks \in StoredBlocks : node = NewNode(FoldLeft(InsertBlock, EmptyForkChoice, blocks))
  /\ loop = Idle
  /\ relayed = [h \in {b.hash : b \in Blocks} |-> 0]
  /\ loaded = Known(node.fork_choice)
  /\ syncs = 0

\* mine_once: mined, inserted, activated and counted in one critical section,
\* then announced and broadcast.
MineOnce(b) ==
  /\ loop = Idle
  /\ b \in MineNextBlock(node.fork_choice)
  /\ node' = [ActivateBestChain([node EXCEPT !.fork_choice = InsertBlock(@, b)])
                EXCEPT !.mined_blocks = @ + 1]
  /\ relayed' = [relayed EXCEPT ![b.hash] = @ + 1]
  /\ UNCHANGED <<loop, loaded, syncs>>

\* The Block arm of handle_stream: an accepted block is broadcast in turn.
GossipBlock(b) ==
  /\ Application(node, b) = "Rejected" => node.rejected_blocks < MaxRejections
  /\ node' = ApplyIncomingBlock(node, b, "Gossip")
  /\ relayed' = IF Application(node, b) = "Accepted"
                THEN [relayed EXCEPT ![b.hash] = @ + 1] ELSE relayed
  /\ UNCHANGED <<loop, loaded, syncs>>

\* sync_once takes the locator, once for all peers.
BeginSync ==
  /\ loop = Idle
  /\ syncs < MaxSyncs
  /\ syncs' = syncs + 1
  /\ loop' = AskHeaders(SyncPeers, BlockLocator(node.chain, MaxLocatorHashes))
  /\ UNCHANGED <<node, relayed, loaded>>

\* sync_from_peer returns an error, counted once for the peer.
SyncFails ==
  /\ node' = [node EXCEPT !.failed_syncs = @ + 1]
  /\ loop' = NextPeer

\* No connection, a timeout, or an answer that is not what was asked for.
PeerFails ==
  /\ loop.at \in {"Headers", "Blocks"}
  /\ SyncFails
  /\ UNCHANGED <<relayed, loaded, syncs>>

\* Mutant: a known first header is taken for a known answer.
HasUnknownFirst(headers) ==
  headers # << >> /\ ~ContainsBlock(node.fork_choice, headers[1].hash)

HasUnknownBlock(headers) ==
  \E i \in 1..Len(headers) : ~ContainsBlock(node.fork_choice, headers[i].hash)

\* The headers are screened against the chain of now and the locator of then.
ReceiveHeaders(headers) ==
  /\ loop.at = "Headers"
  /\ \/ /\ ~HeadersExtendLocator(node.chain, loop.locator, headers)
        /\ SyncFails
     \/ /\ HeadersExtendLocator(node.chain, loop.locator, headers)
        /\ loop' = IF HasUnknownBlock(headers)
                   THEN AskBlocks(loop.peers, loop.locator, headers) ELSE NextPeer
        /\ UNCHANGED node
  /\ UNCHANGED <<relayed, loaded, syncs>>

\* The blocks of the screened headers, all of them and no other, are tried on a
\* copy and then applied.
ReceiveBlocks(batch) ==
  /\ loop.at = "Blocks"
  /\ Hashes(batch) = [i \in 1..Len(loop.headers) |-> loop.headers[i].hash]
  /\ IF ~BatchIsValid(node.fork_choice, batch)
     THEN SyncFails
     ELSE LET applied == ApplyBatch(node, batch)
          IN  /\ node' = IF applied.refused THEN [applied.node EXCEPT !.failed_syncs = @ + 1]
                                            ELSE applied.node
              /\ loop' = NextPeer
  /\ UNCHANGED <<relayed, loaded, syncs>>

HeaderResponses == BoundedSeq({Header(b) : b \in Blocks}, MaxBlocksPerResponse)
BlockResponses == BoundedSeq(Blocks, MaxBlocksPerResponse)

Next ==
  \/ \E b \in Blocks : MineOnce(b) \/ GossipBlock(b)
  \/ BeginSync
  \/ PeerFails
  \/ \E headers \in HeaderResponses : ReceiveHeaders(headers)
  \/ \E batch \in BlockResponses : ReceiveBlocks(batch)

Spec == Init /\ [][Next]_vars

-----------------------------------------------------------------------------
(* Properties                                                                *)

Counters == {"accepted_blocks", "rejected_blocks", "mined_blocks",
             "synced_blocks", "failed_syncs", "reorgs"}

\* Type invariant of the node and of its sync.
TypeOK ==
  /\ ForkChoiceType(node.fork_choice)
  /\ node.chain \in Seq(Blocks)
  /\ \A c \in Counters : node[c] \in Nat
  /\ loop.at \in {"Idle", "Headers", "Blocks"}
  /\ loop # Idle => /\ loop.peers \in 1..SyncPeers
                    /\ loop.locator \in Seq(Nat)
                    /\ Len(loop.locator) <= MaxLocatorHashes
  /\ loop.at = "Blocks" => Len(loop.headers) \in 1..MaxBlocksPerResponse
  /\ relayed \in [{b.hash : b \in Blocks} -> Nat]
  /\ syncs \in 0..MaxSyncs

\* After every critical section the active chain is the best branch of the fork
\* choice and replays: the view that snapshots, locators and responses are taken
\* from never lags behind best_tip, on reorgs and in sync batches too.
ChainFollowsTip ==
  /\ TypeOK
  /\ node.chain = BestChain(node.fork_choice)
  /\ ChainFromBlocksOk(node.chain)

\* Every known block was counted exactly once, as loaded, accepted, mined or synced,
\* whichever path brought it first and however often it came again; and every block
\* mined or first heard by gossip was broadcast exactly once, no other at all, so that
\* gossip dies out in a cycle of peers.
EachBlockOnce ==
  /\ Cardinality(Known(node.fork_choice))
       = Cardinality(loaded) + node.accepted_blocks + node.mined_blocks + node.synced_blocks
  /\ \A h \in DOMAIN relayed :
       /\ relayed[h] <= 1
       /\ relayed[h] = 1 => h \in Known(node.fork_choice) \ loaded
  /\ Cardinality({h \in DOMAIN relayed : relayed[h] = 1})
       = node.accepted_blocks + node.mined_blocks

\* docs/node-v0.1.md: reorgs counts the changes of the active branch away from the
\* previous head, and nothing else: one for the whole of a sync batch.
ReorgsCountSwitches ==
  [][node'.reorgs - node.reorgs
       = IF node.chain # << >> /\ ~IsPrefix(node.chain, node'.chain) THEN 1 ELSE 0]_vars

\* docs/architecture.md: the blocks of a sync response are all applied, or the
\* response is one failed sync and nothing of the node changes.
SyncAllOrNothing ==
  [][(loop.at = "Blocks" /\ loop' # loop) =>
       \/ /\ node'.failed_syncs = node.failed_syncs
          /\ \A i \in 1..Len(loop.headers) : loop.headers[i].hash \in Known(node'.fork_choice)
       \/ node' = [node EXCEPT !.failed_syncs = @ + 1]]_vars

\* The chain of the screening may be reorganised away before the blocks arrive;
\* honest bodies of the screened headers attach all the same.
ScreenedHeadersAttach ==
  loop.at = "Blocks" =>
    /\ ParentKnown(node.fork_choice, loop.headers[1])
    /\ \A batch \in BlockResponses :
         (/\ HeadersOf(batch) = loop.headers
          /\ batch[1].model_before = ParentContext(node.fork_choice, batch[1]).model
          /\ \A i \in 1..Len(batch) :
               batch[i].trace_ok /\ (i > 1 => batch[i].model_before = batch[i - 1].model_after))
         => BatchIsValid(node.fork_choice, batch)

\* The active chains other nodes of the network may have.
PeerChains == {chain \in BoundedSeq(Blocks, MaxPeerChain) : ChainFromBlocksOk(chain)}

Answer(chain) == HeadersAfterLocator(chain, loop.locator, MaxBlocksPerResponse)

\* The two sides agree on what a locator asks for: the screening refuses an honest
\* answer only if its parent left the active chain since the locator was taken, or
\* if the locator did not reach back to genesis and the answer does.
HonestHeadersAccepted ==
  loop.at = "Headers" =>
    \A chain \in PeerChains :
      LET headers == Answer(chain)
      IN  \/ HeadersExtendLocator(node.chain, loop.locator, headers)
          \/ /\ headers[1].previous_block \in ToSet(loop.locator) \ {Zero}
             /\ headers[1].previous_block \notin ToSet(Hashes(node.chain))
          \/ /\ headers[1].previous_block = Zero
             /\ Len(loop.locator) \in {0, MaxLocatorHashes}
             /\ Zero \notin ToSet(loop.locator)

HeavierChain(c, d) ==
  \/ Len(c) > Len(d)
  \/ Len(c) = Len(d) /\ HeadHash(c) > HeadHash(d)

FreshLocator ==
  loop.at = "Headers" /\ loop.locator = BlockLocator(node.chain, MaxLocatorHashes)

FindsMissingBlocks(chain) ==
  /\ HeadersExtendLocator(node.chain, loop.locator, Answer(chain))
  /\ HasUnknownBlock(Answer(chain))

\* A sync with a peer on a heavier chain moves on, whatever side branches are
\* known already, while the fork is shallower than both limits of the sync.
CatchUpProgress ==
  FreshLocator =>
    \A chain \in PeerChains :
      (/\ HeavierChain(chain, node.chain)
       /\ ForkDepth(node.chain, chain) < MaxLocatorHashes
       /\ ForkDepth(node.chain, chain) < MaxBlocksPerResponse)
      => FindsMissingBlocks(chain)

-----------------------------------------------------------------------------
(* What the node promises to its peers                                       *)

HT == INSTANCE HeaviestTip WITH
        Tips <- {b.hash : b \in Blocks},
        None <- Zero,
        Height <- [hash \in {b.hash : b \in Blocks} |-> BlockOf(hash).height],
        known <- Known(node.fork_choice),
        head <- HeadHash(node.chain)

\* The node implements HeaviestTip: the head of the chain it serves, mines on and
\* shows in snapshots is a function of the blocks it knows, whether they were
\* stored, mined, gossiped or synced in batches.
ImplementsHeaviestTip == HT!Spec

-----------------------------------------------------------------------------
(* A statement of the documentation that the code does not meet              *)

\* docs/node-v0.1.md: peer catch-up requests the headers after the first common
\* block of the locator, then fetches the missing blocks.
CatchUpFetchesMissing ==
  FreshLocator =>
    \A chain \in PeerChains :
      (/\ HeavierChain(chain, node.chain)
       /\ ForkDepth(node.chain, chain) < MaxLocatorHashes)
      => FindsMissingBlocks(chain)
=============================================================================
