---------------------------- MODULE NetworkProofs ----------------------------
(***************************************************************************)
(* Theorems about Network, for any nodes, configurations and blocks:       *)
(* whatever is lost, reordered, mined or killed, the blocks that an honest *)
(* peer sends for headers that passed the screening are a valid batch.     *)
(*                                                                         *)
(* The answer was taken from a chain that may have been replaced since, at *)
(* both ends, and its headers were screened against a chain that is not    *)
(* the best one any more.  What is left of it is an invariant of the loop: *)
(* the headers hang on a block of the own tree, and each block starts from *)
(* the model that its parent leaves behind, wherever the parent is.        *)
(***************************************************************************)
EXTENDS Network, BlockTreeProofs

-----------------------------------------------------------------------------
(* Blocks of valid chains                                                    *)

\* A block that an honest chain holds, said without the chain: it starts from the
\* model of its parent.  The hash of the parent covers that model.
Honest(b) ==
  /\ b.trace_ok
  /\ b.previous_block = Zero => b.model_before = GenesisModel
  /\ \A c \in Blocks : c.hash = b.previous_block => b.model_before = c.model_after

HonestBlocks == {b \in Blocks : Honest(b)}

LEMMA ChainIsHonest ==
  ASSUME NEW chain, IsChain(chain), NEW i \in 1..Len(chain)
  PROVE  chain[i] \in HonestBlocks
<1>1. chain[i] \in Blocks /\ chain[i].trace_ok
  BY ChainLinks
<1>2. CASE i = 1
  BY <1>1, <1>2, ChainLinks, BlockFacts DEF HonestBlocks, Honest
<1>3. CASE i # 1
  <2>1. /\ i - 1 \in 1..Len(chain)
        /\ chain[i].previous_block = chain[i - 1].hash
        /\ chain[i].model_before = chain[i - 1].model_after
    BY <1>3, ChainLinks
  <2>2. chain[i - 1] \in Blocks /\ chain[i - 1].hash # Zero
    BY <2>1, ChainLinks
  <2>3. \A c \in Blocks : c.hash = chain[i - 1].hash => c.model_after = chain[i - 1].model_after
    BY <2>2, HashAssumption DEF Header
  <2>4. QED
    BY <1>1, <2>1, <2>2, <2>3 DEF HonestBlocks, Honest
<1>4. QED
  BY <1>2, <1>3

LEMMA AnswerIsHonest ==
  ASSUME NEW fc, ForkChoiceInv(fc), NEW locator \in Seq(Nat), NEW limit \in Nat
  PROVE  LET blocks == BlocksAfterLocator(BestChain(fc), locator, limit)
         IN  blocks \in Seq(HonestBlocks) /\ Len(blocks) <= limit
<1> DEFINE chain == BestChain(fc)
           start == AnswerStart(chain, locator)
           end == AnswerEnd(chain, start, limit)
           blocks == BlocksAfterLocator(chain, locator, limit)
<1>1. IsChain(chain)
  BY BestChainReplays DEF IsChain
<1>2. /\ start \in 0..Len(chain) /\ end \in start..Len(chain)
      /\ end - start <= limit /\ blocks = Part(chain, start, end)
  BY <1>1, AnswerIsPart
<1>3. chain \in Seq(Blocks) /\ \A i \in 1..Len(chain) : chain[i] \in HonestBlocks
  BY <1>1, ChainIsHonest DEF IsChain
<1> HIDE DEF chain, start, end, blocks
<1>4. chain \in Seq(HonestBlocks)
  BY <1>3
<1>5. QED
  BY <1>2, <1>3, <1>4 DEF Part, chain, blocks

\* Full honest blocks for screened headers are a valid batch, whatever of them is
\* known already.
LEMMA HonestBatch ==
  ASSUME NEW fc, ForkChoiceInv(fc), NEW batch \in Seq(HonestBlocks),
         Screened(fc, HeadersOf(batch))
  PROVE  BatchIsValid(fc, batch)
<1> DEFINE headers == HeadersOf(batch)
<1>1. batch \in Seq(Blocks) /\ \A i \in 1..Len(batch) : batch[i] \in Blocks /\ Honest(batch[i])
  BY DEF HonestBlocks
<1>2. /\ Len(headers) = Len(batch)
      /\ \A i \in 1..Len(batch) : /\ headers[i].hash = batch[i].hash
                                  /\ headers[i].previous_block = batch[i].previous_block
  BY <1>1 DEF HeadersOf, Header
<1>3. /\ headers # << >> /\ Len(batch) # 0
      /\ ParentKnown(fc, headers[1])
      /\ \A i \in 1..Len(batch) : i # 1 => headers[i].previous_block = headers[i - 1].hash
  <2>1. headers # << >> /\ ParentKnown(fc, headers[1])
    BY DEF Screened
  <2>2. \A i \in 1..Len(headers) : i # 1 => headers[i].previous_block = headers[i - 1].hash
    BY DEF Screened, ContiguousFrom
  <2>3. Len(batch) # 0
    BY <1>1, <2>1 DEF HeadersOf
  <2>4. QED
    BY <1>2, <2>1, <2>2, <2>3
<1> HIDE DEF headers
<1>4. 1 \in 1..Len(batch) /\ Len(batch) \in Nat
  BY <1>1, <1>3
<1>5. \A i \in 1..Len(batch) : i > 1 => batch[i].model_before = batch[i - 1].model_after
  <2> TAKE i \in 1..Len(batch)
  <2>1. CASE i > 1
    <3>1. i - 1 \in 1..Len(batch) /\ i # 1
      BY <1>4, <2>1
    <3>2. batch[i].previous_block = batch[i - 1].hash /\ batch[i - 1] \in Blocks
      BY <1>1, <1>2, <1>3, <3>1
    <3>3. QED
      BY <1>1, <3>2 DEF Honest
  <2>2. QED BY <2>1
<1>6. batch[1].model_before = ParentContext(fc, batch[1]).model
  <2>1. CASE batch[1].previous_block = Zero
    BY <1>1, <1>4, <2>1 DEF Honest, ParentContext, GenesisContext
  <2>2. CASE batch[1].previous_block # Zero
    <3>1. batch[1].previous_block \in Known(fc)
      BY <1>2, <1>3, <1>4, <2>2 DEF ParentKnown
    <3> DEFINE c == fc.nodes[batch[1].previous_block].block
    <3>2. c \in Blocks /\ c.hash = batch[1].previous_block
      BY <3>1, NodeFacts DEF ForkChoiceInv
    <3> HIDE DEF c
    <3>3. ParentContext(fc, batch[1]).model = c.model_after
      BY <1>1, <1>4, <3>1, <3>2, ChildContext DEF ForkChoiceInv
    <3>4. QED
      BY <1>1, <1>4, <3>2, <3>3 DEF Honest
  <2>3. QED BY <2>1, <2>2
<1>7. HonestBodies(fc, headers, batch)
  BY <1>1, <1>5, <1>6 DEF HonestBodies, headers, Honest
<1>8. QED
  BY <1>1, <1>7, HonestBodiesAttach DEF headers

-----------------------------------------------------------------------------
(* The invariant                                                             *)

\* The peers that a sync still has to ask, the first one now.
PeersLeft(c) == {SubSeq(c.peers, k, Len(c.peers)) : k \in 1..Len(c.peers)}

Locators(c) == {s \in Seq(Nat) : Len(s) <= c.max_locator_hashes}

HeaderAnswers(c) == {s \in Seq(HeaderRecords) : Len(s) <= c.max_blocks_per_response}

BlockAnswers(c) == {s \in Seq(HonestBlocks) : Len(s) <= c.max_blocks_per_response}

Screenings(c, fc) == {s \in HeaderAnswers(c) : Screened(fc, s)}

\* Where sync_once of a node with this configuration and fork choice can be.
LoopStates(c, fc) ==
  {Idle}
    \cup [at : {"AskHeaders", "AwaitHeaders"}, peers : PeersLeft(c), locator : Locators(c)]
    \cup [at : {"Headers"}, peers : PeersLeft(c), locator : Locators(c), answer : HeaderAnswers(c)]
    \cup [at : {"AskBlocks", "AwaitBlocks"}, peers : PeersLeft(c), locator : Locators(c),
          headers : Screenings(c, fc)]
    \cup [at : {"Blocks"}, peers : PeersLeft(c), locator : Locators(c),
          headers : Screenings(c, fc), answer : BlockAnswers(c)]

NodeInv(n) ==
  /\ ForkChoiceInv(fork_choice[n])
  /\ loop[n] \in LoopStates(config[n], fork_choice[n])

NetworkInv ==
  /\ environment \in Environments
  /\ fork_choice = [n \in Nodes |-> fork_choice[n]]
  /\ loop = [n \in Nodes |-> loop[n]]
  /\ in_flight \subseteq Nodes \X Blocks
  /\ \A n \in Nodes : NodeInv(n)

LEMMA ConfigIs ==
  ASSUME environment \in Environments, NEW n \in Nodes
  PROVE  /\ config[n].peers \in Seq(Nodes)
         /\ config[n].max_locator_hashes \in Nat
         /\ config[n].max_blocks_per_response \in Nat
         /\ config[n].max_message_bytes \in Nat
BY NetworkAssumption DEF ConfigOk, NodeConfig, config

\* A loop that is not idle has a first peer, and what it knows of the sync.
LEMMA LoopIs ==
  ASSUME NEW c, NEW fc, NEW l \in LoopStates(c, fc), l # Idle
  PROVE  /\ l.at \in Waiting \cup {"Headers", "Blocks"}
         /\ l.peers \in PeersLeft(c)
         /\ l.locator \in Locators(c)
         /\ l.at \in {"AskBlocks", "AwaitBlocks", "Blocks"} => l.headers \in Screenings(c, fc)
         /\ l.at = "Headers" => l.answer \in HeaderAnswers(c)
         /\ l.at = "Blocks" => l.answer \in BlockAnswers(c)
BY DEF LoopStates, Waiting

\* Idle is the only loop that is at "Idle".
LEMMA NotIdle ==
  ASSUME NEW c, NEW fc, NEW l \in LoopStates(c, fc)
  PROVE  l.at = "Idle" <=> l = Idle
BY DEF LoopStates, Idle

\* What a loop holds stays good when the tree grows.
LEMMA LoopGrows ==
  ASSUME NEW c, NEW fc, NEW new, Grows(fc, new), NEW l \in LoopStates(c, fc)
  PROVE  l \in LoopStates(c, new)
<1>1. Screenings(c, fc) \subseteq Screenings(c, new)
  BY ScreenedStays DEF Screenings
<1>2. QED
  BY <1>1 DEF LoopStates

LEMMA TailOfPeers ==
  ASSUME NEW c, NEW X, c.peers \in Seq(X), NEW peers \in PeersLeft(c)
  PROVE  /\ peers \in Seq(X)
         /\ peers # << >>
         /\ Tail(peers) = << >> \/ Tail(peers) \in PeersLeft(c)
<1>1. PICK k \in 1..Len(c.peers) : peers = SubSeq(c.peers, k, Len(c.peers))
  BY DEF PeersLeft
<1>2. /\ peers \in Seq(X) /\ Len(peers) = Len(c.peers) - k + 1
      /\ Len(c.peers) \in Nat
  BY <1>1
<1>3. peers # << >>
  BY <1>2
<1>4. CASE k = Len(c.peers)
  <2>1. Tail(peers) \in Seq(X) /\ Len(Tail(peers)) = 0
    BY <1>2, <1>3, <1>4
  <2>2. \A s \in Seq(X) : Len(s) = 0 => s = << >>
    OBVIOUS
  <2>3. QED
    BY <1>2, <1>3, <2>1, <2>2
<1>5. CASE k # Len(c.peers)
  <2>1. k + 1 \in 1..Len(c.peers)
    BY <1>2, <1>5
  <2>2. Tail(peers) = SubSeq(c.peers, k + 1, Len(c.peers))
    BY <1>1, <1>2, <1>5
  <2>3. \E j \in 1..Len(c.peers) : Tail(peers) = SubSeq(c.peers, j, Len(c.peers))
    BY <2>1, <2>2, Zenon
  <2>4. QED
    BY <1>2, <1>3, <2>3, Zenon DEF PeersLeft
<1>6. QED
  BY <1>2, <1>3, <1>4, <1>5

\* The sync goes on with the next peer, or ends.
LEMMA NextPeerIs ==
  ASSUME NetworkInv, NEW n \in Nodes, loop[n] # Idle, NEW fc
  PROVE  NextPeer(n) \in LoopStates(config[n], fc)
<1>1. loop[n].peers \in PeersLeft(config[n]) /\ loop[n].locator \in Locators(config[n])
  BY LoopIs DEF NetworkInv, NodeInv
<1>2. Tail(loop[n].peers) = << >> \/ Tail(loop[n].peers) \in PeersLeft(config[n])
  BY <1>1, ConfigIs, TailOfPeers DEF NetworkInv
<1>3. QED
  BY <1>1, <1>2 DEF NextPeer, Ask, LoopStates

\* A step that leaves the trees alone and moves one loop to a place where it can be.
LEMMA LoopMoves ==
  ASSUME NetworkInv, NEW n \in Nodes, NEW l \in LoopStates(config[n], fork_choice[n]),
         loop' = [loop EXCEPT ![n] = l],
         UNCHANGED <<environment, fork_choice, in_flight>>
  PROVE  NetworkInv'
<1>1. \A m \in Nodes : loop'[m] = IF m = n THEN l ELSE loop[m]
  BY DEF NetworkInv
<1>2. loop' = [m \in Nodes |-> loop'[m]]
  BY DEF NetworkInv
<1>3. ASSUME NEW m \in Nodes PROVE NodeInv(m)'
  BY <1>1 DEF NetworkInv, NodeInv, config
<1>4. QED
  BY <1>2, <1>3 DEF NetworkInv

\* A step that lets one tree grow.
LEMMA TreeGrows ==
  ASSUME NetworkInv, NEW n \in Nodes, NEW new, ForkChoiceInv(new), Grows(fork_choice[n], new),
         NEW l \in LoopStates(config[n], new),
         fork_choice' = [fork_choice EXCEPT ![n] = new],
         loop' = [loop EXCEPT ![n] = l],
         environment' = environment, (in_flight \subseteq Nodes \X Blocks)'
  PROVE  NetworkInv'
<1>1. \A m \in Nodes : /\ loop'[m] = IF m = n THEN l ELSE loop[m]
                       /\ fork_choice'[m] = IF m = n THEN new ELSE fork_choice[m]
  BY DEF NetworkInv
<1>2. loop' = [m \in Nodes |-> loop'[m]] /\ fork_choice' = [m \in Nodes |-> fork_choice'[m]]
  BY DEF NetworkInv
<1>3. ASSUME NEW m \in Nodes PROVE NodeInv(m)'
  BY <1>1 DEF NetworkInv, NodeInv, config
<1>4. QED
  BY <1>2, <1>3 DEF NetworkInv

-----------------------------------------------------------------------------
(* The actions                                                               *)

LEMMA InitiallyOk == Init => NetworkInv
<1> SUFFICES ASSUME Init PROVE NetworkInv
  OBVIOUS
<1>1. \A n \in Nodes : fork_choice[n] = EmptyForkChoice /\ loop[n] = Idle
  BY DEF Init
<1>2. \A n \in Nodes : NodeInv(n)
  BY <1>1, EmptyInv DEF NodeInv, LoopStates
<1>3. QED
  BY <1>2 DEF Init, NetworkInv

\* A block is sent to nodes only.
LEMMA BroadcastType ==
  ASSUME NetworkInv, NEW n \in Nodes, NEW b \in Blocks
  PROVE  BroadcastBlock(n, b) \subseteq Nodes \X Blocks
<1>1. config[n].peers \in Seq(Nodes)
  BY ConfigIs DEF NetworkInv
<1>2. ToSet(config[n].peers) \subseteq Nodes
  BY <1>1 DEF ToSet
<1>3. QED
  BY <1>2 DEF BroadcastBlock

\* insert_block on one node, whatever its loop waits for.
LEMMA InsertOk ==
  ASSUME NetworkInv, NEW n \in Nodes, NEW b \in Blocks,
         fork_choice' = [fork_choice EXCEPT ![n] = InsertBlock(@, b)],
         loop' = loop, environment' = environment, (in_flight \subseteq Nodes \X Blocks)'
  PROVE  NetworkInv'
<1> DEFINE fc == fork_choice[n]
           new == InsertBlock(fc, b)
<1>1. ForkChoiceInv(fc) /\ loop[n] \in LoopStates(config[n], fc)
  BY DEF NetworkInv, NodeInv
<1>2. ForkChoiceInv(new) /\ Grows(fc, new)
  BY <1>1, InsertKeepsInv, InsertGrows
<1>3. loop[n] \in LoopStates(config[n], new)
  BY <1>1, <1>2, LoopGrows
<1>4. fork_choice' = [fork_choice EXCEPT ![n] = new] /\ loop' = [loop EXCEPT ![n] = loop[n]]
  BY DEF NetworkInv
<1> HIDE DEF new
<1>5. QED
  BY <1>2, <1>3, <1>4, TreeGrows DEF fc

LEMMA MineOnceOk ==
  ASSUME NetworkInv, NEW n \in Nodes, NEW b \in Blocks, MineOnce(n, b)
  PROVE  NetworkInv'
<1>1. (in_flight \subseteq Nodes \X Blocks)'
  BY BroadcastType DEF MineOnce, NetworkInv
<1>2. QED
  BY <1>1, InsertOk DEF MineOnce, constant

LEMMA DeliverBlockOk ==
  ASSUME NetworkInv, NEW n \in Nodes, NEW b \in Blocks, DeliverBlock(n, b)
  PROVE  NetworkInv'
<1>1. Relayed(n, b) \subseteq Nodes \X Blocks
  BY BroadcastType DEF Relayed
<1>2. (in_flight \subseteq Nodes \X Blocks)'
  BY <1>1 DEF DeliverBlock, NetworkInv
<1>3. QED
  BY <1>2, InsertOk DEF DeliverBlock, constant

LEMMA LoseBlockOk ==
  ASSUME NetworkInv, NEW n \in Nodes, NEW b \in Blocks, LoseBlock(n, b)
  PROVE  NetworkInv'
BY DEF LoseBlock, constant, NetworkInv, NodeInv, config

LEMMA CrashOk ==
  ASSUME NetworkInv, NEW p \in Nodes, Crash(p)
  PROVE  NetworkInv'
<1>1. /\ environment' = environment /\ in_flight' = in_flight
      /\ fork_choice' = [fork_choice EXCEPT ![p] =
           IF config[p].storage THEN @ ELSE EmptyForkChoice]
      /\ loop' = [n \in Nodes |->
           IF n = p THEN Idle
           ELSE IF Asks(n, p, {"AwaitHeaders", "AwaitBlocks"}) THEN NextPeer(n)
           ELSE loop[n]]
  BY DEF Crash
<1>2. fork_choice' = [n \in Nodes |-> fork_choice'[n]] /\ loop' = [n \in Nodes |-> loop'[n]]
  BY <1>1 DEF NetworkInv
<1>3. ASSUME NEW n \in Nodes PROVE NodeInv(n)'
  <2>1. config' = config
    BY <1>1 DEF config
  <2>2. CASE n = p
    <3>1. loop'[n] = Idle /\ fork_choice'[n] \in {fork_choice[n], EmptyForkChoice}
      BY <1>1, <2>2 DEF NetworkInv
    <3>2. QED
      BY <3>1, EmptyInv DEF NetworkInv, NodeInv, LoopStates
  <2>3. CASE n # p
    <3>1. fork_choice'[n] = fork_choice[n] /\ ForkChoiceInv(fork_choice[n])
      BY <1>1, <2>3 DEF NetworkInv, NodeInv
    <3>2. Asks(n, p, {"AwaitHeaders", "AwaitBlocks"}) => loop[n] # Idle
      BY DEF Asks, Idle
    <3>3. loop'[n] \in LoopStates(config[n], fork_choice[n])
      BY <1>1, <2>3, <3>2, NextPeerIs DEF NetworkInv, NodeInv
    <3>4. QED
      BY <2>1, <3>1, <3>3 DEF NodeInv
  <2>4. QED BY <2>2, <2>3
<1>4. QED
  BY <1>1, <1>2, <1>3 DEF NetworkInv

LEMMA BeginSyncOk ==
  ASSUME NetworkInv, NEW n \in Nodes, BeginSync(n)
  PROVE  NetworkInv'
<1> DEFINE chain == Chain(n)
           peers == config[n].peers
           max == config[n].max_locator_hashes
           locator == BlockLocator(chain, max)
           k == Newest(chain, max)
<1>1. peers \in Seq(Nodes) /\ max \in Nat
  BY ConfigIs DEF NetworkInv
<1>2. peers # << >> /\ loop' = [loop EXCEPT ![n] = Ask(peers, locator)]
      /\ UNCHANGED <<environment, fork_choice, in_flight>>
  BY DEF BeginSync, constant
<1>3. peers \in PeersLeft(config[n])
  <2>1. peers = SubSeq(peers, 1, Len(peers)) /\ 1 \in 1..Len(peers)
    BY <1>1, <1>2
  <2>2. QED
    BY <2>1 DEF PeersLeft
<1>4. chain \in Seq(Blocks)
  BY BestChainReplays DEF NetworkInv, NodeInv, Chain
<1>5. /\ locator \in Seq(Nat) /\ k \in 0..Len(chain) /\ k <= max
      /\ (k < max /\ chain # << >>) => Len(locator) = k + 1
      /\ ~(k < max /\ chain # << >>) => Len(locator) = k
  BY <1>1, <1>4, LocatorEntries
<1> HIDE DEF locator, k, max, chain
<1>6. locator \in Locators(config[n])
  <2>1. Len(locator) <= max
    BY <1>1, <1>5
  <2>2. QED
    BY <1>5, <2>1 DEF Locators, max
<1>7. Ask(peers, locator) \in LoopStates(config[n], fork_choice[n])
  BY <1>2, <1>3, <1>6 DEF Ask, LoopStates
<1> HIDE DEF peers
<1>8. QED
  BY <1>2, <1>7, LoopMoves

LEMMA AcceptOk ==
  ASSUME NetworkInv, NEW n \in Nodes, NEW p \in Nodes, Accept(n, p)
  PROVE  NetworkInv'
<1> DEFINE l == [loop[n] EXCEPT !.at = IF @ = "AskHeaders" THEN "AwaitHeaders" ELSE "AwaitBlocks"]
<1>1. loop[n] \in LoopStates(config[n], fork_choice[n]) /\ loop[n].at \in {"AskHeaders", "AskBlocks"}
  BY DEF NetworkInv, NodeInv, Accept, Asks
<1>2. l \in LoopStates(config[n], fork_choice[n])
  BY <1>1 DEF LoopStates, Idle
<1>3. loop' = [loop EXCEPT ![n] = l]
  BY DEF Accept
<1>4. QED
  BY <1>2, <1>3, LoopMoves DEF Accept, constant

LEMMA TimeOutOk ==
  ASSUME NetworkInv, NEW n \in Nodes, TimeOut(n)
  PROVE  NetworkInv'
<1>1. loop[n] # Idle
  BY DEF TimeOut, Waiting, Idle
<1>2. QED
  BY <1>1, NextPeerIs, LoopMoves DEF TimeOut, constant

LEMMA HeadersOfBlocks ==
  ASSUME NEW blocks \in Seq(Blocks)
  PROVE  HeadersOf(blocks) \in Seq(HeaderRecords) /\ Len(HeadersOf(blocks)) = Len(blocks)
<1>1. \A i \in 1..Len(blocks) : Header(blocks[i]) \in HeaderRecords
  BY DEF HeaderRecords
<1>2. QED
  BY <1>1 DEF HeadersOf

LEMMA SmallerLimit ==
  ASSUME NEW a \in Nat, NEW b \in Nat
  PROVE  Min({a, b}) \in Nat /\ Min({a, b}) <= a
BY LeastOf

\* The loop after an answer of a peer, which gives what an honest chain holds.
LEMMA AnsweredIs ==
  ASSUME NetworkInv, NEW n \in Nodes, NEW p \in Nodes, Asks(n, p, {"AwaitHeaders", "AwaitBlocks"})
  PROVE  LET locator == loop[n].locator
             headers == HeadersAfterLocator(Chain(p), locator, ResponseLimit(n, p))
             blocks == BlocksAfterLocator(Chain(p), locator,
                         Min({Len(loop[n].headers), config[p].max_blocks_per_response}))
         IN  /\ loop[n].at = "AwaitHeaders" =>
                  Answered(n, headers) \in LoopStates(config[n], fork_choice[n])
             /\ loop[n].at # "AwaitHeaders" =>
                  Answered(n, blocks) \in LoopStates(config[n], fork_choice[n])
<1> DEFINE locator == loop[n].locator
           max == config[n].max_blocks_per_response
           limit == ResponseLimit(n, p)
           blocks(k) == BlocksAfterLocator(Chain(p), locator, k)
<1>1. /\ loop[n] \in LoopStates(config[n], fork_choice[n]) /\ loop[n] # Idle
      /\ loop[n].at \in {"AwaitHeaders", "AwaitBlocks"}
      /\ ForkChoiceInv(fork_choice[p])
      /\ max \in Nat /\ config[p].max_blocks_per_response \in Nat
  BY ConfigIs DEF NetworkInv, NodeInv, Asks, Idle
<1>2. /\ loop[n].peers \in PeersLeft(config[n])
      /\ locator \in Locators(config[n]) /\ locator \in Seq(Nat)
      /\ loop[n].at = "AwaitBlocks" => loop[n].headers \in Screenings(config[n], fork_choice[n])
  BY <1>1, LoopIs DEF Locators
<1>3. ASSUME NEW k \in Nat, k <= max
      PROVE  /\ blocks(k) \in BlockAnswers(config[n])
             /\ HeadersOf(blocks(k)) \in HeaderAnswers(config[n])
  <2>1. blocks(k) \in Seq(HonestBlocks) /\ Len(blocks(k)) <= k
    BY <1>1, <1>2, AnswerIsHonest DEF Chain
  <2>2. blocks(k) \in Seq(Blocks) /\ Len(blocks(k)) \in Nat
    BY <2>1 DEF HonestBlocks
  <2> HIDE DEF blocks
  <2>3. Len(blocks(k)) <= max
    BY <1>1, <1>3, <2>1, <2>2
  <2>4. QED
    BY <2>1, <2>2, <2>3, HeadersOfBlocks DEF BlockAnswers, HeaderAnswers
<1> HIDE DEF blocks
<1>4. CASE loop[n].at = "AwaitHeaders"
  <2>1. limit \in Nat /\ limit <= max
    BY <1>1, SmallerLimit DEF ResponseLimit
  <2>2. HeadersAfterLocator(Chain(p), locator, limit) = HeadersOf(blocks(limit))
    BY DEF HeadersAfterLocator, blocks
  <2>3. HeadersAfterLocator(Chain(p), locator, limit) \in HeaderAnswers(config[n])
    BY <1>3, <2>1, <2>2
  <2>4. Answered(n, HeadersAfterLocator(Chain(p), locator, limit))
          \in LoopStates(config[n], fork_choice[n])
    BY <1>2, <1>4, <2>3 DEF Answered, LoopStates
  <2>5. QED BY <1>4, <2>4
<1>5. CASE loop[n].at = "AwaitBlocks"
  <2> DEFINE k == Min({Len(loop[n].headers), config[p].max_blocks_per_response})
  <2>1. Len(loop[n].headers) \in Nat /\ Len(loop[n].headers) <= max
    BY <1>2, <1>5 DEF Screenings, HeaderAnswers
  <2>2. k \in Nat /\ k <= max
    <3>1. k \in Nat /\ k <= Len(loop[n].headers)
      BY <1>1, <2>1, SmallerLimit
    <3> HIDE DEF k
    <3>2. QED BY <1>1, <2>1, <3>1
  <2> HIDE DEF k
  <2>3. blocks(k) \in BlockAnswers(config[n])
    BY <1>3, <2>2
  <2>4. Answered(n, blocks(k)) \in LoopStates(config[n], fork_choice[n])
    BY <1>2, <1>5, <2>3 DEF Answered, LoopStates
  <2>5. QED
    BY <1>5, <2>4 DEF k, blocks
<1>6. QED
  BY <1>1, <1>4, <1>5

LEMMA ServeOk ==
  ASSUME NetworkInv, NEW n \in Nodes, NEW p \in Nodes, Serve(n, p)
  PROVE  NetworkInv'
<1> DEFINE locator == loop[n].locator
           headers == HeadersAfterLocator(Chain(p), locator, ResponseLimit(n, p))
           blocks == BlocksAfterLocator(Chain(p), locator,
                       Min({Len(loop[n].headers), config[p].max_blocks_per_response}))
           next == IF ~TakesLocator(p, Len(locator)) THEN NextPeer(n)
                   ELSE IF loop[n].at = "AwaitHeaders"
                   THEN IF Reads(n, Len(headers) * HeaderSize) THEN Answered(n, headers) ELSE NextPeer(n)
                   ELSE IF blocks = << >> \/ Reads(n, BlockSize) THEN Answered(n, blocks) ELSE NextPeer(n)
<1>1. /\ Asks(n, p, {"AwaitHeaders", "AwaitBlocks"})
      /\ loop' = [loop EXCEPT ![n] = next]
      /\ UNCHANGED <<environment, fork_choice, in_flight>>
  BY DEF Serve, constant
<1>2. NextPeer(n) \in LoopStates(config[n], fork_choice[n])
  BY <1>1, NextPeerIs DEF Asks, Idle
<1>3. /\ loop[n].at = "AwaitHeaders" =>
           Answered(n, headers) \in LoopStates(config[n], fork_choice[n])
      /\ loop[n].at # "AwaitHeaders" =>
           Answered(n, blocks) \in LoopStates(config[n], fork_choice[n])
  BY <1>1, AnsweredIs
<1> HIDE DEF headers, blocks
<1>4. next \in LoopStates(config[n], fork_choice[n])
  BY <1>2, <1>3
<1> HIDE DEF next
<1>5. QED
  BY <1>1, <1>4, LoopMoves

\* Only headers that extend the locator are asked for, and those hang on the tree.
LEMMA ReceiveHeadersOk ==
  ASSUME NetworkInv, NEW n \in Nodes, ReceiveHeaders(n)
  PROVE  NetworkInv'
<1> DEFINE next == IF WantsBlocks(n) THEN AskBlocks(n, loop[n].answer) ELSE NextPeer(n)
<1>1. /\ loop[n].at = "Headers" /\ loop[n] # Idle
      /\ loop' = [loop EXCEPT ![n] = next]
      /\ UNCHANGED <<environment, fork_choice, in_flight>>
  BY DEF ReceiveHeaders, constant, Idle
<1>2. /\ loop[n].peers \in PeersLeft(config[n]) /\ loop[n].locator \in Locators(config[n])
      /\ loop[n].answer \in HeaderAnswers(config[n])
      /\ ForkChoiceInv(fork_choice[n])
  BY <1>1, LoopIs DEF NetworkInv, NodeInv
<1>3. ASSUME WantsBlocks(n)
      PROVE  loop[n].answer \in Screenings(config[n], fork_choice[n])
  <2>1. /\ HeadersExtendLocator(BestChain(fork_choice[n]), loop[n].locator, loop[n].answer)
        /\ loop[n].answer # << >>
    BY <1>2, <1>3 DEF WantsBlocks, HasUnknownBlock, Chain, HeaderAnswers
  <2>2. Screened(fork_choice[n], loop[n].answer)
    BY <1>2, <2>1, ScreeningIsSound DEF HeaderAnswers
  <2>3. QED
    BY <1>2, <2>2 DEF Screenings
<1>4. next \in LoopStates(config[n], fork_choice[n])
  BY <1>1, <1>2, <1>3, NextPeerIs DEF AskBlocks, LoopStates
<1> HIDE DEF next
<1>5. QED
  BY <1>1, <1>4, LoopMoves

\* A batch is applied as a sequence of insert_block.
LEMMA ReceiveBlocksOk ==
  ASSUME NetworkInv, NEW n \in Nodes, ReceiveBlocks(n)
  PROVE  NetworkInv'
<1> DEFINE fc == fork_choice[n]
           batch == loop[n].answer
           new == IF AsRequested(n) /\ BatchIsValid(fc, batch)
                  THEN FoldLeft(InsertBlock, fc, batch) ELSE fc
<1>1. /\ loop[n].at = "Blocks" /\ loop[n] # Idle
      /\ loop' = [loop EXCEPT ![n] = NextPeer(n)]
      /\ fork_choice' = [fork_choice EXCEPT ![n] = new]
      /\ environment' = environment /\ in_flight' = in_flight
  BY DEF ReceiveBlocks, constant, Idle
<1>2. ForkChoiceInv(fc) /\ batch \in Seq(Blocks)
  <2>1. ForkChoiceInv(fc) /\ batch \in BlockAnswers(config[n])
    BY <1>1, LoopIs DEF NetworkInv, NodeInv
  <2> HIDE DEF batch
  <2>2. batch \in Seq(HonestBlocks)
    BY <2>1 DEF BlockAnswers
  <2>3. QED
    BY <2>1, <2>2 DEF HonestBlocks
<1>3. ForkChoiceInv(new) /\ Grows(fc, new)
  <2>1. FoldLeft(InsertBlock, fc, batch) = Inserts!Fold(0, fc, batch)
    BY InsertsAreFold
  <2>2. Grows(fc, fc)
    BY DEF Grows
  <2>3. ForkChoiceInv(Inserts!Fold(0, fc, batch)) /\ Grows(fc, Inserts!Fold(0, fc, batch))
    BY <1>2, InsertsKeepInv
  <2> HIDE DEF fc, batch
  <2>4. QED
    BY <1>2, <2>1, <2>2, <2>3
<1>4. NextPeer(n) \in LoopStates(config[n], new)
  BY <1>1, NextPeerIs
<1> HIDE DEF new
<1>5. (in_flight \subseteq Nodes \X Blocks)'
  BY <1>1 DEF NetworkInv
<1>6. QED
  BY <1>1, <1>3, <1>4, <1>5, TreeGrows

-----------------------------------------------------------------------------
(* Theorems                                                                  *)

\* The inductive invariant: every fork choice is valid, and every loop holds what its
\* place in sync_once allows, in whatever order blocks and answers come.
THEOREM NetworkInvariance == Spec => []NetworkInv
<1>1. Init => NetworkInv
  BY InitiallyOk
<1>2. NetworkInv /\ [Next]_vars => NetworkInv'
  <2> SUFFICES ASSUME NetworkInv, [Next]_vars PROVE NetworkInv'
    OBVIOUS
  <2>1. ASSUME NEW n \in Nodes, NEW b \in Blocks, MineOnce(n, b) \/ GossipStep(n, b)
        PROVE  NetworkInv'
    BY <2>1, MineOnceOk, DeliverBlockOk, LoseBlockOk DEF GossipStep
  <2>2. ASSUME NEW n \in Nodes, LoopStep(n)
        PROVE  NetworkInv'
    BY <2>2, BeginSyncOk, TimeOutOk, ReceiveHeadersOk, ReceiveBlocksOk, AcceptOk, ServeOk
    DEF LoopStep
  <2>3. ASSUME NEW p \in Nodes, Crash(p)
        PROVE  NetworkInv'
    BY <2>3, CrashOk
  <2>4. CASE UNCHANGED vars
    BY <2>4 DEF vars, NetworkInv, NodeInv, config
  <2>5. QED
    BY <2>1, <2>2, <2>3, <2>4 DEF Next
<1>3. QED
  BY <1>1, <1>2, PTL DEF Spec

\* What is left of the peers is a suffix of the configured ones.
LEMMA PeersLeftAreSuffix ==
  ASSUME NEW c, NEW X, c.peers \in Seq(X), NEW peers \in PeersLeft(c)
  PROVE  IsSuffix(peers, c.peers)
<1> DEFINE all == c.peers
           r == Reverse(peers)
           ra == Reverse(all)
<1>1. PICK k \in 1..Len(all) : peers = SubSeq(all, k, Len(all))
  BY DEF PeersLeft
<1>2. /\ Len(all) \in Nat /\ peers \in Seq(X) /\ Len(peers) = Len(all) - k + 1
      /\ \A i \in 1..Len(peers) : peers[i] = all[k + i - 1]
  BY <1>1
<1>3. /\ r \in Seq(X) /\ Len(r) = Len(peers) /\ ra \in Seq(X) /\ Len(ra) = Len(all)
      /\ \A i \in 1..Len(peers) : r[i] = peers[Len(peers) - i + 1]
      /\ \A i \in 1..Len(all) : ra[i] = all[Len(all) - i + 1]
  BY <1>2 DEF Reverse
<1> HIDE DEF r, ra
<1>4. ASSUME NEW i \in 1..Len(peers) PROVE i \in 1..Len(all) /\ r[i] = ra[i]
  <2>1. i \in 1..Len(all) /\ Len(peers) - i + 1 \in 1..Len(peers)
    BY <1>2
  <2>2. peers[Len(peers) - i + 1] = all[k + (Len(peers) - i + 1) - 1]
    BY <1>2, <2>1
  <2>3. k + (Len(peers) - i + 1) - 1 = Len(all) - i + 1
    BY <1>2
  <2>4. QED
    BY <1>3, <2>1, <2>2, <2>3
<1>5. Len(r) <= Len(ra)
  BY <1>2, <1>3
<1>6. SubSeq(r, 1, Len(r)) = SubSeq(ra, 1, Len(r))
  BY <1>2, <1>3, <1>4, <1>5
<1>7. QED
  BY <1>5, <1>6 DEF IsSuffix, IsPrefix, r, ra

LEMMA InvariantTypes == NetworkInv => TypeOK
<1> SUFFICES ASSUME NetworkInv PROVE TypeOK
  OBVIOUS
<1>1. ASSUME NEW n \in Nodes
      PROVE  /\ ForkChoiceInv(fork_choice[n])
             /\ loop[n] # Idle =>
                  /\ loop[n].at \in Waiting \cup {"Headers", "Blocks"}
                  /\ loop[n].peers # << >> /\ IsSuffix(loop[n].peers, config[n].peers)
                  /\ Len(loop[n].locator) <= config[n].max_locator_hashes
             /\ loop[n].at \in {"Headers", "Blocks"} =>
                  Len(loop[n].answer) <= config[n].max_blocks_per_response
  <2>1. /\ ForkChoiceInv(fork_choice[n])
        /\ loop[n] \in LoopStates(config[n], fork_choice[n])
        /\ config[n].peers \in Seq(Nodes)
    BY ConfigIs DEF NetworkInv, NodeInv
  <2>2. CASE loop[n] = Idle
    BY <2>1, <2>2 DEF Idle
  <2>3. CASE loop[n] # Idle
    <3>1. /\ loop[n].at \in Waiting \cup {"Headers", "Blocks"}
          /\ loop[n].peers \in PeersLeft(config[n]) /\ loop[n].locator \in Locators(config[n])
          /\ loop[n].at = "Headers" => loop[n].answer \in HeaderAnswers(config[n])
          /\ loop[n].at = "Blocks" => loop[n].answer \in BlockAnswers(config[n])
      BY <2>1, <2>3, LoopIs
    <3>2. loop[n].peers # << >> /\ IsSuffix(loop[n].peers, config[n].peers)
      BY <2>1, <3>1, TailOfPeers, PeersLeftAreSuffix
    <3>3. QED
      BY <2>1, <3>1, <3>2 DEF Locators, HeaderAnswers, BlockAnswers
  <2>4. QED BY <2>2, <2>3
<1>2. QED
  BY <1>1 DEF TypeOK, NetworkInv, Idle

\* The fork choices stay valid, a sync goes through the configured peers in order, and
\* no locator or answer is over the limit of the node that asks.
THEOREM NetworkTypeCorrect == Spec => []TypeOK
<1>1. QED
  BY NetworkInvariance, InvariantTypes, PTL

\* The blocks an honest peer sends for screened headers insert one by one, and the
\* best chain they leave replays: validate_sync_batch never refuses them, whatever
\* gossip and kills did to both chains between the headers and the blocks.
THEOREM HonestBatchAlwaysValid == Spec => []HonestBatchValid
<1>1. NetworkInv => HonestBatchValid
  <2> SUFFICES ASSUME NetworkInv, NEW n \in Nodes, loop[n].at = "Blocks", AsRequested(n)
               PROVE  BatchIsValid(fork_choice[n], loop[n].answer)
    BY InvariantTypes DEF HonestBatchValid
  <2> DEFINE fc == fork_choice[n]
             batch == loop[n].answer
  <2>1. /\ ForkChoiceInv(fc) /\ loop[n] # Idle
        /\ batch \in BlockAnswers(config[n]) /\ loop[n].headers \in Screenings(config[n], fc)
    BY LoopIs DEF NetworkInv, NodeInv, Idle
  <2>2. batch \in Seq(HonestBlocks) /\ Screened(fc, HeadersOf(batch))
    BY <2>1 DEF BlockAnswers, Screenings, AsRequested
  <2>3. QED
    BY <2>1, <2>2, HonestBatch
<1>2. QED
  BY <1>1, NetworkInvariance, PTL
=============================================================================
