------------------------------- MODULE Network -------------------------------
(***************************************************************************)
(* Several honest nodes that mine, gossip and sync over a network that     *)
(* loses, delays and reorders, with nodes that are killed and start again  *)
(* (crates/chesscoin-node/src/runtime.rs).                                 *)
(*                                                                         *)
(* A gossiped block is a connection of its own: it arrives at any later    *)
(* moment, in any order, or never, and nobody sends it again.  A sync asks *)
(* one peer after the other, in the thread that also accepts connections:  *)
(* a node that waits for an answer accepts nobody, and only its timeouts   *)
(* free two nodes that wait for each other.                                *)
(*                                                                         *)
(* Each operator configures limits of their own, and a request or an       *)
(* answer that is over a limit of its reader fails the sync with that      *)
(* peer.  A size is a number of units; what a line holds besides hashes,   *)
(* headers or a block is not counted.                                      *)
(*                                                                         *)
(* Module Node shows for one node that its active chain is the best chain  *)
(* of its fork choice, and that a batch of blocks is applied as a whole or *)
(* not at all; here a node is its fork choice.                             *)
(***************************************************************************)
EXTENDS SyncRules

CONSTANTS
  Nodes,
  Environments,    \* configurations of the nodes, with bounds for mining and kills
  HashSize, HeaderSize, BlockSize

\* The part of NodeConfig that decides here.  A node that does not sync may have
\* limits of zero and still answers (validate_node_config).
NodeConfig ==
  [peers : Seq(Nodes), mining : BOOLEAN, sync : BOOLEAN, storage : BOOLEAN,
   max_locator_hashes : Nat, max_blocks_per_response : Nat, max_message_bytes : Nat]

ConfigOk(c) ==
  /\ c \in NodeConfig
  /\ c.sync => c.max_locator_hashes > 0 /\ c.max_blocks_per_response > 0

ASSUME NetworkAssumption ==
  /\ \A e \in Environments :
       /\ \A n \in Nodes : ConfigOk(e.config[n])
       /\ e.mined \subseteq Blocks /\ e.max_crashes \in Nat
  /\ {HashSize, HeaderSize, BlockSize} \subseteq Nat

VARIABLES
  environment,   \* chosen once
  fork_choice,   \* of each node
  loop,          \* of each node, where it is in sync_once
  in_flight,     \* gossip on its way: <<receiver, block>>
  crashes        \* history

vars == <<environment, fork_choice, loop, in_flight, crashes>>
constant == <<environment, crashes>>

config == environment.config

-----------------------------------------------------------------------------
Chain(n) == BestChain(fork_choice[n])

Idle == [at |-> "Idle"]

\* A sync that still has to ask these peers, the first one now.
Ask(peers, locator) ==
  IF peers = << >> THEN Idle ELSE [at |-> "AskHeaders", peers |-> peers, locator |-> locator]

NextPeer(n) == Ask(Tail(loop[n].peers), loop[n].locator)

AskBlocks(n, headers) ==
  [at |-> "AskBlocks", peers |-> loop[n].peers, locator |-> loop[n].locator, headers |-> headers]

Answered(n, answer) ==
  CASE loop[n].at = "AwaitHeaders" ->
         [at |-> "Headers", peers |-> loop[n].peers, locator |-> loop[n].locator,
          answer |-> answer]
    [] loop[n].at = "AwaitBlocks" ->
         [at |-> "Blocks", peers |-> loop[n].peers, locator |-> loop[n].locator,
          headers |-> loop[n].headers, answer |-> answer]

Asks(n, p, states) == loop[n].at \in states /\ Head(loop[n].peers) = p

BroadcastBlock(n, b) == {<<p, b>> : p \in ToSet(config[n].peers)}

Init ==
  /\ environment \in Environments
  /\ crashes = 0
  /\ fork_choice = [n \in Nodes |-> EmptyForkChoice]
  /\ loop = [n \in Nodes |-> Idle]
  /\ in_flight = {}

Mined ==
  UNION {Known(fork_choice[n]) : n \in Nodes} \cup {gossip[2].hash : gossip \in in_flight}

\* mine_once; every block is mined by one node.
MineOnce(n, b) ==
  /\ loop[n] = Idle
  /\ config[n].mining
  /\ b \in environment.mined \cap MineNextBlock(fork_choice[n])
  /\ b.hash \notin Mined
  /\ fork_choice' = [fork_choice EXCEPT ![n] = InsertBlock(@, b)]
  /\ in_flight' = in_flight \cup BroadcastBlock(n, b)
  /\ UNCHANGED <<constant, loop>>

\* Mutant: a block is passed on whether it was new or not.
RelayedAlways(n, b) == BroadcastBlock(n, b)

Relayed(n, b) == IF Attaches(fork_choice[n], b) THEN BroadcastBlock(n, b) ELSE {}

\* read_limited_line_from returns a line of this size.
Reads(n, size) == size <= config[n].max_message_bytes

\* handle_stream: a block message of a size that the node reads.
DeliverBlock(n, b) ==
  /\ <<n, b>> \in in_flight
  /\ Reads(n, BlockSize)
  /\ fork_choice' = [fork_choice EXCEPT ![n] = InsertBlock(@, b)]
  /\ in_flight' = (in_flight \ {<<n, b>>}) \cup Relayed(n, b)
  /\ UNCHANGED <<constant, loop>>

\* The connection breaks, or handle_stream drops the line as oversized.
LoseBlock(n, b) ==
  /\ <<n, b>> \in in_flight
  /\ in_flight' = in_flight \ {<<n, b>>}
  /\ UNCHANGED <<constant, fork_choice, loop>>

\* The process is killed and started again.  The node has what its log replays
\* (module BlockLog), or nothing; the connections it had accepted break.
Crash(p) ==
  /\ crashes < environment.max_crashes
  /\ crashes' = crashes + 1
  /\ fork_choice' = [fork_choice EXCEPT ![p] = IF config[p].storage THEN @ ELSE EmptyForkChoice]
  /\ loop' = [n \in Nodes |->
       IF n = p THEN Idle
       ELSE IF Asks(n, p, {"AwaitHeaders", "AwaitBlocks"}) THEN NextPeer(n)
       ELSE loop[n]]
  /\ UNCHANGED <<environment, in_flight>>

-----------------------------------------------------------------------------
(* Sync                                                                      *)

BeginSync(n) ==
  /\ loop[n] = Idle
  /\ config[n].sync
  /\ config[n].peers # << >>
  /\ loop' = [loop EXCEPT ![n] =
       Ask(config[n].peers, BlockLocator(Chain(n), config[n].max_locator_hashes))]
  /\ UNCHANGED <<constant, fork_choice, in_flight>>

\* The loop of the peer accepts the connection, between two syncs of its own.
Accept(n, p) ==
  /\ Asks(n, p, {"AskHeaders", "AskBlocks"})
  /\ loop[p] = Idle
  /\ loop' = [loop EXCEPT ![n].at = IF @ = "AskHeaders" THEN "AwaitHeaders" ELSE "AwaitBlocks"]
  /\ UNCHANGED <<constant, fork_choice, in_flight>>

\* The peer reads a request with a locator of this length and does not drop it
\* (locator_is_within_limit).
TakesLocator(p, length) ==
  Reads(p, length * HashSize) /\ length <= config[p].max_locator_hashes

\* What the requester asks for, cut down by who answers.
ResponseLimit(n, p) ==
  Min({config[n].max_blocks_per_response, config[p].max_blocks_per_response})

\* A handler thread of the peer answers from the chain of that moment: headers in
\* one line, blocks in a line each.  A dropped request or an oversized line ends
\* the sync with this peer.
Serve(n, p) ==
  /\ Asks(n, p, {"AwaitHeaders", "AwaitBlocks"})
  /\ LET locator == loop[n].locator
         headers == HeadersAfterLocator(Chain(p), locator, ResponseLimit(n, p))
         blocks == BlocksAfterLocator(Chain(p), locator,
                     Min({Len(loop[n].headers), config[p].max_blocks_per_response}))
         next == IF ~TakesLocator(p, Len(locator)) THEN NextPeer(n)
                 ELSE IF loop[n].at = "AwaitHeaders"
                 THEN IF Reads(n, Len(headers) * HeaderSize) THEN Answered(n, headers) ELSE NextPeer(n)
                 ELSE IF blocks = << >> \/ Reads(n, BlockSize) THEN Answered(n, blocks) ELSE NextPeer(n)
     IN  loop' = [loop EXCEPT ![n] = next]
  /\ UNCHANGED <<constant, fork_choice, in_flight>>

Waiting == {"AskHeaders", "AwaitHeaders", "AskBlocks", "AwaitBlocks"}

\* Mutant: the peer that did not answer is asked again.
TimeOutRetries(n) ==
  /\ loop[n].at \in Waiting
  /\ loop' = [loop EXCEPT ![n] = Ask(loop[n].peers, loop[n].locator)]
  /\ UNCHANGED <<constant, fork_choice, in_flight>>

\* A read or connect timeout, or a connection that breaks.  An answer that comes too
\* late is no other case: to give it changes nothing at the peer.
TimeOut(n) ==
  /\ loop[n].at \in Waiting
  /\ loop' = [loop EXCEPT ![n] = NextPeer(n)]
  /\ UNCHANGED <<constant, fork_choice, in_flight>>

\* Mutant: blocks are asked for only when every header is unknown.
HasUnknownBlockAll(n, headers) ==
  headers # << >> /\ \A i \in 1..Len(headers) : ~ContainsBlock(fork_choice[n], headers[i].hash)

HasUnknownBlock(n, headers) ==
  \E i \in 1..Len(headers) : ~ContainsBlock(fork_choice[n], headers[i].hash)

WantsBlocks(n) ==
  /\ HeadersExtendLocator(Chain(n), loop[n].locator, loop[n].answer)
  /\ HasUnknownBlock(n, loop[n].answer)

ReceiveHeaders(n) ==
  /\ loop[n].at = "Headers"
  /\ loop' = [loop EXCEPT ![n] =
       IF WantsBlocks(n) THEN AskBlocks(n, loop[n].answer) ELSE NextPeer(n)]
  /\ UNCHANGED <<constant, fork_choice, in_flight>>

\* All the blocks of the screened headers came, and no other.
AsRequested(n) == HeadersOf(loop[n].answer) = loop[n].headers

ReceiveBlocks(n) ==
  /\ loop[n].at = "Blocks"
  /\ loop' = [loop EXCEPT ![n] = NextPeer(n)]
  /\ fork_choice' = [fork_choice EXCEPT ![n] =
       IF AsRequested(n) /\ BatchIsValid(@, loop[n].answer)
       THEN FoldLeft(InsertBlock, @, loop[n].answer)
       ELSE @]
  /\ UNCHANGED <<constant, in_flight>>

-----------------------------------------------------------------------------
LoopStep(n) ==
  \/ BeginSync(n) \/ TimeOut(n) \/ ReceiveHeaders(n) \/ ReceiveBlocks(n)
  \/ \E p \in Nodes : Accept(n, p) \/ Serve(n, p)

GossipStep(n, b) == DeliverBlock(n, b) \/ LoseBlock(n, b)

Next ==
  \/ \E n \in Nodes, b \in Blocks : MineOnce(n, b) \/ GossipStep(n, b)
  \/ \E n \in Nodes : LoopStep(n) \/ Crash(n)

Spec == Init /\ [][Next]_vars

\* The loop of a node goes round (LoopGoesRound of Lifecycle): where syncs are
\* enabled one begins again, an answer is processed, and a request that nobody
\* accepts runs into its timeout.
LoopsGoOn ==
  \A n \in Nodes :
    /\ []<>(config[n].sync => loop[n].at \in Waiting)
    /\ WF_loop(TimeOut(n))

\* A gossip connection arrives or breaks.
GossipConnectionsEnd == \A n \in Nodes, b \in Blocks : []<>(<<n, b>> \notin in_flight)

FairSpec == Spec /\ LoopsGoOn /\ GossipConnectionsEnd

\* The limits let a node sync from a peer: its longest locator is read and taken,
\* the longest answer with headers is read, and so is a block.
CanSyncFrom(n, p) ==
  /\ p \in ToSet(config[n].peers)
  /\ config[n].sync
  /\ TakesLocator(p, config[n].max_locator_hashes)
  /\ config[p].max_blocks_per_response > 0
  /\ Reads(n, ResponseLimit(n, p) * HeaderSize)
  /\ Reads(n, BlockSize)

\* From some moment on no exchange with p fails that p is free to answer: p has no
\* syncs of its own, so its loop always comes round to accept.  Two nodes that sync
\* from each other may run into their timeouts for ever, and nothing is assumed of
\* their exchanges.
NetworkRecovers ==
  <>[][\A n, p \in Nodes :
         Asks(n, p, Waiting) /\ ~config[p].sync /\ CanSyncFrom(n, p) => ~TimeOut(n)]_loop

-----------------------------------------------------------------------------
(* Properties                                                                *)

\* Type invariant.
TypeOK ==
  /\ \A n \in Nodes :
       /\ ForkChoiceInv(fork_choice[n])
       /\ loop[n].at \in {"Idle", "Headers", "Blocks"} \cup Waiting
       /\ loop[n] # Idle =>
            /\ loop[n].peers # << >> /\ IsSuffix(loop[n].peers, config[n].peers)
            /\ Len(loop[n].locator) <= config[n].max_locator_hashes
       /\ loop[n].at \in {"Headers", "Blocks"} =>
            Len(loop[n].answer) <= config[n].max_blocks_per_response
  /\ in_flight \subseteq Nodes \X Blocks

\* Blocks that an honest peer sends for headers that passed the screening always
\* form a valid batch, whatever gossip did to both chains in the meantime: an
\* honest answer of full blocks is never wasted.
HonestBatchValid ==
  /\ TypeOK
  /\ \A n \in Nodes :
       (loop[n].at = "Blocks" /\ AsRequested(n)) => BatchIsValid(fork_choice[n], loop[n].answer)

\* Two nodes that wait for each other, or a cycle of them, do not wait for ever.
WaitsEnd == \A n \in Nodes : loop[n] # Idle ~> loop[n] = Idle

\* Gossip dies out: each node passes a block on once, also in a cycle of peers.
GossipEnds == <>[](in_flight = {})

\* b's tip is the better one.
TipIsBetter(a, b) ==
  /\ HasTip(b)
  /\ HasTip(a) => IsBetterTip(b.nodes[b.best_tip], a.nodes[a.best_tip])

\* When nobody mines or is killed any more, a node ends up with a tip as good as the
\* one of a peer that only answers, with every gossip message lost if need be: syncs
\* are enough, in several rounds when a chain is longer than a response.  The one
\* exception is a fork that is as deep as a locator or a response, where the node may
\* be shown the same known headers for ever.
Converges ==
  NetworkRecovers =>
    <>[](\A n, p \in Nodes :
           CanSyncFrom(n, p) /\ ~config[p].sync =>
             \/ ~TipIsBetter(fork_choice[n], fork_choice[p])
             \/ ForkDepth(Chain(n), Chain(p)) >=
                  Min({config[n].max_locator_hashes, ResponseLimit(n, p)}))
=============================================================================
