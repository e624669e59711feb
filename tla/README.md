# Verification of chesscoin

TLA+ models of the chesscoin node, TLC runs over small instances of them, and
proofs checked by TLAPS. The reference is the Rust code: `crates/chesscoin-core`
(blocks, traces, fork choice), `crates/chesscoin-node` (runtime, wire, adapters) and
`crates/chesscoin-cli` (the program). Below, `application.rs`, `domain.rs` are files of the
core crate, `runtime.rs`, `wire.rs`, `adapters.rs` of the node crate, and `main.rs` is the
CLI's.

To repeat a check, in this directory:

    tlc -workers 2 -config MCNode.cfg MCNode     a run
    tlapm BlockTreeProofs.tla                    a proof module

## 1. The system

A node is one process. `start_node` binds a listener, takes `node.lock` in its data
directory, replays the block log and spawns the **loop thread**. The loop accepts
connections, obeys commands, mines when it is time and syncs when it is time, one
after the other. Each accepted connection gets a **handler thread**. All threads
share `NodeState` behind one mutex; the interesting steps are its critical sections.
Nodes talk over TCP, one line of text (or a few) per connection, with timeouts.

| component | state | operations | interacts with |
|---|---|---|---|
| fork choice (`application.rs`, `ForkChoiceState`) | tree of known blocks with cached score, next height and model; `best_tip` | `insert_block`, `mine_next_block`, `best_chain` | everything that brings blocks |
| training trace (`application.rs`, `domain.rs`, sampler in `adapters.rs`) | none, a block carries its trace | `build_trace_from`, commitment chain, continuity, `verify_sample`, tamper simulator | called by `validate_block_after`, by mining and by the CLI's simulator |
| block log (`runtime.rs`) | `blocks.log` | `append_block`, `load_chains` | written under the mutex after an insertion, read at startup |
| node (`runtime.rs`) | fork choice, active `chain`, counters | `mine_once`, the `Block` arm of `handle_stream`, `sync_once`, `sync_from_peer`, `apply_incoming_block`, `activate_best_chain` | loop and handlers, over the mutex |
| sync responder (`runtime.rs`) | none | `blocks_after_locator`, `headers_after_locator` | handler threads answer from the active chain |
| peer book (`runtime.rs`) | `peers` | `normalize_initial_peers`, `add_peer_to_state`, HELLO, GET_PEERS, AddPeer | sync and gossip go to the peers in it |
| lifecycle (`runtime.rs`) | `node.lock`, permits, threads, the stop flag, the command channel, the miner | `start_node`, `node_loop`, `accept_ready_connections`, `send`, joins, `stop`, dropping a `RunningNode` | shared ownership of `NodeState` |
| wire codec (`wire.rs`) and line reader (`runtime.rs`) | the bytes of the line that is read | `escape`, `unescape`, `encode_*`, `decode_*`, `read_limited_line_from` | each message between nodes goes through it |
| command line (`main.rs`, validation in `runtime.rs`) | words, settings | `expand_config_args`, both parsers, `validate_node_config`, start and stop | ends in a running node or in a simulation |
| encodings and toy hash, web page | none | formatting, arithmetic, I/O | |

What is hard about it, and what makes each part correct:

- **Order of arrival.** Blocks come by mining, gossip, sync and replay, in any order. The
  fork choice must be a function of the set it knows, the active chain must follow it,
  every block must be counted once and passed on once.
- **Critical sections of a sync.** The locator, the headers and the blocks are three
  critical sections with network waits between them; gossip reorganises the chain there.
- **Interrupted writes.** A kill or an I/O error inside an append, and what the next
  start makes of the file.
- **Waiting in the accepting thread.** A node that syncs accepts nobody; two nodes
  that sync with each other wait for each other.
- **Shared ownership across threads.** Who removes the lock file, who returns a permit,
  what is left when `stop` returns or when the owner lets go without it, and which of the
  commands in the channel are still executed.
- **Limits that differ.** Each operator chooses limits for messages, locators and responses;
  what one node asks may be more than another reads or answers.
- **Partial verification.** Only sampled steps of a trace are recomputed.
- **Cut connections.** The end of a connection ends a line, so a part of a message may be
  taken for a message; separators and escapes occur in the ids that are sent.
- **Words and files.** Config files are spliced into the command line by a pass that does not
  know flags from values, and limits are validated only for what is switched on.

The complete list of hazards, each at its line, with the properties that cover it or the
reason why none does, is in `PROJECT.json`.

## 2. Modules

    HeaviestTip                 what a fork choice and a node promise (abstract)
       ^ implemented by ForkChoice and by Node

    BlockTree                   blocks, insert_block, best tip (operators on values)
       ^ extended by
    ForkChoice    BlockLog    SyncRules
                               ^      ^
                             Node   Network

    Trace    Wire    Lifecycle    PeerBook    CommandLine     stand alone

    BlockArrival = Trace + Wire + ForkChoice: how a block gets into a fork choice

    FoldTheorems                loops over lists, lists joined: instantiated by all the proofs
    BlockTreeProofs             facts about trees, chains and answers as values, and
       ^ extended by            the theorems about ForkChoice
    BlockLogProofs   NodeProofs   NetworkProofs

    TraceProofs   PeerProofs (PeerBook and Wire)   ProgramProofs (Lifecycle and CommandLine)

`BlockTree` and `SyncRules` have no variables: the Rust functions they model work on a
value (`ForkChoiceState`, a part of `NodeState`), and the log replay, the trial copy of
`validate_sync_batch`, and each node of a network run them on values of their own.

**BlockTree** (`ForkChoiceState`, `ChainState`, `validate_block_after`, `mine_next_block`).
A digest is a natural number whose order is the byte order the tie-break compares; `Zero`
is `Digest::zero()` and stands for `None` where the code has an `Option<Digest>`. A block
is the header fields that are compared, its hash, and two verdicts: `header_ok` (sample
count, proof of work; bound by the hash) and `trace_ok` (everything checked of the trace).
The hash covers the header and not the trace, so two blocks may have one hash and
different `trace_ok`; apart from that it has no collisions (`HashAssumption`).
`InsertBlock(fc, b)` is `insert_block`, with its result in `InsertResult`: a known hash is
Ok and changes nothing, then the parent is looked up, then the block is validated, then
the node is stored and compared with the tip. `ChainFromBlocksOk` is the replay that
`activate_best_chain` makes.

**ForkChoice** is the state machine of one `ForkChoiceState`: `Insert` of anything and
`Mine`. **HeaviestTip** says the same without nodes, scores or comparisons with the
previous tip: what was stored is known at the start, sets of blocks are learnt, and the head
is the greatest known block. There are two refinements: `IsHeaviestTip` in ForkChoice for the
fork choice and its tip, and `ImplementsHeaviestTip` in Node for the fork choice and the
*active chain*, where a batch of a sync is one `Learn` of a set and a reorganisation is no
step of its own.

**Trace** opens `trace_ok`. A miner or a peer builds a trace step by step (`TrainStep`,
`ForgeStep`), seals it with a header (`Seal`, `ForgeSeal`), and the validator's checks
are operators in the order of the code. A commitment is the pair it hashes. A step's
batch, weight, gradient and learning rate are one field that is as computed or is not.
The arithmetic of a model is `NextModel` of a step and `TamperedModel`, what
`tamper_trace_step` makes of a model: one more in its first weight, or, at the largest
weight, where the addition saturates, the same model. `TamperFoundIfSampled` says that
exactly the sampled tampered step fails, and nothing if tampering left it as it was.
`sampling_entropy` is the set of indices it selects; the real sampler can select every
such set, and the properties hold for all of them. `HeaderFixesTrace` is the reason that
`BlockTree` may keep one body per hash: an accepted trace can be rebuilt from the header.

**BlockArrival** puts Trace, Wire and ForkChoice together: a behaviour trains one block or reads
one connection, and what an accepted trace, a handler or a sync makes of it is inserted into the fork
choice (`Deliver`), among all other blocks in any order (`Others`). A block is the same in
the three modules by two tables, `BlockTrained` and `BlockRead`. The fork choice goes on only with
a trace that nobody tampered with, on the genesis model; what forged ones can do is
`AcceptedIsVerified` and `HeaderFixesTrace`, and in the fork choice they are the blocks without `trace_ok`.

**BlockLog** is `append_block`, `persist_block`, `load_chains`. `Start` is with any of `Configs`,
chain configurations that differ in their fingerprint and validate alike, and the first one
finds one of `InheritedLogs`: nothing, or the plain record of an older node without a header. The file is finished lines
and a tail. A write is a sequence of tokens; `Interrupted` is every prefix of it, with or
without part of the next token. `AppendFails` leaves such a prefix and the node goes on
(the code counts `storage_failures`); `CrashInAppend` leaves one and the node is down. A
line decodes if it is one whole token, which is what the checksum decides. The header goes
before the first record of an empty file, unless `fs::metadata` failed (`runtime.rs:1777`,
`measured`): then an own log begins with a record, as an older node's does.

**SyncRules** has the locator, the answer to one, the screening of headers
(`validate_headers_after_locator`), `activate_best_chain`, the reorg test,
`apply_incoming_block` with its counters, and `validate_sync_batch`.

**Node** is one node and its critical sections: `MineOnce`, `GossipBlock` (a handler, at
any moment), and the loop's `BeginSync`, `ReceiveHeaders`, `ReceiveBlocks`, `PeerFails`.
Peers answer *anything* within the response limit, honest answers included, or nothing.
As in the code a sync uses one locator for all its peers. `FreshLocator`, `PeerChains` and
`Answer` let properties say what an honest peer would answer at this moment.

**Network** is several honest nodes; a node is its fork choice, since `ChainFollowsTip` and
`SyncAllOrNothing` of Node say that the active chain and batches add nothing. An environment
gives each node its peers, whether it mines, syncs and keeps a log, and limits of its own,
which the reader of a message applies (`Reads`, `TakesLocator`, `ResponseLimit`). A line is as
long as the hashes (`HashSize`), headers (`HeaderSize`) or the block (`BlockSize`) in it. `Crash` is a
kill and a new start: a node with a log has its chain again, one without has none, and
a peer that was waiting for it goes on to its next peer. A gossiped
block is in flight until it is delivered or lost, in any order. A request is accepted by
the peer's loop, only while that is not in a sync of its own (`Accept`), and answered by a
handler from the chain of that moment (`Serve`). `TimeOut` may hit any wait. A late answer
is no further case: serving changes nothing at the peer. The waits of the peer exchange at
the beginning of a sync are of the same kind and are not repeated here.

**PeerBook** is `add_peer_to_state` and the four paths into it: configuration, HELLO, the
AddPeer command, and lists from peers; with two own addresses (bound, advertised),
`peer_advertisement`, crashes that forget what was learnt, and HELLOs in flight that may
be lost. A request for peers is accepted by the loop of the asked node, between two syncs of its
own (`Accept`), and answered by a handler from the book of that moment (`ServePeers`); before that and
after it the asker may run into its timeout. An environment has the nodes there are, what is
configured, who syncs and who has a miner, what the operator may add, and what a stranger may list.
Counters that no decision reads are left out.

**Lifecycle** is the threads of several nodes on one data directory. The thread that calls
`start_node` takes the lock (`AcquireLock`), fails to load (`LoadFails`) or spawns the loop
(`Serve`), which first looks at the stop flag, sends its HELLOs (`Started`), and later sends commands (`Send`), asks for the end
(`RequestStop`), joins (`StopReturns`), or drops its node (`DropNode`), which detaches the threads.
A turn of the loop is `AcceptOne` until `AcceptDone`, `TakeCommand` until `CommandsDone`,
`MineDone`, and `TurnDone` after the sync, which looks at the stop flag; then `LoopEnds` joins the
handlers. A handler returns its permit (`ReleasePermit`) before its reference (`FinishHandler`),
as the code does. `Crash` kills a process, `RemoveStaleLock` is the operator's. `refs` is the reference
count of the `Arc`s that own the lock, as the set of its holders.

**Wire** is one connection: the sender's messages as bytes, `ReadByte`, `EndOfFile` and
`ReadFails` of `read_limited_line_from`, and what each kind of reader does with a line: a
handler (`HandleLine`), the exchanges that wait for a list of peers or of headers, and the loop of
`blocks_from_peer` (`ReceiveBlock`). All message forms are there; the three requests with a
locator are one. A keyword, a digest and a field that no property tells
apart is one byte, since a part of it never parses; numbers, addresses and models are
digits, since a part of them does. `Escape`, `Unescape`, the envelope with version, network id and
fingerprint, and the exact number of fields are as in the code, `Unescape` with one character
for each byte. A byte is named by its character, or by its number in hexadecimal if it is not ASCII;
`Byte` is any set that has those the model names. `closed` says that the reader met the end of
the connection. Node ids are plain text (`MessageType`): no reader looks at one, and one with a
line break makes its own HELLO malformed.

**CommandLine** is `main.rs`. What the operator means is a list of settings, what the program
gets is their words. `Dispatch` looks at the command, `ExpandWord` splices a file in where a word is
`--config`, `ParseNode` and `ParseSimulation` read one flag each with its value over the defaults,
`NodeParsed` validates, `StartNode` validates again as
`start_node` does before it takes anything, and `StopNode` follows `--run-ms`. The copies of
settings that `run_node` keeps for its startup lines (`main.rs:356-378`) are left out with the printing. A value is the text of its
word; numerals, addresses and blank texts are tables. `Meant` says independently what a list
of settings means, with the files in their places.

## 3. Runs

| run | question | properties | bounds |
|---|---|---|---|
| `block_arrival` | What does an accepted block guarantee, who understands whom, what can a cut message become, does the order of arrival matter? | `HonestTraceAccepted` `AcceptedIsVerified` `HeaderFixesTrace` `TamperFoundIfSampled`, `OneNetworkUnderstands` `OnlySameBytesTaken` `CutNeverMisread`, `TreeIsValid` `BestIsHeaviest` `BestChainActivates` `MinedBlockBecomesBest` `KnownForever` `IsHeaviestTip` | traces of 3 steps, 2 or 3 sampled, 2 models, 2 seeds, 2 deviations; 13 configurations, 11 messages to a handler, 6 lists, 6 responses of up to 4 lines, cut after each byte; 10 valid blocks on five branches, 8 that must be refused, in every order |
| `foreign_network` | Is a message of another network id always refused? | `ForeignRefused` (violated) | the same |
| `block_log` | What survives interrupted appends, are configurations mixed? | `AcknowledgedSurvive` `UndamagedLogReplays` `OneConfiguration` `RestoredStateValid` | 4 valid blocks on two branches; 2 configurations, an older log; 1 failed append, 2 torn kills, 2 clean stops |
| `log_torn_tail` | Does a start after one torn append always work? | `InterruptedAppendRecovers` (violated) | 1 torn kill, 1 clean stop |
| `log_failed_append` | Is a start refused only for a corrupt record? | `RefusedOnlyIfCorrupt` (violated) | 1 failed append, 1 clean stop |
| `lifecycle` | Can two nodes write one log, what does stop leave, does it return? | `OneWriter` `StopLeavesNothing` `PermitsCountHandlers` `StopReturnsInTheEnd` `PermitsComeBack` `LoopGoesRound` | 2 nodes, 2 handlers, 1 permit, 1 waiting connection, a third command is not sent, 1 kill |
| `node` | Do critical sections in any order keep the node consistent, does a sync advance? | `ChainFollowsTip` `EachBlockOnce` `ScreenedHeadersAttach` `HonestHeadersAccepted` `CatchUpProgress` `ReorgsCountSwitches` `SyncAllOrNothing` `ImplementsHeaviestTip` | two branches of 3 blocks and 3 bad blocks; empty or stored chain; 1 sync of 2 peers; locator and response of 2; chains of peers of up to 3 |
| `node_catch_up` | Does a sync always fetch what is missing? | `CatchUpFetchesMissing` (violated) | the same blocks; locator of 4, response of 2 |
| `network` | Do waits end, does gossip end, do nodes converge? | `HonestBatchValid` `WaitsEnd` `GossipEnds` `Converges` | 9 pairs of nodes and a ring of 3; up to 5 blocks in chains of 3; locators of 0 to 3, responses of 0 to 3, lines of 2 to 9 units; 1 kill |
| `peer_book` | Can a bad address get into a book, do nodes find each other? | `BookIsSound` `MinersKnown` `ListingsLearnt` | 2 nodes, a stranger with 3 lists and 1 kill; 3 nodes in a line; 6 addresses, room for 2; all, one or some sync and mine |
| `command_line` | Does an accepted line mean what it says, can something unsafe start? | `SettingsAsMeant` `OnlySafeSettingsRun` | every line of up to 3 of 30 settings of a node or 10 of a simulation; 5 files |
| `command_line_overrides` | Does the command line win over a file? | `OverridesWin` (violated) | the same |

One safety property of a run carries the type invariant of its module as its first
conjunct (`TreeIsValid`, `RestoredStateValid`, `PermitsCountHandlers`, `ChainFollowsTip`,
`HonestBatchValid`, `BookIsSound`), so types are checked without a property of their own.

Why these bounds are enough to meet the interesting cases. The branches of each universe
overtake each other at every height, hashes order against heights so that the tie-break
decides, and there are at least two reorganisations in one behaviour. A locator of 2 is
full at a chain of 2 and so has no zero hash, one of 3 or 4 has it. A response of 2
truncates chains of 3. In BlockLog two torn kills let a torn line be glued to another, and let
a torn header be written off under another configuration. In
Lifecycle there are more connections than permits, more nodes than locks, and a command
behind a `Stop`. In Wire the lines
of a block are shorter, longer and, newline included, exactly as long as `MaxMessageBytes`, network ids are `|`, its escape `%7C`, a
non-ASCII text, its bytes taken for characters, and one with a line break, and a response is in order, short, long, swapped
or carries a forged trace. In Network each limit is in some environment the one that fails a sync: a
locator the other side drops, two headers that do not fit, a block that does not fit, a
response of nothing; gossip can reorganise a chain between any two messages of a sync; and one
universe has a side branch as long as the response, where a sync stands still. In PeerBook
the books fill up, an address is both configured twice and announced, and two nodes ask each other
while both are in a sync. In CommandLine a
flag stands before and after a file that sets it, a file that names a file or gives
`no_sync` a flag for its value, and a value is `--config` or `--mine`.

Each bound is a constant of its module (`MaxFailedAppends`, `MaxTornCrashes`,
`MaxCleanStops`, `MaxSyncs`, `MaxPeerChain`, `MaxRejections`, `MaxDeviations`, `MaxCommands`, `Backlog`,
`MaxCrashes`, and `max_crashes` of an environment), `MaxSettings` of MCCommandLine, or the size of
the universe of blocks, and bounds the environment, not the code. `CHECK_DEADLOCK FALSE` is set
for BlockLog (a node that is stopped for good with a refused log), BlockArrival (a block that was
refused, a connection that has ended) and CommandLine (a program that has ended).

### Fairness

- *Lifecycle*: the loop, each handler and `stop` keep running (weak fairness). A handler
  ends because a message is bounded in size and each read and write has a timeout; the
  loop goes round because each step of a sync has a timeout. The two inner loops of a turn,
  over ready connections and over commands, look at no flag, so `StopReturnsInTheEnd` and
  `LoopGoesRound` say nothing of a loop that is `Flooded`: one that stays in such an inner loop for
  ever while more keeps coming. Any weaker load must not hold it.
- *Network*: `LoopsGoOn` says that each loop of a node that syncs gets to its next wait again
  and again (`LoopGoesRound` of Lifecycle) and that a wait in which nothing happens times out. `GossipConnectionsEnd` says that a
  gossip connection arrives or breaks. Both follow from timeouts in the code. `Converges` has
  the premise `NetworkRecovers`: from some moment on no exchange fails with a peer whose limits allow
  it (`CanSyncFrom`) and that has no syncs of its own, so that its loop always comes round to accept.
  Nothing is assumed of a peer that syncs itself, and **nothing can be promised of it**: two nodes
  with the same sync interval can stay in phase, so that each is in its own sync whenever the
  other asks and every request runs into its timeout. `WaitsEnd` does not need the premise.
- *PeerBook*: nodes start again after a crash, loops go on, and a node with a miner mines again
  and again (`SF` of `MineOnce` for the nodes in `mining`), which repeats its HELLO. `NetworkRecovers` says that after some
  moment no HELLO is lost that would make a difference, and no exchange fails with a running node
  that has no syncs of its own. Nodes that sync may let others wait until these give up, for ever.
  So that all nodes know each other is **not** true: a node without a miner sends its HELLOs once at
  startup, and a request for peers does not carry the address of who asks. `MinersKnown` and
  `ListingsLearnt` say what is true, and nothing of a node whose book is full.

### What the violated properties show

1. **A torn append poisons the log** (`log_torn_tail`; `runtime.rs:1791`). A kill inside an
   append leaves part of a line. The next start ignores it, as documented, but leaves it
   in the file; the next append writes right behind it, and the glued line now ends in a
   newline and decodes to nothing. The start after that is refused as corrupt. The
   documents promise recovery from an interrupted append.
2. **A failed append makes an intact log unreadable** (`log_failed_append`;
   `runtime.rs:959`). The block of the failed append stays in memory, its child is
   appended, and the next start refuses the log because of the unknown parent, with every
   record intact.
3. **A side branch as long as a response stops catching up** (`node_catch_up`;
   `runtime.rs:1069`). The locator names the active chain only. If a node already knows
   `sync_max_blocks` blocks of the peer's heavier branch, each sync returns just these
   headers, all known, and ends as a success. `CatchUpProgress` states what does hold:
   a sync advances while the fork is shallower than the locator and the response.
   The exception of `Converges` in Network is the same one.
4. **One network id passes for another** (`foreign_network`; `wire.rs:540`). `escape` writes the
   UTF-8 bytes of an id, `unescape` makes a character of each byte. A node with the id `Ã©` takes
   the messages of a node with the id `é` for its own, where `docs/node-v0.1.md:105` wants the ids to
   match. `OnlySameBytesTaken` states what does hold.
5. **A file overrides the command line** (`command_line_overrides`; `main.rs:444`). The settings of a
   file are put where `--config` stands and the last one of a flag wins, so one that stands before
   `--config` is lost. `docs/node-v0.1.md:51` says that files are loaded before the command line's
   overrides. `SettingsAsMeant` states what does hold: every file counts where it is named.

What holds and is worth knowing: the head of a node is a function of the blocks it knows
(`ImplementsHeaviestTip`), acknowledged blocks are never silently skipped
(`AcknowledgedSurvive`: load refuses rather than forgets), an honest batch is never refused
because of gossip in between (`HonestBatchValid`), a reorganisation is counted exactly when the
active branch switches, also inside a batch (`ReorgsCountSwitches`), and headers are
refused wrongly only in the two situations that `HonestHeadersAccepted` spells out.
Nodes with ASCII network ids never understand another configuration by accident
(`OnlySameBytesTaken`, `PlainForeignRefused`). Nodes whose id is not ASCII, or holds a line break, do
not even understand their own kind (`OneNetworkUnderstands`): `validate_node_config` accepts any id that is not
blank. An unterminated last line is handled like a
complete one (`runtime.rs:1578`): a sender that goes away can leave a shorter address in
the book, a lower limit or a shorter list, but never a block (`CutNeverMisread`). A limit that fails a
sync fails it with that peer only, and waits end all the same (`WaitsEnd`). Configurations are not mixed in a log even when its header was torn, except
in a log that begins with a record, which has nothing to tell by (`OneConfiguration`): an older
node's, or one whose first append could not read the length of the file. A `Stop`
that was sent as a command ends the loop, but what stands behind it in the channel is still
executed.

One sentence of the documents says more than the code does and has no run: `docs/node-v0.1.md:101`
wants `--sync-max-blocks` and `--sync-locator-hashes` above zero, and `runtime.rs:394` looks at them only where syncs
are enabled. A line with `--no-sync` runs with zeros; `OnlySafeSettingsRun` leaves these two limits
out, and an environment of Network has such a node. What a command line means is clear only under
the premise `Clear` of `SettingsAsMeant`: a flag without its value takes the next flag for it, and
`no_sync = --mine` in a file turns mining on, because the file's reader (`main.rs:486`) makes a
value of only two switches and passes what is behind the third on as a word of its own.

## 4. Proofs

Every theorem is of the form `Spec => []P` or `Spec => P`, for every value of the
constants that the module assumes (each `ASSUME` is evaluated by TLC for the run's values):
any set of blocks, any limits, any number of threads, nodes, addresses, steps of a trace,
kills or restarts. The bounds of the runs are no part of them, or are arbitrary numbers in them.

**Induction.** `FoldTheorems` has what the other proofs need of loops. That < is well founded
on the naturals gives the least number principle and from it two forms of
induction over a *set* of numbers: for a predicate P one takes `{n \in Nat : P(n)}`. For a
loop with any body (`FoldLeft`), the lemmas `FoldEmpty`, `FoldLast` and `FoldAppend` say what it
computes after no element, after k + 1 elements and for a list with one more element. A
module instantiates `FoldTheorems` with the body of its own loop: the reader's lines and the writer's
tokens in BlockLogProofs, inserted blocks and applied batches in BlockTreeProofs and
NodeProofs, a trace being built in TraceProofs, peers added to a book and bytes split and unescaped
in PeerProofs, words put together in ProgramProofs. A recursive *function* is treated in the
same way: a solution of its equation is given, so `CHOOSE` finds one, and counting up shows
that there is no other. This gives what `FlattenSeq` of the community modules computes
(`FlattenIsLoop`, `FlattenAppend`, `FlattenFirst`).

**Fork choice** (`BlockTreeProofs`). Assumptions: blocks have the type
`BlockType`, the genesis model is a model, equal hashes mean equal headers, and the work score
of a block is positive.

- The inductive invariant is `ForkChoiceInv`: types, `NodesLinked` (each node's parent is
  `Zero` or stored, and its cached height, model and score follow from the parent's),
  `WorkIsHeight` (the score of a node is its next height times the configured work), and
  `TipIsHeaviest`. None of the parts is enough alone: `insert_block` compares the newcomer with the
  tip only, so that the tip is the heaviest of *all* needs that the order of scores is
  total on the stored nodes, and this needs scores to be tied to heights.
- `ForkChoiceInvariance`, and from it `ForkChoiceTypeCorrect`, `TreeAlwaysValid`, `TipAlwaysHeaviest`,
  `MinedBlockAlwaysBest` (neither `expect` of `mine_once` can fail on the fork
  choice's side), and the action properties `NeverForgets` and `TipNeverWorse`.
- `BestChainAlwaysActivates`: whatever was inserted, the walk back from the tip ends in genesis and
  its replay validates. `ChainTo` is recursive over the tree; `ChainGood` (the chain to a
  block replays, has its height and ends in it) is proved level by level of the tree.
- `RefinesHeaviestTip`: initial states map to initial states and each step to a `Learn`
  step or a stutter.

The module also has what Node and Network need of a sync: what an honest peer answers to a
locator is a part of its chain (`AnswerIsPart`), and headers that pass the screening hang on the
tree they were screened against, and on each tree that grows from it (`Screened`).

**Node** (`NodeProofs`). Assumptions (`SyncAssumption`): stored blocks are sequences of
blocks, limits are positive, bounds are natural numbers.

- The inductive invariant is `NodeInv`: `NodeGood` (the fork choice satisfies
  `ForkChoiceInv`, the active chain is its best chain), `LoopGood` (a locator was taken
  from some chain; screened headers are contiguous and hang on a known block, at its height) and
  `CountsGood` (each known block was loaded or is in one counter, each broadcast one is in
  its counter). Screening looks at the active chain, but that chain may be left before the
  blocks come; what stays is that the parent is *known*, and this is what `LoopGood` keeps.
  Each critical section is proved to be a `GoodStep`, which has the action properties in
  it; for a batch that is an induction over the batch (`BatchCounts`, `BatchReorgs`).
- From it: `ChainAlwaysFollowsTip`, `EachBlockAlwaysOnce`, `ReorgsAlwaysCountSwitches` (a batch in
  which several blocks become the tip one after the other is at most one reorganisation, because
  its blocks are linked), `SyncAlwaysAllOrNothing`, `ScreenedHeadersAlwaysAttach`.
- `HonestHeadersAlwaysAccepted` and `CatchUpAlwaysProgresses` are about two chains, that of
  the node and any chain that a peer can have. Behind them: a hash is on two chains at the same place
  or not at all (`SamePlace`), with the same blocks below it (`SameBelow`, the only use of
  `trace_ok`), so that an answer starts where the chains part (`StartsWhereChainsPart`), and
  no chain heavier than the active one ends in a known block (`HeavierEndsUnknown`).
- `NodeRefinesHeaviestTip`: Node implements HeaviestTip, a whole batch being one `Learn`.

**Network** (`NetworkProofs`). Assumptions (`NetworkAssumption`): limits and sizes are natural numbers,
peers are nodes, a node that syncs has positive limits. Any number of nodes, any limits, any loss and order
of gossip, any number of kills. `HonestBatchAlwaysValid` is about three chains at three moments:
the own one that the locator was taken from, the peer's that the headers were, and the peer's, later
and perhaps replaced, that the blocks are. None of them need exist any more when the batch is
validated. So `NetworkInv` does not speak of chains: it keeps for each node that its fork choice
satisfies `ForkChoiceInv`, that what it holds of a sync has the right type, that screened headers are
`Screened` on its tree, and that each block of an answer is `Honest`, that is, its trace is
correct and it starts from the model that any block with its parent's hash leaves behind. That each
block of a valid chain is `Honest` is `ChainIsHonest`; that the blocks of an answer which match their headers
make a valid batch follows from both. A kill empties a tree, and with it the
loop of that node. `NetworkTypeCorrect` follows as well.

**Block log** (`BlockLogProofs`). Assumptions (`LogAssumption`): a log of an older node has
records of that node only, each of its lines that decodes is one record, and it replays if all
of its lines decode. The inductive invariant `LogInv` says of the *file* what makes it safe to read:

- `LogTypes`: types, no finished line is empty, a header stands at the beginning or nowhere;
- `Ownership`: a log that decodes and begins with a configuration's header has only that
  configuration's records, finished or not, and the file a running node writes to
  is its own or begins with a record (`BeginsWithRecord`), an older node's or one that was written
  without a look at the length of the file;
- `Ledger`: an acknowledged block has a finished record, or the log has a line that does
  not decode; an acknowledged block is known while the node is up;
- `Replayable`: while no append failed and every line decodes, some configuration
  reads the log, and for a running node the replay gives exactly its fork choice.

`Ownership` is about unfinished tails too since the next write finishes them;
`Replayable` is needed as an equality since the next record is read on top of what the
earlier lines gave. From it follow `AcknowledgedAlwaysSurvive`, `UndamagedLogAlwaysReplays`,
`AlwaysOneConfiguration` and `RestoredStateAlwaysValid`.

**Trace** (`TraceProofs`). Assumptions (`TraceAssumption`): sample counts between 1 and the
number of steps, and model arithmetic that is some function from models to models. `TraceInv` says
that types hold, that the entries are the honest ones while nobody deviated (`HonestSoFar`) and that a
sealed block holds the entries that were built (`SealedIsBuilt`). The loops over a trace carry
the previous commitment and the current model along; `CommitmentAt` and `StateAt` are what these are
before each entry. `HonestTraceAlwaysAccepted`, `AcceptedAlwaysVerified`,
`HeaderAlwaysFixesTrace` (a commitment is opened step by step from the root, so two
accepted traces under one header agree from the last entry to the first) and `TamperAlwaysFound`
hold for traces of any length and any sampled set. That a commitment determines what it hashes is
the model's abstraction of the hash, as in BlockTree.

**Peer book** (`PeerProofs`). Assumptions (`PeerBookAssumption`): types of what is configured,
added and listed, and advertised addresses that can be dialled. `PeerBookInv` adds to the soundness of each
book that whatever is on its way (HELLOs, requests, lists that were asked for) has the right type, and that a
node that is down has an empty book. `BookAlwaysSound` holds for any number of nodes and addresses.

**Wire** (`PeerProofs`). Assumptions (`WireAssumption`): positive limits; messages, configurations and
expected blocks of the types of *Wire*, with fingerprints and node ids that are plain text; a block that
is gossiped has a right trace, since its sender validated it; and two blocks with one hash and a right
trace are one, which is `HeaderFixesTrace` of Trace. Any set of bytes, any network ids, messages and
responses of any length, any limit of a line. The argument goes from texts to connections:

- *Texts taken apart.* `Layout` says where the fields of a joined text are. A text laid out with a
  separator that is in none of its fields is split into these fields, and a *beginning* of the text into
  some of the fields, the last of them cut short (`FieldsRead`), by counting up the bytes that
  `SplitN` has gone through. A limit leaves separators in the last field, which the envelope needs
  for its message.
- *Escapes.* `Unescape` of `Escape` is the text with each byte of its UTF-8 taken for a character, so it
  is the text itself exactly if that is ASCII, and no escaped field has a separator in it.
- *Messages.* What a reader makes of a beginning of a message is nothing, the message, or the message
  with its last number or list cut short, form by form; a block's last field is its trace, which
  is not right when it is cut. A keyword decides the form, so a beginning never becomes another
  form. The envelope of another configuration is refused because its three fields are read back as they
  were written.
- *Connections.* The inductive invariant `WireInv` adds to the three properties that the bytes of the
  line so far and those to come are the text of the messages not yet taken (`StillReading`), that what a
  sync received is what was sent and has the hashes that were expected (`ReceivedAsSent`), and
  that a closed connection has no more to give. `WireStep` goes through what each reader makes
  of a whole line and of a line that the end of the connection has cut.

`OneNetworkAlwaysUnderstands`, `AlwaysSameBytes` and `CutAlwaysHarmless` are the properties of
the run, for every network id instead of the thirteen configurations there. `PlainForeignRefused` is
the documented claim that the run `foreign_network` refutes, with the premise under which it holds: an
id of the sender that is ASCII on one line.

**Lifecycle** (`ProgramProofs`). Assumptions (`LifecycleAssumption`): finitely many handler threads that are
neither the main nor the loop thread, naturals as bounds, a positive limit of permits. The inductive
invariant `LifecycleInv` adds to the checked properties who holds a
reference at each moment (`HoldersInv`), in which order threads start and end (`PhasesInv`), and
what the lock file says of kills (`LockInv`):
the lock is safe because holders are exactly the threads at work, and nothing is left
after stop because the loop joins its handlers before it lets go, also when nobody waits for it.
Each part has its own lemma (`HoldersStep`, `PhasesStep`, `ThreadsTypeStep`, `ChannelTypeStep`,
`LockStep`, `PermitsStep`), with a step for each action that can disturb it.
`AlwaysOneWriter`, `PermitsAlwaysCounted` and `StopAlwaysClean` follow.

**Command line** (`ProgramProofs`). Assumptions (`CommandLineAssumption`): lines and files are lists of settings, `Numeral`
maps texts to natural numbers, the numerals among the defaults are in it and `none` is not.
Any lines, files, addresses and texts.
`SettingsAlwaysAsMeant` relates what was read by two passes to what the operator wrote, and only a
word's position tells a flag from a value. `CommandLineInv` therefore says how the words that are left
divide into *groups*, each a flag with its value, a switch, or a word that nothing reads:

- while files are spliced in (`ExpandInv`), the words that are done are such groups and the rest are
  the words of settings, or else the pass stands between a flag and its value, which it would take for
  `--config` if it were; the meaning is that of the groups followed by that of the rest;
- while flags are read (`ParseInv`), the request is what the settings read so far mean (`NodeMeans`),
  and the words left are groups, or begin with a word that will be refused (`Unreadable`);
- an accepted request (`AcceptedInv`) is the meaning of the whole line; the same
  for a simulation (`SimulationInv`).

`Clear` is a premise of the property and not an assumption. `FlattenSeq`, with which words are put
together, is recursive in the community modules; that it is a loop is
proved in FoldTheorems. `OnlySafeSettingsAlways` has the same premise and follows from the
validation of what was meant.

Before they were proved, TLC checked `LifecycleInv`, `TraceInv`, `LogInv`, `PeerBookInv` and `WireInv` on the
state spaces of the runs. It cannot evaluate `NodeInv`, `NetworkInv` and `CommandLineInv`, which
quantify over all chains, locators or lists of settings; there it checked the properties that follow.

**Only proved.** `ForkChoiceTypeCorrect` and `TipNeverWorse` state what no run checks by itself: the
types are part of `TreeIsValid`, and that the tip never gets lighter follows from the refinement. The
inductive invariants and the types of BlockLog, Node, Network and Wire are theorems for the same reason.

**Only model-checked.** All liveness properties (`StopReturnsInTheEnd`, `PermitsComeBack`,
`LoopGoesRound`, `WaitsEnd`, `GossipEnds`, `Converges`, `MinersKnown`, `ListingsLearnt`): TLAPS proves no property
that rests on fairness here. The five violations are shown by their runs. Every other property that a
run checks is a theorem.

## 5. What is not modelled

- *Byte encodings, toy hash*: no state. Hashes are assumed distinct for distinct headers.
- *Fields of messages* that no property tells apart, the widths of numbers, and decoded
  input that no `Escape` wrote (Wire reads cut lines of nodes, not arbitrary bytes).
- *What the program prints*, with the copies of settings that are kept for it, the text of
  lines in a config file, and the web page.
- *`GET_INVENTORY` and `GET_BLOCKS`*: no node of the repository sends them. Their messages are in
  Wire; their answers change nothing at the answering node but a counter of failed responses.
- *The peer exchange inside Network's sync*: the book is PeerBook's, the peers of a node in Network
  are fixed. Its waits are of the same kind as those that are there.
- *Counters* that nothing reads: malformed, oversized, failed responses, announcements.
- *Difficulty*: the same for all blocks, as `ChainConfig` has it, so work is height.
- *Scheduling inside critical sections*: the mutex makes each of them one action; a panic
  while it is held (a poisoned lock) does not happen, for which `MinedBlockBecomesBest` and
  `BestChainActivates` are the reason.

## 6. Plan

Done, in this order: BlockTree and ForkChoice with their proofs, BlockLog, SyncRules and
Node, Trace, Lifecycle with its proofs, Network, PeerBook, Wire; then limits, kills and a ring
in Network, configurations and older records in BlockLog, commands, a detached owner and
the backlog in Lifecycle with its proofs renewed, all message forms and versions in Wire,
environments in PeerBook, CommandLine, and Node's refinement of HeaviestTip; then BlockArrival,
waiting requests in PeerBook and the failed look at the length of a log; then the
proofs of FoldTheorems, PeerBook, Node with its refinement, BlockLog and Trace; then those
of Network and CommandLine, in Wire the bytes of a network id that is not ASCII and any set of
bytes, and the proofs of Wire.

Next:
1. in the model, the peer exchange inside Network's sync, so that its waits and the book
   compose, and an abstract durable log that BlockLog implements;
2. node ids that are not plain text, in Wire and its proofs.
