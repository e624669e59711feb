----------------------------- MODULE BlockArrival -----------------------------
(***************************************************************************)
(* How a block gets into the fork choice of a node: a miner trains and     *)
(* seals it (Trace), or a connection brings it, gossiped or as the batch   *)
(* of a sync (Wire).  From then on it competes there with all other        *)
(* blocks, in any order (ForkChoice).                                      *)
(*                                                                         *)
(* A behaviour trains one block or reads one connection.  A block is known *)
(* to the fork choice by its place in the tree: BlockTrained and BlockRead *)
(* say which block of Blocks it is.  The fork choice goes on only with a   *)
(* block that is trained without deviation; of forged traces module Trace  *)
(* says which are accepted.                                                *)
(***************************************************************************)
EXTENDS Trace, Wire, ForkChoice

CONSTANTS
  BlockTrained,   \* seed |-> the block of an honest trace on the genesis model
  BlockRead       \* header of a BLOCK message |-> the block under that header

ASSUME ArrivalAssumption ==
  /\ GenesisModel \in ModelStates
  /\ BlockTrained \in [Seeds -> Blocks]
  /\ BlockRead \in [DOMAIN BlockRead -> Blocks]

arrival == <<training, connection, tree>>

-----------------------------------------------------------------------------
NoTraining ==
  /\ samples_per_block \in SampleCounts /\ \A n \in SampleCounts : samples_per_block <= n
  /\ parent_model = GenesisModel
  /\ seed = CHOOSE s \in Seeds : TRUE
  /\ entries = << >>
  /\ block = NoBlock
  /\ deviations = 0

NoConnection ==
  /\ sender = CHOOSE config \in WireConfigs : TRUE
  /\ receiver = sender
  /\ reader = "None"
  /\ script = << >> /\ stream = << >> /\ bytes = << >> /\ received = << >>
  /\ closed = TRUE
  /\ taken = NoMessage
  /\ outcome = "Nothing"

ArrivalInit ==
  /\ ForkChoiceInit
  /\ \/ TraceInit /\ parent_model = GenesisModel /\ NoConnection
     \/ WireInit /\ NoTraining

\* The blocks that have arrived: one that is trained, one that a handler takes, or those
\* of a sync's response.
Arrived ==
  CASE reader = "None" ->
         IF block.sealed /\ deviations = 0 /\ ValidateTrace(parent_model, block)
         THEN {BlockTrained[seed]} ELSE {}
    [] reader = "Handler" -> IF taken.kind = "BLOCK" THEN {BlockRead[taken.header]} ELSE {}
    [] OTHER -> IF outcome = "Applied" THEN {BlockRead[b.header] : b \in ToSet(received)} ELSE {}

Train == reader = "None" /\ TraceNext /\ UNCHANGED <<connection, tree>>

Receive == WireNext /\ UNCHANGED <<training, tree>>

Deliver == (\E b \in Arrived : Insert(b)) /\ UNCHANGED <<training, connection>>

\* Before and after, other blocks arrive and are mined.
Others ==
  /\ Arrived # {}
  /\ \/ \E b \in Blocks \ Arrived : Insert(b)
     \/ \E b \in Blocks : Mine(b)
  /\ UNCHANGED <<training, connection>>

ArrivalNext == Train \/ Receive \/ Deliver \/ Others

ArrivalSpec == ArrivalInit /\ [][ArrivalNext]_arrival
=============================================================================
