------------------------------ MODULE Lifecycle ------------------------------
(***************************************************************************)
(* The threads of a node and its storage lock, from start_node to stop     *)
(* (crates/chesscoin-node/src/runtime.rs).                                 *)
(*                                                                         *)
(* Several nodes are configured with one data directory.  start_node       *)
(* creates node.lock and puts it into NodeState, which the caller, the     *)
(* loop thread and every inbound handler thread share by reference count:  *)
(* the file is removed when the last of them lets go, and is left behind   *)
(* when the process is killed.                                             *)
(*                                                                         *)
(* A handler holds a permit from the accept that spawned it until it       *)
(* returns; the loop joins finished handlers as it goes round, and all of  *)
(* them when it ends.                                                      *)
(*                                                                         *)
(* The owner sends commands through an unbounded channel.  The loop drains *)
(* it once a turn, and looks at the stop flag only between turns: what is  *)
(* behind a Stop in the channel is still executed, and so are the mining   *)
(* and the sync of that turn; what arrives later is thrown away although   *)
(* send returned Ok.  An owner may also drop its RunningNode without stop: *)
(* the threads are detached and go on.                                     *)
(***************************************************************************)
EXTENDS Naturals, Sequences, FiniteSets

CONSTANTS
  Nodes,                  \* nodes configured with the same data_dir
  Handlers,               \* inbound handler threads
  MaxInboundConnections,  \* network.max_inbound_connections
  Commands,               \* the kinds of NodeCommand the owner sends
  Backlog,                \* bound: connections the listener keeps waiting
  MaxCommands,            \* bound: commands in the channel when another is sent
  MaxCrashes              \* bound: kills

NodeCommands == {"MineOnce", "AddPeer", "StartMining", "StopMining", "SyncOnce", "Stop"}

ASSUME LifecycleAssumption ==
  /\ IsFiniteSet(Handlers)
  /\ Commands \subseteq NodeCommands
  /\ Backlog \in Nat /\ MaxCommands \in Nat
  /\ MaxInboundConnections \in Nat \ {0}
  /\ MaxCrashes \in Nat
  /\ Handlers \cap {"main", "loop"} = {}

VARIABLES
  node_lock,     \* the file node.lock exists
  main,          \* the thread that calls start_node and stop
  loop,          \* the thread of node_loop
  stop,          \* the stop flag
  commands,      \* the channel from RunningNode to the loop
  miner,         \* the loop mines by itself
  handler,       \* the inbound handler threads
  active,        \* active_inbound_connections
  refs,          \* who holds NodeState, or the StorageLock before there is one
  pending,       \* connections in the backlog of the listener
  crashes,       \* history
  stale          \* history: a kill left node.lock behind

owner == <<stop, commands, miner>>
vars == <<node_lock, main, loop, owner, handler, active, refs, pending, crashes, stale>>

-----------------------------------------------------------------------------
NoHandlers == [h \in Handlers |-> "None"]

Init ==
  /\ node_lock = FALSE
  /\ main = [n \in Nodes |-> "Off"]
  /\ loop = [n \in Nodes |-> "None"]
  /\ stop = [n \in Nodes |-> FALSE]
  /\ commands = [n \in Nodes |-> <<>>]
  /\ miner = [n \in Nodes |-> FALSE]
  /\ handler = [n \in Nodes |-> NoHandlers]
  /\ active = [n \in Nodes |-> 0]
  /\ refs = [n \in Nodes |-> {}]
  /\ pending = [n \in Nodes |-> 0]
  /\ crashes = 0
  /\ stale = FALSE

\* Mutant: whoever lets go removes the lock file.
DroppedByAny(n, holder) ==
  /\ refs' = [refs EXCEPT ![n] = @ \ {holder}]
  /\ node_lock' = FALSE

\* A holder lets go of NodeState; the last one removes the lock file.
Dropped(n, holder) ==
  /\ refs' = [refs EXCEPT ![n] = @ \ {holder}]
  /\ node_lock' = (node_lock /\ refs[n] # {holder})

\* start_node: create_new fails while the file exists.
AcquireLock(n) ==
  /\ main[n] = "Off"
  /\ ~node_lock
  /\ node_lock' = TRUE
  /\ main' = [main EXCEPT ![n] = "Loading"]
  /\ refs' = [refs EXCEPT ![n] = {"main"}]
  /\ UNCHANGED <<loop, owner, handler, active, pending, crashes, stale>>

\* start_node: load_chains returns an error.
LoadFails(n) ==
  /\ main[n] = "Loading"
  /\ main' = [main EXCEPT ![n] = "Off"]
  /\ Dropped(n, "main")
  /\ pending' = [pending EXCEPT ![n] = 0]
  /\ UNCHANGED <<loop, owner, handler, active, crashes, stale>>

\* start_node: the state is built and the loop thread spawned, which may serve
\* while start_node still announces the node to its peers.  The thread begins where a
\* turn ends, with the test of the stop flag.
Serve(n) ==
  /\ main[n] = "Loading"
  /\ main' = [main EXCEPT ![n] = "Announcing"]
  /\ loop' = [loop EXCEPT ![n] = "Syncing"]
  /\ stop' = [stop EXCEPT ![n] = FALSE]
  /\ \E mining \in BOOLEAN : miner' = [miner EXCEPT ![n] = mining]
  /\ active' = [active EXCEPT ![n] = 0]
  /\ refs' = [refs EXCEPT ![n] = @ \cup {"loop"}]
  /\ UNCHANGED <<node_lock, commands, handler, pending, crashes, stale>>

\* start_node returns, with a block to mine in the channel or without.
Started(n) ==
  /\ main[n] = "Announcing"
  /\ main' = [main EXCEPT ![n] = "Serving"]
  /\ \/ /\ loop[n] # "Ended"
        /\ commands' = [commands EXCEPT ![n] = Append(@, "MineOnce")]
     \/ commands' = commands
  /\ UNCHANGED <<node_lock, loop, stop, miner, handler, active, refs, pending, crashes, stale>>

\* A peer connects; the listener is bound from before the lock is taken until the
\* loop thread returns.
Connect(n) ==
  /\ main[n] # "Off" /\ loop[n] # "Ended"
  /\ pending[n] < Backlog
  /\ pending' = [pending EXCEPT ![n] = @ + 1]
  /\ UNCHANGED <<node_lock, main, loop, owner, handler, active, refs, crashes, stale>>

-----------------------------------------------------------------------------
(* The loop thread                                                           *)

\* reserve_inbound_connection
CanReserve(n) == active[n] < MaxInboundConnections

\* accept_ready_connections: a handler with a permit, or a dropped connection.
\* A thread that is finished but not joined is no longer anybody.
AcceptOne(n) ==
  /\ loop[n] = "Accepting"
  /\ pending[n] > 0
  /\ pending' = [pending EXCEPT ![n] = @ - 1]
  /\ \/ /\ CanReserve(n)
        /\ \E h \in Handlers :
             /\ handler[n][h] \in {"None", "Finished"}
             /\ handler' = [handler EXCEPT ![n][h] = "Handling"]
             /\ refs' = [refs EXCEPT ![n] = @ \cup {h}]
        /\ active' = [active EXCEPT ![n] = @ + 1]
     \/ ~CanReserve(n) /\ UNCHANGED <<handler, active, refs>>
  /\ UNCHANGED <<node_lock, main, loop, owner, crashes, stale>>

JoinFinished(hs) == [h \in Handlers |-> IF hs[h] = "Finished" THEN "None" ELSE hs[h]]

\* Mutant: the listener is not set nonblocking, so the loop never sees it idle.
AcceptDoneBlocking(n) == FALSE

\* No connection is ready: the finished handlers are joined and the loop goes on.
AcceptDone(n) ==
  /\ loop[n] = "Accepting"
  /\ pending[n] = 0
  /\ handler' = [handler EXCEPT ![n] = JoinFinished(@)]
  /\ loop' = [loop EXCEPT ![n] = "Draining"]
  /\ UNCHANGED <<node_lock, main, owner, active, refs, pending, crashes, stale>>

\* The next command: a Stop only sets the flag, StartMining may have an interval
\* that is refused, and the work of the others is not of this module.
TakeCommand(n) ==
  /\ loop[n] = "Draining"
  /\ commands[n] # <<>>
  /\ commands' = [commands EXCEPT ![n] = Tail(@)]
  /\ LET command == Head(commands[n]) IN
       /\ stop' = [stop EXCEPT ![n] = @ \/ command = "Stop"]
       /\ \/ command = "StartMining" /\ miner' = [miner EXCEPT ![n] = TRUE]
          \/ command = "StopMining" /\ miner' = [miner EXCEPT ![n] = FALSE]
          \/ command # "StopMining" /\ miner' = miner
  /\ UNCHANGED <<node_lock, main, loop, handler, active, refs, pending, crashes, stale>>

\* The channel is empty: a miner that is due mines a block before the sync.
CommandsDone(n) ==
  /\ loop[n] = "Draining"
  /\ commands[n] = <<>>
  /\ \E next \in {"Syncing"} \cup (IF miner[n] THEN {"Mining"} ELSE {}) :
       loop' = [loop EXCEPT ![n] = next]
  /\ UNCHANGED <<node_lock, main, owner, handler, active, refs, pending, crashes, stale>>

\* mine_once returns.
MineDone(n) ==
  /\ loop[n] = "Mining"
  /\ loop' = [loop EXCEPT ![n] = "Syncing"]
  /\ UNCHANGED <<node_lock, main, owner, handler, active, refs, pending, crashes, stale>>

\* Mutant: the flag is not read again.
TurnDoneUnstopped(n) ==
  /\ loop[n] = "Syncing"
  /\ loop' = [loop EXCEPT ![n] = "Accepting"]
  /\ UNCHANGED <<node_lock, main, owner, handler, active, refs, pending, crashes, stale>>

\* The sync, if it was due, and the pause are over; the flag is read again.
TurnDone(n) ==
  /\ loop[n] = "Syncing"
  /\ loop' = [loop EXCEPT ![n] = IF stop[n] THEN "JoiningAll" ELSE "Accepting"]
  /\ UNCHANGED <<node_lock, main, owner, handler, active, refs, pending, crashes, stale>>

\* Mutant: the loop ends without waiting for its handlers.
AllFinishedUnjoined(n) == TRUE

AllFinished(n) == \A h \in Handlers : handler[n][h] \in {"None", "Finished"}

\* join_all_inbound_handlers returns, node_loop returns and drops its arguments:
\* the listener, the receiver with what is still in it, and the state.
LoopEnds(n) ==
  /\ loop[n] = "JoiningAll"
  /\ AllFinished(n)
  /\ handler' = [handler EXCEPT ![n] = JoinFinished(@)]
  /\ IF main[n] = "Detached"
       THEN loop' = [loop EXCEPT ![n] = "None"] /\ main' = [main EXCEPT ![n] = "Off"]
       ELSE loop' = [loop EXCEPT ![n] = "Ended"] /\ main' = main
  /\ pending' = [pending EXCEPT ![n] = 0]
  /\ commands' = [commands EXCEPT ![n] = <<>>]
  /\ miner' = [miner EXCEPT ![n] = FALSE]
  /\ Dropped(n, "loop")
  /\ UNCHANGED <<stop, active, crashes, stale>>

-----------------------------------------------------------------------------
(* A handler thread                                                          *)

\* Mutant: the permit is not dropped.
ReleasePermitLeaked(n, h) ==
  /\ handler[n][h] = "Handling"
  /\ handler' = [handler EXCEPT ![n][h] = "Released"]
  /\ UNCHANGED <<node_lock, main, loop, owner, active, refs, pending, crashes, stale>>

\* handle_stream returns, in the end by a timeout, and the permit is dropped.
ReleasePermit(n, h) ==
  /\ handler[n][h] = "Handling"
  /\ handler' = [handler EXCEPT ![n][h] = "Released"]
  /\ active' = [active EXCEPT ![n] = @ - 1]
  /\ UNCHANGED <<node_lock, main, loop, owner, refs, pending, crashes, stale>>

\* The closure drops its reference and the thread is finished.
FinishHandler(n, h) ==
  /\ handler[n][h] = "Released"
  /\ handler' = [handler EXCEPT ![n][h] = "Finished"]
  /\ Dropped(n, h)
  /\ UNCHANGED <<main, loop, owner, active, pending, crashes, stale>>

-----------------------------------------------------------------------------
(* The owner                                                                 *)

Queued(n, command) == \E i \in DOMAIN commands[n] : commands[n][i] = command

\* RunningNode::send returns Ok: the receiver is still there.
Send(n, command) ==
  /\ main[n] = "Serving" /\ loop[n] # "Ended"
  /\ Len(commands[n]) < MaxCommands /\ ~Queued(n, command)
  /\ commands' = [commands EXCEPT ![n] = Append(@, command)]
  /\ UNCHANGED <<node_lock, main, loop, stop, miner, handler, active, refs, pending, crashes, stale>>

\* RunningNode::stop sets the flag, sends Stop and joins the loop thread.
RequestStop(n) ==
  /\ main[n] = "Serving"
  /\ main' = [main EXCEPT ![n] = "Stopping"]
  /\ stop' = [stop EXCEPT ![n] = TRUE]
  /\ commands' = IF loop[n] = "Ended" THEN commands
                 ELSE [commands EXCEPT ![n] = Append(@, "Stop")]
  /\ UNCHANGED <<node_lock, loop, miner, handler, active, refs, pending, crashes, stale>>

\* RunningNode::stop returns its snapshot and drops the node.
StopReturns(n) ==
  /\ main[n] = "Stopping"
  /\ loop[n] = "Ended"
  /\ main' = [main EXCEPT ![n] = "Off"]
  /\ loop' = [loop EXCEPT ![n] = "None"]
  /\ Dropped(n, "main")
  /\ UNCHANGED <<owner, handler, active, pending, crashes, stale>>

\* The owner drops its RunningNode without stop.
DropNode(n) ==
  /\ main[n] = "Serving"
  /\ IF loop[n] = "Ended"
       THEN loop' = [loop EXCEPT ![n] = "None"] /\ main' = [main EXCEPT ![n] = "Off"]
       ELSE loop' = loop /\ main' = [main EXCEPT ![n] = "Detached"]
  /\ Dropped(n, "main")
  /\ UNCHANGED <<owner, handler, active, pending, crashes, stale>>

\* The process is killed: no destructor runs.
Crash(n) ==
  /\ main[n] # "Off"
  /\ crashes < MaxCrashes
  /\ crashes' = crashes + 1
  /\ stale' = TRUE
  /\ main' = [main EXCEPT ![n] = "Off"]
  /\ loop' = [loop EXCEPT ![n] = "None"]
  /\ stop' = [stop EXCEPT ![n] = FALSE]
  /\ commands' = [commands EXCEPT ![n] = <<>>]
  /\ miner' = [miner EXCEPT ![n] = FALSE]
  /\ handler' = [handler EXCEPT ![n] = NoHandlers]
  /\ active' = [active EXCEPT ![n] = 0]
  /\ refs' = [refs EXCEPT ![n] = {}]
  /\ pending' = [pending EXCEPT ![n] = 0]
  /\ UNCHANGED node_lock

\* docs/node-v0.1.md: an operator investigates, then removes a stale lock.
RemoveStaleLock ==
  /\ stale
  /\ stale' = FALSE
  /\ node_lock' = FALSE
  /\ UNCHANGED <<main, loop, owner, handler, active, refs, pending, crashes>>

LoopStep(n) ==
  \/ AcceptOne(n) \/ AcceptDone(n) \/ TakeCommand(n) \/ CommandsDone(n)
  \/ MineDone(n) \/ TurnDone(n) \/ LoopEnds(n)
HandlerStep(n, h) == ReleasePermit(n, h) \/ FinishHandler(n, h)
StartStep(n) == AcquireLock(n) \/ LoadFails(n) \/ Serve(n) \/ Started(n)
OwnerStep(n) ==
  \/ \E command \in Commands : Send(n, command)
  \/ RequestStop(n) \/ StopReturns(n) \/ DropNode(n)

Next ==
  \/ \E n \in Nodes :
       \/ StartStep(n) \/ OwnerStep(n) \/ LoopStep(n)
       \/ \E h \in Handlers : HandlerStep(n, h)
       \/ Connect(n) \/ Crash(n)
  \/ RemoveStaleLock

Spec == Init /\ [][Next]_vars

\* Threads keep running: the loop, because mining and a sync are bounded and each
\* step of a sync has a timeout; a handler, because a message is bounded and each
\* read and write of it has a timeout; and stop, once the loop thread ended.  Nobody
\* has to stop, send, connect or let go.
Fairness ==
  \A n \in Nodes :
    /\ WF_vars(LoopStep(n))
    /\ WF_vars(StopReturns(n))
    /\ \A h \in Handlers : WF_vars(HandlerStep(n, h))

FairSpec == Spec /\ Fairness

-----------------------------------------------------------------------------
(* Properties                                                                *)

\* Type invariant.
TypeOK ==
  /\ node_lock \in BOOLEAN /\ stale \in BOOLEAN
  /\ main \in [Nodes -> {"Off", "Loading", "Announcing", "Serving", "Stopping", "Detached"}]
  /\ loop \in [Nodes -> {"None", "Accepting", "Draining", "Mining", "Syncing", "JoiningAll", "Ended"}]
  /\ stop \in [Nodes -> BOOLEAN] /\ miner \in [Nodes -> BOOLEAN]
  /\ commands \in [Nodes -> Seq(NodeCommands)]
  /\ handler \in [Nodes -> [Handlers -> {"None", "Handling", "Released", "Finished"}]]
  /\ active \in [Nodes -> 0..MaxInboundConnections]
  /\ refs \in [Nodes -> SUBSET ({"main", "loop"} \cup Handlers)]
  /\ pending \in [Nodes -> 0..Backlog]
  /\ crashes \in 0..MaxCrashes

Alive(n) == refs[n] # {}

\* docs/architecture.md: concurrent writers of one data directory are rejected.  At
\* most one node has any thread that can still append to the log, and while it has
\* one the lock file is there: through failed starts, stops with busy handlers,
\* nodes dropped with their threads running, kills, and removals of a stale lock.
OneWriter ==
  /\ \A n \in Nodes : Alive(n) => node_lock
  /\ \A m, n \in Nodes : Alive(m) /\ Alive(n) => m = n

\* docs/node-v0.1.md: when stop returns no handler is left that holds the state, no
\* permit is out, and the next start finds the lock free unless a process was killed.
StopLeavesNothing ==
  /\ \A n \in Nodes :
       main[n] = "Off" =>
         /\ ~Alive(n) /\ active[n] = 0 /\ pending[n] = 0
         /\ loop[n] = "None" /\ handler[n] = NoHandlers /\ commands[n] = <<>>
  /\ node_lock => stale \/ \E n \in Nodes : Alive(n)

\* The counter the permits keep across threads is the number of handlers that are
\* handling a connection: a permit is neither leaked nor returned twice, and the limit holds.
PermitsCountHandlers ==
  /\ TypeOK
  /\ \A n \in Nodes : active[n] = Cardinality({h \in Handlers : handler[n][h] = "Handling"})

\* The two inner loops of a turn look at no flag: connections that never let the
\* listener be idle, or commands the channel empty, hold the loop.
Flooded(n) ==
  \/ <>[](loop[n] = "Accepting") /\ []<>(pending[n] > 0)
  \/ <>[](loop[n] = "Draining") /\ []<>(commands[n] # <<>>)

\* stop returns, and a Stop that was only sent ends the loop, however many handlers
\* are at work and whatever is in the channel, unless the loop is flooded.
StopReturnsInTheEnd ==
  \A n \in Nodes :
    \/ Flooded(n)
    \/ /\ main[n] = "Stopping" ~> main[n] = "Off"
       /\ Queued(n, "Stop") ~> loop[n] \in {"None", "Ended"}

\* A full node opens up again: every permit comes back.
PermitsComeBack ==
  \A n \in Nodes : ~CanReserve(n) ~> CanReserve(n)

\* From every turn the loop gets to its sync, past every command that was in the
\* channel, unless it ends or is flooded.
LoopGoesRound ==
  \A n \in Nodes :
    Flooded(n) \/ (loop[n] = "Accepting" ~> loop[n] \in {"Syncing", "None"})
=============================================================================
