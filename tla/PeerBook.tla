------------------------------ MODULE PeerBook ------------------------------
(***************************************************************************)
(* The known peers of each node: the configured ones, those that announce  *)
(* themselves with HELLO, those an operator adds, and those another peer   *)
(* lists at the beginning of a sync (crates/chesscoin-node/src/runtime.rs).*)
(* A book is not persistent: a node that starts again has its configured   *)
(* peers only.  The counters of rejections and announcements, which no     *)
(* decision reads, are left out, as is the rest of a sync.                 *)
(*                                                                         *)
(* One thread syncs, mines, takes commands and accepts connections: while  *)
(* a node syncs, who asks it for its peers waits, until it runs into its   *)
(* own timeout.                                                            *)
(***************************************************************************)
EXTENDS Naturals, SequencesExt

CONSTANTS
  Nodes,
  Addrs,          \* socket addresses
  Dialable,       \* those that peer_address_is_dialable accepts
  Bound,          \* the address each node listens on
  Advertised,     \* the address each node tells others
  MaxPeers,       \* network.max_peers
  Environments    \* the nodes there are, the peers configured in each, those that
                  \* sync and those with a miner; what an operator may add to a
                  \* running node, what a stranger may answer to GET_PEERS, and a
                  \* bound for kills

ASSUME PeerBookAssumption ==
  /\ Dialable \subseteq Addrs
  /\ Bound \in [Nodes -> Addrs]
  /\ Advertised \in [Nodes -> Dialable]
  /\ MaxPeers \in Nat \ {0}
  /\ \A e \in Environments :
       /\ e.nodes \subseteq Nodes /\ e.configured \in [e.nodes -> Seq(Addrs)]
       /\ e.syncing \subseteq e.nodes /\ e.mining \subseteq e.nodes
       /\ e.added \subseteq Addrs /\ e.listings \subseteq Seq(Addrs)
       /\ e.max_crashes \in Nat

VARIABLES
  environment, \* chosen once
  peers,      \* of each node, in the order in which it learnt them
  running,    \* the nodes that run
  sync,       \* of each node, the peers it still has to ask, and whether the first of
              \* them has accepted the connection and what it answered
  hellos,     \* announcements on their way: <<dialled address, listen_addr>>
  crashes

vars == <<environment, peers, running, sync, hellos, crashes>>

-----------------------------------------------------------------------------
Own(n) == {Bound[n], Advertised[n]}

\* Mutant: only the advertised address is one's own.
RefusesAdvertisedOnly(n, book, addr) ==
  \/ addr \notin Dialable
  \/ addr = Advertised[n]
  \/ Contains(book, addr)
  \/ Len(book) >= MaxPeers

Refuses(n, book, addr) ==
  \/ addr \notin Dialable
  \/ addr \in Own(n)
  \/ Contains(book, addr)
  \/ Len(book) >= MaxPeers

\* add_peer_to_state
WithPeer(n, book, addr) == IF Refuses(n, book, addr) THEN book ELSE Append(book, addr)

WithPeers(n, book, addrs) == FoldLeft(LAMBDA b, addr : WithPeer(n, b, addr), book, addrs)

NormalizeInitialPeers(n) == WithPeers(n, << >>, environment.configured[n])

PeerAdvertisement(n) ==
  FoldLeft(LAMBDA list, addr :
             IF Contains(list, addr) \/ Len(list) >= MaxPeers THEN list ELSE Append(list, addr),
           << >>, <<Advertised[n]>> \o peers[n])

\* Mutant: the address a node listens on is announced.
HellosBound(n, book) == {<<addr, Bound[n]>> : addr \in ToSet(book)}

\* announce_to_peers
Hellos(n, book) == {<<addr, Advertised[n]>> : addr \in ToSet(book)}

NoAnswer == << >>
Asks(addrs) == [ask |-> addrs, accepted |-> FALSE, answer |-> NoAnswer]
Idle == Asks(<< >>)

Asking(n, addr) == sync[n].ask # << >> /\ sync[n].answer = NoAnswer /\ Head(sync[n].ask) = addr

AsksNode(n, p) == \E addr \in Own(p) : Asking(n, addr)

Init ==
  /\ environment \in Environments
  /\ peers = [n \in Nodes |-> << >>]
  /\ running = {}
  /\ sync = [n \in Nodes |-> Idle]
  /\ hellos = {}
  /\ crashes = 0

-----------------------------------------------------------------------------
StartNode(n) ==
  /\ n \in environment.nodes \ running
  /\ running' = running \cup {n}
  /\ peers' = [peers EXCEPT ![n] = NormalizeInitialPeers(n)]
  /\ hellos' = hellos \cup Hellos(n, NormalizeInitialPeers(n))
  /\ UNCHANGED <<environment, sync, crashes>>

\* The connections that a killed node had accepted break.
Crash(n) ==
  /\ n \in running
  /\ crashes < environment.max_crashes
  /\ crashes' = crashes + 1
  /\ running' = running \ {n}
  /\ peers' = [peers EXCEPT ![n] = << >>]
  /\ sync' = [m \in Nodes |->
       IF m = n THEN Idle
       ELSE IF AsksNode(m, n) /\ sync[m].accepted THEN Asks(Tail(sync[m].ask))
       ELSE sync[m]]
  /\ UNCHANGED <<environment, hellos>>

\* Commands and mining wait until the loop has no sync to do.
AddPeer(n, addr) ==
  /\ n \in running
  /\ sync[n] = Idle
  /\ peers' = [peers EXCEPT ![n] = WithPeer(n, @, addr)]
  /\ hellos' = IF Refuses(n, peers[n], addr) THEN hellos ELSE hellos \cup Hellos(n, <<addr>>)
  /\ UNCHANGED <<environment, running, sync, crashes>>

\* A mined block is announced together with the node: by a miner, or by a command
\* in any node.
MineOnce(n) ==
  /\ n \in running
  /\ sync[n] = Idle
  /\ hellos' = hellos \cup Hellos(n, peers[n])
  /\ UNCHANGED <<environment, peers, running, sync, crashes>>

\* The Hello arm of handle_stream.  It runs in a thread of its own, which may have
\* accepted its connection before a sync that has begun since.
DeliverHello(n, hello) ==
  /\ n \in running
  /\ hello \in hellos
  /\ hello[1] \in Own(n)
  /\ peers' = [peers EXCEPT ![n] = WithPeer(n, @, hello[2])]
  /\ hellos' = hellos \ {hello}
  /\ UNCHANGED <<environment, running, sync, crashes>>

LoseHello(hello) ==
  /\ hello \in hellos
  /\ hellos' = hellos \ {hello}
  /\ UNCHANGED <<environment, peers, running, sync, crashes>>

-----------------------------------------------------------------------------
(* The exchange that opens a sync: each peer of the moment is asked once.    *)

BeginSync(n) ==
  /\ n \in running
  /\ n \in environment.syncing
  /\ sync[n] = Idle
  /\ peers[n] # << >>
  /\ sync' = [sync EXCEPT ![n] = Asks(peers[n])]
  /\ UNCHANGED <<environment, peers, running, hellos, crashes>>

\* The loop of the asked node accepts the connection, between two syncs of its own.
Accept(n, p) ==
  /\ p \in running
  /\ sync[p] = Idle
  /\ AsksNode(n, p) /\ ~sync[n].accepted
  /\ sync' = [sync EXCEPT ![n] = [@ EXCEPT !.accepted = TRUE]]
  /\ UNCHANGED <<environment, peers, running, hellos, crashes>>

\* serve_peers: a handler thread answers from the book of that moment.
ServePeers(n, p) ==
  /\ p \in running
  /\ AsksNode(n, p) /\ sync[n].accepted
  /\ sync' = [sync EXCEPT ![n] = [@ EXCEPT !.answer = PeerAdvertisement(p)]]
  /\ UNCHANGED <<environment, peers, running, hellos, crashes>>

\* Somebody else answers at an address of no node.
StrangerAnswers(n, listing) ==
  /\ \E addr \in Addrs : Asking(n, addr) /\ \A p \in Nodes : addr \notin Own(p)
  /\ sync' = [sync EXCEPT ![n] = [@ EXCEPT !.answer = listing]]
  /\ UNCHANGED <<environment, peers, running, hellos, crashes>>

\* Mutant: a list as long as asked for is refused as well.
TakesShorter(listing) == Len(listing) < MaxPeers

\* The answer is taken when it is no longer than asked for.
Takes(listing) == Len(listing) <= MaxPeers

ExchangePeers(n) ==
  /\ sync[n].answer # NoAnswer
  /\ peers' = [peers EXCEPT ![n] =
       IF Takes(sync[n].answer) THEN WithPeers(n, @, sync[n].answer) ELSE @]
  /\ sync' = [sync EXCEPT ![n] = Asks(Tail(@.ask))]
  /\ UNCHANGED <<environment, running, hellos, crashes>>

\* A timeout, or a connection that breaks.
ExchangeFails(n) ==
  /\ sync[n].ask # << >>
  /\ sync[n].answer = NoAnswer
  /\ sync' = [sync EXCEPT ![n] = Asks(Tail(@.ask))]
  /\ UNCHANGED <<environment, peers, running, hellos, crashes>>

-----------------------------------------------------------------------------
Announcements == Addrs \X Addrs

LoopStep(n) ==
  \/ BeginSync(n) \/ ExchangePeers(n) \/ ExchangeFails(n)
  \/ \E p \in Nodes : Accept(n, p) \/ ServePeers(n, p)
  \/ \E listing \in environment.listings : StrangerAnswers(n, listing)

Next ==
  \/ \E n \in Nodes :
       \/ StartNode(n) \/ Crash(n) \/ MineOnce(n) \/ LoopStep(n)
       \/ \E addr \in environment.added : AddPeer(n, addr)
       \/ \E hello \in Announcements : DeliverHello(n, hello)
  \/ \E hello \in Announcements : LoseHello(hello)

Spec == Init /\ [][Next]_vars

\* Nodes come back after a crash, a loop goes on with its syncs, one with a miner mines
\* again and again, and a HELLO arrives or is lost.
Fairness ==
  /\ \A n \in Nodes : WF_vars(StartNode(n)) /\ WF_vars(LoopStep(n))
  /\ \A n \in Nodes : SF_vars(n \in environment.mining /\ MineOnce(n))
  /\ \A n, p \in Nodes :
       n # p => WF_vars(DeliverHello(n, <<Advertised[n], Advertised[p]>>))

\* From some moment on nothing is lost on its way to a node that runs, where it
\* would make a difference, and no exchange fails with a node that has no syncs of its
\* own: its loop always comes round to accept.  Nodes that sync may be busy whenever
\* another one asks.
Matters(hello) ==
  \E n \in running : hello[1] \in Own(n) /\ ~Refuses(n, peers[n], hello[2])

Quiet == environment.nodes \ environment.syncing

NetworkRecovers ==
  <>[][/\ \A hello \in hellos : Matters(hello) => ~LoseHello(hello)
       /\ \A n \in Nodes, p \in Quiet \cap running : Asking(n, Advertised[p]) => ~ExchangeFails(n)]_vars

FairSpec == Spec /\ Fairness /\ NetworkRecovers

-----------------------------------------------------------------------------
(* Properties                                                                *)

\* Type invariant.
TypeOK ==
  /\ running \subseteq Nodes
  /\ hellos \subseteq Announcements
  /\ \A n \in Nodes :
       /\ peers[n] \in Seq(Addrs) /\ sync[n].ask \in Seq(Addrs) /\ sync[n].answer \in Seq(Addrs)
       /\ sync[n].accepted \in BOOLEAN
       /\ n \notin running => peers[n] = << >> /\ sync[n] = Idle
       /\ sync[n].ask = << >> => sync[n].answer = NoAnswer
  /\ crashes <= environment.max_crashes

\* By none of the four ways does a node come to know itself, an address that cannot
\* be dialled, an address twice, or more than max_peers, also when lists that were
\* asked for earlier arrive in a book that HELLOs have filled in the meantime.
BookIsSound ==
  /\ TypeOK
  /\ \A n \in Nodes :
       /\ ToSet(peers[n]) \subseteq Dialable \ Own(n)
       /\ IsInjective(peers[n])
       /\ Len(peers[n]) <= MaxPeers

Full(n) == Len(peers[n]) = MaxPeers

\* Nobody repeats a HELLO but who mines: a node with a miner ends up in the books of all
\* the nodes that it knows, whatever the order of starts, kills and lost announcements,
\* unless a book is full.
MinersKnown ==
  <>[](\A p \in environment.mining, n \in environment.nodes :
         n # p /\ Advertised[n] \in ToSet(peers[p]) => Advertised[p] \in ToSet(peers[n]) \/ Full(n))

\* A node that syncs ends up knowing whom the peers that never sync list, itself and what
\* it refuses aside, unless its book is full.  That is the whole book of such a peer but
\* for the last entry of a full one, for which there is no room beside its own address.
ListingsLearnt ==
  <>[](\A n \in environment.syncing, p \in Quiet :
         Advertised[p] \in ToSet(peers[n]) =>
           ToSet(PeerAdvertisement(p)) \cap Dialable \subseteq Own(n) \cup ToSet(peers[n]) \/ Full(n))
=============================================================================
