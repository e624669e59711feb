----------------------------- MODULE PeerProofs -----------------------------
(***************************************************************************)
(* What nodes tell each other.  About PeerBook: the soundness of the peer  *)
(* books, for any number of nodes, addresses and restarts, any max_peers   *)
(* and any answers of strangers.  About Wire: that a reader takes what was *)
(* sent, and nothing else, for any bytes, configurations and messages.     *)
(*                                                                         *)
(* The second rests on three facts about texts.  Fields joined by a        *)
(* separator that is in none of them are split into the same fields, and a *)
(* beginning of the text into a beginning of the fields (FieldsRead).      *)
(* Unescape undoes Escape.  And the bytes of a line that were read are the *)
(* beginning of the text of the messages not yet taken, all of which is    *)
(* still in the stream or was cut off with it (WireInv).                   *)
(***************************************************************************)
EXTENDS PeerBook, Wire, SequenceTheorems, TLAPS


\* The loops of normalize_initial_peers and of the peer exchange, and that of
\* peer_advertisement.
Books == INSTANCE FoldTheorems WITH Step <- WithPeer

Listed(n, list, addr) ==
  IF Contains(list, addr) \/ Len(list) >= MaxPeers THEN list ELSE Append(list, addr)

Pages == INSTANCE FoldTheorems WITH Step <- Listed

-----------------------------------------------------------------------------
SoundBook(n, book) ==
  /\ book \in Seq(Addrs)
  /\ ToSet(book) \subseteq Dialable \ Own(n)
  /\ IsInjective(book)
  /\ Len(book) <= MaxPeers

SyncType == [ask : Seq(Addrs), accepted : BOOLEAN, answer : Seq(Addrs)]

\* The strengthening of BookIsSound: what its quantifiers leave open of the shape of
\* the variables, and that the environment is one of those assumed.
PeerBookInv ==
  /\ environment \in Environments
  /\ running \subseteq Nodes
  /\ hellos \subseteq Announcements
  /\ peers \in [Nodes -> Seq(Addrs)]
  /\ sync \in [Nodes -> SyncType]
  /\ crashes \in Nat /\ crashes <= environment.max_crashes
  /\ \A n \in Nodes :
       /\ SoundBook(n, peers[n])
       /\ n \notin running => peers[n] = << >> /\ sync[n] = Idle
       /\ sync[n].ask = << >> => sync[n].answer = NoAnswer

-----------------------------------------------------------------------------
\* An empty book is sound: how a node starts and what a kill leaves.
LEMMA EmptyBook ==
  ASSUME NEW n \in Nodes
  PROVE  SoundBook(n, << >>)
<1>1. ToSet(<< >>) = {} BY DEF ToSet
<1>2. IsInjective(<< >>) BY DEF IsInjective
<1>3. QED BY <1>1, <1>2, PeerBookAssumption DEF SoundBook

\* add_peer_to_state keeps a book sound, whatever the address.
LEMMA WithPeerSound ==
  ASSUME NEW n \in Nodes, NEW book, SoundBook(n, book), NEW addr \in Addrs
  PROVE  SoundBook(n, WithPeer(n, book, addr))
<1>1. CASE Refuses(n, book, addr)
  BY <1>1 DEF WithPeer
<1>2. CASE ~Refuses(n, book, addr)
  <2> DEFINE new == Append(book, addr)
  <2>1. WithPeer(n, book, addr) = new
    BY <1>2 DEF WithPeer
  <2>2. /\ book \in Seq(Addrs) /\ Len(book) \in Nat
        /\ new \in Seq(Addrs) /\ Len(new) = Len(book) + 1
        /\ DOMAIN new = 1..(Len(book) + 1) /\ DOMAIN book = 1..Len(book)
        /\ \A i \in 1..Len(book) : new[i] = book[i]
        /\ new[Len(book) + 1] = addr
    BY DEF SoundBook
  <2>3. addr \in Dialable \ Own(n) /\ (\A i \in 1..Len(book) : book[i] # addr) /\ ~(Len(book) >= MaxPeers)
    BY <1>2 DEF Refuses, Contains
  <2> HIDE DEF new
  <2>4. ToSet(new) \subseteq Dialable \ Own(n)
    BY <2>2, <2>3 DEF SoundBook, ToSet
  <2>5. IsInjective(new)
    BY <2>2, <2>3 DEF SoundBook, IsInjective
  <2>6. Len(new) <= MaxPeers
    BY <2>2, <2>3, PeerBookAssumption
  <2>7. QED
    BY <2>1, <2>2, <2>4, <2>5, <2>6 DEF SoundBook
<1>3. QED
  BY <1>1, <1>2

\* So does adding a list of them, as at startup and after GET_PEERS.
LEMMA WithPeersSound ==
  ASSUME NEW n \in Nodes, NEW book, SoundBook(n, book), NEW addrs \in Seq(Addrs)
  PROVE  SoundBook(n, WithPeers(n, book, addrs))
<1>1. WithPeers(n, book, addrs) = Books!Fold(n, book, addrs)
  BY DEF WithPeers, Books!Fold, FoldLeft, MapThenFoldSet, Max,
     Books!FoldLeft, Books!MapThenFoldSet, Books!Max
<1>2. Len(addrs) \in Nat /\ DOMAIN addrs = 1..Len(addrs) /\ \A i \in 1..Len(addrs) : addrs[i] \in Addrs
  OBVIOUS
<1>3. PICK r : Books!Runs(n, book, addrs, Len(addrs), r) /\ Books!Fold(n, book, addrs) = r[Len(addrs)]
  BY <1>2, Books!FoldRuns
<1> DEFINE S == {k \in Nat : SoundBook(n, r[k])}
<1>4. 0 \in S
  BY <1>3 DEF Books!Runs
<1>5. ASSUME NEW k \in 1..Len(addrs), k - 1 \in S
      PROVE  k \in S
  <2>1. r[k] = WithPeer(n, r[k - 1], addrs[k])
    BY <1>3 DEF Books!Runs
  <2>2. SoundBook(n, r[k - 1]) /\ addrs[k] \in Addrs
    BY <1>2, <1>5
  <2>3. QED
    BY <2>1, <2>2, WithPeerSound
<1>6. 0..Len(addrs) \subseteq S
  <2> HIDE DEF S
  <2>1. QED BY <1>2, <1>4, <1>5, Books!Counting
<1>7. QED
  BY <1>1, <1>2, <1>3, <1>6

\* What serve_peers answers is a list of addresses.
LEMMA AdvertisementType ==
  ASSUME PeerBookInv, NEW n \in Nodes
  PROVE  PeerAdvertisement(n) \in Seq(Addrs)
<1> DEFINE list == <<Advertised[n]>> \o peers[n]
<1>1. PeerAdvertisement(n) = Pages!Fold(n, << >>, list)
  BY DEF PeerAdvertisement, Pages!Fold, Listed, FoldLeft, MapThenFoldSet, Max,
     Pages!FoldLeft, Pages!MapThenFoldSet, Pages!Max
<1>2. list \in Seq(Addrs)
  BY PeerBookAssumption DEF PeerBookInv
<1> HIDE DEF list
<1>3. Len(list) \in Nat /\ DOMAIN list = 1..Len(list) /\ \A i \in 1..Len(list) : list[i] \in Addrs
  BY <1>2
<1>4. PICK r : Pages!Runs(n, << >>, list, Len(list), r) /\ Pages!Fold(n, << >>, list) = r[Len(list)]
  BY <1>3, Pages!FoldRuns
<1> DEFINE S == {k \in Nat : r[k] \in Seq(Addrs)}
<1>5. 0 \in S
  <2>1. << >> \in Seq(Addrs) OBVIOUS
  <2>2. QED BY <2>1, <1>4 DEF Pages!Runs
<1>6. ASSUME NEW k \in 1..Len(list), k - 1 \in S
      PROVE  k \in S
  <2>1. r[k] = Listed(n, r[k - 1], list[k])
    BY <1>4 DEF Pages!Runs
  <2>2. r[k - 1] \in Seq(Addrs) /\ list[k] \in Addrs /\ k \in Nat
    BY <1>3, <1>6
  <2>3. Append(r[k - 1], list[k]) \in Seq(Addrs)
    BY <2>2
  <2>4. QED
    BY <2>1, <2>2, <2>3 DEF Listed
<1>7. 0..Len(list) \subseteq S
  <2> HIDE DEF S
  <2>1. QED BY <1>3, <1>5, <1>6, Pages!Counting
<1>8. QED
  BY <1>1, <1>3, <1>4, <1>7
-----------------------------------------------------------------------------
\* A HELLO carries two addresses.
LEMMA HelloType ==
  ASSUME NEW n \in Nodes, NEW book \in Seq(Addrs)
  PROVE  Hellos(n, book) \subseteq Announcements
<1>1. ToSet(book) \subseteq Addrs
  BY DEF ToSet
<1>2. Advertised[n] \in Addrs
  BY PeerBookAssumption
<1>3. QED
  BY <1>1, <1>2 DEF Hellos, Announcements

LEMMA Initially ==
  Init => PeerBookInv
<1> SUFFICES ASSUME Init PROVE PeerBookInv
  OBVIOUS
<1>1. \A n \in Nodes : SoundBook(n, << >>)
  BY EmptyBook
<1>2. << >> \in Seq(Addrs)
  OBVIOUS
<1>3. environment.max_crashes \in Nat
  BY PeerBookAssumption DEF Init
<1>4. QED
  BY <1>1, <1>2, <1>3 DEF Init, PeerBookInv, SyncType, Idle, Asks, NoAnswer

\* No step of a node, of a stranger or of the network makes a book unsound.
LEMMA StepKeepsBooks ==
  ASSUME PeerBookInv, [Next]_vars
  PROVE  PeerBookInv'
<1> USE DEF PeerBookInv, NoAnswer
<1>e. << >> \in Seq(Addrs)
  OBVIOUS
<1>s. ASSUME NEW n \in running, NEW ask \in Seq(Addrs), NEW accepted \in BOOLEAN, NEW answer \in Seq(Addrs),
             ask = << >> => answer = NoAnswer,
             sync' = [sync EXCEPT ![n] = [ask |-> ask, accepted |-> accepted, answer |-> answer]],
             UNCHANGED <<environment, peers, running, hellos, crashes>>
      PROVE  PeerBookInv'
  <2>1. sync' \in [Nodes -> SyncType]
    BY <1>s DEF SyncType
  <2>2. ASSUME NEW m \in Nodes
        PROVE  /\ m \notin running => sync'[m] = Idle
               /\ sync'[m].ask = << >> => sync'[m].answer = NoAnswer
    <3>1. m # n => sync'[m] = sync[m]
      BY <1>s
    <3>2. m = n => sync'[m] = [ask |-> ask, accepted |-> accepted, answer |-> answer]
      BY <1>s
    <3>3. QED
      BY <1>s, <3>1, <3>2
  <2>3. \A m \in Nodes : SoundBook(m, peers'[m]) /\ (m \notin running' => peers'[m] = << >>)
    BY <1>s DEF SoundBook
  <2>4. /\ environment' \in Environments /\ running' \subseteq Nodes
        /\ hellos' \subseteq Announcements /\ peers' \in [Nodes -> Seq(Addrs)]
        /\ crashes' \in Nat /\ crashes' <= environment'.max_crashes
    BY <1>s
  <2>5. running' = running
    BY <1>s
  <2>6. QED
    BY <2>1, <2>2, <2>3, <2>4, <2>5
<1>r. ASSUME NEW n \in Nodes
      PROVE  /\ [sync[n] EXCEPT !.accepted = TRUE] =
                  [ask |-> sync[n].ask, accepted |-> TRUE, answer |-> sync[n].answer]
             /\ \A x : [sync[n] EXCEPT !.answer = x] =
                  [ask |-> sync[n].ask, accepted |-> sync[n].accepted, answer |-> x]
  <2>1. sync[n] \in SyncType
    OBVIOUS
  <2>2. PICK ask \in Seq(Addrs), accepted \in BOOLEAN, answer \in Seq(Addrs) :
          sync[n] = [ask |-> ask, accepted |-> accepted, answer |-> answer]
    BY <2>1 DEF SyncType
  <2>3. [sync[n] EXCEPT !.accepted = TRUE] = [ask |-> ask, accepted |-> TRUE, answer |-> answer]
    <3>1. \A x : [sync[n] EXCEPT !.accepted = x] = [ask |-> ask, accepted |-> x, answer |-> answer]
      BY <2>2
    <3>2. QED
      BY <3>1
  <2>4. \A x : [sync[n] EXCEPT !.answer = x] = [ask |-> ask, accepted |-> accepted, answer |-> x]
    BY <2>2
  <2>5. sync[n].ask = ask /\ sync[n].accepted = accepted /\ sync[n].answer = answer
    BY <2>2
  <2>6. QED
    BY <2>3, <2>4, <2>5
<1>t. ASSUME NEW n \in Nodes
      PROVE  /\ sync[n].ask \in Seq(Addrs) /\ sync[n].accepted \in BOOLEAN /\ sync[n].answer \in Seq(Addrs)
             /\ sync[n].ask # << >> => n \in running /\ Tail(sync[n].ask) \in Seq(Addrs)
  <2>1. sync[n] \in SyncType
    OBVIOUS
  <2>2. sync[n].ask # << >> => n \in running
    BY DEF Idle, Asks
  <2>3. QED
    BY <2>1, <2>2 DEF SyncType
<1>u. ASSUME NEW n \in Nodes, NEW addrs \in Seq(Addrs), n \in running,
             sync' = [sync EXCEPT ![n] = Asks(addrs)],
             UNCHANGED <<environment, peers, running, hellos, crashes>>
      PROVE  PeerBookInv'
  BY <1>e, <1>s, <1>u DEF Asks
<1>1. ASSUME NEW n \in Nodes, StartNode(n)
      PROVE  PeerBookInv'
  <2>1. environment.configured[n] \in Seq(Addrs)
    BY <1>1, PeerBookAssumption DEF StartNode
  <2>2. SoundBook(n, NormalizeInitialPeers(n))
    BY <2>1, EmptyBook, WithPeersSound DEF NormalizeInitialPeers
  <2>3. Hellos(n, NormalizeInitialPeers(n)) \subseteq Announcements
    BY <2>2, HelloType DEF SoundBook
  <2>4. QED
    BY <1>1, <2>2, <2>3 DEF StartNode, SoundBook
<1>2. ASSUME NEW n \in Nodes, Crash(n)
      PROVE  PeerBookInv'
  <2>1. ASSUME NEW m \in Nodes
        PROVE  /\ sync'[m] \in SyncType
               /\ m \notin running' => sync'[m] = Idle
               /\ sync'[m].ask = << >> => sync'[m].answer = NoAnswer
    <3>1. CASE m = n
      <4>1. sync'[m] = Idle
        BY <1>2, <3>1 DEF Crash
      <4>2. QED
        BY <1>e, <4>1 DEF Idle, Asks, SyncType
    <3>2. CASE m # n /\ AsksNode(m, n) /\ sync[m].accepted
      <4>1. sync'[m] = Asks(Tail(sync[m].ask)) /\ sync[m].ask # << >> /\ running' = running \ {n}
        BY <1>2, <3>2 DEF Crash, AsksNode, Asking
      <4>2. QED
        BY <1>e, <1>t, <3>2, <4>1 DEF Asks, SyncType
    <3>3. CASE m # n /\ ~(AsksNode(m, n) /\ sync[m].accepted)
      <4>1. sync'[m] = sync[m] /\ running' = running \ {n}
        BY <1>2, <3>3 DEF Crash
      <4>2. QED
        BY <3>3, <4>1
    <3>4. QED
      BY <3>1, <3>2, <3>3
  <2>2. sync' \in [Nodes -> SyncType]
    BY <1>2, <2>1 DEF Crash
  <2>3. \A m \in Nodes : SoundBook(m, peers'[m]) /\ (m \notin running' => peers'[m] = << >>)
    BY <1>2, EmptyBook DEF Crash
  <2>4. /\ environment' \in Environments /\ running' \subseteq Nodes
        /\ hellos' \subseteq Announcements /\ peers' \in [Nodes -> Seq(Addrs)]
        /\ crashes' \in Nat /\ crashes' <= environment'.max_crashes
    BY <1>e, <1>2, PeerBookAssumption DEF Crash
  <2>5. QED
    BY <2>1, <2>2, <2>3, <2>4
<1>3. ASSUME NEW n \in Nodes, NEW addr \in environment.added, AddPeer(n, addr)
      PROVE  PeerBookInv'
  <2>1. addr \in Addrs
    BY PeerBookAssumption
  <2>2. SoundBook(n, WithPeer(n, peers[n], addr))
    BY <2>1, WithPeerSound
  <2>3. Hellos(n, <<addr>>) \subseteq Announcements
    <3>1. <<addr>> \in Seq(Addrs)
      BY <2>1
    <3>2. QED
      BY <3>1, HelloType
  <2>4. QED
    BY <1>3, <2>2, <2>3 DEF AddPeer, SoundBook
<1>4. ASSUME NEW n \in Nodes, MineOnce(n)
      PROVE  PeerBookInv'
  BY <1>4, HelloType DEF MineOnce
<1>5. ASSUME NEW n \in Nodes, NEW hello \in Announcements, DeliverHello(n, hello)
      PROVE  PeerBookInv'
  <2>1. SoundBook(n, WithPeer(n, peers[n], hello[2]))
    BY WithPeerSound DEF Announcements
  <2>2. QED
    BY <1>5, <2>1 DEF DeliverHello, SoundBook
<1>6. ASSUME NEW hello \in Announcements, LoseHello(hello)
      PROVE  PeerBookInv'
  BY <1>6 DEF LoseHello
<1>7. ASSUME NEW n \in Nodes, BeginSync(n)
      PROVE  PeerBookInv'
  BY <1>7, <1>u DEF BeginSync
<1>8. ASSUME NEW n \in Nodes, NEW p \in Nodes, ServePeers(n, p)
      PROVE  PeerBookInv'
  <2>1. PeerAdvertisement(p) \in Seq(Addrs)
    BY AdvertisementType
  <2>2. sync[n].ask # << >> /\ n \in running
    BY <1>8, <1>t DEF ServePeers, AsksNode, Asking
  <2>3. sync' = [sync EXCEPT ![n] =
                  [ask |-> sync[n].ask, accepted |-> sync[n].accepted, answer |-> PeerAdvertisement(p)]]
    <3> DEFINE list == PeerAdvertisement(p)
    <3>1. sync' = [sync EXCEPT ![n] = [sync[n] EXCEPT !.answer = list]]
      BY <1>8 DEF ServePeers
    <3> HIDE DEF list
    <3>2. [sync[n] EXCEPT !.answer = list] = [ask |-> sync[n].ask, accepted |-> sync[n].accepted, answer |-> list]
      BY <1>r
    <3>3. sync' = [sync EXCEPT ![n] = [ask |-> sync[n].ask, accepted |-> sync[n].accepted, answer |-> list]]
      BY <3>1, <3>2
    <3>4. QED
      BY <3>3 DEF list
  <2>4. sync[n].ask \in Seq(Addrs) /\ sync[n].accepted \in BOOLEAN
    BY <1>t
  <2>5. UNCHANGED <<environment, peers, running, hellos, crashes>>
    BY <1>8 DEF ServePeers
  <2>6. QED
    BY <1>s, <2>1, <2>2, <2>3, <2>4, <2>5
<1>9. ASSUME NEW n \in Nodes, NEW listing \in environment.listings, StrangerAnswers(n, listing)
      PROVE  PeerBookInv'
  <2>1. listing \in Seq(Addrs)
    BY PeerBookAssumption
  <2>2. sync[n].ask # << >> /\ n \in running
    BY <1>9, <1>t DEF StrangerAnswers, Asking
  <2>3. sync' = [sync EXCEPT ![n] =
                  [ask |-> sync[n].ask, accepted |-> sync[n].accepted, answer |-> listing]]
    BY <1>9, <1>r DEF StrangerAnswers
  <2>4. sync[n].ask \in Seq(Addrs) /\ sync[n].accepted \in BOOLEAN
    BY <1>t
  <2>5. UNCHANGED <<environment, peers, running, hellos, crashes>>
    BY <1>9 DEF StrangerAnswers
  <2>6. QED
    BY <1>s, <2>1, <2>2, <2>3, <2>4, <2>5
<1>10. ASSUME NEW n \in Nodes, ExchangePeers(n)
       PROVE  PeerBookInv'
  <2>1. sync[n].ask # << >> /\ Tail(sync[n].ask) \in Seq(Addrs) /\ n \in running
    BY <1>10, <1>t DEF ExchangePeers
  <2>2. SoundBook(n, WithPeers(n, peers[n], sync[n].answer))
    BY <1>t, WithPeersSound
  <2>3. QED
    BY <1>e, <1>10, <2>1, <2>2 DEF ExchangePeers, SoundBook, Idle, Asks, SyncType
<1>11. ASSUME NEW n \in Nodes, ExchangeFails(n)
       PROVE  PeerBookInv'
  <2>1. sync[n].ask # << >> /\ Tail(sync[n].ask) \in Seq(Addrs) /\ n \in running
    BY <1>11, <1>t DEF ExchangeFails
  <2>2. QED
    BY <1>u, <1>11, <2>1 DEF ExchangeFails
<1>12. ASSUME NEW n \in Nodes, NEW p \in Nodes, Accept(n, p)
       PROVE  PeerBookInv'
  <2>1. sync[n].ask # << >> /\ n \in running
    BY <1>12, <1>t DEF Accept, AsksNode, Asking
  <2>2. sync' = [sync EXCEPT ![n] =
                  [ask |-> sync[n].ask, accepted |-> TRUE, answer |-> sync[n].answer]]
    BY <1>12, <1>r DEF Accept
  <2>3. sync[n].ask \in Seq(Addrs) /\ sync[n].answer \in Seq(Addrs) /\ TRUE \in BOOLEAN
    BY <1>t
  <2>4. UNCHANGED <<environment, peers, running, hellos, crashes>>
    BY <1>12 DEF Accept
  <2>5. QED
    BY <1>s, <2>1, <2>2, <2>3, <2>4
<1>13. CASE UNCHANGED vars
  BY <1>13 DEF vars
<1>14. QED
  BY <1>1, <1>2, <1>3, <1>4, <1>5, <1>6, <1>7, <1>8, <1>9, <1>10, <1>11, <1>12, <1>13
  DEF Next, LoopStep

LEMMA InvariantIsSound ==
  PeerBookInv => BookIsSound
<1> SUFFICES ASSUME PeerBookInv PROVE BookIsSound
  OBVIOUS
<1>1. \A n \in Nodes : /\ sync[n].ask \in Seq(Addrs) /\ sync[n].answer \in Seq(Addrs)
                        /\ sync[n].accepted \in BOOLEAN
  BY DEF PeerBookInv, SyncType
<1>2. QED
  BY <1>1 DEF PeerBookInv, BookIsSound, TypeOK, SoundBook

\* Whatever arrives in whatever order, by configuration, by an operator, by HELLO or
\* in a list that was asked for before: no book of any node ever holds the node
\* itself, an address that cannot be dialled, an address twice, or more than
\* max_peers (add_peer_to_state).
THEOREM BookAlwaysSound ==
  Spec => []BookIsSound
<1>1. Spec => []PeerBookInv
  BY Initially, StepKeepsBooks, PTL DEF Spec
<1>2. QED
  BY <1>1, InvariantIsSound, PTL

-----------------------------------------------------------------------------
(* Lists                                                                     *)

\* FlattenSeq is a loop that appends.
Joined(context, all, list) == all \o list

Lists == INSTANCE FoldTheorems WITH Step <- Joined

\* An instance has definitions of its own; these two are the same.
LEMMA FlattenIs ==
  ASSUME NEW lists
  PROVE  FlattenSeq(lists) = Lists!FlattenSeq(lists)
BY DEF FlattenSeq, Lists!FlattenSeq

\* A name for \o, which the provers take for more than a function of two lists.
Glue(a, b) == a \o b

\* One list more is appended to those joined.
LEMMA FlattenAppend ==
  ASSUME NEW X, NEW lists \in Seq(Seq(X)), NEW list \in Seq(X)
  PROVE  FlattenSeq(Append(lists, list)) = FlattenSeq(lists) \o list
BY FlattenIs, Lists!FlattenAppend

\* No lists joined are empty.
LEMMA FlattenEmpty ==
  FlattenSeq(<< >>) = << >>
BY FlattenIs, Lists!FlattenEmpty

\* What a function gives for each element of a list, joined.
Flattened(f, s) == FlattenSeq([i \in DOMAIN s |-> f[s[i]]])

\* Lists given by a function join to a list.
LEMMA MapType ==
  ASSUME NEW X, NEW A, NEW f \in [A -> Seq(X)], NEW s \in Seq(A)
  PROVE  /\ [i \in DOMAIN s |-> f[s[i]]] \in Seq(Seq(X))
         /\ Flattened(f, s) \in Seq(X)
BY FlattenIs, Lists!MapType DEF Flattened, Lists!Flattened

\* Nothing gives nothing.
LEMMA MapEmpty ==
  ASSUME NEW f
  PROVE  Flattened(f, << >>) = << >>
BY FlattenIs, Lists!MapEmpty DEF Flattened, Lists!Flattened

\* What the last element gives comes last.
LEMMA MapAppend ==
  ASSUME NEW X, NEW A, NEW f \in [A -> Seq(X)], NEW s \in Seq(A), NEW x \in A
  PROVE  Flattened(f, Append(s, x)) = Glue(Flattened(f, s), f[x])
<1>1. \A list : Flattened(f, list) = Lists!Flattened(f, list)
  BY FlattenIs DEF Flattened, Lists!Flattened
<1>2. Lists!Flattened(f, Append(s, x)) = Lists!Join(Lists!Flattened(f, s), f[x])
  BY Lists!MapAppend
<1>3. QED
  BY <1>1, <1>2 DEF Glue, Lists!Join

\* What the first element gives comes first.
LEMMA MapFirst ==
  ASSUME NEW X, NEW A, NEW f \in [A -> Seq(X)], NEW s \in Seq(A), s # << >>
  PROVE  Flattened(f, s) = Glue(f[s[1]], Flattened(f, Tail(s)))
<1>1. \A list : Flattened(f, list) = Lists!Flattened(f, list)
  BY FlattenIs DEF Flattened, Lists!Flattened
<1>2. Lists!Flattened(f, s) = Lists!Join(f[s[1]], Lists!Flattened(f, Tail(s)))
  BY Lists!MapFirst
<1>3. QED
  BY <1>1, <1>2 DEF Glue, Lists!Join

-----------------------------------------------------------------------------
(* Texts that are put together and taken apart                               *)

\* Fields: some texts, and at least one.
TextFields(fields) == fields \in Seq(Seq(Byte)) /\ fields # << >>

\* Where the fields of a text are.
Layout(fields, separator, text, start) ==
  /\ text \in Seq(Byte)
  /\ start \in [1..Len(fields) -> Nat]
  /\ start[1] = 0
  /\ \A i \in 1..Len(fields) :
       /\ start[i] >= i - 1
       /\ \A j \in 1..Len(fields[i]) : text[start[i] + j] = fields[i][j]
       /\ i < Len(fields) => /\ start[i + 1] = start[i] + Len(fields[i]) + 1
                             /\ text[start[i + 1]] = separator
  /\ Len(text) = start[Len(fields)] + Len(fields[Len(fields)])

\* A text of one byte.
LEMMA OneByte ==
  ASSUME NEW X, NEW x \in X
  PROVE  <<x>> \in Seq(X) /\ Len(<<x>>) = 1 /\ <<x>>[1] = x
OBVIOUS

\* A byte in front of a text.
LEMMA ByteFirst ==
  ASSUME NEW X, NEW x \in X, NEW s \in Seq(X)
  PROVE  /\ <<x>> \o s \in Seq(X)
         /\ Len(<<x>> \o s) = Len(s) + 1
         /\ (<<x>> \o s)[1] = x
         /\ \A i \in 1..Len(s) : (<<x>> \o s)[i + 1] = s[i]
OBVIOUS

\* A field that stands alone.
LEMMA JoinOne ==
  ASSUME NEW field \in Seq(Byte), NEW separator \in Byte
  PROVE  Join(<<field>>, separator) = field
<1> DEFINE m == [i \in DOMAIN <<field>> |->
                   IF i = 1 THEN <<field>>[i] ELSE <<separator>> \o <<field>>[i]]
<1>1. m = Append(<< >>, field)
  OBVIOUS
<1>2. FlattenSeq(Append(<< >>, field)) = << >> \o field
  <2>1. << >> \in Seq(Seq(Byte))
    BY EmptySeq
  <2>2. QED
    BY <2>1, FlattenAppend, FlattenEmpty
<1>3. << >> \o field = field
  OBVIOUS
<1>4. QED
  BY <1>1, <1>2, <1>3 DEF Join

\* The last field comes last.
LEMMA JoinAppend ==
  ASSUME NEW fields \in Seq(Seq(Byte)), fields # << >>, NEW field \in Seq(Byte),
         NEW separator \in Byte
  PROVE  Join(Append(fields, field), separator)
           = Join(fields, separator) \o (<<separator>> \o field)
<1> DEFINE n == Len(fields)
           more == Append(fields, field)
           part(s, i) == IF i = 1 THEN s[i] ELSE <<separator>> \o s[i]
           m == [i \in DOMAIN fields |-> part(fields, i)]
           mm == [i \in DOMAIN more |-> part(more, i)]
           x == <<separator>> \o field
<1>1. /\ n \in Nat \ {0} /\ DOMAIN fields = 1..n
      /\ more \in Seq(Seq(Byte)) /\ DOMAIN more = 1..(n + 1)
      /\ \A i \in 1..n : more[i] = fields[i]
      /\ more[n + 1] = field
  OBVIOUS
<1>2. \A f \in Seq(Byte) : <<separator>> \o f \in Seq(Byte)
  BY ByteFirst
<1>3. /\ \A i \in 1..n : part(fields, i) \in Seq(Byte)
      /\ x \in Seq(Byte)
  <2>1. \A i \in 1..n : fields[i] \in Seq(Byte)
    OBVIOUS
  <2>2. QED
    BY <1>2, <2>1
<1>4. m \in Seq(Seq(Byte)) /\ Len(m) = n
  <2>1. m = [i \in 1..n |-> part(fields, i)]
    BY <1>1
  <2> HIDE DEF part
  <2>2. QED
    BY <1>1, <1>3, <2>1
<1>5. mm = Append(m, x)
  <2>1. \A i \in 1..n : mm[i] = m[i]
    BY <1>1
  <2>2. mm[n + 1] = x
    BY <1>1
  <2>3. DOMAIN mm = 1..(n + 1)
    BY <1>1
  <2> HIDE DEF m, x
  <2>4. /\ Append(m, x) \in Seq(Seq(Byte)) /\ DOMAIN Append(m, x) = 1..(n + 1)
        /\ \A i \in 1..n : Append(m, x)[i] = m[i]
        /\ Append(m, x)[n + 1] = x
    BY <1>1, <1>3, <1>4, AppendProperties
  <2>5. mm = [i \in 1..(n + 1) |-> mm[i]]
    BY <1>1
  <2> HIDE DEF mm
  <2>6. \A i \in 1..(n + 1) : i \in 1..n \/ i = n + 1
    BY <1>1
  <2>7. \A i \in 1..(n + 1) : mm[i] = Append(m, x)[i]
    BY <2>1, <2>2, <2>4, <2>6
  <2>8. Append(m, x) = [i \in 1..(n + 1) |-> Append(m, x)[i]]
    BY <2>4, LenProperties
  <2>9. QED
    BY <2>5, <2>7, <2>8
<1>6. FlattenSeq(mm) = FlattenSeq(m) \o x
  <2> HIDE DEF m, x, mm
  <2>1. QED
    BY <1>3, <1>4, <1>5, FlattenAppend
<1>7. QED
  BY <1>6 DEF Join

\* A text of one field.
LEMMA LayoutOne ==
  ASSUME NEW field \in Seq(Byte), NEW separator
  PROVE  Layout(<<field>>, separator, field, [i \in 1..1 |-> 0])
<1> DEFINE fields == <<field>>
           start == [i \in 1..1 |-> 0]
<1>1. Len(fields) = 1 /\ fields[1] = field /\ Len(field) \in Nat
  OBVIOUS
<1>2. start \in [1..Len(fields) -> Nat] /\ start[1] = 0
  BY <1>1
<1>3. \A i \in 1..Len(fields) : i = 1
  BY <1>1
<1> HIDE DEF fields, start
<1>4. QED
  BY <1>1, <1>2, <1>3 DEF Layout, fields, start

\* What has no end before the next begins.
LEMMA Increasing ==
  ASSUME NEW n \in Nat, NEW s, NEW l, \A i \in 1..n : s[i] \in Nat /\ l[i] \in Nat,
         \A i \in 1..n : i < n => s[i + 1] = s[i] + l[i] + 1, NEW i \in 1..n
  PROVE  /\ \A j \in 1..n : i < j => s[i] + l[i] + 1 <= s[j]
         /\ s[i] + l[i] <= s[n] + l[n]
<1> DEFINE S == {j \in Nat : i < j => s[i] + l[i] + 1 <= s[j]}
<1>1. 0 \in S
  OBVIOUS
<1>2. ASSUME NEW j \in 1..n, j - 1 \in S PROVE j \in S
  <2>1. CASE i < j - 1
    <3>1. j - 1 \in 1..n /\ j - 1 < n /\ (j - 1) + 1 = j
      BY <2>1
    <3>2. s[j] = s[j - 1] + l[j - 1] + 1
      BY <3>1
    <3>3. s[i] + l[i] + 1 <= s[j - 1]
      BY <1>2, <2>1
    <3>4. s[j - 1] \in Nat /\ s[j] \in Nat /\ s[i] \in Nat /\ l[j - 1] \in Nat /\ l[i] \in Nat
      BY <3>1
    <3>5. QED
      BY <3>2, <3>3, <3>4
  <2>2. CASE i = j - 1
    <3>1. i < n /\ i + 1 = j
      BY <2>2
    <3>2. s[j] = s[i] + l[i] + 1
      BY <3>1
    <3>3. QED
      BY <3>1, <3>2
  <2>3. CASE ~(i < j - 1) /\ i # j - 1
    BY <2>3
  <2>4. QED
    BY <2>1, <2>2, <2>3
<1>3. 0..n \subseteq S
  <2> HIDE DEF S
  <2>1. QED
    BY <1>1, <1>2, Lists!Counting
<1>4. \A j \in 1..n : i < j => s[i] + l[i] + 1 <= s[j]
  BY <1>3
<1>5. s[i] + l[i] <= s[n] + l[n]
  <2>1. CASE i = n
    BY <2>1
  <2>2. CASE i # n
    <3>1. n \in 1..n /\ i < n
      BY <2>2
    <3>2. s[i] + l[i] + 1 <= s[n]
      BY <1>4, <3>1
    <3>3. QED
      BY <3>1, <3>2
  <2>3. QED
    BY <2>1, <2>2
<1>6. QED
  BY <1>4, <1>5

\* What a list of fields is made of.
LEMMA FieldsFacts ==
  ASSUME NEW fields, TextFields(fields)
  PROVE  /\ Len(fields) \in Nat \ {0}
         /\ DOMAIN fields = 1..Len(fields)
         /\ \A i \in 1..Len(fields) : fields[i] \in Seq(Byte) /\ Len(fields[i]) \in Nat
BY DEF TextFields

\* Fields follow each other.
LEMMA LayoutGrows ==
  ASSUME NEW fields, TextFields(fields), NEW separator, NEW text, NEW start,
         Layout(fields, separator, text, start), NEW i \in 1..Len(fields)
  PROVE  /\ \A j \in 1..Len(fields) : i < j => start[i] + Len(fields[i]) + 1 <= start[j]
         /\ start[i] + Len(fields[i]) <= Len(text)
<1> DEFINE n == Len(fields)
           l == [j \in 1..n |-> Len(fields[j])]
<1>1. n \in Nat \ {0} /\ \A j \in 1..n : Len(fields[j]) \in Nat
  BY FieldsFacts
<1>2. /\ \A j \in 1..n : start[j] \in Nat
      /\ \A j \in 1..n : j < n => start[j + 1] = start[j] + Len(fields[j]) + 1
      /\ Len(text) = start[n] + Len(fields[n])
  BY DEF Layout
<1>3. \A j \in 1..n : l[j] = Len(fields[j])
  OBVIOUS
<1> HIDE DEF l
<1>4. /\ \A j \in 1..n : start[j] \in Nat /\ l[j] \in Nat
      /\ \A j \in 1..n : j < n => start[j + 1] = start[j] + l[j] + 1
  BY <1>1, <1>2, <1>3
<1>5. /\ \A j \in 1..n : i < j => start[i] + l[i] + 1 <= start[j]
      /\ start[i] + l[i] <= start[n] + l[n]
  BY <1>1, <1>4, Increasing
<1>6. n \in 1..n
  BY <1>1
<1>7. QED
  BY <1>2, <1>3, <1>5, <1>6

\* A layout without its bytes, and its text.
LEMMA LayoutNumbers ==
  ASSUME NEW fields, NEW separator, NEW text, NEW start, Layout(fields, separator, text, start)
  PROVE  /\ start[1] = 0
         /\ \A i \in 1..Len(fields) :
              /\ start[i] \in Nat /\ start[i] >= i - 1
              /\ i < Len(fields) => start[i + 1] = start[i] + Len(fields[i]) + 1
         /\ Len(text) = start[Len(fields)] + Len(fields[Len(fields)])
BY DEF Layout

\* What is laid out is a text.
LEMMA LayoutText ==
  ASSUME NEW fields, NEW separator, NEW text, NEW start, Layout(fields, separator, text, start)
  PROVE  text \in Seq(Byte) /\ Len(text) \in Nat
<1>1. text \in Seq(Byte)
  BY DEF Layout
<1>2. QED
  BY <1>1, LenProperties

\* The beginning of a list.
LEMMA Beginning ==
  ASSUME NEW X, NEW s \in Seq(X), NEW k \in 1..Len(s)
  PROVE  /\ SubSeq(s, 1, k) \in Seq(X) /\ SubSeq(s, 1, k) # << >> /\ Len(SubSeq(s, 1, k)) = k
         /\ \A i \in 1..k : SubSeq(s, 1, k)[i] = s[i]
OBVIOUS

\* The first element, and all of a list.
LEMMA FirstAndAll ==
  ASSUME NEW X, NEW s \in Seq(X), s # << >>
  PROVE  SubSeq(s, 1, 1) = <<s[1]>> /\ SubSeq(s, 1, Len(s)) = s
<1>1. Len(s) \in Nat \ {0} /\ s[1] \in X
  OBVIOUS
<1>2. SubSeq(s, 1, Len(s)) = s
  OBVIOUS
<1>3. SubSeq(s, 1, 1) = <<s[1]>>
  <2>1. /\ SubSeq(s, 1, 1) \in Seq(X) /\ Len(SubSeq(s, 1, 1)) = 1
        /\ SubSeq(s, 1, 1)[1] = s[1]
    BY <1>1
  <2>2. <<s[1]>> \in Seq(X) /\ Len(<<s[1]>>) = 1 /\ <<s[1]>>[1] = s[1]
    BY <1>1
  <2>3. \A i \in 1..1 : i = 1
    OBVIOUS
  <2>4. QED
    BY <2>1, <2>2, <2>3, SeqEqual
<1>4. QED
  BY <1>2, <1>3

\* A beginning grows by one element.
LEMMA OneMore ==
  ASSUME NEW X, NEW s \in Seq(X), NEW k \in 2..Len(s)
  PROVE  SubSeq(s, 1, k) = Append(SubSeq(s, 1, k - 1), s[k])
OBVIOUS

\* A text, a separator and one more field.
Longer(new, text, separator, field) ==
  /\ new \in Seq(Byte) /\ Len(new) = Len(text) + Len(field) + 1
  /\ \A j \in 1..Len(text) : new[j] = text[j]
  /\ new[Len(text) + 1] = separator
  /\ \A j \in 1..Len(field) : new[Len(text) + 1 + j] = field[j]

\* One field more.
OneFieldMore(more, fields, field) ==
  /\ Len(more) = Len(fields) + 1
  /\ \A i \in 1..Len(fields) : more[i] = fields[i]
  /\ more[Len(fields) + 1] = field

\* A separator and a field more.
LEMMA LongerText ==
  ASSUME NEW text \in Seq(Byte), NEW separator \in Byte, NEW field \in Seq(Byte)
  PROVE  Longer(text \o (<<separator>> \o field), text, separator, field)
<1> DEFINE tail == <<separator>> \o field
           new == text \o tail
           a == Len(text)
           b == Len(field)
<1>1. /\ tail \in Seq(Byte) /\ Len(tail) = b + 1
      /\ tail[1] = separator /\ \A j \in 1..b : tail[j + 1] = field[j]
  BY ByteFirst
<1>2. a \in Nat /\ b \in Nat
  OBVIOUS
<1> HIDE DEF tail, a, b
<1>3. /\ new \in Seq(Byte) /\ Len(new) = a + Len(tail)
      /\ \A i \in 1..(a + Len(tail)) :
           new[i] = IF i <= a THEN text[i] ELSE tail[i - a]
  BY <1>1, ConcatProperties DEF a
<1> HIDE DEF new
<1>4. new[a + 1] = tail[1]
  <2>1. a + 1 \in 1..(a + Len(tail)) /\ ~(a + 1 <= a) /\ (a + 1) - a = 1
    BY <1>1, <1>2
  <2>2. QED
    BY <1>3, <2>1
<1>5. ASSUME NEW j \in 1..b PROVE new[a + 1 + j] = field[j]
  <2>1. a + 1 + j \in 1..(a + Len(tail)) /\ ~(a + 1 + j <= a) /\ (a + 1 + j) - a = j + 1
    BY <1>1, <1>2
  <2>2. QED
    BY <1>1, <1>3, <2>1
<1>6. ASSUME NEW j \in 1..a PROVE new[j] = text[j]
  <2>1. j \in 1..(a + Len(tail)) /\ j <= a
    BY <1>1, <1>2
  <2>2. QED
    BY <1>3, <2>1
<1>7. Len(new) = a + b + 1
  BY <1>1, <1>2, <1>3
<1>8. QED
  BY <1>1, <1>3, <1>4, <1>5, <1>6, <1>7 DEF Longer, a, b, new, tail

\* One field more.
LEMMA LayoutAppend ==
  ASSUME NEW fields, TextFields(fields), NEW separator,
         NEW text, NEW start, Layout(fields, separator, text, start),
         NEW field, field \in Seq(Byte), NEW more, OneFieldMore(more, fields, field),
         NEW new, Longer(new, text, separator, field)
  PROVE  \E longer : Layout(more, separator, new, longer)
<1> DEFINE n == Len(fields)
           m == Len(text)
           k == Len(field)
           longer == [i \in 1..(n + 1) |-> IF i = n + 1 THEN m + 1 ELSE start[i]]
<1>a. n \in Nat \ {0} /\ m \in Nat /\ k \in Nat
  BY FieldsFacts, LayoutText, LenProperties
<1>b. /\ new \in Seq(Byte) /\ Len(new) = m + k + 1
      /\ \A j \in 1..m : new[j] = text[j]
      /\ new[m + 1] = separator
      /\ \A j \in 1..k : new[m + 1 + j] = field[j]
  BY DEF Longer
<1>c. Len(more) = n + 1 /\ (\A i \in 1..n : more[i] = fields[i]) /\ more[n + 1] = field
  BY DEF OneFieldMore
<1>1. /\ \A i \in 1..n :
           /\ \A j \in 1..Len(fields[i]) : text[start[i] + j] = fields[i][j]
           /\ i < n => text[start[i + 1]] = separator
  BY DEF Layout
<1>0. /\ start[1] = 0 /\ m = start[n] + Len(fields[n])
      /\ \A i \in 1..n :
           /\ start[i] \in Nat /\ start[i] >= i - 1
           /\ i < n => start[i + 1] = start[i] + Len(fields[i]) + 1
  BY LayoutNumbers
<1>d. \A i \in 1..n : start[i] + Len(fields[i]) <= m /\ Len(fields[i]) \in Nat
  BY FieldsFacts, LayoutGrows
<1> HIDE DEF n, m, k
<1>2. /\ longer \in [1..(n + 1) -> Nat] /\ longer[1] = 0
      /\ \A i \in 1..n : longer[i] = start[i]
      /\ longer[n + 1] = m + 1
  BY <1>0, <1>a
<1> HIDE DEF longer
<1>4. ASSUME NEW i \in 1..(n + 1)
      PROVE  /\ longer[i] >= i - 1
             /\ \A j \in 1..Len(more[i]) : new[longer[i] + j] = more[i][j]
             /\ i < n + 1 => /\ longer[i + 1] = longer[i] + Len(more[i]) + 1
                             /\ new[longer[i + 1]] = separator
  <2>1. CASE i = n + 1
    <3>1. longer[i] = m + 1 /\ more[i] = field /\ Len(more[i]) = k
      BY <1>2, <1>c, <2>1 DEF k
    <3>2. n \in 1..n
      BY <1>a
    <3>3. m >= n - 1
      BY <1>0, <1>a, <1>d, <3>2
    <3>4. QED
      BY <1>a, <1>b, <2>1, <3>1, <3>3
  <2>2. CASE i # n + 1
    <3>1. i \in 1..n /\ more[i] = fields[i] /\ longer[i] = start[i] /\ start[i] \in Nat
      BY <1>0, <1>2, <1>a, <1>c, <2>2
    <3>2. ASSUME NEW j \in 1..Len(fields[i]) PROVE new[start[i] + j] = fields[i][j]
      <4>1. start[i] + j \in 1..m
        BY <1>a, <1>d, <3>1
      <4>2. QED
        BY <1>1, <1>b, <3>1, <4>1
    <3>3. CASE i = n
      BY <1>0, <1>2, <1>a, <1>b, <3>1, <3>2, <3>3
    <3>4. CASE i # n
      <4>1. i < n /\ i + 1 \in 1..n
        BY <1>a, <3>1, <3>4
      <4>2. longer[i + 1] = start[i + 1] /\ start[i + 1] = start[i] + Len(fields[i]) + 1
        BY <1>0, <1>2, <1>a, <3>1, <4>1
      <4>3. start[i + 1] + Len(fields[i + 1]) <= m /\ Len(fields[i + 1]) \in Nat /\ Len(fields[i]) \in Nat
        BY <1>d, <3>1, <4>1
      <4>4. start[i + 1] \in 1..m
        <5>1. start[i + 1] \in Nat /\ start[i + 1] >= 1
          <6>1. start[i + 1] \in Nat /\ start[i + 1] >= (i + 1) - 1
            BY <1>0, <4>1
          <6>2. i \in Nat /\ (i + 1) - 1 >= 1
            BY <1>a, <3>1
          <6>3. QED
            BY <6>1, <6>2
        <5>2. start[i + 1] <= m
          BY <1>a, <4>3, <5>1
        <5>3. QED
          BY <1>a, <5>1, <5>2
      <4>5. new[start[i + 1]] = separator
        BY <1>1, <1>b, <3>1, <4>1, <4>4
      <4>6. QED
        BY <1>0, <3>1, <3>2, <4>2, <4>5
    <3>5. QED
      BY <3>3, <3>4
  <2>3. QED
    BY <2>1, <2>2
<1>5. /\ \A i \in 1..Len(more) :
           /\ longer[i] >= i - 1
           /\ \A j \in 1..Len(more[i]) : new[longer[i] + j] = more[i][j]
           /\ i < Len(more) => /\ longer[i + 1] = longer[i] + Len(more[i]) + 1
                               /\ new[longer[i + 1]] = separator
      /\ longer \in [1..Len(more) -> Nat]
      /\ Len(new) = longer[Len(more)] + Len(more[Len(more)])
  <2>1. Len(more) = n + 1 /\ more[n + 1] = field
    BY <1>c
  <2>2. longer \in [1..Len(more) -> Nat] /\ longer[n + 1] = m + 1
    BY <1>2, <2>1
  <2>3. Len(new) = (m + 1) + k
    BY <1>a, <1>b
  <2>4. Len(new) = longer[Len(more)] + Len(more[Len(more)])
    BY <2>1, <2>2, <2>3 DEF k
  <2>5. QED
    BY <1>4, <2>1, <2>2, <2>4
<1>6. QED
  BY <1>2, <1>5, <1>b DEF Layout

\* Every joined text has a layout.
LEMMA JoinLayout ==
  ASSUME NEW fields, TextFields(fields), NEW separator \in Byte
  PROVE  \E start : Layout(fields, separator, Join(fields, separator), start)
<1> DEFINE n == Len(fields)
           part(k) == SubSeq(fields, 1, k)
           Laid(k) == \E start : Layout(part(k), separator, Join(part(k), separator), start)
           S == {k \in Nat : k # 0 => Laid(k)}
<1>1. n \in Nat \ {0} /\ \A i \in 1..n : fields[i] \in Seq(Byte) /\ Len(fields[i]) \in Nat
  BY FieldsFacts
<1>2. \A k \in 1..n : /\ TextFields(part(k)) /\ Len(part(k)) = k
                      /\ \A i \in 1..k : part(k)[i] = fields[i]
  BY Beginning DEF TextFields
<1>3. part(1) = <<fields[1]>> /\ part(n) = fields
  BY <1>1, FirstAndAll DEF TextFields
<1>4. \A k \in 2..n : part(k) = Append(part(k - 1), fields[k])
  BY <1>1, OneMore DEF TextFields
<1> HIDE DEF part, n
<1>5. 0 \in S
  OBVIOUS
<1>6. ASSUME NEW k \in 1..n, k - 1 \in S PROVE k \in S
  <2>1. CASE k = 1
    <3>1. 1 \in 1..n /\ fields[1] \in Seq(Byte)
      BY <1>1
    <3>2. Layout(<<fields[1]>>, separator, fields[1], [i \in 1..1 |-> 0])
      BY <3>1, LayoutOne
    <3>3. Join(<<fields[1]>>, separator) = fields[1]
      BY <3>1, JoinOne
    <3>4. Laid(1)
      BY <1>3, <3>2, <3>3
    <3> HIDE DEF Laid
    <3>5. QED
      BY <2>1, <3>4
  <2>2. CASE k # 1
    <3>1. /\ k - 1 \in 1..n /\ k - 1 \in Nat \ {0} /\ k \in 2..n /\ k \in Nat
          /\ fields[k] \in Seq(Byte) /\ Len(fields[k]) \in Nat
      BY <1>1, <2>2
    <3>2. PICK start : Layout(part(k - 1), separator, Join(part(k - 1), separator), start)
      BY <1>6, <3>1
    <3> DEFINE text == Join(part(k - 1), separator)
               f == fields[k]
               new == Join(part(k), separator)
    <3>3. text \in Seq(Byte)
      BY <3>2, LayoutText
    <3>4. part(k - 1) \in Seq(Seq(Byte)) /\ part(k - 1) # << >> /\ TextFields(part(k - 1))
      BY <1>2, <3>1 DEF TextFields
    <3>5. part(k) = Append(part(k - 1), f)
      BY <1>4, <3>1
    <3>6. f \in Seq(Byte)
      BY <3>1
    <3> HIDE DEF f
    <3>7. new = text \o (<<separator>> \o f)
      BY <3>4, <3>5, <3>6, JoinAppend
    <3>8. Longer(new, text, separator, f)
      <4> HIDE DEF text, new
      <4>1. QED
        BY <3>3, <3>6, <3>7, LongerText
    <3>9. \E longer : Layout(part(k), separator, new, longer)
      <4>1. OneFieldMore(part(k), part(k - 1), f)
        BY <3>4, <3>5, <3>6, AppendProperties DEF OneFieldMore
      <4> HIDE DEF new
      <4>2. QED
        BY <3>2, <3>4, <3>6, <3>8, <4>1, LayoutAppend
    <3>10. Laid(k)
      BY <3>9
    <3> HIDE DEF Laid
    <3>11. QED
      BY <3>1, <3>10
  <2>3. QED
    BY <2>1, <2>2
<1> HIDE DEF S, Laid
<1>7. 0..n \subseteq S
  BY <1>1, <1>5, <1>6, Lists!Counting
<1>8. n \in S
  BY <1>1, <1>7
<1>9. Laid(n)
  BY <1>1, <1>8 DEF S
<1>10. QED
  BY <1>3, <1>9 DEF Laid

\* One byte of splitn.  What is fixed is the separator and the limit.
SplitStep(fixed, fields, byte) == SplitByte(fixed.separator, fixed.limit, fields, byte)

Splits == INSTANCE FoldTheorems WITH Step <- SplitStep

\* splitn is a loop over the bytes, with its separator and its limit.
LEMMA SplitIsLoop ==
  ASSUME NEW text, NEW separator, NEW limit
  PROVE  SplitN(text, separator, limit)
           = Splits!Fold([separator |-> separator, limit |-> limit], << << >> >>, text)
<1> DEFINE fixed == [separator |-> separator, limit |-> limit]
<1>1. fixed.separator = separator /\ fixed.limit = limit
  OBVIOUS
<1> HIDE DEF fixed
<1>2. SplitN(text, separator, limit) = Splits!Fold(fixed, << << >> >>, text)
  BY <1>1 DEF SplitN, SplitStep, Splits!Fold, FoldLeft, MapThenFoldSet, Max,
              Splits!FoldLeft, Splits!MapThenFoldSet, Splits!Max
<1>3. QED
  BY <1>2 DEF fixed

\* The fields that are read from the first k bytes of a text: complete ones, and the
\* beginning of one.
FieldsRead(fields, start, read, k) ==
  /\ read \in Seq(Seq(Byte))
  /\ Len(read) \in 1..Len(fields)
  /\ \A i \in 1..(Len(read) - 1) : read[i] = fields[i]
  /\ Len(read[Len(read)]) <= Len(fields[Len(read)])
  /\ \A j \in 1..Len(read[Len(read)]) : read[Len(read)][j] = fields[Len(read)][j]
  /\ k = start[Len(read)] + Len(read[Len(read)])

\* No separator is in a field, but in the last that splitn would make.
Separated(fields, separator, limit) ==
  \A i \in 1..Len(fields) : i # limit => \A j \in 1..Len(fields[i]) : fields[i][j] # separator

\* One byte more of a field, or the separator that ends it.
LEMMA ReadByteOfField ==
  ASSUME NEW fields, TextFields(fields), NEW separator, NEW limit \in Nat,
         Separated(fields, separator, limit),
         NEW text, NEW start, Layout(fields, separator, text, start),
         NEW k \in Nat, k < Len(text), Len(fields) <= limit \/ k + 1 < limit,
         NEW read, FieldsRead(fields, start, read, k)
  PROVE  FieldsRead(fields, start, SplitByte(separator, limit, read, text[k + 1]), k + 1)
<1> DEFINE n == Len(fields)
           m == Len(read)
           l == Len(read[m])
           L == Len(fields[m])
           byte == text[k + 1]
           new == SplitByte(separator, limit, read, byte)
<1>1. /\ n \in Nat \ {0} /\ m \in 1..n /\ l \in Nat /\ L \in Nat /\ l <= L
      /\ read \in Seq(Seq(Byte)) /\ read[m] \in Seq(Byte) /\ fields[m] \in Seq(Byte)
      /\ \A i \in 1..(m - 1) : read[i] = fields[i]
      /\ \A j \in 1..l : read[m][j] = fields[m][j]
      /\ k = start[m] + l
  <2>1. n \in Nat \ {0} /\ m \in 1..n /\ L \in Nat /\ fields[m] \in Seq(Byte)
    BY FieldsFacts DEF FieldsRead
  <2>2. read \in Seq(Seq(Byte)) /\ m \in Nat \ {0}
    BY <2>1 DEF FieldsRead
  <2>3. read[m] \in Seq(Byte)
    BY <2>2
  <2>4. l \in Nat
    BY <2>3, LenProperties
  <2>5. QED
    BY <2>1, <2>2, <2>3, <2>4 DEF FieldsRead
<1>2. /\ start[m] \in Nat /\ start[m] >= m - 1
      /\ m < n => start[m + 1] = start[m] + L + 1
      /\ Len(text) = start[n] + Len(fields[n])
  BY <1>1, LayoutNumbers
<1>3. /\ \A j \in 1..L : text[start[m] + j] = fields[m][j]
      /\ m < n => text[start[m + 1]] = separator
  BY <1>1 DEF Layout
<1>4. Separated(fields, separator, limit)
  OBVIOUS
<1>a. /\ n \in Nat \ {0} /\ m \in 1..n /\ l \in Nat /\ L \in Nat /\ l <= L
      /\ start[m] \in Nat /\ k = start[m] + l /\ start[m] >= m - 1
  BY <1>1, <1>2
<1>b. \A i \in 1..(m - 1) : read[i] = fields[i] /\ i \in 1..m /\ i # m
  <2>1. m \in Nat
    BY <1>a
  <2>2. \A i \in 1..(m - 1) : i \in 1..m /\ i # m
    BY <2>1
  <2>3. QED
    BY <1>1, <2>2
<1> HIDE DEF n, m, l, L
<1>5. CASE l < L
  <2>1. l + 1 \in 1..L /\ start[m] + (l + 1) = k + 1
    BY <1>a, <1>5
  <2>2. byte = fields[m][l + 1]
    BY <1>3, <2>1
  <2>3. fields[m][l + 1] \in Byte
    BY <1>1, <2>1 DEF L
  <2>4. ~(byte = separator /\ m < limit)
    BY <1>1, <1>4, <2>1, <2>2 DEF Separated, n, m, L
  <2> DEFINE field == Append(read[m], byte)
  <2>5. new = [read EXCEPT ![m] = field]
    BY <2>4 DEF SplitByte, m
  <2>6. /\ field \in Seq(Byte) /\ Len(field) = l + 1
        /\ \A j \in 1..l : field[j] = read[m][j]
        /\ field[l + 1] = byte
    <3>1. read[m] \in Seq(Byte) /\ byte \in Byte
      BY <1>1, <2>2, <2>3
    <3> HIDE DEF byte
    <3>2. QED
      BY ONLY <3>1, AppendProperties DEF l
  <2> HIDE DEF field, byte, new
  <2>7. /\ new \in Seq(Seq(Byte)) /\ Len(new) = m
        /\ \A i \in 1..m : new[i] = IF i = m THEN field ELSE read[i]
    BY <1>1, <2>5, <2>6, ExceptSeq DEF m
  <2>8. new[m] = field
    BY <1>1, <2>7
  <2>9. \A i \in 1..(m - 1) : new[i] = fields[i]
    BY <1>b, <2>7
  <2>10. \A j \in 1..(l + 1) : field[j] = fields[m][j]
    <3>1. \A j \in 1..(l + 1) : j \in 1..l \/ j = l + 1
      BY <1>1
    <3>2. QED
      BY <1>1, <2>2, <2>6, <3>1
  <2>11. k + 1 = start[m] + (l + 1) /\ l + 1 <= L
    BY <2>1
  <2>12. FieldsRead(fields, start, new, k + 1)
    BY <1>1, <2>6, <2>7, <2>8, <2>9, <2>10, <2>11 DEF FieldsRead, L, n
  <2>13. QED
    BY <2>12 DEF new, byte
<1>6. CASE ~(l < L)
  <2>1. l = L /\ k = start[m] + L
    BY <1>1, <1>6
  <2>2. m < n
    <3>1. SUFFICES ASSUME m = n PROVE FALSE
      BY <1>1
    <3>2. Len(text) = k
      BY <1>2, <2>1, <3>1 DEF L, n
    <3>3. QED
      BY <3>2
  <2>3. start[m + 1] = k + 1 /\ byte = separator
    BY <1>2, <1>3, <2>1, <2>2
  <2>4. m < limit
    <3>1. n <= limit \/ k + 1 < limit
      BY DEF n
    <3>2. QED
      BY <1>a, <2>1, <2>2, <3>1
  <2>5. new = Append(read, << >>)
    BY <2>3, <2>4 DEF SplitByte, m
  <2> HIDE DEF byte, new
  <2>6. << >> \in Seq(Byte) /\ Len(<< >>) = 0
    BY EmptySeq
  <2>7. /\ new \in Seq(Seq(Byte)) /\ Len(new) = m + 1
        /\ \A i \in 1..m : new[i] = read[i]
        /\ new[m + 1] = << >>
    BY <1>1, <2>5, <2>6, AppendProperties DEF m
  <2>8. read[m] = fields[m]
    <3>1. \A j \in 1..l : read[m][j] = fields[m][j]
      BY <1>1
    <3>2. QED
      BY <1>1, <2>1, <3>1, SeqEqual DEF l, L
  <2>9. \A i \in 1..((m + 1) - 1) : new[i] = fields[i]
    BY <1>1, <2>7, <2>8
  <2>10. /\ m + 1 \in 1..n /\ Len(fields[m + 1]) \in Nat
    BY <1>1, <2>2, FieldsFacts DEF n
  <2>11. k + 1 = start[m + 1] + 0
    BY <2>3
  <2>12. FieldsRead(fields, start, new, k + 1)
    BY <1>1, <2>6, <2>7, <2>9, <2>10, <2>11 DEF FieldsRead, n
  <2>13. QED
    BY <2>12 DEF new, byte
<1>7. QED
  BY <1>5, <1>6

\* A line is the beginning of a text.
Begins(cut, text) ==
  /\ cut \in Seq(Byte)
  /\ Len(cut) <= Len(text)
  /\ \A i \in 1..Len(cut) : cut[i] = text[i]

\* splitn takes a text apart again, and the beginning of a text into the first of its
\* fields and the beginning of one.
LEMMA SplitBeginning ==
  ASSUME NEW fields, TextFields(fields), NEW separator, NEW limit \in Nat,
         Separated(fields, separator, limit),
         NEW text, NEW start, Layout(fields, separator, text, start),
         NEW cut, Begins(cut, text), Len(fields) <= limit \/ Len(cut) < limit
  PROVE  FieldsRead(fields, start, SplitN(cut, separator, limit), Len(cut))
<1> DEFINE fixed == [separator |-> separator, limit |-> limit]
           K == Len(cut)
<1>1. K \in Nat /\ DOMAIN cut = 1..K /\ Len(text) \in Nat /\ K <= Len(text)
  <2>1. cut \in Seq(Byte) /\ K <= Len(text)
    BY DEF Begins
  <2>2. QED
    BY <2>1, LayoutText, LenProperties
<1>2. PICK r : /\ Splits!Runs(fixed, << << >> >>, cut, K, r)
               /\ Splits!Fold(fixed, << << >> >>, cut) = r[K]
  BY <1>1, Splits!FoldRuns
<1>3. r[0] = << << >> >>
  BY <1>2 DEF Splits!Runs
<1>4. \A k \in 1..K : r[k] = SplitByte(separator, limit, r[k - 1], text[k])
  <2>1. \A k \in 1..K : r[k] = SplitStep(fixed, r[k - 1], cut[k])
    BY <1>2 DEF Splits!Runs
  <2>2. \A k \in 1..K : cut[k] = text[k]
    BY DEF Begins
  <2>3. fixed.separator = separator /\ fixed.limit = limit
    OBVIOUS
  <2> HIDE DEF fixed
  <2>4. QED
    BY <2>1, <2>2, <2>3 DEF SplitStep
<1> DEFINE S == {k \in Nat : k <= K => FieldsRead(fields, start, r[k], k)}
<1> HIDE DEF K
<1>5. 0 \in S
  <2>1. << >> \in Seq(Byte) /\ Len(<< >>) = 0
    BY EmptySeq
  <2> DEFINE e == << >>
  <2>2. e \in Seq(Byte) /\ Len(e) = 0 /\ r[0] = <<e>>
    BY <1>3, <2>1
  <2> HIDE DEF e
  <2>3. r[0] \in Seq(Seq(Byte)) /\ Len(r[0]) = 1 /\ r[0][1] = e
    BY <2>2, OneByte
  <2>4. Len(fields) \in Nat \ {0} /\ Len(fields[1]) \in Nat
    BY FieldsFacts
  <2>5. start[1] = 0
    BY LayoutNumbers
  <2>6. FieldsRead(fields, start, r[0], 0)
    BY <2>2, <2>3, <2>4, <2>5 DEF FieldsRead
  <2>7. QED
    BY <2>6
<1>6. ASSUME NEW k \in 1..K, k - 1 \in S PROVE k \in S
  <2>1. k - 1 \in Nat /\ k - 1 < Len(text) /\ (k - 1) + 1 = k /\ k - 1 <= K /\ k \in Nat
    BY <1>1
  <2>2. FieldsRead(fields, start, r[k - 1], k - 1)
    BY <1>6, <2>1
  <2>3. Len(fields) <= limit \/ (k - 1) + 1 < limit
    <3>1. Len(fields) <= limit \/ K < limit
      BY DEF K
    <3>2. k <= K
      BY <1>1
    <3>3. QED
      BY <1>1, <2>1, <3>1, <3>2
  <2>4. FieldsRead(fields, start, SplitByte(separator, limit, r[k - 1], text[(k - 1) + 1]), (k - 1) + 1)
    BY <2>1, <2>2, <2>3, ReadByteOfField
  <2>5. FieldsRead(fields, start, r[k], k)
    BY <1>4, <2>1, <2>4
  <2>6. QED
    BY <2>1, <2>5
<1> HIDE DEF S
<1>7. 0..K \subseteq S
  BY <1>1, <1>5, <1>6, Splits!Counting
<1>8. FieldsRead(fields, start, r[K], K)
  <2>1. K \in S
    BY <1>1, <1>7
  <2>2. QED
    BY <1>1, <2>1 DEF S
<1>9. SplitN(cut, separator, limit) = r[K]
  BY <1>2, SplitIsLoop
<1>10. QED
  BY <1>8, <1>9 DEF K

\* The whole text has all fields.
LEMMA AllFieldsRead ==
  ASSUME NEW fields, TextFields(fields), NEW separator, NEW text, NEW start,
         Layout(fields, separator, text, start), NEW read,
         FieldsRead(fields, start, read, Len(text))
  PROVE  read = fields
<1> DEFINE n == Len(fields)
           m == Len(read)
           l == Len(read[m])
           L == Len(fields[m])
<1>1. n \in Nat \ {0} /\ m \in 1..n /\ L \in Nat /\ fields[m] \in Seq(Byte)
  BY FieldsFacts DEF FieldsRead
<1>2. /\ read \in Seq(Seq(Byte)) /\ \A i \in 1..(m - 1) : read[i] = fields[i]
      /\ l <= L /\ Len(text) = start[m] + l
      /\ \A j \in 1..l : read[m][j] = fields[m][j]
  BY DEF FieldsRead
<1>3. read[m] \in Seq(Byte) /\ l \in Nat
  <2>1. read[m] \in Seq(Byte)
    BY <1>1, <1>2
  <2>2. QED
    BY <2>1, LenProperties
<1>4. /\ start[m] \in Nat /\ Len(text) = start[n] + Len(fields[n])
      /\ start[m] + L <= Len(text)
      /\ m < n => start[m] + L + 1 <= start[n]
  BY <1>1, LayoutNumbers, LayoutGrows
<1>5. start[n] \in Nat /\ Len(fields[n]) \in Nat
  BY <1>1, FieldsFacts, LayoutNumbers
<1> HIDE DEF n, m, l, L
<1>6. m = n /\ l = L
  <2>1. l \in Nat /\ L \in Nat /\ l <= L /\ m <= n /\ m \in Nat /\ n \in Nat
    BY <1>1, <1>2, <1>3
  <2>2. m = n
    <3>1. SUFFICES ASSUME m # n PROVE FALSE
      OBVIOUS
    <3>2. m < n
      BY <2>1, <3>1
    <3>3. start[m] + L + 1 <= start[n] /\ Len(text) = start[n] + Len(fields[n])
      BY <1>4, <3>2
    <3>4. Len(text) = start[m] + l /\ start[m] \in Nat
      BY <1>2, <1>4
    <3>5. start[n] <= start[m] + l
      <4> DEFINE sn == start[n]
                 ln == Len(fields[n])
                 sm == start[m]
      <4>1. sn \in Nat /\ ln \in Nat /\ sm \in Nat /\ sn + ln = sm + l
        BY <1>5, <3>3, <3>4
      <4> HIDE DEF sn, ln, sm
      <4>2. sn <= sm + l
        BY <2>1, <4>1
      <4>3. QED
        BY <4>2 DEF sn, sm
    <3>6. QED
      <4> DEFINE sn == start[n]
                 sm == start[m]
      <4>1. sn \in Nat /\ sm \in Nat /\ sn <= sm + l /\ sm + L + 1 <= sn
        BY <1>5, <3>3, <3>4, <3>5
      <4> HIDE DEF sn, sm
      <4>2. QED
        BY <2>1, <4>1
  <2>3. Len(text) = start[m] + L
    BY <1>4, <2>2 DEF L, n
  <2>4. QED
    BY <1>2, <1>4, <2>1, <2>2, <2>3
<1>7. read[m] = fields[m]
  BY <1>1, <1>2, <1>3, <1>6, SeqEqual DEF l, L
<1>8. \A i \in 1..n : read[i] = fields[i]
  <2>1. \A i \in 1..n : i \in 1..(m - 1) \/ i = m
    BY <1>1, <1>6
  <2>2. QED
    BY <1>2, <1>7, <2>1
<1>9. QED
  BY <1>2, <1>6, <1>8, SeqEqual DEF TextFields, n, m
-----------------------------------------------------------------------------
(* Escapes                                                                   *)

\* What holds of no text, and of a text with one byte more if it holds of the text,
\* holds of all texts.
LEMMA ByteByByte ==
  ASSUME NEW X, NEW T, << >> \in T,
         \A s \in Seq(X), x \in X : s \in T => Append(s, x) \in T
  PROVE  Seq(X) \subseteq T
<1> DEFINE S == {k \in Nat : \A s \in Seq(X) : Len(s) = k => s \in T}
<1>1. 0 \in S
  <2>1. \A s \in Seq(X) : Len(s) = 0 => s = << >>
    BY EmptySeq
  <2>2. QED
    BY <2>1
<1>2. ASSUME NEW k \in Nat, k \in S PROVE k + 1 \in S
  <2>1. ASSUME NEW s \in Seq(X), Len(s) = k + 1 PROVE s \in T
    <3> DEFINE front == SubSeq(s, 1, k)
    <3>1. front \in Seq(X) /\ Len(front) = k /\ s[k + 1] \in X /\ s = Append(front, s[k + 1])
      BY <2>1
    <3> HIDE DEF front
    <3>2. front \in T
      BY <1>2, <3>1
    <3>3. QED
      BY <3>1, <3>2
  <2>2. k + 1 \in Nat
    OBVIOUS
  <2>3. QED
    BY <2>1, <2>2
<1> HIDE DEF S
<1>3. Nat \subseteq S
  BY <1>1, <1>2, Lists!Induction
<1>4. ASSUME NEW s \in Seq(X) PROVE s \in T
  <2>1. Len(s) \in Nat
    BY LenProperties
  <2>2. Len(s) \in S
    BY <1>3, <2>1
  <2>3. QED
    BY <2>2 DEF S
<1>5. QED
  BY <1>4

\* The bytes that the codec names.
LEMMA NamedBytes ==
  /\ "%" \in Byte /\ "|" \in Byte /\ "2" \in Byte /\ "5" \in Byte /\ "7" \in Byte /\ "C" \in Byte
  /\ "e9" \in Byte /\ "c3" \in Byte /\ "a9" \in Byte /\ "c2" \in Byte /\ "82" \in Byte /\ "83" \in Byte
  /\ Newline \in Byte
<1>1. \A b \in Named : b \in Byte
  BY WireAssumption DEF WireAssumption
<1>2. "%" \in Named /\ "|" \in Named /\ "2" \in Named /\ "5" \in Named /\ "7" \in Named /\ "C" \in Named
  BY DEF Named, Separators, Digits
<1>3. "e9" \in Named /\ "c3" \in Named /\ "a9" \in Named /\ "c2" \in Named /\ "82" \in Named /\ "83" \in Named
  BY DEF Named, HighBytes
<1>4. Newline \in Named
  BY DEF Named, Separators
<1> HIDE DEF Named
<1>5. QED
  BY <1>1, <1>2, <1>3, <1>4

\* Texts of one, two and three bytes, at the end of a text.
LEMMA ShortTexts ==
  ASSUME NEW X, NEW a \in X, NEW b \in X, NEW c \in X, NEW s \in Seq(X)
  PROVE  /\ <<a>> \in Seq(X) /\ <<a, b>> \in Seq(X) /\ <<a, b, c>> \in Seq(X)
         /\ s \o <<a>> = Append(s, a)
         /\ s \o <<a, b>> = Append(Append(s, a), b)
         /\ s \o <<a, b, c>> = Append(Append(Append(s, a), b), c)
OBVIOUS

\* What one character becomes.
LEMMA CharacterTypes ==
  ASSUME NEW c \in Byte
  PROVE  Utf8Bytes(c) \in Seq(Byte) /\ Escaped(c) \in Seq(Byte)
<1>1. /\ <<c>> \in Seq(Byte) /\ <<"c2", c>> \in Seq(Byte)
      /\ <<"c3", "a9">> \in Seq(Byte) /\ <<"c3", "83">> \in Seq(Byte) /\ <<"c3", "82">> \in Seq(Byte)
      /\ <<"%", "2", "5">> \in Seq(Byte) /\ <<"%", "7", "C">> \in Seq(Byte)
  BY NamedBytes
<1>2. Utf8Bytes(c) \in Seq(Byte)
  BY <1>1 DEF Utf8Bytes
<1>3. Escaped(c) \in Seq(Byte)
  BY <1>1 DEF Escaped
<1>4. QED
  BY <1>2, <1>3

\* A text with its "%" and "|" escaped, before it becomes UTF-8.
EscapedText(text) == FlattenSeq([i \in DOMAIN text |-> Escaped(text[i])])

\* UTF-8, character by character.
LEMMA Utf8Append ==
  ASSUME NEW x \in Seq(Byte), NEW c \in Byte
  PROVE  /\ Utf8(x) \in Seq(Byte)
         /\ Utf8(<< >>) = << >>
         /\ Utf8(Append(x, c)) = Utf8(x) \o Utf8Bytes(c)
<1> DEFINE f == [b \in Byte |-> Utf8Bytes(b)]
<1>1. f \in [Byte -> Seq(Byte)] /\ \A b \in Byte : f[b] = Utf8Bytes(b)
  BY CharacterTypes
<1>2. ASSUME NEW s \in Seq(Byte) PROVE Utf8(s) = Flattened(f, s)
  <2>1. \A i \in DOMAIN s : f[s[i]] = Utf8Bytes(s[i])
    BY <1>1
  <2> HIDE DEF f
  <2>2. [i \in DOMAIN s |-> f[s[i]]] = [i \in DOMAIN s |-> Utf8Bytes(s[i])]
    BY <2>1
  <2>3. QED
    BY <2>2 DEF Utf8, Flattened
<1> HIDE DEF f
<1>3. Append(x, c) \in Seq(Byte) /\ << >> \in Seq(Byte)
  BY EmptySeq, AppendProperties
<1>4. Flattened(f, x) \in Seq(Byte) /\ Flattened(f, << >>) = << >>
  BY <1>1, MapType, MapEmpty
<1>5. Flattened(f, Append(x, c)) = Glue(Flattened(f, x), f[c])
  BY <1>1, MapAppend
<1>6. Flattened(f, Append(x, c)) = Flattened(f, x) \o f[c]
  BY <1>5 DEF Glue
<1>7. QED
  BY <1>1, <1>2, <1>3, <1>4, <1>6

\* Escapes, character by character.
LEMMA EscapedTextAppend ==
  ASSUME NEW x \in Seq(Byte), NEW c \in Byte
  PROVE  /\ EscapedText(x) \in Seq(Byte)
         /\ EscapedText(<< >>) = << >>
         /\ EscapedText(Append(x, c)) = EscapedText(x) \o Escaped(c)
<1> DEFINE f == [b \in Byte |-> Escaped(b)]
<1>1. f \in [Byte -> Seq(Byte)] /\ \A b \in Byte : f[b] = Escaped(b)
  BY CharacterTypes
<1>2. ASSUME NEW s \in Seq(Byte) PROVE EscapedText(s) = Flattened(f, s)
  <2>1. \A i \in DOMAIN s : f[s[i]] = Escaped(s[i])
    BY <1>1
  <2> HIDE DEF f
  <2>2. [i \in DOMAIN s |-> f[s[i]]] = [i \in DOMAIN s |-> Escaped(s[i])]
    BY <2>1
  <2>3. QED
    BY <2>2 DEF EscapedText, Flattened
<1> HIDE DEF f
<1>3. Append(x, c) \in Seq(Byte) /\ << >> \in Seq(Byte)
  BY EmptySeq, AppendProperties
<1>4. Flattened(f, x) \in Seq(Byte) /\ Flattened(f, << >>) = << >>
  BY <1>1, MapType, MapEmpty
<1>5. Flattened(f, Append(x, c)) = Glue(Flattened(f, x), f[c])
  BY <1>1, MapAppend
<1>6. Flattened(f, Append(x, c)) = Flattened(f, x) \o f[c]
  BY <1>5 DEF Glue
<1>7. QED
  BY <1>1, <1>2, <1>3, <1>4, <1>6

\* What one character becomes on the wire.
OnTheWire(c) == IF c \in {"%", "|"} THEN Escaped(c) ELSE Utf8Bytes(c)

\* Escape goes character by character.
LEMMA EscapeAppend ==
  ASSUME NEW x \in Seq(Byte), NEW c \in Byte
  PROVE  /\ Escape(x) \in Seq(Byte)
         /\ Escape(<< >>) = << >>
         /\ Escape(Append(x, c)) = Escape(x) \o OnTheWire(c)
<1> DEFINE e == EscapedText(x)
<1>1. e \in Seq(Byte) /\ EscapedText(<< >>) = << >> /\ EscapedText(Append(x, c)) = e \o Escaped(c)
  BY EscapedTextAppend
<1>2. \A s : Escape(s) = Utf8(EscapedText(s))
  BY DEF Escape, EscapedText
<1>3. Escape(x) = Utf8(e)
  BY <1>2
<1> HIDE DEF e
<1>4. Utf8(e) \in Seq(Byte) /\ Utf8(<< >>) = << >>
  BY <1>1, Utf8Append
<1>5. Utf8(e \o Escaped(c)) = Utf8(e) \o OnTheWire(c)
  <2>1. CASE c \notin {"%", "|"}
    <3>1. Escaped(c) = <<c>> /\ OnTheWire(c) = Utf8Bytes(c)
      BY <2>1 DEF Escaped, OnTheWire
    <3>2. e \o <<c>> = Append(e, c)
      BY <1>1, ShortTexts
    <3>3. QED
      BY <1>1, <3>1, <3>2, Utf8Append
  <2>2. ASSUME NEW a \in Byte, NEW b \in Byte, NEW d \in Byte, Utf8Bytes(a) = <<a>>,
               Utf8Bytes(b) = <<b>>, Utf8Bytes(d) = <<d>>
        PROVE  Utf8(e \o <<a, b, d>>) = Utf8(e) \o <<a, b, d>>
    <3> DEFINE e1 == Append(e, a)
               e2 == Append(e1, b)
               u == Utf8(e)
    <3>1. e1 \in Seq(Byte) /\ e2 \in Seq(Byte) /\ u \in Seq(Byte)
      BY <1>1, <1>4, AppendProperties
    <3>2. e \o <<a, b, d>> = Append(e2, d)
      BY <1>1, ShortTexts
    <3>3. Utf8(e1) = u \o <<a>>
      BY <1>1, <2>2, Utf8Append
    <3> HIDE DEF e1
    <3>4. Utf8(e2) = Utf8(e1) \o <<b>>
      <4>1. Utf8(Append(e1, b)) = Utf8(e1) \o Utf8Bytes(b)
        BY <3>1, Utf8Append
      <4>2. QED
        BY <2>2, <4>1
    <3> HIDE DEF e2
    <3>5. Utf8(Append(e2, d)) = Utf8(e2) \o <<d>>
      <4>1. Utf8(Append(e2, d)) = Utf8(e2) \o Utf8Bytes(d)
        BY <3>1, Utf8Append
      <4>2. QED
        BY <2>2, <4>1
    <3> HIDE DEF u
    <3>6. ((u \o <<a>>) \o <<b>>) \o <<d>> = u \o <<a, b, d>>
      <4>1. u \o <<a>> = Append(u, a) /\ Append(u, a) \in Seq(Byte)
        BY <3>1, ShortTexts, AppendProperties
      <4> DEFINE v == Append(u, a)
                 w == Append(v, b)
      <4>2. v \o <<b>> = w /\ w \in Seq(Byte)
        BY <4>1, ShortTexts, AppendProperties
      <4>3. w \o <<d>> = Append(w, d)
        BY <4>2, ShortTexts
      <4>4. u \o <<a, b, d>> = Append(w, d)
        BY <3>1, ShortTexts
      <4>5. QED
        BY <4>1, <4>2, <4>3, <4>4
    <3>7. QED
      BY <3>2, <3>3, <3>4, <3>5, <3>6 DEF u
  <2>3. CASE c = "%"
    <3>1. Escaped(c) = <<"%", "2", "5">> /\ OnTheWire(c) = <<"%", "2", "5">>
      BY <2>3 DEF Escaped, OnTheWire
    <3>0. "%" \in Byte /\ "2" \in Byte /\ "5" \in Byte
      BY NamedBytes
    <3>2. Utf8Bytes("%") = <<"%">> /\ Utf8Bytes("2") = <<"2">> /\ Utf8Bytes("5") = <<"5">>
      BY DEF Utf8Bytes
    <3>3. Utf8(e \o <<"%", "2", "5">>) = Utf8(e) \o <<"%", "2", "5">>
      BY <2>2, <3>0, <3>2
    <3>4. QED
      BY <3>1, <3>3
  <2>4. CASE c = "|"
    <3>1. Escaped(c) = <<"%", "7", "C">> /\ OnTheWire(c) = <<"%", "7", "C">>
      BY <2>4 DEF Escaped, OnTheWire
    <3>0. "%" \in Byte /\ "7" \in Byte /\ "C" \in Byte
      BY NamedBytes
    <3>2. Utf8Bytes("%") = <<"%">> /\ Utf8Bytes("7") = <<"7">> /\ Utf8Bytes("C") = <<"C">>
      BY DEF Utf8Bytes
    <3>3. Utf8(e \o <<"%", "7", "C">>) = Utf8(e) \o <<"%", "7", "C">>
      BY <2>2, <3>0, <3>2
    <3>4. QED
      BY <3>1, <3>3
  <2>5. QED
    BY <2>1, <2>3, <2>4
<1>6. Escape(Append(x, c)) = Utf8(e) \o OnTheWire(c)
  BY <1>1, <1>2, <1>5
<1>7. Escape(<< >>) = << >>
  BY <1>1, <1>2, <1>4
<1>8. QED
  BY <1>3, <1>4, <1>6, <1>7

\* One byte of unescape.
UnescapeStep(context, read, byte) == UnescapeByte(read, byte)

Unescapes == INSTANCE FoldTheorems WITH Step <- UnescapeStep

\* What unescape has read, between two escapes.
Decoded(out) == [out |-> out, code |-> << >>]
Unescaping(field) == Unescapes!Fold(0, Decoded(<< >>), field)

\* Unescape is a loop over the bytes.
LEMMA UnescapeIsLoop ==
  ASSUME NEW field
  PROVE  Unescape(field) = Unescaping(field).out
BY DEF Unescape, Unescaping, UnescapeStep, Decoded, Unescapes!Fold, FoldLeft, MapThenFoldSet, Max,
       Unescapes!FoldLeft, Unescapes!MapThenFoldSet, Unescapes!Max

\* A byte that is not "%" is taken for a character.
LEMMA UnescapeOne ==
  ASSUME NEW field \in Seq(Byte), NEW out, Unescaping(field) = Decoded(out),
         NEW a \in Byte, a # "%"
  PROVE  Unescaping(Append(field, a)) = Decoded(Append(out, a))
<1>1. Unescaping(Append(field, a)) = UnescapeByte(Unescaping(field), a)
  BY Unescapes!FoldAppend DEF Unescaping, UnescapeStep
<1>2. UnescapeByte(Decoded(out), a) = Decoded(Append(out, a))
  <2>1. Decoded(out).code = << >>
    BY DEF Decoded
  <2>2. UnescapeByte(Decoded(out), a) = [Decoded(out) EXCEPT !.out = Append(@, a)]
    BY <2>1 DEF UnescapeByte
  <2>3. QED
    BY <2>2 DEF Decoded
<1>3. QED
  BY <1>1, <1>2

\* An escape is taken for the character it stands for.
LEMMA UnescapeCode ==
  ASSUME NEW field \in Seq(Byte), NEW out, Unescaping(field) = Decoded(out),
         NEW high \in Byte, NEW low \in Byte
  PROVE  Unescaping(Append(Append(Append(field, "%"), high), low))
           = Decoded(Append(out, HexChar(high, low)))
<1> DEFINE f1 == Append(field, "%")
           f2 == Append(f1, high)
           f3 == Append(f2, low)
<1>0. "%" \in Byte
  BY NamedBytes
<1>1. f1 \in Seq(Byte) /\ f2 \in Seq(Byte)
  BY <1>0, AppendProperties
<1>2. Unescaping(f1) = UnescapeByte(Decoded(out), "%")
  BY <1>0, Unescapes!FoldAppend DEF Unescaping, UnescapeStep
<1> HIDE DEF f1
<1>3. Unescaping(f2) = UnescapeByte(Unescaping(f1), high)
  BY <1>1, Unescapes!FoldAppend DEF Unescaping, UnescapeStep
<1> HIDE DEF f2
<1>4. Unescaping(f3) = UnescapeByte(Unescaping(f2), low)
  BY <1>1, Unescapes!FoldAppend DEF Unescaping, UnescapeStep
<1>5. UnescapeByte(Decoded(out), "%") = [out |-> out, code |-> <<"%">>]
  BY DEF UnescapeByte, Decoded
<1>6. UnescapeByte([out |-> out, code |-> <<"%">>], high) = [out |-> out, code |-> <<"%", high>>]
  BY DEF UnescapeByte
<1>7. UnescapeByte([out |-> out, code |-> <<"%", high>>], low) = Decoded(Append(out, HexChar(high, low)))
  BY DEF UnescapeByte, Decoded
<1>8. QED
  BY <1>2, <1>3, <1>4, <1>5, <1>6, <1>7 DEF f1, f2

\* One character more.
LEMMA UnescapeCharacter ==
  ASSUME NEW field \in Seq(Byte), NEW out \in Seq(Byte), Unescaping(field) = Decoded(out),
         NEW c \in Byte
  PROVE  Unescaping(field \o OnTheWire(c)) = Decoded(out \o Utf8Bytes(c))
<1>1. ASSUME NEW a \in Byte, a # "%", OnTheWire(c) = <<a>>, Utf8Bytes(c) = <<a>>
      PROVE  Unescaping(field \o OnTheWire(c)) = Decoded(out \o Utf8Bytes(c))
  <2>1. field \o <<a>> = Append(field, a) /\ out \o <<a>> = Append(out, a)
    BY ShortTexts
  <2>2. Unescaping(Append(field, a)) = Decoded(Append(out, a))
    BY <1>1, UnescapeOne
  <2>3. QED
    BY <1>1, <2>1, <2>2
<1>2. ASSUME NEW a \in Byte, NEW b \in Byte, a # "%", b # "%",
             OnTheWire(c) = <<a, b>>, Utf8Bytes(c) = <<a, b>>
      PROVE  Unescaping(field \o OnTheWire(c)) = Decoded(out \o Utf8Bytes(c))
  <2>1. /\ field \o <<a, b>> = Append(Append(field, a), b)
        /\ out \o <<a, b>> = Append(Append(out, a), b)
        /\ Append(field, a) \in Seq(Byte)
    BY ShortTexts, AppendProperties
  <2>2. Unescaping(Append(field, a)) = Decoded(Append(out, a))
    BY <1>2, UnescapeOne
  <2>3. Unescaping(Append(Append(field, a), b)) = Decoded(Append(Append(out, a), b))
    BY <1>2, <2>1, <2>2, UnescapeOne
  <2>4. QED
    BY <1>2, <2>1, <2>3
<1>3. ASSUME NEW high \in Byte, NEW low \in Byte, OnTheWire(c) = <<"%", high, low>>,
             Utf8Bytes(c) = <<c>>, HexChar(high, low) = c
      PROVE  Unescaping(field \o OnTheWire(c)) = Decoded(out \o Utf8Bytes(c))
  <2>1. "%" \in Byte
    BY NamedBytes
  <2>2. /\ field \o <<"%", high, low>> = Append(Append(Append(field, "%"), high), low)
        /\ out \o <<c>> = Append(out, c)
    BY <2>1, ShortTexts
  <2>3. Unescaping(Append(Append(Append(field, "%"), high), low)) = Decoded(Append(out, c))
    BY <1>3, UnescapeCode
  <2>4. QED
    BY <1>3, <2>2, <2>3
<1>4. CASE c = "%"
  <2>1. /\ OnTheWire(c) = <<"%", "2", "5">> /\ Utf8Bytes(c) = <<c>> /\ HexChar("2", "5") = c
        /\ "2" \in Byte /\ "5" \in Byte
    BY <1>4, NamedBytes DEF OnTheWire, Escaped, Utf8Bytes, HexChar
  <2>2. QED
    BY <1>3, <2>1
<1>5. CASE c = "|"
  <2>1. /\ OnTheWire(c) = <<"%", "7", "C">> /\ Utf8Bytes(c) = <<c>> /\ HexChar("7", "C") = c
        /\ "7" \in Byte /\ "C" \in Byte
    BY <1>5, NamedBytes DEF OnTheWire, Escaped, Utf8Bytes, HexChar
  <2>2. QED
    BY <1>3, <2>1
<1>6. CASE c \notin {"%", "|"}
  <2>1. OnTheWire(c) = Utf8Bytes(c)
    BY <1>6 DEF OnTheWire
  <2>2. CASE c \in {"e9", "c3", "c2", "a9", "83", "82"}
    <3>1. /\ c = "e9" => Utf8Bytes(c) = <<"c3", "a9">>
          /\ c = "c3" => Utf8Bytes(c) = <<"c3", "83">>
          /\ c = "c2" => Utf8Bytes(c) = <<"c3", "82">>
          /\ c \in {"a9", "83", "82"} => Utf8Bytes(c) = <<"c2", c>>
      BY DEF Utf8Bytes
    <3>2. "c3" \in Byte /\ "a9" \in Byte /\ "83" \in Byte /\ "82" \in Byte /\ "c2" \in Byte
      BY NamedBytes
    <3>3. \E a, b \in Byte : a # "%" /\ b # "%" /\ Utf8Bytes(c) = <<a, b>>
      BY <2>2, <3>1, <3>2
    <3>4. QED
      BY <1>2, <2>1, <3>3
  <2>3. CASE c \notin {"e9", "c3", "c2", "a9", "83", "82"}
    <3>1. Utf8Bytes(c) = <<c>> /\ c # "%"
      BY <1>6, <2>3 DEF Utf8Bytes
    <3>2. QED
      BY <1>1, <2>1, <3>1
  <2>4. QED
    BY <2>2, <2>3
<1>7. QED
  BY <1>4, <1>5, <1>6

\* What is unescaped are the bytes that were escaped, each taken for a character: an
\* ASCII text is itself again.
LEMMA UnescapeOfEscape ==
  ASSUME NEW x \in Seq(Byte)
  PROVE  Unescape(Escape(x)) = Utf8(x)
<1> DEFINE T == {s \in Seq(Byte) : Unescaping(Escape(s)) = Decoded(Utf8(s))}
<1>1. << >> \in T
  <2>1. Unescaping(<< >>) = Decoded(<< >>)
    BY Unescapes!FoldEmpty DEF Unescaping
  <2>2. << >> \in Seq(Byte) /\ Escape(<< >>) = << >> /\ Utf8(<< >>) = << >>
    BY EmptySeq, EscapeAppend, Utf8Append, NamedBytes
  <2>3. QED
    BY <2>1, <2>2
<1>2. ASSUME NEW s \in Seq(Byte), NEW c \in Byte, s \in T PROVE Append(s, c) \in T
  <2>1. /\ Escape(s) \in Seq(Byte) /\ Escape(Append(s, c)) = Escape(s) \o OnTheWire(c)
        /\ Utf8(s) \in Seq(Byte) /\ Utf8(Append(s, c)) = Utf8(s) \o Utf8Bytes(c)
    BY EscapeAppend, Utf8Append
  <2>2. Unescaping(Escape(s)) = Decoded(Utf8(s))
    BY <1>2
  <2>3. Unescaping(Escape(s) \o OnTheWire(c)) = Decoded(Utf8(s) \o Utf8Bytes(c))
    BY <2>1, <2>2, UnescapeCharacter
  <2>4. Append(s, c) \in Seq(Byte)
    BY AppendProperties
  <2>5. QED
    BY <2>1, <2>3, <2>4
<1> HIDE DEF T
<1>3. x \in T
  BY <1>1, <1>2, ByteByByte
<1>4. Unescaping(Escape(x)) = Decoded(Utf8(x))
  BY <1>3 DEF T
<1>5. QED
  BY <1>4, UnescapeIsLoop DEF Decoded

\* A byte that is not in a text.
Without(text, byte) == \A i \in 1..Len(text) : text[i] # byte

\* A byte that is in no part is not in the whole.
LEMMA WithoutFacts ==
  ASSUME NEW X, NEW s \in Seq(X), NEW t \in Seq(X), NEW a \in X, NEW b, Without(s, b)
  PROVE  /\ a # b => Without(Append(s, a), b)
         /\ Without(t, b) => Without(s \o t, b)
<1>1. Len(s) \in Nat /\ Len(t) \in Nat
  BY LenProperties
<1>2. ASSUME a # b PROVE Without(Append(s, a), b)
  <2>1. /\ Len(Append(s, a)) = Len(s) + 1 /\ Append(s, a)[Len(s) + 1] = a
        /\ \A i \in 1..Len(s) : Append(s, a)[i] = s[i]
    BY AppendProperties
  <2>2. \A i \in 1..(Len(s) + 1) : i \in 1..Len(s) \/ i = Len(s) + 1
    BY <1>1
  <2>3. QED
    BY <1>2, <2>1, <2>2 DEF Without
<1>3. ASSUME Without(t, b) PROVE Without(s \o t, b)
  <2>1. /\ Len(s \o t) = Len(s) + Len(t)
        /\ \A i \in 1..(Len(s) + Len(t)) : (s \o t)[i] = IF i <= Len(s) THEN s[i] ELSE t[i - Len(s)]
    BY ConcatProperties
  <2>2. ASSUME NEW i \in 1..(Len(s) + Len(t)) PROVE (s \o t)[i] # b
    <3>1. CASE i <= Len(s)
      BY <1>1, <2>1, <3>1 DEF Without
    <3>2. CASE ~(i <= Len(s))
      <4>1. i - Len(s) \in 1..Len(t)
        BY <1>1, <3>2
      <4>2. t[i - Len(s)] # b
        BY <1>3, <4>1 DEF Without
      <4>3. QED
        BY <2>1, <3>2, <4>2
    <3>3. QED
      BY <3>1, <3>2
  <2>3. QED
    BY <2>1, <2>2 DEF Without
<1>4. QED
  BY <1>2, <1>3

\* A byte is missing in a text if it is in its parts.
LEMMA WithoutParts ==
  ASSUME NEW X, NEW s \in Seq(X), NEW t \in Seq(X), NEW a \in X, NEW b
  PROVE  /\ Without(Append(s, a), b) <=> Without(s, b) /\ a # b
         /\ Without(s \o t, b) <=> Without(s, b) /\ Without(t, b)
<1>1. Len(s) \in Nat /\ Len(t) \in Nat
  BY LenProperties
<1>2. ASSUME Without(Append(s, a), b) PROVE Without(s, b) /\ a # b
  <2>1. /\ Len(Append(s, a)) = Len(s) + 1 /\ Append(s, a)[Len(s) + 1] = a
        /\ \A i \in 1..Len(s) : Append(s, a)[i] = s[i] /\ i \in 1..(Len(s) + 1)
    BY AppendProperties, <1>1
  <2>2. Len(s) + 1 \in 1..(Len(s) + 1)
    BY <1>1
  <2>3. QED
    BY <1>2, <2>1, <2>2 DEF Without
<1>3. ASSUME Without(s \o t, b) PROVE Without(s, b) /\ Without(t, b)
  <2>1. /\ Len(s \o t) = Len(s) + Len(t)
        /\ \A i \in 1..(Len(s) + Len(t)) : (s \o t)[i] = IF i <= Len(s) THEN s[i] ELSE t[i - Len(s)]
    BY ConcatProperties
  <2>2. ASSUME NEW i \in 1..Len(s) PROVE s[i] # b
    <3>1. i \in 1..(Len(s) + Len(t)) /\ i <= Len(s)
      BY <1>1
    <3>2. QED
      BY <1>3, <2>1, <3>1 DEF Without
  <2>3. ASSUME NEW i \in 1..Len(t) PROVE t[i] # b
    <3>1. Len(s) + i \in 1..(Len(s) + Len(t)) /\ ~(Len(s) + i <= Len(s)) /\ (Len(s) + i) - Len(s) = i
      BY <1>1
    <3>2. (s \o t)[Len(s) + i] = t[i]
      BY <2>1, <3>1
    <3>3. QED
      BY <1>3, <2>1, <3>1, <3>2 DEF Without
  <2>4. QED
    BY <2>2, <2>3 DEF Without
<1>4. QED
  BY <1>2, <1>3, WithoutFacts

\* No field that is escaped has a "|", and line breaks are what they were.
LEMMA EscapeWithout ==
  ASSUME NEW x \in Seq(Byte)
  PROVE  /\ Without(Escape(x), "|")
         /\ Without(x, Newline) <=> Without(Escape(x), Newline)
<1> DEFINE T == {s \in Seq(Byte) : /\ Without(Escape(s), "|")
                                   /\ Without(s, Newline) <=> Without(Escape(s), Newline)}
<1>1. << >> \in T
  <2>1. << >> \in Seq(Byte) /\ Escape(<< >>) = << >> /\ Len(<< >>) = 0
    BY EmptySeq, EscapeAppend, NamedBytes
  <2>2. QED
    BY <2>1 DEF Without
<1>2. ASSUME NEW s \in Seq(Byte), NEW c \in Byte, s \in T PROVE Append(s, c) \in T
  <2>1. /\ Escape(s) \in Seq(Byte) /\ Escape(Append(s, c)) = Escape(s) \o OnTheWire(c)
        /\ OnTheWire(c) \in Seq(Byte) /\ Append(s, c) \in Seq(Byte)
    BY EscapeAppend, CharacterTypes, AppendProperties DEF OnTheWire
  <2>2. Without(OnTheWire(c), "|") /\ (c # Newline <=> Without(OnTheWire(c), Newline))
    <3>1. CASE c \in {"%", "|"}
      <4>1. OnTheWire(c) = <<"%", "2", "5">> \/ OnTheWire(c) = <<"%", "7", "C">>
        BY <3>1 DEF OnTheWire, Escaped
      <4>2. c # Newline
        BY <3>1 DEF Newline
      <4>3. \A d, e, g : \A i \in 1..Len(<<d, e, g>>) : <<d, e, g>>[i] \in {d, e, g}
        OBVIOUS
      <4>4. \A i \in 1..Len(OnTheWire(c)) : OnTheWire(c)[i] \in {"%", "2", "5", "7", "C"}
        BY <4>1, <4>3
      <4>5. QED
        BY <4>2, <4>4 DEF Without, Newline
    <3>2. CASE c \notin {"%", "|"} /\ Utf8Bytes(c) = <<c>>
      <4>1. OnTheWire(c) = <<c>>
        BY <3>2 DEF OnTheWire
      <4>2. \A i \in 1..Len(<<c>>) : <<c>>[i] = c
        OBVIOUS
      <4>3. 1 \in 1..Len(<<c>>)
        OBVIOUS
      <4>4. QED
        BY <3>2, <4>1, <4>2, <4>3 DEF Without
    <3>3. CASE c \notin {"%", "|"} /\ Utf8Bytes(c) # <<c>>
      <4>1. OnTheWire(c) = Utf8Bytes(c)
        BY <3>3 DEF OnTheWire
      <4>2. \/ Utf8Bytes(c) = <<"c3", "a9">> \/ Utf8Bytes(c) = <<"c3", "83">>
            \/ Utf8Bytes(c) = <<"c3", "82">>
            \/ Utf8Bytes(c) = <<"c2", c>> /\ c \in {"a9", "83", "82"}
        BY <3>3 DEF Utf8Bytes
      <4>a. c # Newline
        BY <3>3 DEF Utf8Bytes, Newline
      <4>3. ASSUME NEW a, NEW b, a \in {"c2", "c3"}, b \in {"a9", "83", "82"},
                   OnTheWire(c) = <<a, b>>
            PROVE  Without(OnTheWire(c), "|") /\ Without(OnTheWire(c), Newline)
        <5>1. \A i \in 1..Len(<<a, b>>) : <<a, b>>[i] \in {a, b}
          OBVIOUS
        <5>2. a # "|" /\ b # "|" /\ a # Newline /\ b # Newline
          BY <4>3 DEF Newline
        <5>3. QED
          BY <4>3, <5>1, <5>2 DEF Without
      <4>4. QED
        BY <4>1, <4>2, <4>3, <4>a
    <3>4. QED
      BY <3>1, <3>2, <3>3
  <2>3. Without(Escape(Append(s, c)), "|")
    BY <1>2, <2>1, <2>2, WithoutFacts
  <2>4. Without(Append(s, c), Newline) <=> Without(s, Newline) /\ c # Newline
    BY WithoutParts
  <2>6. /\ Without(Escape(Append(s, c)), Newline)
           <=> Without(Escape(s), Newline) /\ Without(OnTheWire(c), Newline)
    BY <2>1, WithoutParts
  <2>5. QED
    BY <1>2, <2>1, <2>2, <2>3, <2>4, <2>6
<1> HIDE DEF T
<1>3. x \in T
  BY <1>1, <1>2, ByteByByte
<1>4. QED
  BY <1>3 DEF T

\* UTF-8 is the text itself if it is ASCII, and longer if it is not.
LEMMA Utf8OfAscii ==
  ASSUME NEW x \in Seq(Byte)
  PROVE  /\ ToSet(x) \cap HighBytes = {} => Utf8(x) = x
         /\ ToSet(x) \cap HighBytes # {} => Len(Utf8(x)) > Len(x)
<1> DEFINE Ascii(s) == ToSet(s) \cap HighBytes = {}
           T == {s \in Seq(Byte) : /\ Ascii(s) => Utf8(s) = s
                                   /\ Len(Utf8(s)) >= Len(s)
                                   /\ ~Ascii(s) => Len(Utf8(s)) > Len(s)}
<1>1. << >> \in T
  <2>1. << >> \in Seq(Byte) /\ Utf8(<< >>) = << >> /\ ToSet(<< >>) = {}
    BY EmptySeq, Utf8Append, NamedBytes DEF ToSet
  <2>2. Len(<< >>) = 0
    OBVIOUS
  <2>3. QED
    BY <2>1, <2>2
<1>2. ASSUME NEW s \in Seq(Byte), NEW c \in Byte, s \in T PROVE Append(s, c) \in T
  <2>1. /\ Utf8(s) \in Seq(Byte) /\ Utf8(Append(s, c)) = Utf8(s) \o Utf8Bytes(c)
        /\ Utf8Bytes(c) \in Seq(Byte) /\ Append(s, c) \in Seq(Byte) /\ Len(Append(s, c)) = Len(s) + 1
    BY Utf8Append, CharacterTypes, AppendProperties
  <2>2. Len(Utf8(s)) \in Nat /\ Len(s) \in Nat /\ Len(Utf8Bytes(c)) \in Nat
    BY <2>1, LenProperties
  <2>3. Len(Utf8(Append(s, c))) = Len(Utf8(s)) + Len(Utf8Bytes(c))
    BY <2>1, ConcatProperties
  <2>4. /\ c \notin HighBytes => Utf8Bytes(c) = <<c>>
        /\ c \in HighBytes => Len(Utf8Bytes(c)) = 2
    BY DEF Utf8Bytes, HighBytes
  <2>5. Len(<<c>>) = 1 /\ s \o <<c>> = Append(s, c)
    BY ShortTexts
  <2>6. ToSet(Append(s, c)) = ToSet(s) \cup {c}
    <3>1. /\ DOMAIN s = 1..Len(s) /\ DOMAIN Append(s, c) = 1..(Len(s) + 1)
          /\ Append(s, c)[Len(s) + 1] = c
          /\ \A i \in 1..Len(s) : Append(s, c)[i] = s[i] /\ i \in 1..(Len(s) + 1)
      BY AppendProperties, LenProperties, <2>1
    <3>2. \A i \in 1..(Len(s) + 1) : i \in 1..Len(s) \/ i = Len(s) + 1
      BY <2>2
    <3>3. Len(s) + 1 \in 1..(Len(s) + 1)
      BY <2>2
    <3>4. QED
      BY <3>1, <3>2, <3>3 DEF ToSet
  <2>7. Ascii(Append(s, c)) <=> Ascii(s) /\ c \notin HighBytes
    BY <2>6
  <2> HIDE DEF Ascii
  <2>8. /\ Ascii(s) => Utf8(s) = s
        /\ Len(Utf8(s)) >= Len(s)
        /\ ~Ascii(s) => Len(Utf8(s)) > Len(s)
    BY <1>2
  <2>9. Ascii(Append(s, c)) => Utf8(Append(s, c)) = Append(s, c)
    BY <2>1, <2>4, <2>5, <2>7, <2>8
  <2>10. /\ c \notin HighBytes => Len(Utf8Bytes(c)) = 1
         /\ c \in HighBytes => Len(Utf8Bytes(c)) = 2
    <3>1. CASE c \notin HighBytes
      <4>1. Utf8Bytes(c) = <<c>>
        BY <2>4, <3>1
      <4>2. QED
        BY <2>5, <3>1, <4>1
    <3>2. CASE c \in HighBytes
      BY <2>4, <3>2
    <3>3. QED
      BY <3>1, <3>2
  <2>11. /\ Len(Utf8(Append(s, c))) >= Len(Append(s, c))
         /\ ~Ascii(Append(s, c)) => Len(Utf8(Append(s, c))) > Len(Append(s, c))
    <3> DEFINE a == Len(Utf8(Append(s, c)))
               b == Len(Append(s, c))
               u == Len(Utf8(s))
               l == Len(s)
               k == Len(Utf8Bytes(c))
    <3>1. /\ a = u + k /\ b = l + 1 /\ u \in Nat /\ l \in Nat /\ k \in Nat
          /\ u >= l /\ (~Ascii(s) => u > l) /\ (k = 1 \/ k = 2)
          /\ c \in HighBytes => k = 2
      BY <2>1, <2>2, <2>3, <2>8, <2>10
    <3>2. ~Ascii(Append(s, c)) => ~Ascii(s) \/ c \in HighBytes
      BY <2>7
    <3> HIDE DEF a, b, u, l, k
    <3>3. a >= b /\ (~Ascii(Append(s, c)) => a > b)
      BY <3>1, <3>2
    <3>4. QED
      BY <3>3 DEF a, b
  <2>12. QED
    BY <2>1, <2>9, <2>11
<1> HIDE DEF T
<1>3. x \in T
  BY <1>1, <1>2, ByteByByte
<1>4. QED
  BY <1>3 DEF T

-----------------------------------------------------------------------------
(* Lists of fields, joined and split                                         *)

\* A joined text is made of the bytes of its fields, and the separator.
LEMMA JoinFacts ==
  ASSUME NEW fields \in Seq(Seq(Byte)), NEW separator \in Byte
  PROVE  /\ Join(fields, separator) \in Seq(Byte)
         /\ Join(<< >>, separator) = << >>
<1>1. Join(<< >>, separator) = << >>
  <2>1. [i \in DOMAIN << >> |-> IF i = 1 THEN << >>[i] ELSE <<separator>> \o << >>[i]] = << >>
    OBVIOUS
  <2>2. QED
    BY <2>1, FlattenEmpty DEF Join
<1>2. CASE fields = << >>
  BY <1>1, <1>2, EmptySeq
<1>3. CASE fields # << >>
  <2>1. TextFields(fields)
    BY <1>3 DEF TextFields
  <2>2. PICK start : Layout(fields, separator, Join(fields, separator), start)
    BY <2>1, JoinLayout
  <2>3. QED
    BY <1>1, <2>2, LayoutText
<1>4. QED
  BY <1>2, <1>3

\* A byte that is in no field and is not the separator is not in the joined text.
LEMMA JoinWithout ==
  ASSUME NEW fields \in Seq(Seq(Byte)), NEW separator \in Byte, NEW b, separator # b,
         \A i \in 1..Len(fields) : Without(fields[i], b)
  PROVE  Without(Join(fields, separator), b)
<1> DEFINE X == {f \in Seq(Byte) : Without(f, b)}
           T == {s \in Seq(X) : Without(Join(s, separator), b)}
<1>1. << >> \in T
  <2>1. << >> \in Seq(X) /\ << >> \in Seq(Seq(Byte)) /\ Len(<< >>) = 0
    BY EmptySeq
  <2>2. Join(<< >>, separator) = << >>
    BY <2>1, JoinFacts
  <2>3. QED
    BY <2>1, <2>2 DEF Without
<1>2. ASSUME NEW s \in Seq(X), NEW f \in X, s \in T PROVE Append(s, f) \in T
  <2>1. f \in Seq(Byte) /\ Without(f, b) /\ Append(s, f) \in Seq(X)
    BY AppendProperties
  <2>2. s \in Seq(Seq(Byte))
    <3>1. X \subseteq Seq(Byte)
      OBVIOUS
    <3> HIDE DEF X
    <3>2. QED
      BY <3>1, SeqMonotonic
  <2>3. Without(Join(s, separator), b)
    BY <1>2
  <2> HIDE DEF X
  <2>4. CASE s = << >>
    <3>1. Append(s, f) = <<f>>
      BY <2>4
    <3>2. QED
      BY <2>1, <3>1, JoinOne
  <2>5. CASE s # << >>
    <3>1. Join(Append(s, f), separator) = Join(s, separator) \o (<<separator>> \o f)
      BY <2>1, <2>2, <2>5, JoinAppend
    <3>2. Join(s, separator) \in Seq(Byte) /\ <<separator>> \in Seq(Byte)
      BY <2>2, JoinFacts, OneByte
    <3>3. Without(<<separator>>, b)
      BY DEF Without
    <3>4. <<separator>> \o f \in Seq(Byte) /\ Without(<<separator>> \o f, b)
      BY <2>1, <3>2, <3>3, WithoutParts, ByteFirst
    <3>5. Without(Join(s, separator) \o (<<separator>> \o f), b)
      BY <2>3, <3>2, <3>4, WithoutParts
    <3>6. QED
      BY <2>1, <3>1, <3>5
  <2>6. QED
    BY <2>4, <2>5
<1>3. fields \in Seq(X)
  <2>1. Len(fields) \in Nat /\ fields \in [1..Len(fields) -> Seq(Byte)]
    BY LenProperties
  <2>2. fields \in [1..Len(fields) -> X]
    BY <2>1
  <2> HIDE DEF X
  <2>3. fields \in Seq(X) <=> \E n \in Nat : fields \in [1..n -> X]
    BY SeqDef
  <2>4. QED
    BY <2>1, <2>2, <2>3
<1> HIDE DEF T, X
<1>4. fields \in T
  BY <1>1, <1>2, <1>3, ByteByByte
<1>5. QED
  BY <1>4 DEF T

\* splitn as it goes, and what it has read of a text that grows.
LEMMA SplitAppend ==
  ASSUME NEW text \in Seq(Byte), NEW byte \in Byte, NEW separator, NEW limit
  PROVE  /\ SplitN(<< >>, separator, limit) = << << >> >>
         /\ SplitN(Append(text, byte), separator, limit)
              = SplitByte(separator, limit, SplitN(text, separator, limit), byte)
<1> DEFINE fixed == [separator |-> separator, limit |-> limit]
<1>1. SplitN(<< >>, separator, limit) = << << >> >>
  BY SplitIsLoop, Splits!FoldEmpty
<1>2. Splits!Fold(fixed, << << >> >>, Append(text, byte))
        = SplitStep(fixed, Splits!Fold(fixed, << << >> >>, text), byte)
  BY Splits!FoldAppend
<1>3. fixed.separator = separator /\ fixed.limit = limit
  OBVIOUS
<1>4. \A s : SplitN(s, separator, limit) = Splits!Fold(fixed, << << >> >>, s)
  BY SplitIsLoop
<1> HIDE DEF fixed
<1>5. SplitN(Append(text, byte), separator, limit)
        = SplitByte(separator, limit, SplitN(text, separator, limit), byte)
  BY <1>2, <1>3, <1>4 DEF SplitStep
<1>6. QED
  BY <1>1, <1>5

\* A list without its last element, and with another in its place.
LEMMA ButLast ==
  ASSUME NEW X, NEW s \in Seq(X), s # << >>
  PROVE  /\ SubSeq(s, 1, Len(s) - 1) \in Seq(X)
         /\ Len(SubSeq(s, 1, Len(s) - 1)) = Len(s) - 1
         /\ \A i \in 1..(Len(s) - 1) : SubSeq(s, 1, Len(s) - 1)[i] = s[i]
         /\ s = Append(SubSeq(s, 1, Len(s) - 1), s[Len(s)])
<1>1. PICK k \in Nat : Len(s) = k + 1
  <2>1. Len(s) - 1 \in Nat /\ Len(s) = (Len(s) - 1) + 1
    BY EmptySeq
  <2>2. QED
    BY <2>1
<1>2. /\ SubSeq(s, 1, k) \in Seq(X) /\ Len(SubSeq(s, 1, k)) = k
      /\ \A i \in 1..k : SubSeq(s, 1, k)[i] = s[i]
  BY <1>1
<1>3. s = Append(SubSeq(s, 1, k), s[k + 1])
  BY <1>1
<1>4. Len(s) - 1 = k
  BY <1>1
<1>5. QED
  BY <1>1, <1>2, <1>3, <1>4

\* A list with another last element.
LEMMA OtherLast ==
  ASSUME NEW X, NEW s \in Seq(X), s # << >>, NEW x \in X
  PROVE  [s EXCEPT ![Len(s)] = x] = Append(SubSeq(s, 1, Len(s) - 1), x)
<1> DEFINE n == Len(s)
           front == SubSeq(s, 1, n - 1)
           a == [s EXCEPT ![n] = x]
           b == Append(front, x)
<1>1. n \in Nat \ {0} /\ n \in 1..n
  BY EmptySeq
<1>2. a \in Seq(X) /\ Len(a) = n /\ \A i \in 1..n : a[i] = IF i = n THEN x ELSE s[i]
  BY <1>1, ExceptSeq
<1>3. front \in Seq(X) /\ Len(front) = n - 1 /\ \A i \in 1..(n - 1) : front[i] = s[i]
  BY ButLast
<1> HIDE DEF n, front, a
<1>4. b \in Seq(X) /\ Len(b) = n /\ b[n] = x /\ \A i \in 1..(n - 1) : b[i] = s[i]
  <2>1. /\ b \in Seq(X) /\ Len(b) = Len(front) + 1 /\ b[Len(front) + 1] = x
        /\ \A i \in 1..Len(front) : b[i] = front[i]
    BY <1>3, AppendProperties
  <2>2. Len(front) + 1 = n
    BY <1>1, <1>3
  <2>3. QED
    BY <1>3, <2>1, <2>2
<1> HIDE DEF b
<1>5. \A i \in 1..n : a[i] = b[i]
  <2>1. \A i \in 1..n : i \in 1..(n - 1) \/ i = n
    BY <1>1
  <2>2. \A i \in 1..(n - 1) : i # n /\ i \in 1..n
    BY <1>1
  <2>3. QED
    BY <1>1, <1>2, <1>4, <2>1, <2>2
<1>6. a = b
  BY <1>2, <1>4, <1>5, SeqEqual
<1>7. QED
  BY <1>6 DEF a, b, front, n

\* One more byte of the last field.
LEMMA JoinLonger ==
  ASSUME NEW fields, TextFields(fields), NEW separator \in Byte, NEW byte \in Byte
  PROVE  /\ TextFields([fields EXCEPT ![Len(fields)] = Append(@, byte)])
         /\ Join([fields EXCEPT ![Len(fields)] = Append(@, byte)], separator)
              = Append(Join(fields, separator), byte)
<1> DEFINE n == Len(fields)
           front == SubSeq(fields, 1, n - 1)
           last == fields[n]
           longer == Append(last, byte)
           new == [fields EXCEPT ![n] = longer]
<1>1. n \in Nat \ {0} /\ fields \in Seq(Seq(Byte)) /\ last \in Seq(Byte)
  BY FieldsFacts DEF TextFields
<1>2. longer \in Seq(Byte)
  BY <1>1, AppendProperties
<1>3. /\ front \in Seq(Seq(Byte)) /\ fields = Append(front, last)
      /\ n = 1 => front = << >>
      /\ n # 1 => front # << >>
  <2>1. fields # << >>
    BY DEF TextFields
  <2>2. front \in Seq(Seq(Byte)) /\ Len(front) = n - 1 /\ fields = Append(front, last)
    BY <1>1, <2>1, ButLast
  <2>3. n = 1 => front = << >>
    BY <1>1, <2>2, EmptySeq
  <2>4. Len(<< >>) = 0
    OBVIOUS
  <2>5. n # 1 => front # << >>
    <3> HIDE DEF front, n
    <3>1. QED
      BY <1>1, <2>2, <2>4
  <2>6. QED
    BY <2>2, <2>3, <2>5
<1> HIDE DEF longer
<1>4. new = Append(front, longer)
  BY <1>1, <1>2, OtherLast DEF TextFields
<1>5. new \in Seq(Seq(Byte)) /\ new # << >>
  <2>1. Append(front, longer) \in Seq(Seq(Byte)) /\ Append(front, longer) # << >>
    BY <1>2, <1>3, AppendProperties
  <2>2. QED
    BY <1>4, <2>1
<1> HIDE DEF front, last, new
<1>6. CASE n = 1
  <2>1. fields = <<last>> /\ new = <<longer>>
    BY <1>3, <1>4, <1>6
  <2>2. Join(fields, separator) = last /\ Join(new, separator) = longer
    BY <1>1, <1>2, <2>1, JoinOne
  <2>3. QED
    BY <1>5, <2>2 DEF TextFields, new, longer, last, n
<1>7. CASE n # 1
  <2> DEFINE text == Join(front, separator)
  <2>1. /\ Join(fields, separator) = text \o (<<separator>> \o last)
        /\ Join(new, separator) = text \o (<<separator>> \o longer)
    BY <1>1, <1>2, <1>3, <1>4, <1>7, JoinAppend
  <2>2. text \in Seq(Byte)
    BY <1>3, JoinFacts
  <2> HIDE DEF text
  <2>3. <<separator>> \o last \in Seq(Byte)
    BY <1>1, ByteFirst
  <2>4. <<separator>> \o longer = Append(<<separator>> \o last, byte)
    BY <1>1 DEF longer
  <2> DEFINE tail == <<separator>> \o last
  <2> HIDE DEF tail
  <2>5. text \o Append(tail, byte) = Append(text \o tail, byte)
    BY <2>2, <2>3 DEF tail
  <2>6. Join(new, separator) = Append(Join(fields, separator), byte)
    BY <2>1, <2>4, <2>5 DEF tail
  <2>7. QED
    BY <1>5, <2>6 DEF TextFields, new, longer, last, n
<1>8. QED
  BY <1>6, <1>7

\* What splitn has read, joined again, is the text.
LEMMA JoinOfSplit ==
  ASSUME NEW text \in Seq(Byte), NEW separator \in Byte, NEW limit
  PROVE  /\ TextFields(SplitN(text, separator, limit))
         /\ Join(SplitN(text, separator, limit), separator) = text
<1> DEFINE T == {s \in Seq(Byte) : /\ TextFields(SplitN(s, separator, limit))
                                   /\ Join(SplitN(s, separator, limit), separator) = s}
<1>1. << >> \in T
  <2> DEFINE e == << >>
  <2>1. e \in Seq(Byte)
    BY EmptySeq
  <2>2. SplitN(e, separator, limit) = <<e>>
    BY SplitAppend
  <2> HIDE DEF e
  <2>3. TextFields(<<e>>)
    BY <2>1 DEF TextFields
  <2>4. Join(<<e>>, separator) = e
    BY <2>1, JoinOne
  <2>5. e \in T
    BY <2>1, <2>2, <2>3, <2>4
  <2>6. QED
    BY <2>5 DEF e
<1>2. ASSUME NEW s \in Seq(Byte), NEW byte \in Byte, s \in T PROVE Append(s, byte) \in T
  <2> DEFINE read == SplitN(s, separator, limit)
             new == SplitN(Append(s, byte), separator, limit)
  <2>1. TextFields(read) /\ Join(read, separator) = s
    BY <1>2
  <2>2. new = SplitByte(separator, limit, read, byte)
    BY SplitAppend
  <2> HIDE DEF read, new
  <2>3. CASE byte = separator /\ Len(read) < limit
    <3> DEFINE e == << >>
    <3>1. e \in Seq(Byte) /\ <<separator>> \o e = <<separator>>
      BY EmptySeq
    <3>2. new = Append(read, e)
      BY <2>2, <2>3 DEF SplitByte
    <3> HIDE DEF e
    <3>3. TextFields(new)
      BY <2>1, <3>1, <3>2, AppendProperties DEF TextFields
    <3>4. Join(new, separator) = s \o (<<separator>> \o e)
      BY <2>1, <3>1, <3>2, JoinAppend DEF TextFields
    <3>5. s \o <<separator>> = Append(s, separator)
      OBVIOUS
    <3>6. Join(new, separator) = Append(s, byte)
      BY <2>3, <3>1, <3>4, <3>5
    <3>7. QED
      BY <3>3, <3>6, AppendProperties DEF new
  <2>4. CASE ~(byte = separator /\ Len(read) < limit)
    <3>1. new = [read EXCEPT ![Len(read)] = Append(@, byte)]
      BY <2>2, <2>4 DEF SplitByte
    <3>2. TextFields(new) /\ Join(new, separator) = Append(s, byte)
      BY <2>1, <3>1, JoinLonger
    <3>3. QED
      BY <3>2, AppendProperties DEF new
  <2>5. QED
    BY <2>3, <2>4
<1> HIDE DEF T
<1>3. text \in T
  BY <1>1, <1>2, ByteByByte
<1>4. QED
  BY <1>3 DEF T

-----------------------------------------------------------------------------
(* Messages                                                                  *)

\* The messages by their keyword.
LEMMA MessageKinds ==
  ASSUME NEW m \in MessageType
  PROVE  /\ m.kind \in {"HELLO", "GET_BLOCKS", "GET", "INVENTORY", "HEADERS", "GET_PEERS", "PEERS",
                        "BLOCK", "END_BLOCKS"}
         /\ m.kind = "HELLO" =>
              /\ m.node_id \in Seq(Byte) /\ Plain(m.node_id) /\ m.listen_addr \in Numerals
              /\ m = Hello(m.node_id, m.listen_addr)
         /\ m.kind = "GET_BLOCKS" =>
              /\ m.from_height \in Numerals /\ m.limit \in Numerals
              /\ m = GetBlocks(m.from_height, m.limit)
         /\ m.kind = "GET" =>
              /\ m.locator \in Locators /\ m.limit \in Numerals
              /\ m = Get(m.locator, m.limit)
         /\ m.kind = "INVENTORY" => m.hashes \in Locators
         /\ m.kind = "HEADERS" =>
              /\ m.headers \in Seq([header : Tokens, nonce : Numerals])
              /\ m = Headers(m.headers)
         /\ m.kind = "GET_PEERS" => m.limit \in Numerals /\ m = GetPeers(m.limit)
         /\ m.kind = "PEERS" => m.peers \in Seq(Numerals) /\ m = Peers(m.peers)
         /\ m.kind = "BLOCK" =>
              /\ m.header \in Tokens /\ m.model_after \in Numerals
              /\ m.candidate_model \in Numerals /\ m.entries \in Seq(Numerals)
              /\ m = Block(m.header, m.model_after, m.candidate_model, m.entries)
         /\ m.kind = "END_BLOCKS" => m = EndBlocks
<1>1. CASE m \in [kind : {"HELLO"}, node_id : {id \in Seq(Byte) : Plain(id)}, listen_addr : Numerals]
  BY <1>1 DEF Hello
<1>2. CASE m \in [kind : {"GET_BLOCKS"}, from_height : Numerals, limit : Numerals]
  BY <1>2 DEF GetBlocks
<1>3. CASE m \in [kind : {"GET"}, locator : Locators, limit : Numerals]
  BY <1>3 DEF Get
<1>4. CASE m \in [kind : {"INVENTORY"}, hashes : Locators]
  BY <1>4
<1>5. CASE m \in [kind : {"HEADERS"}, headers : Seq([header : Tokens, nonce : Numerals])]
  BY <1>5 DEF Headers
<1>6. CASE m \in [kind : {"GET_PEERS"}, limit : Numerals]
  BY <1>6 DEF GetPeers
<1>7. CASE m \in [kind : {"PEERS"}, peers : Seq(Numerals)]
  BY <1>7 DEF Peers
<1>8. CASE m \in BlockMessages
  BY <1>8 DEF BlockMessages, Block
<1>9. CASE m = EndBlocks
  BY <1>9 DEF EndBlocks
<1>10. QED
  BY <1>1, <1>2, <1>3, <1>4, <1>5, <1>6, <1>7, <1>8, <1>9 DEF MessageType

\* A text that neither ends a field nor a line.
Clean(text) == text \in Seq(Byte) /\ Without(text, "|") /\ Without(text, Newline)

\* A byte, and two texts in a row.
LEMMA CleanText ==
  /\ \A b \in Byte : b # "|" /\ b # Newline => Clean(<<b>>)
  /\ \A s, t : Clean(s) /\ Clean(t) => Clean(s \o t)
<1>1. ASSUME NEW b \in Byte, b # "|", b # Newline PROVE Clean(<<b>>)
  <2>1. \A i \in 1..Len(<<b>>) : <<b>>[i] = b
    OBVIOUS
  <2>2. <<b>> \in Seq(Byte)
    BY OneByte
  <2>3. QED
    BY <1>1, <2>1, <2>2 DEF Clean, Without
<1>2. ASSUME NEW s, NEW t, Clean(s), Clean(t) PROVE Clean(s \o t)
  <2>1. s \in Seq(Byte) /\ t \in Seq(Byte)
    BY <1>2 DEF Clean
  <2>2. s \o t \in Seq(Byte)
    BY <2>1, ConcatProperties
  <2>3. Without(s, "|") /\ Without(t, "|") /\ Without(s, Newline) /\ Without(t, Newline)
    BY <1>2 DEF Clean
  <2>4. Without(s \o t, "|") /\ Without(s \o t, Newline)
    BY <2>1, <2>3, NamedBytes, WithoutFacts
  <2>5. QED
    BY <2>2, <2>4 DEF Clean
<1>3. QED
  BY <1>1, <1>2

\* The separators in a list of clean texts are the only ones.
LEMMA CleanJoin ==
  ASSUME NEW fields \in Seq(Seq(Byte)), \A i \in 1..Len(fields) : Clean(fields[i]),
         NEW separator \in {",", ";"}
  PROVE  Clean(Join(fields, separator))
<1>1. separator \in Byte /\ separator # "|" /\ separator # Newline
  BY WireAssumption DEF WireAssumption, Named, Separators, Newline
<1>2. \A i \in 1..Len(fields) : Without(fields[i], "|") /\ Without(fields[i], Newline)
  BY DEF Clean
<1>3. Without(Join(fields, separator), "|") /\ Without(Join(fields, separator), Newline)
  BY <1>1, <1>2, JoinWithout
<1>4. QED
  BY <1>1, <1>3, JoinFacts DEF Clean

\* A function on the first n numbers is a list.
LEMMA ListOfLength ==
  ASSUME NEW X, NEW n \in Nat, NEW s \in [1..n -> X]
  PROVE  s \in Seq(X) /\ Len(s) = n
<1>1. s \in Seq(X)
  BY SeqDef
<1>2. Len(s) \in Nat /\ 1..Len(s) = 1..n
  BY <1>1, LenProperties
<1>3. Len(s) = n
  <2>1. CASE Len(s) > n
    BY <1>2, <2>1
  <2>2. CASE n > Len(s)
    BY <1>2, <2>2
  <2>3. QED
    BY <1>2, <2>1, <2>2
<1>4. QED
  BY <1>1, <1>3

\* Numbers, digests, headers.
LEMMA NumeralText ==
  ASSUME NEW n \in Numerals
  PROVE  /\ Clean(n) /\ n # << >> /\ IsNumber(n)
         /\ \A s \in {",", ";"} : Without(n, s)
<1>1. n \in Seq(Digits) /\ n # << >>
  BY DEF Numerals
<1>2. Digits \subseteq Byte
  BY WireAssumption DEF WireAssumption, Named
<1>3. Len(n) \in Nat /\ DOMAIN n = 1..Len(n) /\ \A i \in 1..Len(n) : n[i] \in Digits
  BY <1>1
<1>4. n \in Seq(Byte)
  BY <1>1, <1>2, SeqMonotonic
<1>5. \A b : b \notin Digits => Without(n, b)
  BY <1>3 DEF Without
<1>6. "|" \notin Digits /\ Newline \notin Digits /\ "," \notin Digits /\ ";" \notin Digits
  BY DEF Digits, Newline
<1>7. ToSet(n) \subseteq Digits
  BY <1>3 DEF ToSet
<1>8. QED
  BY <1>1, <1>4, <1>5, <1>6, <1>7 DEF Clean, IsNumber

\* A list of numbers as texts.
LEMMA NumeralList ==
  ASSUME NEW l \in Seq(Numerals)
  PROVE  /\ l \in Seq(Seq(Byte))
         /\ \A i \in 1..Len(l) : l[i] \in Numerals /\ Clean(l[i])
<1>1. Numerals \subseteq Seq(Byte)
  BY NumeralText DEF Clean
<1>2. l \in Seq(Seq(Byte))
  BY <1>1, SeqMonotonic
<1>3. \A i \in 1..Len(l) : l[i] \in Numerals
  OBVIOUS
<1>4. QED
  BY <1>2, <1>3, NumeralText

\* What is a field of one byte.
LEMMA TokenText ==
  ASSUME NEW t \in Tokens
  PROVE  /\ Clean(t) /\ Len(t) = 1
         /\ \A s \in {",", ";"} : Without(t, s)
<1>1. t \in [1..1 -> Byte \ Separators]
  <2>1. 1..1 = {1}
    OBVIOUS
  <2>2. QED
    BY <2>1 DEF Tokens
<1>2. t \in Seq(Byte \ Separators) /\ Len(t) = 1
  BY <1>1, ListOfLength
<1>3. \A i \in 1..1 : t[i] \in Byte \ Separators
  BY <1>1
<1>4. t \in Seq(Byte)
  BY <1>2, SeqMonotonic
<1>5. \A b \in Separators : Without(t, b)
  BY <1>2, <1>3 DEF Without
<1>6. QED
  BY <1>2, <1>4, <1>5 DEF Clean, Separators

\* A list of digests as texts.
LEMMA DigestText ==
  ASSUME NEW l \in Locators
  PROVE  /\ l \in Seq(Seq(Byte))
         /\ \A i \in 1..Len(l) : Clean(l[i]) /\ Without(l[i], ",") /\ IsDigest(l[i]) /\ l[i] # << >>
<1> DEFINE D == {<<digest>> : digest \in Digests}
<1>1. l \in Seq(D)
  BY DEF Locators
<1>2. Digests \subseteq Byte
  BY WireAssumption DEF WireAssumption, Named
<1>3. ASSUME NEW d \in Digests
      PROVE  Clean(<<d>>) /\ Without(<<d>>, ",") /\ IsDigest(<<d>>) /\ <<d>> # << >>
  <2>1. d \in Byte /\ d # "|" /\ d # Newline /\ d # ","
    BY <1>2 DEF Digests, Newline
  <2>2. Clean(<<d>>)
    BY <2>1, CleanText
  <2>3. Len(<<d>>) = 1 /\ <<d>>[1] = d /\ <<d>> # << >>
    OBVIOUS
  <2>4. \A i \in 1..1 : i = 1
    OBVIOUS
  <2>5. QED
    BY <2>1, <2>2, <2>3, <2>4 DEF Without, IsDigest
<1>4. D \subseteq Seq(Byte)
  BY <1>3 DEF Clean
<1>5. \A i \in 1..Len(l) : l[i] \in D
  BY <1>1
<1> HIDE DEF D
<1>6. l \in Seq(Seq(Byte))
  BY <1>1, <1>4, SeqMonotonic
<1>7. QED
  BY <1>3, <1>5, <1>6 DEF D

\* Fields that splitn takes apart again.
CleanFields(fields) == TextFields(fields) /\ \A i \in 1..Len(fields) : Clean(fields[i])

\* Clean fields of the lengths that messages have.
LEMMA CleanLists ==
  ASSUME NEW a, Clean(a), NEW b, Clean(b), NEW c, Clean(c), NEW d, Clean(d), NEW e, Clean(e)
  PROVE  /\ CleanFields(<<a>>) /\ CleanFields(<<a, b>>) /\ CleanFields(<<a, b, c>>)
         /\ CleanFields(<<a, b, c, d, e>>)
<1> DEFINE X == Seq(Byte)
<1>1. a \in X /\ b \in X /\ c \in X /\ d \in X /\ e \in X
  BY DEF Clean
<1> HIDE DEF X
<1>2. /\ <<a>> \in Seq(X) /\ <<a, b>> \in Seq(X) /\ <<a, b, c>> \in Seq(X)
      /\ <<a, b, c, d, e>> \in Seq(X)
  BY <1>1
<1>3. <<a>> # << >> /\ <<a, b>> # << >> /\ <<a, b, c>> # << >> /\ <<a, b, c, d, e>> # << >>
  OBVIOUS
<1>4. /\ \A i \in 1..Len(<<a>>) : <<a>>[i] \in {a}
      /\ \A i \in 1..Len(<<a, b>>) : <<a, b>>[i] \in {a, b}
      /\ \A i \in 1..Len(<<a, b, c>>) : <<a, b, c>>[i] \in {a, b, c}
      /\ \A i \in 1..Len(<<a, b, c, d, e>>) : <<a, b, c, d, e>>[i] \in {a, b, c, d, e}
  OBVIOUS
<1>5. QED
  BY <1>2, <1>3, <1>4 DEF CleanFields, TextFields, X

\* A keyword is a clean field.
LEMMA KeywordText ==
  \A k \in Keywords : Clean(<<k>>)
<1>1. \A k \in Keywords : k \in Byte
  BY WireAssumption DEF WireAssumption, Named
<1>2. \A k \in Keywords : k # "|" /\ k # Newline
  BY DEF Keywords, Newline
<1>3. QED
  BY <1>1, <1>2, CleanText

\* The lists in messages.
HeaderTexts(headers) == [i \in 1..Len(headers) |-> Join(<<headers[i].header, headers[i].nonce>>, ",")]
EntryTexts(entries) == [i \in 1..Len(entries) |-> <<"c">> \o entries[i]]

\* The texts of headers.
LEMMA HeaderList ==
  ASSUME NEW headers \in Seq([header : Tokens, nonce : Numerals])
  PROVE  /\ HeaderTexts(headers) \in Seq(Seq(Byte)) /\ Len(HeaderTexts(headers)) = Len(headers)
         /\ \A i \in 1..Len(headers) : /\ Clean(HeaderTexts(headers)[i])
                                       /\ headers[i].header \in Tokens /\ headers[i].nonce \in Numerals
<1> DEFINE n == Len(headers)
           X == Seq(Byte)
           texts == HeaderTexts(headers)
<1>1. n \in Nat /\ \A i \in 1..n : headers[i].header \in Tokens /\ headers[i].nonce \in Numerals
  <2>1. \A i \in 1..n : headers[i] \in [header : Tokens, nonce : Numerals]
    BY ElementOfSeq
  <2>2. QED
    BY <2>1, LenProperties
<1>2. ASSUME NEW i \in 1..n PROVE Clean(Join(<<headers[i].header, headers[i].nonce>>, ","))
  <2> DEFINE h == headers[i].header
             k == headers[i].nonce
  <2>1. Clean(h) /\ Clean(k)
    BY <1>1, TokenText, NumeralText
  <2> HIDE DEF h, k
  <2>2. CleanFields(<<h, k>>)
    BY <2>1, CleanLists
  <2>3. Clean(Join(<<h, k>>, ","))
    BY <2>2, CleanJoin DEF CleanFields, TextFields
  <2>4. QED
    BY <2>3 DEF h, k
<1>3. texts \in [1..n -> X] /\ \A i \in 1..n : Clean(texts[i])
  BY <1>2 DEF HeaderTexts, Clean
<1> HIDE DEF texts, X, n
<1>4. texts \in Seq(X) /\ Len(texts) = n
  BY <1>1, <1>3, ListOfLength
<1>5. QED
  BY <1>1, <1>3, <1>4 DEF texts, X, n

\* The texts of the entries of a trace.
LEMMA EntryList ==
  ASSUME NEW entries \in Seq(Numerals)
  PROVE  /\ EntryTexts(entries) \in Seq(Seq(Byte)) /\ Len(EntryTexts(entries)) = Len(entries)
         /\ \A i \in 1..Len(entries) :
              /\ Clean(EntryTexts(entries)[i]) /\ Without(EntryTexts(entries)[i], ";")
              /\ EntryTexts(entries)[i] = <<"c">> \o entries[i]
<1> DEFINE n == Len(entries)
           X == Seq(Byte)
           texts == EntryTexts(entries)
<1>1. n \in Nat /\ \A i \in 1..n : entries[i] \in Numerals
  BY LenProperties
<1>2. ASSUME NEW i \in 1..n PROVE Clean(<<"c">> \o entries[i]) /\ Without(<<"c">> \o entries[i], ";")
  <2>1. Clean(<<"c">>)
    BY KeywordText DEF Keywords
  <2>2. Clean(entries[i]) /\ Without(entries[i], ";")
    BY <1>1, NumeralText
  <2>3. Clean(<<"c">> \o entries[i])
    BY <2>1, <2>2, CleanText
  <2>4. Without(<<"c">>, ";")
    <3>1. \A j \in 1..Len(<<"c">>) : <<"c">>[j] = "c"
      OBVIOUS
    <3>2. QED
      BY <3>1 DEF Without
  <2>5. Without(<<"c">> \o entries[i], ";")
    BY <2>1, <2>2, <2>4, WithoutFacts, NamedBytes DEF Clean
  <2>6. QED
    BY <2>3, <2>5
<1>3. /\ texts \in [1..n -> X]
      /\ \A i \in 1..n : /\ Clean(texts[i]) /\ Without(texts[i], ";")
                         /\ texts[i] = <<"c">> \o entries[i]
  BY <1>2 DEF EntryTexts, Clean
<1> HIDE DEF texts, X, n
<1>4. texts \in Seq(X) /\ Len(texts) = n
  BY <1>1, <1>3, ListOfLength
<1>5. QED
  BY <1>1, <1>3, <1>4 DEF texts, X, n

\* The fields of a message.
Parts(m) ==
  CASE m.kind = "HELLO" -> << <<"HELLO">>, Escape(m.node_id), m.listen_addr>>
    [] m.kind = "GET_BLOCKS" -> << <<"GET_BLOCKS">>, m.from_height, m.limit>>
    [] m.kind = "GET" -> << <<"GET">>, Join(m.locator, ","), m.limit>>
    [] m.kind = "INVENTORY" -> << <<"INVENTORY">>, Join(m.hashes, ",")>>
    [] m.kind = "HEADERS" -> << <<"HEADERS">>, Join(HeaderTexts(m.headers), ";")>>
    [] m.kind = "GET_PEERS" -> << <<"GET_PEERS">>, m.limit>>
    [] m.kind = "PEERS" -> << <<"PEERS">>, Join(m.peers, ",")>>
    [] m.kind = "BLOCK" -> << <<"BLOCK">>, m.header, m.model_after, m.candidate_model,
                              Join(EntryTexts(m.entries), ";")>>
    [] m.kind = "END_BLOCKS" -> << <<"END_BLOCKS">> >>

\* A message is its fields, with bars between them.
LEMMA MessageParts ==
  ASSUME NEW m \in MessageType
  PROVE  /\ CleanFields(Parts(m)) /\ Parts(m)[1] = <<m.kind>>
         /\ EncodeMessage(m) = Join(Parts(m), "|")
<1>1. m.kind \in Keywords
  BY MessageKinds DEF Keywords
<1>2. Clean(<<m.kind>>)
  BY <1>1, KeywordText
<1>3. CASE m.kind = "HELLO"
  <2>1. /\ Parts(m) = << <<"HELLO">>, Escape(m.node_id), m.listen_addr>>
        /\ EncodeMessage(m) = Join(<< <<"HELLO">>, Escape(m.node_id), m.listen_addr>>, "|")
    BY <1>3 DEF Parts, EncodeMessage
  <2>2. m.node_id \in Seq(Byte) /\ Plain(m.node_id) /\ m.listen_addr \in Numerals
    BY <1>3, MessageKinds
  <2>3. Without(m.node_id, Newline)
    <3>1. DOMAIN m.node_id = 1..Len(m.node_id)
      BY <2>2, LenProperties
    <3>2. QED
      BY <2>2, <3>1 DEF Plain, ToSet, Without
  <2>4. Clean(Escape(m.node_id)) /\ Clean(m.listen_addr)
    BY <2>2, <2>3, EscapeWithout, EscapeAppend, NamedBytes, NumeralText DEF Clean
  <2>5. CleanFields(<< <<"HELLO">>, Escape(m.node_id), m.listen_addr>>)
    BY <1>2, <1>3, <2>4, CleanLists
  <2>6. QED
    BY <1>3, <2>1, <2>5
<1>4. CASE m.kind = "GET_BLOCKS"
  <2>1. /\ Parts(m) = << <<"GET_BLOCKS">>, m.from_height, m.limit>>
        /\ EncodeMessage(m) = Join(<< <<"GET_BLOCKS">>, m.from_height, m.limit>>, "|")
    BY <1>4 DEF Parts, EncodeMessage
  <2>2. Clean(m.from_height) /\ Clean(m.limit)
    BY <1>4, MessageKinds, NumeralText
  <2>3. CleanFields(<< <<"GET_BLOCKS">>, m.from_height, m.limit>>)
    BY <1>2, <1>4, <2>2, CleanLists
  <2>4. QED
    BY <1>4, <2>1, <2>3
<1>5. CASE m.kind = "GET"
  <2> DEFINE list == Join(m.locator, ",")
  <2>1. /\ Parts(m) = << <<"GET">>, list, m.limit>>
        /\ EncodeMessage(m) = Join(<< <<"GET">>, list, m.limit>>, "|")
    BY <1>5 DEF Parts, EncodeMessage
  <2>2. m.locator \in Locators /\ Clean(m.limit)
    BY <1>5, MessageKinds, NumeralText
  <2>3. Clean(list)
    BY <2>2, DigestText, CleanJoin
  <2> HIDE DEF list
  <2>4. CleanFields(<< <<"GET">>, list, m.limit>>)
    BY <1>2, <1>5, <2>2, <2>3, CleanLists
  <2>5. QED
    BY <1>5, <2>1, <2>4
<1>6. CASE m.kind = "INVENTORY"
  <2> DEFINE list == Join(m.hashes, ",")
  <2>1. /\ Parts(m) = << <<"INVENTORY">>, list>>
        /\ EncodeMessage(m) = Join(<< <<"INVENTORY">>, list>>, "|")
    BY <1>6 DEF Parts, EncodeMessage
  <2>2. Clean(list)
    BY <1>6, MessageKinds, DigestText, CleanJoin
  <2> HIDE DEF list
  <2>3. CleanFields(<< <<"INVENTORY">>, list>>)
    BY <1>2, <1>6, <2>2, CleanLists
  <2>4. QED
    BY <1>6, <2>1, <2>3
<1>7. CASE m.kind = "HEADERS"
  <2> DEFINE list == Join(HeaderTexts(m.headers), ";")
  <2>1. /\ Parts(m) = << <<"HEADERS">>, list>>
        /\ EncodeMessage(m) = Join(<< <<"HEADERS">>, list>>, "|")
    BY <1>7 DEF Parts, EncodeMessage, EncodeHeaders, HeaderTexts
  <2>2. Clean(list)
    BY <1>7, MessageKinds, HeaderList, CleanJoin
  <2> HIDE DEF list
  <2>3. CleanFields(<< <<"HEADERS">>, list>>)
    BY <1>2, <1>7, <2>2, CleanLists
  <2>4. QED
    BY <1>7, <2>1, <2>3
<1>8. CASE m.kind = "GET_PEERS"
  <2>1. /\ Parts(m) = << <<"GET_PEERS">>, m.limit>>
        /\ EncodeMessage(m) = Join(<< <<"GET_PEERS">>, m.limit>>, "|")
    BY <1>8 DEF Parts, EncodeMessage
  <2>2. Clean(m.limit)
    BY <1>8, MessageKinds, NumeralText
  <2>3. CleanFields(<< <<"GET_PEERS">>, m.limit>>)
    BY <1>2, <1>8, <2>2, CleanLists
  <2>4. QED
    BY <1>8, <2>1, <2>3
<1>9. CASE m.kind = "PEERS"
  <2> DEFINE list == Join(m.peers, ",")
  <2>1. /\ Parts(m) = << <<"PEERS">>, list>>
        /\ EncodeMessage(m) = Join(<< <<"PEERS">>, list>>, "|")
    BY <1>9 DEF Parts, EncodeMessage
  <2>2. m.peers \in Seq(Seq(Byte)) /\ \A i \in 1..Len(m.peers) : Clean(m.peers[i])
    BY <1>9, MessageKinds, NumeralList
  <2>3. Clean(list)
    BY <2>2, CleanJoin
  <2> HIDE DEF list
  <2>4. CleanFields(<< <<"PEERS">>, list>>)
    BY <1>2, <1>9, <2>3, CleanLists
  <2>5. QED
    BY <1>9, <2>1, <2>4
<1>10. CASE m.kind = "BLOCK"
  <2> DEFINE list == Join(EntryTexts(m.entries), ";")
  <2>1. /\ Parts(m) = << <<"BLOCK">>, m.header, m.model_after, m.candidate_model, list>>
        /\ EncodeMessage(m) = Join(<< <<"BLOCK">>, m.header, m.model_after, m.candidate_model, list>>, "|")
    BY <1>10 DEF Parts, EncodeMessage, EntryTexts
  <2>2. Clean(list)
    BY <1>10, MessageKinds, EntryList, CleanJoin
  <2>3. Clean(m.header) /\ Clean(m.model_after) /\ Clean(m.candidate_model)
    BY <1>10, MessageKinds, NumeralText, TokenText
  <2> HIDE DEF list
  <2>4. CleanFields(<< <<"BLOCK">>, m.header, m.model_after, m.candidate_model, list>>)
    BY <1>2, <1>10, <2>2, <2>3, CleanLists
  <2>5. QED
    BY <1>10, <2>1, <2>4
<1>11. CASE m.kind = "END_BLOCKS"
  <2>1. Parts(m) = << <<"END_BLOCKS">> >> /\ EncodeMessage(m) = <<"END_BLOCKS">>
    BY <1>11 DEF Parts, EncodeMessage
  <2>2. CleanFields(<< <<"END_BLOCKS">> >>)
    BY <1>2, <1>11, CleanLists
  <2>3. Join(<< <<"END_BLOCKS">> >>, "|") = <<"END_BLOCKS">>
    BY <1>2, <1>11, JoinOne, NamedBytes DEF Clean
  <2>4. QED
    BY <1>11, <2>1, <2>2, <2>3
<1>12. QED
  BY <1>3, <1>4, <1>5, <1>6, <1>7, <1>8, <1>9, <1>10, <1>11, MessageKinds

-----------------------------------------------------------------------------
(* What a line says                                                          *)

\* What plain text is.
LEMMA PlainText ==
  ASSUME NEW x \in Seq(Byte)
  PROVE  /\ Plain(x) <=> Without(x, Newline) /\ ToSet(x) \cap HighBytes = {}
         /\ Plain(x) => Utf8(x) = x
         /\ Utf8(x) = x => ToSet(x) \cap HighBytes = {}
<1>1. DOMAIN x = 1..Len(x)
  BY LenProperties
<1>2. Without(x, Newline) <=> Newline \notin ToSet(x)
  BY <1>1 DEF Without, ToSet
<1>3. Plain(x) <=> Without(x, Newline) /\ ToSet(x) \cap HighBytes = {}
  BY <1>2 DEF Plain
<1>4. Len(x) \in Nat
  BY LenProperties
<1>5. Utf8(x) = x => ToSet(x) \cap HighBytes = {}
  <2>1. SUFFICES ASSUME Utf8(x) = x, ToSet(x) \cap HighBytes # {} PROVE FALSE
    OBVIOUS
  <2>2. Len(Utf8(x)) > Len(x)
    BY <2>1, Utf8OfAscii
  <2>3. QED
    BY <1>4, <2>1, <2>2
<1>6. QED
  BY <1>3, <1>5, Utf8OfAscii

\* No line break ends a message before its end.
LEMMA MessageText ==
  ASSUME NEW m \in MessageType
  PROVE  EncodeMessage(m) \in Seq(Byte) /\ Without(EncodeMessage(m), Newline)
<1>1. CleanFields(Parts(m)) /\ EncodeMessage(m) = Join(Parts(m), "|")
  BY MessageParts
<1>2. Parts(m) \in Seq(Seq(Byte)) /\ \A i \in 1..Len(Parts(m)) : Without(Parts(m)[i], Newline)
  BY <1>1 DEF CleanFields, TextFields, Clean
<1>3. "|" \in Byte /\ "|" # Newline
  BY NamedBytes DEF Newline
<1>4. QED
  BY <1>1, <1>2, <1>3, JoinFacts, JoinWithout

\* A line of a node.
Envelope(config, m) ==
  << <<"CHESSCOIN">>, <<config.protocol_version>>, Escape(config.network_id),
     Escape(config.chain_fingerprint), EncodeMessage(m)>>

Payload(config, m) == Join(Envelope(config, m), "|")

\* A configuration, field by field.
LEMMA ConfigFacts ==
  ASSUME NEW config \in WireConfigs
  PROVE  /\ Clean(<<config.protocol_version>>)
         /\ config.network_id \in Seq(Byte)
         /\ config.chain_fingerprint \in Seq(Byte) /\ Plain(config.chain_fingerprint)
         /\ DOMAIN config = {"protocol_version", "network_id", "chain_fingerprint"}
         /\ config = [protocol_version |-> config.protocol_version, network_id |-> config.network_id,
                      chain_fingerprint |-> config.chain_fingerprint]
<1>1. config \in [protocol_version : Byte \ Separators, network_id : Seq(Byte),
                  chain_fingerprint : {f \in Seq(Byte) : Plain(f)}]
  BY WireAssumption DEF WireAssumption
<1>2. config.protocol_version \in Byte \ Separators
  BY <1>1
<1>3. Clean(<<config.protocol_version>>)
  BY <1>2, CleanText DEF Separators
<1>4. QED
  BY <1>1, <1>3

\* The envelope, field by field; only the message has bars of its own.
LEMMA EnvelopeFacts ==
  ASSUME NEW config \in WireConfigs, NEW m \in MessageType
  PROVE  /\ TextFields(Envelope(config, m)) /\ Len(Envelope(config, m)) = 5
         /\ Separated(Envelope(config, m), "|", 5)
         /\ Envelope(config, m)[1] = <<"CHESSCOIN">>
         /\ Envelope(config, m)[2] = <<config.protocol_version>>
         /\ Envelope(config, m)[3] = Escape(config.network_id)
         /\ Envelope(config, m)[4] = Escape(config.chain_fingerprint)
         /\ Envelope(config, m)[5] = EncodeMessage(m)
<1> DEFINE a == <<"CHESSCOIN">>
           b == <<config.protocol_version>>
           c == Escape(config.network_id)
           d == Escape(config.chain_fingerprint)
           e == EncodeMessage(m)
           X == Seq(Byte)
<1>1. a \in X /\ b \in X /\ Without(a, "|") /\ Without(b, "|")
  BY KeywordText, ConfigFacts DEF Clean, Keywords
<1>2. c \in X /\ d \in X /\ Without(c, "|") /\ Without(d, "|")
  BY ConfigFacts, EscapeWithout, EscapeAppend, NamedBytes
<1>3. e \in X
  BY MessageText
<1>4. Envelope(config, m) = <<a, b, c, d, e>>
  BY DEF Envelope
<1> HIDE DEF a, b, c, d, e
<1>5. TextFields(<<a, b, c, d, e>>)
  <2> HIDE DEF X
  <2>1. <<a, b, c, d, e>> \in Seq(X) /\ <<a, b, c, d, e>> # << >>
    BY <1>1, <1>2, <1>3
  <2>2. QED
    BY <2>1 DEF TextFields, X
<1>6. /\ Len(<<a, b, c, d, e>>) = 5 /\ <<a, b, c, d, e>>[1] = a /\ <<a, b, c, d, e>>[2] = b
      /\ <<a, b, c, d, e>>[3] = c /\ <<a, b, c, d, e>>[4] = d /\ <<a, b, c, d, e>>[5] = e
  OBVIOUS
<1>7. Separated(<<a, b, c, d, e>>, "|", 5)
  <2>1. \A i \in 1..5 : i # 5 => Without(<<a, b, c, d, e>>[i], "|")
    <3>1. \A i \in 1..5 : i # 5 => i \in {1, 2, 3, 4}
      OBVIOUS
    <3>2. QED
      BY <1>1, <1>2, <1>6, <3>1
  <2>2. QED
    BY <1>6, <2>1 DEF Separated, Without
<1>8. QED
  BY <1>4, <1>5, <1>6, <1>7 DEF a, b, c, d, e

\* No line break is in a line of a network id without one.
LEMMA PayloadWithout ==
  ASSUME NEW config \in WireConfigs, NEW m \in MessageType, Without(config.network_id, Newline)
  PROVE  Payload(config, m) \in Seq(Byte) /\ Without(Payload(config, m), Newline)
<1> DEFINE fields == Envelope(config, m)
<1>1. /\ TextFields(fields) /\ Len(fields) = 5
      /\ fields[1] = <<"CHESSCOIN">> /\ fields[2] = <<config.protocol_version>>
      /\ fields[3] = Escape(config.network_id) /\ fields[4] = Escape(config.chain_fingerprint)
      /\ fields[5] = EncodeMessage(m)
  BY EnvelopeFacts
<1> HIDE DEF fields
<1>2. /\ config.network_id \in Seq(Byte) /\ config.chain_fingerprint \in Seq(Byte)
      /\ Plain(config.chain_fingerprint)
  BY ConfigFacts
<1>3. Without(fields[3], Newline) /\ Without(fields[4], Newline)
  BY <1>1, <1>2, EscapeWithout, PlainText
<1>4. Without(fields[1], Newline) /\ Without(fields[2], Newline)
  BY <1>1, KeywordText, ConfigFacts DEF Clean, Keywords
<1>5. Without(fields[5], Newline)
  BY <1>1, MessageText
<1>6. \A i \in 1..Len(fields) : i \in {1, 2, 3, 4, 5}
  BY <1>1
<1>7. \A i \in 1..Len(fields) : Without(fields[i], Newline)
  BY <1>3, <1>4, <1>5, <1>6
<1>8. "|" \in Byte /\ "|" # Newline
  BY NamedBytes DEF Newline
<1>9. QED
  BY <1>1, <1>7, <1>8, JoinWithout, JoinFacts DEF Payload, fields, TextFields

\* What a decoded line says: the receiver is of the sender's version and fingerprint and
\* takes the bytes of its network id for its own; the line has the whole envelope, and
\* no line break is in what the sender writes before the end of the message.
LEMMA EnvelopeRead ==
  ASSUME NEW config \in WireConfigs, NEW other \in WireConfigs, NEW m \in MessageType,
         NEW cut, Begins(cut, Payload(config, m)), Without(cut, Newline),
         DecodeNetworkMessage(cut, other) # NoMessage
  PROVE  /\ other = [config EXCEPT !.network_id = Utf8(@)]
         /\ Without(config.network_id, Newline)
         /\ Without(Payload(config, m), Newline)
         /\ \E text : /\ Begins(text, EncodeMessage(m))
                      /\ DecodeNetworkMessage(cut, other) = DecodeMessage(text)
                      /\ Len(cut) = Len(Payload(config, m)) => text = EncodeMessage(m)
<1> DEFINE fields == Envelope(config, m)
           payload == Payload(config, m)
           read == SplitN(cut, "|", 5)
<1>1. /\ TextFields(fields) /\ Len(fields) = 5 /\ Separated(fields, "|", 5)
      /\ fields[1] = <<"CHESSCOIN">> /\ fields[2] = <<config.protocol_version>>
      /\ fields[3] = Escape(config.network_id) /\ fields[4] = Escape(config.chain_fingerprint)
      /\ fields[5] = EncodeMessage(m)
  BY EnvelopeFacts
<1> HIDE DEF fields, payload, read
<1>2. PICK start : Layout(fields, "|", payload, start)
  BY <1>1, JoinLayout, NamedBytes DEF payload, Payload, fields
<1>3. FieldsRead(fields, start, read, Len(cut))
  <2>1. Begins(cut, payload) /\ 5 \in Nat /\ Len(fields) <= 5
    BY <1>1 DEF payload
  <2>2. FieldsRead(fields, start, SplitN(cut, "|", 5), Len(cut))
    BY <1>1, <1>2, <2>1, SplitBeginning
  <2>3. QED
    BY <2>2 DEF read
<1>4. /\ Len(read) = 5
      /\ read[2] = <<other.protocol_version>>
      /\ Unescape(read[3]) = other.network_id
      /\ Unescape(read[4]) = other.chain_fingerprint
      /\ DecodeNetworkMessage(cut, other) = DecodeMessage(read[5])
  BY DEF DecodeNetworkMessage, read
<1>5. /\ \A i \in 1..4 : read[i] = fields[i]
      /\ Len(read[5]) <= Len(fields[5])
      /\ \A j \in 1..Len(read[5]) : read[5][j] = fields[5][j]
      /\ Len(cut) = start[5] + Len(read[5])
      /\ read \in Seq(Seq(Byte))
  <2>1. 5 - 1 = 4
    OBVIOUS
  <2>2. QED
    BY <1>3, <1>4, <2>1 DEF FieldsRead
<1>0. read[5] \in Seq(Byte)
  <2>1. 5 \in 1..Len(read)
    BY <1>4
  <2>2. QED
    BY <1>5, <2>1, ElementOfSeq
<1>6. 1 \in 1..4 /\ 2 \in 1..4 /\ 3 \in 1..4 /\ 4 \in 1..4
  OBVIOUS
<1>7. /\ config.network_id \in Seq(Byte) /\ config.chain_fingerprint \in Seq(Byte)
      /\ Plain(config.chain_fingerprint)
  BY ConfigFacts
<1>8. /\ other.protocol_version = config.protocol_version
      /\ other.network_id = Utf8(config.network_id)
      /\ other.chain_fingerprint = config.chain_fingerprint
  <2>1. <<other.protocol_version>> = <<config.protocol_version>>
    BY <1>1, <1>4, <1>5, <1>6
  <2>2. other.protocol_version = config.protocol_version
    BY <2>1
  <2>3. Unescape(Escape(config.network_id)) = other.network_id
    BY <1>1, <1>4, <1>5, <1>6
  <2>4. Unescape(Escape(config.chain_fingerprint)) = other.chain_fingerprint
    BY <1>1, <1>4, <1>5, <1>6
  <2>5. Utf8(config.chain_fingerprint) = config.chain_fingerprint
    BY <1>7, PlainText
  <2>6. QED
    BY <1>7, <2>2, <2>3, <2>4, <2>5, UnescapeOfEscape
<1>9. other = [config EXCEPT !.network_id = Utf8(@)]
  <2>1. /\ config = [protocol_version |-> config.protocol_version, network_id |-> config.network_id,
                     chain_fingerprint |-> config.chain_fingerprint]
        /\ other = [protocol_version |-> other.protocol_version, network_id |-> other.network_id,
                    chain_fingerprint |-> other.chain_fingerprint]
    BY ConfigFacts
  <2> DEFINE id == Utf8(config.network_id)
  <2>2. [config EXCEPT !.network_id = Utf8(@)] = [config EXCEPT !.network_id = id]
    OBVIOUS
  <2> HIDE DEF id
  <2>3. [config EXCEPT !.network_id = id]
          = [protocol_version |-> config.protocol_version, network_id |-> id,
             chain_fingerprint |-> config.chain_fingerprint]
    BY <2>1
  <2>4. QED
    BY <1>8, <2>1, <2>2, <2>3 DEF id
<1>10. Without(config.network_id, Newline)
  <2>1. /\ 3 \in 1..Len(fields) /\ 5 \in 1..Len(fields) /\ 3 < 5
    BY <1>1
  <2>2. start[3] + Len(fields[3]) + 1 <= start[5] /\ start[3] \in Nat /\ start[5] \in Nat
    BY <1>1, <1>2, <2>1, LayoutGrows, LayoutNumbers
  <2>3. Len(fields[3]) \in Nat /\ Len(read[5]) \in Nat
    <3>1. read[5] \in Seq(Byte)
      BY <1>0
    <3>2. QED
      BY <1>1, <2>1, <3>1, FieldsFacts, LenProperties
  <2>4. \A j \in 1..Len(fields[3]) : payload[start[3] + j] = fields[3][j]
    BY <1>2, <2>1 DEF Layout
  <2>5. ASSUME NEW j \in 1..Len(fields[3]) PROVE fields[3][j] # Newline
    <3>1. start[3] + j \in 1..Len(cut)
      <4>1. Len(cut) = start[5] + Len(read[5])
        BY <1>5
      <4>2. QED
        BY <2>2, <2>3, <4>1
    <3>2. cut[start[3] + j] = payload[start[3] + j]
      BY <3>1 DEF Begins, payload
    <3>3. cut[start[3] + j] # Newline
      BY <3>1 DEF Without
    <3>4. QED
      BY <2>4, <3>2, <3>3
  <2>6. Without(Escape(config.network_id), Newline)
    BY <1>1, <2>5 DEF Without
  <2>7. QED
    BY <1>7, <2>6, EscapeWithout
<1>11. Without(payload, Newline)
  BY <1>10, PayloadWithout DEF payload
<1>12. Begins(read[5], EncodeMessage(m))
  BY <1>0, <1>1, <1>5 DEF Begins
<1>13. ASSUME Len(cut) = Len(payload) PROVE read[5] = EncodeMessage(m)
  <2>1. read = fields
    BY <1>1, <1>2, <1>3, <1>13, AllFieldsRead
  <2>2. QED
    BY <1>1, <2>1
<1>14. QED
  BY <1>4, <1>9, <1>10, <1>11, <1>12, <1>13 DEF payload

-----------------------------------------------------------------------------
(* What is read of a message                                                 *)

\* The fields of the beginning of a text: complete ones, and the beginning of one.
SplitOf(read, fields, whole) ==
  /\ TextFields(read) /\ Len(read) \in 1..Len(fields)
  /\ \A i \in 1..(Len(read) - 1) : read[i] = fields[i]
  /\ Begins(read[Len(read)], fields[Len(read)])
  /\ whole => read = fields

\* The beginning of joined fields, split.
LEMMA SplitOfJoin ==
  ASSUME NEW fields, TextFields(fields), NEW separator \in Byte,
         \A i \in 1..Len(fields) : Without(fields[i], separator),
         NEW cut, Begins(cut, Join(fields, separator))
  PROVE  SplitOf(Split(cut, separator), fields, Len(cut) = Len(Join(fields, separator)))
<1> DEFINE text == Join(fields, separator)
           read == Split(cut, separator)
           m == Len(read)
<1>1. PICK start : Layout(fields, separator, text, start)
  BY JoinLayout
<1>2. cut \in Seq(Byte) /\ Len(cut) \in Nat /\ Len(cut) + 1 \in Nat /\ Len(cut) < Len(cut) + 1
  BY LenProperties DEF Begins
<1>3. Separated(fields, separator, Len(cut) + 1)
  BY DEF Separated, Without
<1>4. FieldsRead(fields, start, read, Len(cut))
  <2> HIDE DEF text
  <2>1. Begins(cut, text)
    BY DEF text
  <2>2. FieldsRead(fields, start, SplitN(cut, separator, Len(cut) + 1), Len(cut))
    BY <1>1, <1>2, <1>3, <2>1, SplitBeginning
  <2>3. QED
    BY <2>2 DEF Split
<1>5. TextFields(read)
  BY <1>2, JoinOfSplit DEF Split
<1>6. Len(cut) = Len(text) => read = fields
  BY <1>1, <1>4, AllFieldsRead
<1> HIDE DEF read
<1>7. m \in 1..Len(fields) /\ \A i \in 1..(m - 1) : read[i] = fields[i]
  BY <1>4 DEF FieldsRead
<1>8. Begins(read[m], fields[m])
  <2>1. m \in 1..m /\ m \in 1..Len(fields)
    BY <1>5, <1>7, FieldsFacts
  <2>2. read[m] \in Seq(Byte)
    BY <1>5, <2>1, FieldsFacts
  <2>3. QED
    BY <1>4, <2>2 DEF FieldsRead, Begins
<1>9. QED
  BY <1>5, <1>6, <1>7, <1>8 DEF SplitOf, read, text

\* The beginnings of a text.
LEMMA BeginsFacts ==
  ASSUME NEW cut, NEW text \in Seq(Byte), Begins(cut, text)
  PROVE  /\ Len(cut) \in Nat /\ Len(text) \in Nat /\ Len(cut) <= Len(text)
         /\ cut \in Seq(Byte)
         /\ Len(cut) = Len(text) => cut = text
         /\ cut \in Prefixes(text)
         /\ IsPrefix(cut, text)
<1>1. /\ cut \in Seq(Byte) /\ Len(cut) \in Nat /\ Len(text) \in Nat /\ Len(cut) <= Len(text)
      /\ \A i \in 1..Len(cut) : cut[i] = text[i]
  BY LenProperties DEF Begins
<1>2. Len(cut) = Len(text) => cut = text
  BY <1>1, SeqEqual
<1>3. SubSeq(text, 1, Len(cut)) = cut
  <2> DEFINE k == Len(cut)
             s == SubSeq(text, 1, k)
  <2>1. \A i \in 1..k : text[i] \in Byte
    BY <1>1
  <2>2. k \in Int /\ 1 \in Int
    BY <1>1
  <2>3. /\ s \in Seq(Byte) /\ Len(s) = IF 1 <= k THEN k - 1 + 1 ELSE 0
        /\ \A i \in 1..(k - 1 + 1) : s[i] = text[1 + i - 1]
    BY <2>1, <2>2, SubSeqProperties
  <2>4. k \in Nat
    BY <1>1
  <2> HIDE DEF s, k
  <2>5. Len(s) = k
    BY <2>3, <2>4
  <2>6. \A i \in 1..k : s[i] = text[i]
    <3>1. \A i \in 1..k : i \in 1..(k - 1 + 1) /\ 1 + i - 1 = i
      BY <2>4
    <3>2. QED
      BY <2>3, <3>1
  <2>7. s = cut
    BY <1>1, <2>3, <2>5, <2>6, SeqEqual DEF k
  <2>8. QED
    BY <2>7 DEF s, k
<1>4. cut \in Prefixes(text)
  <2>1. Len(cut) \in 0..Len(text)
    BY <1>1
  <2>2. QED
    BY <1>3, <2>1 DEF Prefixes
<1>5. IsPrefix(cut, text)
  BY <1>1, <1>3 DEF IsPrefix
<1>6. QED
  BY <1>1, <1>2, <1>4, <1>5

\* A list that is read whole.
LEMMA ListRead ==
  ASSUME NEW list \in Seq(Seq(Byte)), NEW separator \in Byte,
         \A i \in 1..Len(list) : Without(list[i], separator) /\ list[i] # << >>
  PROVE  SplitList(Join(list, separator), separator) = list
<1> DEFINE text == Join(list, separator)
<1>1. text \in Seq(Byte)
  BY JoinFacts
<1>2. CASE list = << >>
  <2>1. text = << >>
    BY <1>2, JoinFacts
  <2>2. QED
    BY <1>2, <2>1 DEF SplitList
<1>3. CASE list # << >>
  <2>1. TextFields(list)
    BY <1>3 DEF TextFields
  <2>2. PICK start : Layout(list, separator, text, start)
    BY <2>1, JoinLayout
  <2>3. text # << >>
    <3>1. 1 \in 1..Len(list) /\ list[1] \in Seq(Byte) /\ Len(list[1]) \in Nat
      BY <2>1, FieldsFacts
    <3>2. Len(list[1]) # 0
      BY <3>1, EmptySeq
    <3>3. start[1] + Len(list[1]) <= Len(text) /\ start[1] \in Nat /\ Len(text) \in Nat
      BY <2>1, <2>2, <3>1, LayoutGrows, LayoutNumbers, LayoutText
    <3>4. Len(text) # 0
      BY <3>1, <3>2, <3>3
    <3>5. QED
      BY <3>4, EmptySeq
  <2>4. Begins(text, text)
    BY <1>1, LenProperties DEF Begins
  <2>5. SplitOf(Split(text, separator), list, Len(text) = Len(text))
    BY <2>1, <2>4, SplitOfJoin
  <2>6. Split(text, separator) = list
    BY <2>5 DEF SplitOf
  <2>7. QED
    BY <2>3, <2>6 DEF SplitList
<1>4. QED
  BY <1>2, <1>3

\* What is read of a list, joined again.
LEMMA ListJoined ==
  ASSUME NEW text \in Seq(Byte), NEW separator \in Byte
  PROVE  /\ SplitList(text, separator) \in Seq(Seq(Byte))
         /\ Join(SplitList(text, separator), separator) = text
<1>1. CASE text = << >>
  <2>1. SplitList(text, separator) = << >>
    BY <1>1 DEF SplitList
  <2>2. << >> \in Seq(Seq(Byte))
    BY EmptySeq
  <2>3. Join(<< >>, separator) = << >>
    BY <2>2, JoinFacts
  <2>4. QED
    BY <1>1, <2>1, <2>2, <2>3
<1>2. CASE text # << >>
  <2>1. SplitList(text, separator) = SplitN(text, separator, Len(text) + 1)
    BY <1>2 DEF SplitList, Split
  <2>2. QED
    BY <2>1, JoinOfSplit DEF TextFields
<1>3. QED
  BY <1>1, <1>2

\* The lists in what is decoded.
AreHeaders(text) == \A h \in ToSet(SplitList(text, ";")) : IsHeader(h)
DecodedHeaders(text) ==
  [i \in 1..Len(SplitList(text, ";")) |-> DecodeHeader(SplitList(text, ";")[i])]
AreEntries(text) ==
  \A entry \in ToSet(SplitList(text, ";")) : entry # << >> /\ Head(entry) = "c" /\ IsNumber(Tail(entry))
DecodedEntries(text) == [i \in 1..Len(SplitList(text, ";")) |-> Tail(SplitList(text, ";")[i])]
AreAddresses(text) == \A addr \in ToSet(SplitList(text, ",")) : IsNumber(addr)

\* decode_message on fields.
Decoding(fields) ==
  LET k == fields[1]
      n == Len(fields)
  IN  CASE k = <<"HELLO">> /\ n = 3 /\ IsNumber(fields[3]) -> Hello(Unescape(fields[2]), fields[3])
        [] k = <<"GET_BLOCKS">> /\ n = 3 /\ IsNumber(fields[2]) /\ IsNumber(fields[3]) ->
             GetBlocks(fields[2], fields[3])
        [] k = <<"GET">> /\ n = 3 /\ IsNumber(fields[3]) /\ AreDigests(SplitList(fields[2], ",")) ->
             Get(SplitList(fields[2], ","), fields[3])
        [] k = <<"INVENTORY">> /\ n = 2 /\ AreDigests(SplitList(fields[2], ",")) ->
             Inventory(SplitList(fields[2], ","))
        [] k = <<"HEADERS">> /\ n = 2 /\ AreHeaders(fields[2]) -> Headers(DecodedHeaders(fields[2]))
        [] k = <<"GET_PEERS">> /\ n = 2 /\ IsNumber(fields[2]) -> GetPeers(fields[2])
        [] k = <<"PEERS">> /\ n = 2 /\ AreAddresses(fields[2]) -> Peers(SplitList(fields[2], ","))
        [] k = <<"BLOCK">> /\ n = 5 /\ Len(fields[2]) = 1 /\ IsNumber(fields[3]) /\ IsNumber(fields[4])
             /\ AreEntries(fields[5]) ->
             Block(fields[2], fields[3], fields[4], DecodedEntries(fields[5]))
        [] k = <<"END_BLOCKS">> /\ n = 1 -> EndBlocks
        [] OTHER -> NoMessage

\* decode_message looks at nothing but the fields.
LEMMA DecodeFields ==
  ASSUME NEW text
  PROVE  DecodeMessage(text) = Decoding(Split(text, "|"))
<1> DEFINE fields == Split(text, "|")
           shape == <<fields[1], Len(fields)>>
<1>1. \A k, n : shape = <<k, n>> <=> fields[1] = k /\ Len(fields) = n
  OBVIOUS
<1>2. DecodeMessage(text)
        = CASE shape = << <<"HELLO">>, 3>> /\ IsNumber(fields[3]) ->
                 Hello(Unescape(fields[2]), fields[3])
            [] shape = << <<"GET_BLOCKS">>, 3>> /\ IsNumber(fields[2]) /\ IsNumber(fields[3]) ->
                 GetBlocks(fields[2], fields[3])
            [] shape = << <<"GET">>, 3>> /\ IsNumber(fields[3]) /\ AreDigests(SplitList(fields[2], ",")) ->
                 Get(SplitList(fields[2], ","), fields[3])
            [] shape = << <<"INVENTORY">>, 2>> /\ AreDigests(SplitList(fields[2], ",")) ->
                 Inventory(SplitList(fields[2], ","))
            [] shape = << <<"HEADERS">>, 2>> /\ AreHeaders(fields[2]) ->
                 Headers(DecodedHeaders(fields[2]))
            [] shape = << <<"GET_PEERS">>, 2>> /\ IsNumber(fields[2]) -> GetPeers(fields[2])
            [] shape = << <<"PEERS">>, 2>> /\ AreAddresses(fields[2]) ->
                 Peers(SplitList(fields[2], ","))
            [] shape = << <<"BLOCK">>, 5>> /\ Len(fields[2]) = 1
                 /\ IsNumber(fields[3]) /\ IsNumber(fields[4]) /\ AreEntries(fields[5]) ->
                 Block(fields[2], fields[3], fields[4], DecodedEntries(fields[5]))
            [] shape = << <<"END_BLOCKS">>, 1>> -> EndBlocks
            [] OTHER -> NoMessage
  BY DEF DecodeMessage, AreHeaders, AreAddresses, AreEntries, DecodedHeaders, DecodedEntries
<1> HIDE DEF fields
<1>3. DecodeMessage(text) = Decoding(fields)
  BY <1>1, <1>2 DEF Decoding
<1>4. QED
  BY <1>3 DEF fields

\* What a message is decoded from.
DecodedFrom(d, fields) ==
  \/ /\ fields[1] = <<"HELLO">> /\ Len(fields) = 3 /\ IsNumber(fields[3])
     /\ d = Hello(Unescape(fields[2]), fields[3])
  \/ /\ fields[1] = <<"GET_BLOCKS">> /\ Len(fields) = 3 /\ IsNumber(fields[2]) /\ IsNumber(fields[3])
     /\ d = GetBlocks(fields[2], fields[3])
  \/ /\ fields[1] = <<"GET">> /\ Len(fields) = 3 /\ IsNumber(fields[3])
     /\ d = Get(SplitList(fields[2], ","), fields[3])
  \/ fields[1] = <<"INVENTORY">> /\ Len(fields) = 2 /\ d.kind = "INVENTORY"
  \/ /\ fields[1] = <<"HEADERS">> /\ Len(fields) = 2 /\ AreHeaders(fields[2])
     /\ d = Headers(DecodedHeaders(fields[2]))
  \/ fields[1] = <<"GET_PEERS">> /\ Len(fields) = 2 /\ IsNumber(fields[2]) /\ d = GetPeers(fields[2])
  \/ fields[1] = <<"PEERS">> /\ Len(fields) = 2 /\ d = Peers(SplitList(fields[2], ","))
  \/ /\ fields[1] = <<"BLOCK">> /\ Len(fields) = 5 /\ AreEntries(fields[5])
     /\ d = Block(fields[2], fields[3], fields[4], DecodedEntries(fields[5]))
  \/ fields[1] = <<"END_BLOCKS">> /\ Len(fields) = 1 /\ d = EndBlocks

\* What is decoded is one of the forms.
LEMMA DecodingForms ==
  ASSUME NEW fields, NEW d, d = Decoding(fields), d # NoMessage
  PROVE  DecodedFrom(d, fields)
<1>1. \A l : Inventory(l).kind = "INVENTORY"
  BY DEF Inventory
<1> DEFINE k == fields[1]
<1>2. d = Decoding(fields) /\ d # NoMessage
  OBVIOUS
<1>3. CASE k = <<"HELLO">>
  BY <1>2, <1>3 DEF Decoding, DecodedFrom
<1>4. CASE k = <<"BLOCK">>
  BY <1>2, <1>4 DEF Decoding, DecodedFrom
<1>5. CASE k = <<"INVENTORY">>
  <2>1. \A other \in {"HELLO", "GET_BLOCKS", "GET", "HEADERS", "GET_PEERS", "PEERS", "BLOCK",
                    "END_BLOCKS"} : k # <<other>>
    BY <1>5
  <2>2. Len(fields) = 2 /\ d = Inventory(SplitList(fields[2], ","))
    BY <1>2, <1>5, <2>1 DEF Decoding
  <2>3. QED
    BY <1>1, <1>5, <2>2 DEF DecodedFrom
<1>6. CASE k \notin {<<"HELLO">>, <<"BLOCK">>, <<"INVENTORY">>}
  BY <1>2, <1>6 DEF Decoding, DecodedFrom
<1>7. QED
  BY <1>3, <1>4, <1>5, <1>6

\* The same of a text.
LEMMA DecodeForms ==
  ASSUME NEW text, DecodeMessage(text) # NoMessage
  PROVE  DecodedFrom(DecodeMessage(text), Split(text, "|"))
BY DecodeFields, DecodingForms

\* The separators of lists.
LEMMA Commas ==
  "," \in Byte /\ ";" \in Byte /\ "|" \in Byte
BY WireAssumption DEF WireAssumption, Named, Separators

\* Small facts that the proofs below need by name.
LEMMA FirstOfMore ==
  ASSUME NEW n \in Nat \ {0, 1}
  PROVE  1 \in 1..(n - 1)
OBVIOUS

\* A list of two.
LEMMA PairEqual ==
  ASSUME NEW X, NEW s \in Seq(X), Len(s) = 2
  PROVE  <<s[1], s[2]>> = s
OBVIOUS

\* The keyword decides the form: a request with a locator.
LEMMA GetForm ==
  ASSUME NEW d, NEW fields, DecodedFrom(d, fields), fields[1] = <<"GET">>
  PROVE  Len(fields) = 3 /\ d = Get(SplitList(fields[2], ","), fields[3])
<1>1. \A k \in {"HELLO", "GET_BLOCKS", "INVENTORY", "HEADERS", "GET_PEERS", "PEERS", "BLOCK",
               "END_BLOCKS"} : fields[1] # <<k>>
  OBVIOUS
<1>2. QED
  BY <1>1, Zenon DEF DecodedFrom

\* The keyword decides the form: a list of peers.
LEMMA PeersForm ==
  ASSUME NEW d, NEW fields, DecodedFrom(d, fields), fields[1] = <<"PEERS">>
  PROVE  Len(fields) = 2 /\ d = Peers(SplitList(fields[2], ","))
<1>1. \A k \in {"HELLO", "GET_BLOCKS", "INVENTORY", "HEADERS", "GET_PEERS", "GET", "BLOCK",
               "END_BLOCKS"} : fields[1] # <<k>>
  OBVIOUS
<1>2. QED
  BY <1>1, Zenon DEF DecodedFrom

\* The keyword is read before anything else.
LEMMA KeywordRead ==
  ASSUME NEW m \in MessageType, NEW read, NEW whole, SplitOf(read, Parts(m), whole),
         NEW d, DecodedFrom(d, read)
  PROVE  read[1] = <<m.kind>>
<1>1. Parts(m)[1] = <<m.kind>> /\ TextFields(read)
  BY MessageParts DEF SplitOf
<1>2. Len(read) \in Nat \ {0}
  BY <1>1, FieldsFacts
<1>3. CASE Len(read) # 1
  <2>1. 1 \in 1..(Len(read) - 1)
    BY <1>2, <1>3, FirstOfMore
  <2>2. QED
    BY <1>1, <2>1 DEF SplitOf
<1>4. CASE Len(read) = 1
  <2>1. read[1] = <<"END_BLOCKS">>
    BY <1>4 DEF DecodedFrom
  <2>2. Begins(read[1], <<m.kind>>)
    BY <1>1, <1>4 DEF SplitOf
  <2>3. Len(<<"END_BLOCKS">>) = 1 /\ <<"END_BLOCKS">>[1] = "END_BLOCKS" /\ <<m.kind>>[1] = m.kind
    OBVIOUS
  <2>4. m.kind = "END_BLOCKS"
    BY <2>1, <2>2, <2>3 DEF Begins
  <2>5. QED
    BY <2>1, <2>4
<1>5. QED
  BY <1>3, <1>4

\* Messages of three fields, and of two.
LEMMA ThreeRead ==
  ASSUME NEW a, NEW b, NEW c, NEW read, NEW whole, SplitOf(read, <<a, b, c>>, whole), Len(read) = 3
  PROVE  read[2] = b /\ Begins(read[3], c) /\ (whole => read[3] = c)
<1>1. 2 \in 1..(3 - 1) /\ <<a, b, c>>[2] = b /\ <<a, b, c>>[3] = c
  OBVIOUS
<1> DEFINE fields == <<a, b, c>>
<1>2. SplitOf(read, fields, whole) /\ fields[2] = b /\ fields[3] = c
  BY <1>1
<1> HIDE DEF fields
<1>3. QED
  BY <1>1, <1>2 DEF SplitOf

\* What is read of two fields.
LEMMA TwoRead ==
  ASSUME NEW a, NEW b, NEW read, NEW whole, SplitOf(read, <<a, b>>, whole), Len(read) = 2
  PROVE  Begins(read[2], b) /\ (whole => read[2] = b)
<1> DEFINE fields == <<a, b>>
<1>1. SplitOf(read, fields, whole) /\ fields[2] = b
  OBVIOUS
<1> HIDE DEF fields
<1>2. QED
  BY <1>1 DEF SplitOf

\* What is read of a message that ends in a number.
LEMMA NumberLastRead ==
  ASSUME NEW m \in MessageType, m.kind \in {"HELLO", "GET_BLOCKS", "GET", "GET_PEERS"},
         NEW read, NEW whole, SplitOf(read, Parts(m), whole), NEW d, DecodedFrom(d, read)
  PROVE  d.kind = m.kind /\ CutShort(d, m) /\ (whole => d = m)
<1>1. read[1] = <<m.kind>>
  BY KeywordRead
<1>2. CASE m.kind = "HELLO"
  <2>1. Len(read) = 3 /\ d = Hello(Unescape(read[2]), read[3])
    BY <1>1, <1>2 DEF DecodedFrom
  <2>2. Parts(m) = << <<"HELLO">>, Escape(m.node_id), m.listen_addr>>
    BY <1>2 DEF Parts
  <2>3. /\ m.node_id \in Seq(Byte) /\ Plain(m.node_id) /\ m.listen_addr \in Numerals
        /\ m = Hello(m.node_id, m.listen_addr)
    BY <1>2, MessageKinds
  <2>4. /\ read[2] = Escape(m.node_id) /\ Begins(read[3], m.listen_addr)
        /\ whole => read[3] = m.listen_addr
    BY <2>1, <2>2, ThreeRead
  <2>5. Unescape(read[2]) = m.node_id
    BY <2>3, <2>4, UnescapeOfEscape, PlainText
  <2>6. read[3] \in Prefixes(m.listen_addr)
    BY <2>3, <2>4, NumeralText, BeginsFacts DEF Clean
  <2>7. d = [m EXCEPT !.listen_addr = read[3]] /\ d.kind = "HELLO"
    BY <2>1, <2>3, <2>5 DEF Hello
  <2>8. whole => d = m
    BY <2>1, <2>3, <2>4, <2>5
  <2>9. QED
    BY <1>2, <2>6, <2>7, <2>8 DEF CutShort
<1>3. CASE m.kind = "GET_BLOCKS"
  <2>1. Len(read) = 3 /\ d = GetBlocks(read[2], read[3])
    BY <1>1, <1>3 DEF DecodedFrom
  <2>2. Parts(m) = << <<"GET_BLOCKS">>, m.from_height, m.limit>>
    BY <1>3 DEF Parts
  <2>3. m.limit \in Numerals /\ m = GetBlocks(m.from_height, m.limit)
    BY <1>3, MessageKinds
  <2>4. /\ read[2] = m.from_height /\ Begins(read[3], m.limit)
        /\ whole => read[3] = m.limit
    BY <2>1, <2>2, ThreeRead
  <2>5. read[3] \in Prefixes(m.limit)
    BY <2>3, <2>4, NumeralText, BeginsFacts DEF Clean
  <2>6. d = [m EXCEPT !.limit = read[3]] /\ d.kind = "GET_BLOCKS"
    BY <2>1, <2>3, <2>4 DEF GetBlocks
  <2>7. whole => d = m
    BY <2>1, <2>3, <2>4
  <2>8. QED
    BY <1>3, <2>5, <2>6, <2>7 DEF CutShort
<1>4. CASE m.kind = "GET"
  <2>1. Len(read) = 3 /\ d = Get(SplitList(read[2], ","), read[3])
    BY <1>1, <1>4, GetForm
  <2> DEFINE list == Join(m.locator, ",")
  <2>2. Parts(m) = << <<"GET">>, list, m.limit>>
    BY <1>4 DEF Parts
  <2>3. m.locator \in Locators /\ m.limit \in Numerals /\ m = Get(m.locator, m.limit)
    BY <1>4, MessageKinds
  <2> HIDE DEF list
  <2>4. /\ read[2] = list /\ Begins(read[3], m.limit)
        /\ whole => read[3] = m.limit
    <3>1. SplitOf(read, << <<"GET">>, list, m.limit>>, whole) /\ Len(read) = 3
      BY <2>1, <2>2
    <3>2. QED
      BY ONLY <3>1, ThreeRead
  <2>5. SplitList(read[2], ",") = m.locator
    BY <2>3, <2>4, DigestText, ListRead, Commas DEF list
  <2>6. read[3] \in Prefixes(m.limit)
    BY <2>3, <2>4, NumeralText, BeginsFacts DEF Clean
  <2>7. d = [m EXCEPT !.limit = read[3]] /\ d.kind = "GET"
    <3>1. \A l, a, b : Get(l, b) = [Get(l, a) EXCEPT !.limit = b] /\ Get(l, b).kind = "GET"
      BY DEF Get
    <3>2. d = Get(m.locator, read[3])
      BY <2>1, <2>5
    <3>3. QED
      BY <2>3, <3>1, <3>2
  <2>8. whole => d = m
    BY <2>1, <2>3, <2>4, <2>5
  <2>9. QED
    BY <1>4, <2>6, <2>7, <2>8 DEF CutShort
<1>5. CASE m.kind = "GET_PEERS"
  <2>1. Len(read) = 2 /\ d = GetPeers(read[2])
    BY <1>1, <1>5 DEF DecodedFrom
  <2>2. Parts(m) = << <<"GET_PEERS">>, m.limit>>
    BY <1>5 DEF Parts
  <2>3. m.limit \in Numerals /\ m = GetPeers(m.limit)
    BY <1>5, MessageKinds
  <2>4. Begins(read[2], m.limit) /\ (whole => read[2] = m.limit)
    BY <2>1, <2>2, TwoRead
  <2>5. read[2] \in Prefixes(m.limit)
    BY <2>3, <2>4, NumeralText, BeginsFacts DEF Clean
  <2>6. d = [m EXCEPT !.limit = read[2]] /\ d.kind = "GET_PEERS"
    BY <2>1, <2>3 DEF GetPeers
  <2>7. whole => d = m
    BY <2>1, <2>3, <2>4
  <2>8. QED
    BY <1>5, <2>5, <2>6, <2>7 DEF CutShort
<1>6. QED
  BY <1>2, <1>3, <1>4, <1>5

\* What is read of a list of addresses, or of headers, is the beginning of its text.
LEMMA ListLastRead ==
  ASSUME NEW m \in MessageType, m.kind \in {"PEERS", "HEADERS"},
         NEW read, NEW whole, SplitOf(read, Parts(m), whole), NEW d, DecodedFrom(d, read)
  PROVE  d.kind = m.kind /\ CutShort(d, m)
<1>1. read[1] = <<m.kind>>
  BY KeywordRead
<1>2. CASE m.kind = "PEERS"
  <2>1. Len(read) = 2 /\ d = Peers(SplitList(read[2], ","))
    BY <1>1, <1>2, PeersForm
  <2> DEFINE list == Join(m.peers, ",")
  <2>2. Parts(m) = << <<"PEERS">>, list>>
    BY <1>2 DEF Parts
  <2>3. list \in Seq(Byte)
    BY <1>2, MessageKinds, NumeralList, JoinFacts, Commas
  <2> HIDE DEF list
  <2>4. Begins(read[2], list)
    <3>1. SplitOf(read, Parts(m), whole) /\ Len(read) = 2
      BY <2>1
    <3>2. QED
      BY ONLY <2>2, <3>1, TwoRead
  <2>5. read[2] \in Seq(Byte) /\ IsPrefix(read[2], list)
    BY <2>3, <2>4, BeginsFacts
  <2>6. d.kind = "PEERS" /\ Join(d.peers, ",") = read[2]
    BY <2>1, <2>5, ListJoined, Commas DEF Peers
  <2>7. QED
    BY <1>2, <2>5, <2>6 DEF CutShort, list
<1>3. CASE m.kind = "HEADERS"
  <2>1. Len(read) = 2 /\ AreHeaders(read[2]) /\ d = Headers(DecodedHeaders(read[2]))
    BY <1>1, <1>3 DEF DecodedFrom
  <2> DEFINE list == Join(HeaderTexts(m.headers), ";")
             texts == SplitList(read[2], ";")
             headers == DecodedHeaders(read[2])
  <2>2. Parts(m) = << <<"HEADERS">>, list>>
    BY <1>3 DEF Parts
  <2>3. list \in Seq(Byte)
    BY <1>3, MessageKinds, HeaderList, JoinFacts, Commas
  <2> HIDE DEF list
  <2>4. Begins(read[2], list)
    <3>1. SplitOf(read, Parts(m), whole) /\ Len(read) = 2
      BY <2>1
    <3>2. QED
      BY ONLY <2>2, <3>1, TwoRead
  <2>5. read[2] \in Seq(Byte) /\ IsPrefix(read[2], list)
    BY <2>3, <2>4, BeginsFacts
  <2>6. texts \in Seq(Seq(Byte)) /\ Join(texts, ";") = read[2]
    BY <2>5, ListJoined, Commas
  <2>7. /\ DOMAIN texts = 1..Len(texts) /\ Len(texts) \in Nat
        /\ \A i \in 1..Len(texts) : texts[i] \in Seq(Byte) /\ IsHeader(texts[i])
    <3>1. DOMAIN texts = 1..Len(texts) /\ Len(texts) \in Nat /\ \A i \in 1..Len(texts) : texts[i] \in Seq(Byte)
      BY <2>6, LenProperties, ElementOfSeq
    <3>2. QED
      BY <2>1, <3>1 DEF AreHeaders, ToSet
  <2>8. ASSUME NEW i \in 1..Len(texts)
        PROVE  Join(<<DecodeHeader(texts[i]).header, DecodeHeader(texts[i]).nonce>>, ",") = texts[i]
    <3> DEFINE t == texts[i]
               pair == Split(t, ",")
    <3>1. Len(pair) = 2 /\ t \in Seq(Byte)
      BY <2>7 DEF IsHeader
    <3>2. pair \in Seq(Seq(Byte)) /\ Join(pair, ",") = t
      BY <3>1, JoinOfSplit, Commas DEF Split, TextFields
    <3>3. DecodeHeader(t).header = pair[1] /\ DecodeHeader(t).nonce = pair[2]
      BY DEF DecodeHeader
    <3> HIDE DEF pair, t
    <3>4. <<pair[1], pair[2]>> = pair
      BY <3>1, <3>2, PairEqual
    <3>5. QED
      BY <3>2, <3>3, <3>4 DEF t
  <2>9. EncodeHeaders(headers) = read[2]
    <3>1. headers = [i \in 1..Len(texts) |-> DecodeHeader(texts[i])]
      BY DEF DecodedHeaders
    <3> HIDE DEF texts, headers
    <3>2. Len(headers) = Len(texts)
      <4>1. headers \in Seq({headers[i] : i \in 1..Len(texts)}) /\ Len(headers) = Len(texts)
        BY <2>7, <3>1, ListOfLength
      <4>2. QED
        BY <4>1
    <3>3. [i \in 1..Len(headers) |-> Join(<<headers[i].header, headers[i].nonce>>, ",")] = texts
      <4>1. \A i \in 1..Len(texts) : Join(<<headers[i].header, headers[i].nonce>>, ",") = texts[i]
        BY <2>8, <3>1
      <4>2. texts = [i \in 1..Len(texts) |-> texts[i]]
        BY <2>6, <2>7, LenProperties
      <4>3. QED
        BY <3>2, <4>1, <4>2
    <3>4. QED
      BY <2>6, <3>3 DEF EncodeHeaders
  <2>10. EncodeHeaders(m.headers) = list
    BY DEF EncodeHeaders, HeaderTexts, list
  <2>11. d.kind = "HEADERS" /\ d.headers = headers
    BY <2>1 DEF Headers
  <2>12. QED
    BY <1>3, <2>5, <2>9, <2>10, <2>11 DEF CutShort
<1>4. QED
  BY <1>2, <1>3

\* A place before the last is a place of a longer list.
LEMMA BeforeLast ==
  ASSUME NEW m \in Nat, NEW n \in 1..m, NEW i \in 1..(n - 1)
  PROVE  i \in 1..m
OBVIOUS

\* What is read of five fields.
LEMMA FiveRead ==
  ASSUME NEW a, NEW b, NEW c, NEW d, NEW e, NEW read, NEW whole,
         SplitOf(read, <<a, b, c, d, e>>, whole), Len(read) = 5
  PROVE  read[2] = b /\ read[3] = c /\ read[4] = d /\ Begins(read[5], e) /\ (whole => read[5] = e)
<1>1. \A i \in {2, 3, 4} : i \in 1..(5 - 1)
  OBVIOUS
<1> DEFINE fields == <<a, b, c, d, e>>
<1>2. SplitOf(read, fields, whole) /\ fields[2] = b /\ fields[3] = c /\ fields[4] = d /\ fields[5] = e
  OBVIOUS
<1> HIDE DEF fields
<1>3. QED
  BY <1>1, <1>2 DEF SplitOf

\* The keyword decides the form: a block.
LEMMA BlockForm ==
  ASSUME NEW d, NEW fields, DecodedFrom(d, fields), fields[1] = <<"BLOCK">>
  PROVE  Len(fields) = 5 /\ d = Block(fields[2], fields[3], fields[4], DecodedEntries(fields[5]))
<1>1. \A k \in {"HELLO", "GET_BLOCKS", "GET", "INVENTORY", "HEADERS", "GET_PEERS", "PEERS",
               "END_BLOCKS"} : fields[1] # <<k>>
  OBVIOUS
<1>2. QED
  BY <1>1, Zenon DEF DecodedFrom

\* A list without its first element, which was put before it.
LEMMA TailOfFirst ==
  ASSUME NEW X, NEW x \in X, NEW s \in Seq(X)
  PROVE  Tail(<<x>> \o s) = s
OBVIOUS

\* An entry without its first byte is its number.
LEMMA EntryTail ==
  ASSUME NEW entries \in Seq(Numerals)
  PROVE  /\ Len(entries) \in Nat
         /\ \A i \in 1..Len(entries) : Tail(EntryTexts(entries)[i]) = entries[i]
<1>1. /\ Len(entries) \in Nat
      /\ \A i \in 1..Len(entries) : entries[i] \in Seq(Byte) /\ EntryTexts(entries)[i] = <<"c">> \o entries[i]
  BY LenProperties, NumeralList, EntryList DEF Clean
<1>2. "c" \in Byte
  BY WireAssumption DEF WireAssumption, Named, Keywords
<1>3. QED
  BY <1>1, <1>2, TailOfFirst

\* The entries read of the beginning of a list of entries.
EntriesRead(read, entries) ==
  /\ read \in Seq(Seq(Byte)) /\ Len(read) \in 1..Len(entries)
  /\ \A i \in 1..(Len(read) - 1) : Tail(read[i]) = entries[i]

\* All entries but the last are read as they were written.
LEMMA EntriesAreRead ==
  ASSUME NEW entries \in Seq(Numerals), entries # << >>,
         NEW text, Begins(text, Join(EntryTexts(entries), ";"))
  PROVE  EntriesRead(Split(text, ";"), entries)
<1> DEFINE all == EntryTexts(entries)
           read == Split(text, ";")
<1>1. /\ all \in Seq(Seq(Byte)) /\ Len(all) = Len(entries)
      /\ \A i \in 1..Len(entries) : Without(all[i], ";")
  BY EntryList
<1>2. all # << >>
  BY <1>1, LenProperties, EmptySeq
<1>3. SplitOf(read, all, Len(text) = Len(Join(all, ";")))
  <2> HIDE DEF all
  <2>1. TextFields(all) /\ \A i \in 1..Len(all) : Without(all[i], ";")
    BY <1>1, <1>2 DEF TextFields
  <2>2. Begins(text, Join(all, ";"))
    BY DEF all
  <2>3. QED
    BY <2>1, <2>2, SplitOfJoin, Commas
<1>4. /\ read \in Seq(Seq(Byte)) /\ Len(read) \in 1..Len(all) /\ Len(read) \in Nat
      /\ \A i \in 1..(Len(read) - 1) : read[i] = all[i]
  BY <1>3, LenProperties DEF SplitOf, TextFields
<1> HIDE DEF read
<1>5. ASSUME NEW i \in 1..(Len(read) - 1) PROVE Tail(read[i]) = entries[i]
  <2>1. i \in 1..Len(entries)
    <3>1. Len(entries) \in Nat /\ Len(read) \in 1..Len(entries)
      BY <1>1, <1>4, LenProperties
    <3>2. QED
      BY <3>1, BeforeLast
  <2>2. QED
    BY <1>4, <2>1, EntryTail
<1>6. QED
  BY <1>1, <1>4, <1>5 DEF EntriesRead, read

\* The entries of a list that is read to its end.
LEMMA DecodedList ==
  ASSUME NEW entries \in Seq(Numerals)
  PROVE  DecodedEntries(Join(EntryTexts(entries), ";")) = entries
<1> DEFINE all == EntryTexts(entries)
<1>1. /\ all \in Seq(Seq(Byte)) /\ Len(all) = Len(entries)
      /\ \A i \in 1..Len(entries) : Without(all[i], ";") /\ all[i] = <<"c">> \o entries[i]
  BY EntryList
<1>2. \A i \in 1..Len(entries) : all[i] # << >>
  <2>1. "c" \in Byte /\ \A i \in 1..Len(entries) : entries[i] \in Seq(Byte)
    BY NumeralList, WireAssumption DEF WireAssumption, Named, Keywords
  <2>2. \A i \in 1..Len(entries) : Len(all[i]) = Len(entries[i]) + 1 /\ Len(entries[i]) \in Nat
    <3>1. \A t \in Seq(Byte) : Len(<<"c">> \o t) = Len(t) + 1 /\ Len(t) \in Nat
      BY <2>1, ByteFirst, LenProperties
    <3>2. QED
      BY <1>1, <2>1, <3>1
  <2>3. Len(<< >>) = 0
    BY EmptySeq
  <2>4. QED
    BY <2>2, <2>3
<1>3. SplitList(Join(all, ";"), ";") = all
  <2> HIDE DEF all
  <2>1. \A i \in 1..Len(all) : Without(all[i], ";") /\ all[i] # << >>
    BY <1>1, <1>2
  <2>2. QED
    BY <1>1, <2>1, ListRead, Commas
<1>4. DecodedEntries(Join(all, ";")) = [i \in 1..Len(all) |-> Tail(all[i])]
  BY <1>3 DEF DecodedEntries
<1>5. [i \in 1..Len(all) |-> Tail(all[i])] = [i \in 1..Len(entries) |-> entries[i]]
  BY <1>1, EntryTail
<1>6. QED
  BY <1>4, <1>5, LenProperties

\* What is read of a block: the trace of the block if it is one, and the whole of a
\* block that is read to its end.
LEMMA BlockLastRead ==
  ASSUME NEW m \in MessageType, m.kind = "BLOCK",
         NEW read, NEW whole, SplitOf(read, Parts(m), whole), NEW d, DecodedFrom(d, read)
  PROVE  /\ d.kind = "BLOCK"
         /\ TraceOk(d) /\ TraceOk(m) => d = m
         /\ whole => d = m
<1> DEFINE list == Join(EntryTexts(m.entries), ";")
<1>1. Len(read) = 5 /\ d = Block(read[2], read[3], read[4], DecodedEntries(read[5]))
  <2>1. read[1] = <<"BLOCK">>
    BY KeywordRead
  <2>2. QED
    BY <2>1, BlockForm
<1>2. Parts(m) = << <<"BLOCK">>, m.header, m.model_after, m.candidate_model, list>>
  BY DEF Parts
<1>3. /\ m.entries \in Seq(Numerals)
      /\ m = Block(m.header, m.model_after, m.candidate_model, m.entries)
  BY MessageKinds
<1> HIDE DEF list
<1>4. /\ read[2] = m.header /\ read[3] = m.model_after /\ read[4] = m.candidate_model
      /\ Begins(read[5], list)
      /\ whole => read[5] = list
  <2>1. /\ SplitOf(read, << <<"BLOCK">>, m.header, m.model_after, m.candidate_model, list>>, whole)
        /\ Len(read) = 5
    BY <1>1, <1>2
  <2>2. QED
    BY ONLY <2>1, FiveRead
<1>5. /\ d.kind = "BLOCK" /\ d.candidate_model = m.candidate_model
      /\ d.entries = DecodedEntries(read[5])
      /\ d.entries = m.entries => d = m
  <2>1. \A h, a, c, e : Block(h, a, c, e).kind = "BLOCK" /\ Block(h, a, c, e).candidate_model = c
                          /\ Block(h, a, c, e).entries = e
    BY DEF Block
  <2>2. QED
    BY <1>1, <1>3, <1>4, <2>1
<1>6. whole => d = m
  BY <1>3, <1>4, <1>5, DecodedList DEF list
<1>7. ASSUME TraceOk(d), TraceOk(m) PROVE d.entries = m.entries
  <2> DEFINE read5 == SplitList(read[5], ";")
             n == TraceLength
  <2>1. n \in Nat \ {0} /\ Len(m.entries) = n /\ Len(d.entries) = n
    BY <1>7, WireAssumption DEF WireAssumption, TraceOk
  <2>2. d.entries = [i \in 1..Len(read5) |-> Tail(read5[i])]
    BY <1>5 DEF DecodedEntries
  <2>3. read5 \in Seq(Seq(Byte)) /\ Len(read5) \in Nat
    <3>1. read[5] \in Seq(Byte)
      BY <1>4 DEF Begins
    <3>2. QED
      BY <3>1, ListJoined, Commas, LenProperties
  <2> HIDE DEF read5
  <2>4. Len(read5) = n
    <3>1. Len([i \in 1..Len(read5) |-> Tail(read5[i])]) = Len(read5)
      BY <2>3, ListOfLength
    <3>2. QED
      BY <2>1, <2>2, <3>1
  <2>5. EntriesRead(read5, m.entries)
    <3>1. read[5] # << >>
      <4>1. SplitList(<< >>, ";") = << >> /\ Len(<< >>) = 0
        BY EmptySeq DEF SplitList
      <4>2. QED
        BY <2>1, <2>4, <4>1 DEF read5
    <3>2. read5 = Split(read[5], ";")
      BY <3>1 DEF read5, SplitList
    <3>3. m.entries # << >>
      BY <2>1, EmptySeq
    <3>4. QED
      BY <1>3, <1>4, <3>2, <3>3, EntriesAreRead DEF list
  <2>6. \A i \in 1..n : d.entries[i] = Tail(read5[i])
    BY <2>2, <2>4
  <2>7. \A i \in 1..(n - 1) : d.entries[i] = m.entries[i]
    <3>1. \A i \in 1..(n - 1) : i \in 1..n
      BY <2>1
    <3>2. QED
      BY <2>4, <2>5, <2>6, <3>1 DEF EntriesRead
  <2>8. d.entries[n] = m.entries[n]
    BY <1>5, <1>7, <2>1 DEF TraceOk, Last
  <2>9. \A i \in 1..n : d.entries[i] = m.entries[i]
    <3>1. \A i \in 1..n : i = n \/ i \in 1..(n - 1)
      BY <2>1
    <3>2. QED
      BY <2>7, <2>8, <3>1
  <2>10. d.entries = [i \in 1..n |-> d.entries[i]]
    BY <2>2, <2>4
  <2>11. m.entries = [i \in 1..n |-> m.entries[i]]
    BY <1>3, <2>1, LenProperties
  <2>12. QED
    BY <2>9, <2>10, <2>11
<1>8. QED
  BY <1>5, <1>6, <1>7

\* What is read of the other messages.
LEMMA OthersRead ==
  ASSUME NEW m \in MessageType, m.kind \in {"INVENTORY", "END_BLOCKS"},
         NEW read, NEW whole, SplitOf(read, Parts(m), whole), NEW d, DecodedFrom(d, read)
  PROVE  d.kind = m.kind /\ (m.kind = "END_BLOCKS" => d = m)
<1>1. read[1] = <<m.kind>>
  BY KeywordRead
<1>2. \A k \in {"HELLO", "GET_BLOCKS", "GET", "HEADERS", "GET_PEERS", "PEERS", "BLOCK"} : read[1] # <<k>>
  BY <1>1
<1>3. CASE m.kind = "INVENTORY"
  <2>1. read[1] # <<"END_BLOCKS">>
    BY <1>1, <1>3
  <2>2. QED
    BY <1>2, <1>3, <2>1, Zenon DEF DecodedFrom
<1>4. CASE m.kind = "END_BLOCKS"
  <2>1. read[1] # <<"INVENTORY">>
    BY <1>1, <1>4
  <2>2. d = EndBlocks
    BY <1>2, <2>1, Zenon DEF DecodedFrom
  <2>3. QED
    BY <1>4, <2>2, MessageKinds
<1>5. QED
  BY <1>3, <1>4

\* What is made of the beginning of a message's text: the kind is never mistaken.
LEMMA MessageRead ==
  ASSUME NEW m \in MessageType, NEW text, Begins(text, EncodeMessage(m)),
         DecodeMessage(text) # NoMessage
  PROVE  LET d == DecodeMessage(text)
             whole == text = EncodeMessage(m)
         IN  /\ d.kind = m.kind
             /\ m.kind \notin {"INVENTORY", "BLOCK", "END_BLOCKS"} => CutShort(d, m)
             /\ m.kind = "BLOCK" /\ TraceOk(d) /\ TraceOk(m) => d = m
             /\ m.kind = "END_BLOCKS" => d = m
             /\ whole /\ m.kind \notin {"INVENTORY", "HEADERS", "PEERS"} => d = m
<1> DEFINE d == DecodeMessage(text)
           read == Split(text, "|")
           whole == Len(text) = Len(EncodeMessage(m))
<1>1. SplitOf(read, Parts(m), whole)
  <2> DEFINE parts == Parts(m)
  <2>1. /\ TextFields(parts) /\ EncodeMessage(m) = Join(parts, "|")
        /\ \A i \in 1..Len(parts) : Without(parts[i], "|")
    BY MessageParts DEF CleanFields, Clean
  <2> HIDE DEF parts
  <2>2. SplitOf(Split(text, "|"), parts, Len(text) = Len(Join(parts, "|")))
    BY <2>1, SplitOfJoin, Commas
  <2>3. QED
    BY <2>1, <2>2 DEF parts
<1>2. DecodedFrom(d, read)
  BY DecodeForms
<1>3. text = EncodeMessage(m) => whole
  OBVIOUS
<1> HIDE DEF d, read, whole
<1>4. m.kind \in {"HELLO", "GET_BLOCKS", "GET", "GET_PEERS"} =>
        d.kind = m.kind /\ CutShort(d, m) /\ (whole => d = m)
  BY <1>1, <1>2, NumberLastRead
<1>5. m.kind \in {"PEERS", "HEADERS"} => d.kind = m.kind /\ CutShort(d, m)
  BY <1>1, <1>2, ListLastRead
<1>6. m.kind = "BLOCK" =>
        d.kind = m.kind /\ (TraceOk(d) /\ TraceOk(m) => d = m) /\ (whole => d = m)
  BY <1>1, <1>2, BlockLastRead
<1>7. m.kind \in {"INVENTORY", "END_BLOCKS"} => d.kind = m.kind /\ (m.kind = "END_BLOCKS" => d = m)
  BY <1>1, <1>2, OthersRead
<1>8. m.kind \in {"HELLO", "GET_BLOCKS", "GET", "INVENTORY", "HEADERS", "GET_PEERS", "PEERS",
                  "BLOCK", "END_BLOCKS"}
  BY MessageKinds
<1>9. QED
  BY <1>3, <1>4, <1>5, <1>6, <1>7, <1>8 DEF d

\* A list of entries, as it is read.
LEMMA EntriesAccepted ==
  ASSUME NEW entries \in Seq(Numerals)
  PROVE  AreEntries(Join(EntryTexts(entries), ";"))
<1> DEFINE all == EntryTexts(entries)
<1>1. /\ all \in Seq(Seq(Byte)) /\ Len(all) = Len(entries) /\ Len(entries) \in Nat
      /\ \A i \in 1..Len(entries) : Without(all[i], ";") /\ all[i] = <<"c">> \o entries[i]
  BY EntryList, LenProperties
<1>2. \A i \in 1..Len(entries) : entries[i] \in Seq(Byte) /\ IsNumber(entries[i])
  BY NumeralList, NumeralText DEF Clean
<1>3. \A t \in Seq(Byte) : <<"c">> \o t # << >> /\ Head(<<"c">> \o t) = "c" /\ Tail(<<"c">> \o t) = t
  <2>1. "c" \in Byte
    BY WireAssumption DEF WireAssumption, Named, Keywords
  <2>2. \A X : \A x \in X : \A s \in Seq(X) : <<x>> \o s # << >> /\ Head(<<x>> \o s) = x /\ Tail(<<x>> \o s) = s
    OBVIOUS
  <2>3. QED
    BY <2>1, <2>2
<1>4. \A i \in 1..Len(entries) : all[i] # << >> /\ Head(all[i]) = "c" /\ IsNumber(Tail(all[i]))
  BY <1>1, <1>2, <1>3
<1>5. SplitList(Join(all, ";"), ";") = all
  <2>1. \A i \in 1..Len(all) : Without(all[i], ";") /\ all[i] # << >>
    BY <1>1, <1>4
  <2> HIDE DEF all
  <2>2. QED
    BY <1>1, <2>1, ListRead, Commas
<1>6. ToSet(all) = {all[i] : i \in 1..Len(entries)}
  BY <1>1, LenProperties DEF ToSet
<1> HIDE DEF all
<1>7. \A entry \in ToSet(all) : entry # << >> /\ Head(entry) = "c" /\ IsNumber(Tail(entry))
  BY <1>4, <1>6
<1>8. QED
  BY <1>5, <1>7 DEF AreEntries, all

\* What a handler takes is decoded, from fields and from a text.
LEMMA FieldsDecoded ==
  ASSUME NEW m \in MessageType, m.kind \in {"HELLO", "GET_BLOCKS", "GET", "GET_PEERS", "BLOCK"}
  PROVE  Decoding(Parts(m)) # NoMessage
<1> DEFINE d == Decoding(Parts(m))
<1>1. \A a, b, c, e : /\ Hello(a, b).kind = "HELLO" /\ GetBlocks(a, b).kind = "GET_BLOCKS"
                      /\ Get(a, b).kind = "GET" /\ GetPeers(a).kind = "GET_PEERS"
                      /\ Block(a, b, c, e).kind = "BLOCK"
  BY DEF Hello, GetBlocks, Get, GetPeers, Block
<1>2. NoMessage.kind = "None"
  BY DEF NoMessage
<1>3. CASE m.kind = "HELLO"
  <2> DEFINE a == Escape(m.node_id)
             b == m.listen_addr
  <2>1. Parts(m) = << <<"HELLO">>, a, b>>
    BY <1>3 DEF Parts
  <2>2. IsNumber(b)
    BY <1>3, MessageKinds, NumeralText
  <2> HIDE DEF a, b
  <2>3. Decoding(<< <<"HELLO">>, a, b>>) = Hello(Unescape(a), b)
    BY <2>2 DEF Decoding
  <2>4. QED
    BY <1>1, <1>2, <2>1, <2>3
<1>4. CASE m.kind = "GET_BLOCKS"
  <2> DEFINE a == m.from_height
             b == m.limit
  <2>1. Parts(m) = << <<"GET_BLOCKS">>, a, b>>
    BY <1>4 DEF Parts
  <2>2. IsNumber(a) /\ IsNumber(b)
    BY <1>4, MessageKinds, NumeralText
  <2> HIDE DEF a, b
  <2>3. Decoding(<< <<"GET_BLOCKS">>, a, b>>) = GetBlocks(a, b)
    BY <2>2 DEF Decoding
  <2>4. QED
    BY <1>1, <1>2, <2>1, <2>3
<1>5. CASE m.kind = "GET"
  <2> DEFINE a == Join(m.locator, ",")
             b == m.limit
  <2>1. Parts(m) = << <<"GET">>, a, b>>
    BY <1>5 DEF Parts
  <2>2. IsNumber(b)
    BY <1>5, MessageKinds, NumeralText
  <2>3. AreDigests(SplitList(a, ","))
    <3>1. /\ m.locator \in Seq(Seq(Byte))
          /\ \A i \in 1..Len(m.locator) : /\ Without(m.locator[i], ",") /\ m.locator[i] # << >>
                                          /\ IsDigest(m.locator[i])
      BY <1>5, MessageKinds, DigestText
    <3>2. SplitList(a, ",") = m.locator
      BY <3>1, ListRead, Commas
    <3>3. DOMAIN m.locator = 1..Len(m.locator)
      BY <3>1, LenProperties
    <3>4. QED
      BY <3>1, <3>2, <3>3 DEF AreDigests, ToSet
  <2> HIDE DEF a, b
  <2>4. Decoding(<< <<"GET">>, a, b>>) = Get(SplitList(a, ","), b)
    BY <2>2, <2>3 DEF Decoding
  <2>5. QED
    BY <1>1, <1>2, <2>1, <2>4
<1>6. CASE m.kind = "GET_PEERS"
  <2> DEFINE a == m.limit
  <2>1. Parts(m) = << <<"GET_PEERS">>, a>>
    BY <1>6 DEF Parts
  <2>2. IsNumber(a)
    BY <1>6, MessageKinds, NumeralText
  <2> HIDE DEF a
  <2>3. Decoding(<< <<"GET_PEERS">>, a>>) = GetPeers(a)
    BY <2>2 DEF Decoding
  <2>4. QED
    BY <1>1, <1>2, <2>1, <2>3
<1>7. CASE m.kind = "BLOCK"
  <2> DEFINE a == m.header
             b == m.model_after
             c == m.candidate_model
             e == Join(EntryTexts(m.entries), ";")
  <2>1. Parts(m) = << <<"BLOCK">>, a, b, c, e>>
    BY <1>7 DEF Parts
  <2>2. Len(a) = 1 /\ IsNumber(b) /\ IsNumber(c) /\ AreEntries(e)
    BY <1>7, MessageKinds, NumeralText, TokenText, EntriesAccepted
  <2> HIDE DEF a, b, c, e
  <2>3. Decoding(<< <<"BLOCK">>, a, b, c, e>>) = Block(a, b, c, DecodedEntries(e))
    BY <2>2 DEF Decoding
  <2>4. QED
    BY <1>1, <1>2, <2>1, <2>3
<1>8. QED
  BY <1>3, <1>4, <1>5, <1>6, <1>7

\* What a handler takes is decoded to what was encoded.
LEMMA MessageDecoded ==
  ASSUME NEW m \in MessageType, m.kind \in {"HELLO", "GET_BLOCKS", "GET", "GET_PEERS", "BLOCK"}
  PROVE  DecodeMessage(EncodeMessage(m)) = m
<1> DEFINE text == EncodeMessage(m)
<1>1. text \in Seq(Byte) /\ Begins(text, text)
  BY MessageText, LenProperties DEF Begins
<1>2. Split(text, "|") = Parts(m)
  <2> DEFINE parts == Parts(m)
  <2>1. /\ TextFields(parts) /\ text = Join(parts, "|")
        /\ \A i \in 1..Len(parts) : Without(parts[i], "|")
    BY MessageParts DEF CleanFields, Clean
  <2> HIDE DEF parts
  <2>2. SplitOf(Split(text, "|"), parts, Len(text) = Len(Join(parts, "|")))
    BY <1>1, <2>1, SplitOfJoin, Commas
  <2>3. QED
    BY <2>1, <2>2 DEF SplitOf, parts
<1>3. DecodeMessage(text) # NoMessage
  BY <1>2, DecodeFields, FieldsDecoded
<1>4. QED
  BY <1>1, <1>3, MessageRead

\* The receiver of the sender's configuration reads the message in the line.
LEMMA PlainEnvelope ==
  ASSUME NEW config \in WireConfigs, NEW m \in MessageType, Plain(config.network_id)
  PROVE  DecodeNetworkMessage(Payload(config, m), config) = DecodeMessage(EncodeMessage(m))
<1> DEFINE fields == Envelope(config, m)
           payload == Payload(config, m)
           read == SplitN(payload, "|", 5)
<1>1. /\ TextFields(fields) /\ Len(fields) = 5 /\ Separated(fields, "|", 5)
      /\ fields[1] = <<"CHESSCOIN">> /\ fields[2] = <<config.protocol_version>>
      /\ fields[3] = Escape(config.network_id) /\ fields[4] = Escape(config.chain_fingerprint)
      /\ fields[5] = EncodeMessage(m)
  BY EnvelopeFacts
<1> HIDE DEF fields, payload
<1>2. PICK start : Layout(fields, "|", payload, start)
  BY <1>1, JoinLayout, NamedBytes DEF payload, Payload, fields
<1>3. payload \in Seq(Byte) /\ Begins(payload, payload)
  BY <1>2, LenProperties DEF Layout, Begins
<1>4. FieldsRead(fields, start, read, Len(payload))
  <2>1. 5 \in Nat /\ Len(fields) <= 5
    BY <1>1
  <2>2. QED
    BY <1>1, <1>2, <1>3, <2>1, SplitBeginning
<1>5. read = fields
  BY <1>1, <1>2, <1>4, AllFieldsRead
<1>6. Unescape(fields[3]) = config.network_id /\ Unescape(fields[4]) = config.chain_fingerprint
  BY <1>1, ConfigFacts, UnescapeOfEscape, PlainText
<1>7. DecodeNetworkMessage(payload, config) = DecodeMessage(fields[5])
  BY <1>1, <1>5, <1>6 DEF DecodeNetworkMessage
<1>8. QED
  BY <1>1, <1>7 DEF payload

\* The end of a text of fields is the end of the last field.
EndsInDigit(text) == text \in Seq(Byte) /\ text # << >> /\ text[Len(text)] \in Digits

\* Fields of which the last ends in a digit end in a digit.
LEMMA JoinEnd ==
  ASSUME NEW fields, TextFields(fields), NEW separator \in Byte, EndsInDigit(fields[Len(fields)])
  PROVE  EndsInDigit(Join(fields, separator))
<1> DEFINE text == Join(fields, separator)
           n == Len(fields)
           last == fields[n]
           k == Len(last)
<1>1. PICK start : Layout(fields, separator, text, start)
  BY JoinLayout
<1> HIDE DEF text
<1>2. n \in Nat \ {0} /\ n \in 1..n
  BY FieldsFacts
<1>3. start[n] \in Nat /\ Len(text) = start[n] + k /\ text \in Seq(Byte)
  BY <1>1, <1>2, LayoutNumbers, LayoutText
<1>4. k \in Nat \ {0}
  BY LenProperties, EmptySeq DEF EndsInDigit
<1>5. text[start[n] + k] = last[k]
  <2>1. \A j \in 1..Len(fields[n]) : text[start[n] + j] = fields[n][j]
    BY <1>1, <1>2 DEF Layout
  <2>2. k \in 1..k
    BY <1>4
  <2>3. QED
    BY <2>1, <2>2
<1>6. text # << >>
  BY <1>3, <1>4, EmptySeq
<1>7. QED
  BY <1>3, <1>5, <1>6 DEF EndsInDigit, text

\* The messages that a handler takes end in a digit.
LEMMA NumeralEnd ==
  ASSUME NEW n \in Numerals
  PROVE  EndsInDigit(n)
<1>1. n \in Seq(Digits) /\ n # << >>
  BY DEF Numerals
<1>2. Len(n) \in Nat /\ Len(n) # 0
  BY <1>1, LenProperties, EmptySeq
<1>3. Len(n) \in 1..Len(n)
  BY <1>2
<1>4. n[Len(n)] \in Digits
  BY <1>1, <1>3, ElementOfSeq
<1>5. QED
  BY <1>1, <1>4, NumeralText DEF EndsInDigit, Clean

\* A trace ends in a digit.
LEMMA EntriesEnd ==
  ASSUME NEW entries \in Seq(Numerals), entries # << >>
  PROVE  EndsInDigit(Join(EntryTexts(entries), ";"))
<1> DEFINE all == EntryTexts(entries)
           n == Len(entries)
<1>1. /\ all \in Seq(Seq(Byte)) /\ Len(all) = n
      /\ \A i \in 1..n : all[i] = <<"c">> \o entries[i]
  BY EntryList
<1>2. n \in Nat \ {0} /\ n \in 1..n
  BY LenProperties, EmptySeq
<1>3. EndsInDigit(all[n])
  <2> DEFINE e == entries[n]
  <2>1. e \in Numerals
    BY <1>2, ElementOfSeq
  <2>2. all[n] = <<"c">> \o e
    BY <1>1, <1>2
  <2> HIDE DEF e
  <2>3. e \in Seq(Byte) /\ e # << >> /\ e[Len(e)] \in Digits
    BY <2>1, NumeralEnd DEF EndsInDigit
  <2>4. Len(e) \in Nat /\ Len(e) \in 1..Len(e) /\ Len(e) + 1 # 0
    BY <2>3, LenProperties, EmptySeq
  <2>5. /\ <<"c">> \o e \in Seq(Byte) /\ Len(<<"c">> \o e) = Len(e) + 1
        /\ (<<"c">> \o e)[Len(e) + 1] = e[Len(e)]
    <3>1. "c" \in Byte
      BY WireAssumption DEF WireAssumption, Named, Keywords
    <3>2. QED
      BY <2>3, <2>4, <3>1, ByteFirst
  <2>6. <<"c">> \o e # << >>
    BY <2>4, <2>5, EmptySeq
  <2>7. QED
    BY <2>2, <2>3, <2>5, <2>6 DEF EndsInDigit
<1> HIDE DEF all
<1>4. TextFields(all) /\ EndsInDigit(all[Len(all)])
  BY <1>1, <1>2, <1>3, EmptySeq DEF TextFields
<1>5. QED
  BY <1>4, JoinEnd, Commas DEF all

\* So do the messages that a handler takes.
LEMMA MessageEnd ==
  ASSUME NEW m \in MessageType, m.kind \in {"HELLO", "GET_BLOCKS", "GET", "GET_PEERS", "BLOCK"},
         m.kind = "BLOCK" => m.entries # << >>
  PROVE  EndsInDigit(EncodeMessage(m))
<1> DEFINE parts == Parts(m)
           last == parts[Len(parts)]
<1>1. CASE m.kind \in {"HELLO", "GET_BLOCKS", "GET", "GET_PEERS"}
  <2>1. last \in Numerals
    <3>1. \A a, b, c : <<a, b, c>>[Len(<<a, b, c>>)] = c /\ <<a, b>>[Len(<<a, b>>)] = b
      OBVIOUS
    <3>2. CASE m.kind = "HELLO"
      BY <3>1, <3>2, MessageKinds DEF Parts
    <3>3. CASE m.kind = "GET_BLOCKS"
      BY <3>1, <3>3, MessageKinds DEF Parts
    <3>4. CASE m.kind = "GET"
      BY <3>1, <3>4, MessageKinds DEF Parts
    <3>5. CASE m.kind = "GET_PEERS"
      BY <3>1, <3>5, MessageKinds DEF Parts
    <3>6. QED
      BY <1>1, <3>2, <3>3, <3>4, <3>5
  <2>2. EndsInDigit(last)
    BY <2>1, NumeralEnd
  <2>3. TextFields(parts) /\ EncodeMessage(m) = Join(parts, "|")
    BY MessageParts DEF CleanFields
  <2> HIDE DEF parts
  <2>4. QED
    BY <2>2, <2>3, JoinEnd, Commas
<1>2. CASE m.kind = "BLOCK"
  <2> DEFINE list == Join(EntryTexts(m.entries), ";")
  <2>1. EndsInDigit(list)
    BY <1>2, MessageKinds, EntriesEnd
  <2>2. parts = << <<"BLOCK">>, m.header, m.model_after, m.candidate_model, list>>
    BY <1>2 DEF Parts
  <2>3. \A a, b, c, d, e : <<a, b, c, d, e>>[Len(<<a, b, c, d, e>>)] = e
    OBVIOUS
  <2> HIDE DEF list
  <2>4. last = list
    BY <2>2, <2>3
  <2>5. TextFields(parts) /\ EncodeMessage(m) = Join(parts, "|")
    BY MessageParts DEF CleanFields
  <2> HIDE DEF parts
  <2>6. QED
    BY <2>1, <2>4, <2>5, JoinEnd, Commas
<1>3. QED
  BY <1>1, <1>2

\* Their lines are read as UTF-8.
LEMMA PayloadUtf8 ==
  ASSUME NEW config \in WireConfigs, NEW m \in MessageType,
         m.kind \in {"HELLO", "GET_BLOCKS", "GET", "GET_PEERS", "BLOCK"},
         m.kind = "BLOCK" => m.entries # << >>
  PROVE  IsUtf8(Payload(config, m)) /\ Payload(config, m) # << >>
<1> DEFINE fields == Envelope(config, m)
<1>1. TextFields(fields) /\ Len(fields) = 5 /\ fields[5] = EncodeMessage(m)
  BY EnvelopeFacts
<1>2. EndsInDigit(EncodeMessage(m))
  BY MessageEnd
<1> HIDE DEF fields
<1>3. EndsInDigit(Join(fields, "|"))
  BY <1>1, <1>2, JoinEnd, Commas
<1>4. QED
  BY <1>3 DEF EndsInDigit, Payload, fields, IsUtf8, Last, Digits

-----------------------------------------------------------------------------
(* The lines of a connection                                                 *)

\* Two lists one after the other, element by element.
Laid(all, first, rest) ==
  /\ Len(all) = Len(first) + Len(rest)
  /\ \A i \in 1..Len(first) : all[i] = first[i]
  /\ \A i \in 1..Len(rest) : all[Len(first) + i] = rest[i]

\* \o puts one list behind the other.
LEMMA JoinLaid ==
  ASSUME NEW X, NEW s \in Seq(X), NEW t \in Seq(X)
  PROVE  s \o t \in Seq(X) /\ Laid(s \o t, s, t)
BY DEF Laid

\* A line and what ends it.
EndedBy(ended, cut, nl) ==
  /\ Len(ended) = Len(cut) + 1
  /\ \A i \in 1..Len(cut) : ended[i] = cut[i]
  /\ ended[Len(cut) + 1] = nl

\* A text up to its first line break is one line, if the line has none.
LEMMA FirstLineLaid ==
  ASSUME NEW u, Len(u) \in Nat, NEW v, Len(v) \in Nat, NEW p, Len(p) \in Nat, NEW w, Len(w) \in Nat,
         NEW q, NEW nl, NEW all, Laid(all, u, v), Laid(all, q, w), EndedBy(q, p, nl), Without(u, nl)
  PROVE  /\ Len(u) <= Len(p) /\ Len(v) >= 1
         /\ \A i \in 1..Len(u) : u[i] = p[i]
         /\ v[1] = nl /\ Without(p, nl) => Len(u) = Len(p) /\ Len(v) = Len(w) + 1
                                           /\ \A i \in 1..Len(w) : v[i + 1] = w[i]
         /\ Len(v) = Len(w) + 1 => Len(u) = Len(p)
<1>0. Len(q) = Len(p) + 1 /\ q[Len(p) + 1] = nl /\ \A i \in 1..Len(p) : q[i] = p[i]
  BY DEF EndedBy
<1>1. Len(all) = Len(u) + Len(v) /\ Len(all) = Len(p) + 1 + Len(w)
  BY <1>0 DEF Laid
<1>2. all[Len(p) + 1] = nl /\ \A i \in 1..Len(p) : all[i] = p[i]
  <2>1. Len(p) + 1 \in 1..Len(q) /\ \A i \in 1..Len(p) : i \in 1..Len(q)
    BY <1>0
  <2>2. QED
    BY <1>0, <2>1 DEF Laid
<1>3. Len(u) <= Len(p)
  <2>1. SUFFICES ASSUME Len(u) > Len(p) PROVE FALSE
    OBVIOUS
  <2>2. Len(p) + 1 \in 1..Len(u)
    BY <2>1
  <2>3. u[Len(p) + 1] = nl
    BY <1>2, <2>2 DEF Laid
  <2>4. QED
    BY <2>2, <2>3 DEF Without
<1>4. \A i \in 1..Len(u) : u[i] = p[i]
  <2>1. \A i \in 1..Len(u) : i \in 1..Len(p)
    BY <1>3
  <2>2. QED
    BY <1>2, <2>1 DEF Laid
<1>5. Len(v) >= 1
  BY <1>1, <1>3
<1>6. ASSUME v[1] = nl, Without(p, nl) PROVE Len(u) = Len(p)
  <2>1. 1 \in 1..Len(v)
    BY <1>5
  <2>2. all[Len(u) + 1] = nl
    BY <1>6, <2>1 DEF Laid
  <2>3. SUFFICES ASSUME Len(u) < Len(p) PROVE FALSE
    BY <1>3
  <2>4. Len(u) + 1 \in 1..Len(p)
    BY <2>3
  <2>5. QED
    BY <1>2, <1>6, <2>2, <2>4 DEF Without
<1>7. ASSUME Len(u) = Len(p) PROVE Len(v) = Len(w) + 1 /\ \A i \in 1..Len(w) : v[i + 1] = w[i]
  <2>1. Len(v) = Len(w) + 1
    BY <1>1, <1>7
  <2>2. ASSUME NEW i \in 1..Len(w) PROVE v[i + 1] = w[i]
    <3>1. i + 1 \in 1..Len(v) /\ Len(u) + (i + 1) = Len(q) + i
      BY <1>0, <1>7, <2>1
    <3>2. all[Len(u) + (i + 1)] = v[i + 1]
      BY <3>1 DEF Laid
    <3>3. all[Len(q) + i] = w[i]
      BY DEF Laid
    <3>4. QED
      BY <3>1, <3>2, <3>3
  <2>3. QED
    BY <2>1, <2>2
<1>8. Len(v) = Len(w) + 1 => Len(u) = Len(p)
  BY <1>1
<1>9. QED
  BY <1>3, <1>4, <1>5, <1>6, <1>7, <1>8

\* A list that is another one without its first element.
LEMMA TailList ==
  ASSUME NEW X, NEW v \in Seq(X), Len(v) >= 1, NEW w \in Seq(X), Len(v) = Len(w) + 1,
         \A i \in 1..Len(w) : v[i + 1] = w[i]
  PROVE  Tail(v) = w
<1>1. v # << >> /\ Len(w) \in Nat
  BY LenProperties, EmptySeq
<1>2. Tail(v) \in Seq(X) /\ Len(Tail(v)) = Len(v) - 1 /\ \A i \in 1..Len(Tail(v)) : Tail(v)[i] = v[i + 1]
  BY <1>1
<1>3. Len(Tail(v)) = Len(w)
  BY <1>1, <1>2
<1>4. \A i \in 1..Len(w) : Tail(v)[i] = w[i]
  BY <1>2, <1>3
<1>5. QED
  BY <1>2, <1>3, <1>4, SeqEqual

\* The first element.
LEMMA HeadOfList ==
  ASSUME NEW X, NEW v \in Seq(X)
  PROVE  Head(v) = v[1]
BY DEF Head

\* The same of texts with \o.
LEMMA FirstLine ==
  ASSUME NEW u \in Seq(Byte), NEW v \in Seq(Byte), NEW p \in Seq(Byte), NEW w \in Seq(Byte),
         Without(u, Newline), u \o v = (p \o <<Newline>>) \o w
  PROVE  /\ Begins(u, p) /\ v # << >>
         /\ Head(v) = Newline /\ Without(p, Newline) => u = p /\ Tail(v) = w
         /\ w = << >> /\ v = <<Newline>> => u = p
<1> DEFINE nl == Newline
           q == p \o <<nl>>
           all == u \o v
<1>0. nl \in Byte
  BY NamedBytes
<1> HIDE DEF nl
<1>1. /\ q \in Seq(Byte) /\ Len(q) = Len(p) + 1 /\ q[Len(p) + 1] = nl
      /\ \A i \in 1..Len(p) : q[i] = p[i]
  <2>1. <<nl>> \in Seq(Byte) /\ q = Append(p, nl)
    BY <1>0, ShortTexts
  <2>2. \A X : \A s \in Seq(X) : \A x \in X :
          /\ Append(s, x) \in Seq(X) /\ Len(Append(s, x)) = Len(s) + 1 /\ Append(s, x)[Len(s) + 1] = x
          /\ \A i \in 1..Len(s) : Append(s, x)[i] = s[i]
    OBVIOUS
  <2>3. QED
    BY <1>0, <2>1, <2>2
<1>2. Len(u) \in Nat /\ Len(v) \in Nat /\ Len(p) \in Nat /\ Len(w) \in Nat
  BY LenProperties
<1>3. Laid(all, u, v)
  BY JoinLaid
<1>4. all = q \o w
  BY DEF nl
<1> HIDE DEF q, all
<1>5. Laid(all, q, w)
  BY <1>1, <1>4, JoinLaid
<1>6. /\ Len(u) <= Len(p) /\ Len(v) >= 1
      /\ \A i \in 1..Len(u) : u[i] = p[i]
      /\ v[1] = nl /\ Without(p, nl) => Len(u) = Len(p) /\ Len(v) = Len(w) + 1
                                        /\ \A i \in 1..Len(w) : v[i + 1] = w[i]
      /\ Len(v) = Len(w) + 1 => Len(u) = Len(p)
  <2>1. Without(u, nl) /\ EndedBy(q, p, nl)
    BY <1>1 DEF nl, EndedBy
  <2>2. QED
    BY ONLY <1>2, <1>3, <1>5, <2>1, FirstLineLaid
<1>7. Begins(u, p) /\ v # << >> /\ Head(v) = v[1]
  BY <1>6, EmptySeq, HeadOfList DEF Begins
<1>8. Len(u) = Len(p) => u = p
  BY <1>6, SeqEqual
<1>9. ASSUME v[1] = nl, Without(p, nl) PROVE u = p /\ Tail(v) = w
  BY <1>6, <1>8, <1>9, TailList
<1>10. ASSUME w = << >>, v = <<nl>> PROVE u = p
  <2>1. Len(w) = 0 /\ Len(v) = 1
    BY <1>0, <1>10, EmptySeq, OneByte
  <2>2. QED
    BY <1>6, <1>8, <2>1
<1>11. QED
  BY <1>7, <1>9, <1>10 DEF nl

\* What a node sends.
Text(config, messages) ==
  FlattenSeq([i \in 1..Len(messages) |-> EncodeNetworkMessage(config, messages[i])])

\* A line is its payload and a line break.
LEMMA PayloadType ==
  ASSUME NEW config \in WireConfigs, NEW m \in MessageType
  PROVE  /\ Payload(config, m) \in Seq(Byte)
         /\ EncodeNetworkMessage(config, m) = Payload(config, m) \o <<Newline>>
         /\ EncodeNetworkMessage(config, m) \in Seq(Byte)
<1> DEFINE p == Payload(config, m)
<1>1. p \in Seq(Byte)
  BY EnvelopeFacts, JoinFacts, Commas DEF Payload, TextFields
<1>2. EncodeNetworkMessage(config, m) = p \o <<Newline>>
  BY DEF EncodeNetworkMessage, Payload, Envelope
<1> HIDE DEF p
<1>3. p \o <<Newline>> \in Seq(Byte)
  <2>1. Newline \in Byte
    BY NamedBytes
  <2>2. \A X : \A s \in Seq(X) : \A x \in X : s \o <<x>> \in Seq(X)
    OBVIOUS
  <2>3. QED
    BY <1>1, <2>1, <2>2
<1>4. QED
  BY <1>1, <1>2, <1>3 DEF p

\* The text of messages is the line of the first and the text of the others.
LEMMA TextFacts ==
  ASSUME NEW config \in WireConfigs, NEW messages \in Seq(MessageType)
  PROVE  /\ Text(config, messages) \in Seq(Byte)
         /\ messages = << >> => Text(config, messages) = << >>
         /\ messages # << >> =>
              Text(config, messages)
                = (Payload(config, messages[1]) \o <<Newline>>) \o Text(config, Tail(messages))
<1> DEFINE f == [m \in MessageType |-> EncodeNetworkMessage(config, m)]
<1>1. f \in [MessageType -> Seq(Byte)]
  BY PayloadType
<1>2. ASSUME NEW s \in Seq(MessageType) PROVE Text(config, s) = Flattened(f, s)
  <2>1. DOMAIN s = 1..Len(s) /\ \A i \in 1..Len(s) : s[i] \in MessageType
    BY LenProperties, ElementOfSeq
  <2>2. [i \in 1..Len(s) |-> EncodeNetworkMessage(config, s[i])] = [i \in DOMAIN s |-> f[s[i]]]
    BY <2>1
  <2>3. QED
    BY <2>2 DEF Text, Flattened
<1>3. \A m \in MessageType : f[m] = Payload(config, m) \o <<Newline>>
  BY PayloadType
<1> HIDE DEF f
<1>4. Text(config, messages) \in Seq(Byte)
  BY <1>1, <1>2, MapType
<1>5. messages = << >> => Text(config, messages) = << >>
  BY <1>2, MapEmpty
<1>6. ASSUME messages # << >>
      PROVE  Text(config, messages)
               = (Payload(config, messages[1]) \o <<Newline>>) \o Text(config, Tail(messages))
  <2>1. Tail(messages) \in Seq(MessageType) /\ messages[1] \in MessageType
    BY <1>6
  <2>2. Flattened(f, messages) = Glue(f[messages[1]], Flattened(f, Tail(messages)))
    BY <1>1, <1>6, MapFirst
  <2>3. QED
    BY <1>2, <1>3, <2>1, <2>2 DEF Glue
<1>7. QED
  BY <1>4, <1>5, <1>6

-----------------------------------------------------------------------------
(* The invariant of a connection                                             *)

\* What a reader has not read.
ToRead == SubSeq(script, Len(received) + 1, Len(script))

\* Blocks of a sync, as they were sent and as they were expected.
ReceivedAsSent ==
  /\ received \in Seq(MessageType)
  /\ Len(received) <= Len(script) /\ Len(received) <= Len(Expected)
  /\ \A i \in 1..Len(received) :
       /\ received[i] = script[i]
       /\ received[i].kind = "BLOCK"
       /\ BlockHash(received[i]) = BlockHash(Expected[i])

\* The types; a line has no line break.
ConnectionTypes ==
  /\ sender \in WireConfigs /\ receiver \in WireConfigs
  /\ script \in Seq(MessageType)
  /\ bytes \in Seq(Byte) /\ Without(bytes, Newline)
  /\ stream \in Seq(Byte)
  /\ closed \in BOOLEAN

\* What each reader is sent, and what it can have.
ConnectionRoles ==
  /\ reader \in {"Handler", "Exchange", "Headers", "Sync"}
  /\ reader # "Sync" => Len(script) = 1 /\ received = << >> /\ outcome # "Applied"
  /\ reader = "Handler" => script[1] \in Messages
  /\ reader = "Sync" => script \in Responses /\ taken = NoMessage

\* While a connection is read, its bytes are the text of what is left; at its end only
\* a sync goes on, and with nothing.
StillReading ==
  outcome = "Reading" =>
    /\ taken = NoMessage
    /\ closed => reader = "Sync" /\ bytes = << >>
    /\ ~closed => ReceivedAsSent /\ bytes \o stream = Text(sender, ToRead)

\* The invariant of a connection.
WireInv ==
  ConnectionTypes /\ ConnectionRoles /\ StillReading
    /\ OneNetworkUnderstands /\ OnlySameBytesTaken /\ CutNeverMisread

\* What is left of a list after its first elements.
LEMMA RestOfList ==
  ASSUME NEW X, NEW s \in Seq(X), NEW n \in Nat, n <= Len(s)
  PROVE  /\ SubSeq(s, n + 1, Len(s)) \in Seq(X) /\ SubSeq(s, n + 2, Len(s)) \in Seq(X)
         /\ n = Len(s) => SubSeq(s, n + 1, Len(s)) = << >>
         /\ n < Len(s) => /\ SubSeq(s, n + 1, Len(s)) # << >>
                          /\ SubSeq(s, n + 1, Len(s))[1] = s[n + 1]
                          /\ Tail(SubSeq(s, n + 1, Len(s))) = SubSeq(s, n + 2, Len(s))
<1> DEFINE k == Len(s)
           rest == SubSeq(s, n + 1, k)
           later == SubSeq(s, n + 2, k)
<1>1. k \in Nat /\ n + 1 \in Nat /\ n + 2 \in Nat
  BY LenProperties
<1>2. /\ rest \in Seq(X) /\ Len(rest) = k - n
      /\ \A i \in 1..(k - n) : rest[i] = s[n + i]
  OBVIOUS
<1>3. /\ later \in Seq(X)
      /\ n < k => Len(later) = k - n - 1
      /\ \A i \in 1..(k - n - 1) : later[i] = s[n + 1 + i]
  OBVIOUS
<1> HIDE DEF k, rest, later
<1>4. n = k => rest = << >>
  BY <1>1, <1>2, EmptySeq
<1>5. ASSUME n < k
      PROVE  rest # << >> /\ rest[1] = s[n + 1] /\ Tail(rest) = later
  <2>1. Len(rest) >= 1 /\ 1 \in 1..(k - n) /\ Len(rest) = Len(later) + 1
    BY <1>1, <1>2, <1>3, <1>5
  <2>2. \A i \in 1..Len(later) : i + 1 \in 1..(k - n) /\ i \in 1..(k - n - 1) /\ n + (i + 1) = n + 1 + i
    BY <1>1, <1>3, <1>5
  <2>3. \A i \in 1..Len(later) : rest[i + 1] = later[i]
    BY <1>2, <1>3, <2>2
  <2>4. Tail(rest) = later
    BY <1>2, <1>3, <2>1, <2>3, TailList
  <2>5. QED
    BY <1>2, <2>1, <2>4, EmptySeq
<1>6. QED
  BY <1>2, <1>3, <1>4, <1>5 DEF k, rest, later

\* All of a list.
LEMMA WholeList ==
  ASSUME NEW X, NEW s \in Seq(X)
  PROVE  SubSeq(s, 1, Len(s)) = s
OBVIOUS

\* The message that is being read.
Now == script[Len(received) + 1]
Later == SubSeq(script, Len(received) + 2, Len(script))

\* A message is left to be read while bytes are.
LEMMA Reading ==
  ASSUME WireInv, outcome = "Reading", ~closed, bytes # << >> \/ stream # << >>
  PROVE  /\ Len(received) + 1 \in 1..Len(script) /\ Now \in MessageType
         /\ Later \in Seq(MessageType) /\ Text(sender, Later) \in Seq(Byte)
         /\ bytes \o stream = (Payload(sender, Now) \o <<Newline>>) \o Text(sender, Later)
<1> DEFINE n == Len(received)
<1>1. /\ script \in Seq(MessageType) /\ sender \in WireConfigs
      /\ bytes \in Seq(Byte) /\ stream \in Seq(Byte)
      /\ n \in Nat /\ n <= Len(script)
      /\ bytes \o stream = Text(sender, SubSeq(script, n + 1, Len(script)))
  BY LenProperties DEF WireInv, ConnectionTypes, StillReading, ReceivedAsSent, ToRead
<1>2. bytes \o stream # << >>
  <2>1. \A X : \A s, t \in Seq(X) : s # << >> \/ t # << >> => s \o t # << >>
    OBVIOUS
  <2>2. QED
    BY <1>1, <2>1
<1> HIDE DEF n
<1>3. n # Len(script)
  <2>1. SUFFICES ASSUME n = Len(script) PROVE FALSE
    OBVIOUS
  <2>2. SubSeq(script, n + 1, Len(script)) = << >>
    BY <1>1, <2>1, RestOfList
  <2>3. << >> \in Seq(MessageType)
    BY EmptySeq
  <2>4. Text(sender, << >>) = << >>
    BY <1>1, <2>3, TextFacts
  <2>5. QED
    BY <1>1, <1>2, <2>2, <2>4
<1>4. n < Len(script) /\ n + 1 \in 1..Len(script)
  <2>1. Len(script) \in Nat
    BY <1>1, LenProperties
  <2>2. QED
    BY <1>1, <1>3, <2>1
<1> DEFINE rest == SubSeq(script, n + 1, Len(script))
           later == SubSeq(script, n + 2, Len(script))
<1>5. /\ rest \in Seq(MessageType) /\ later \in Seq(MessageType) /\ rest # << >>
      /\ rest[1] = script[n + 1] /\ Tail(rest) = later
  BY <1>1, <1>4, RestOfList
<1>6. script[n + 1] \in MessageType
  BY <1>1, <1>4, ElementOfSeq
<1> HIDE DEF rest, later
<1>7. Text(sender, rest) = (Payload(sender, script[n + 1]) \o <<Newline>>) \o Text(sender, later)
  BY <1>1, <1>5, TextFacts
<1>8. Text(sender, later) \in Seq(Byte)
  BY <1>1, <1>5, TextFacts
<1>9. bytes \o stream = Text(sender, rest)
  BY <1>1 DEF rest
<1>10. Now = script[n + 1] /\ Later = later
  BY DEF Now, Later, n, later
<1>11. QED
  BY <1>4, <1>5, <1>6, <1>7, <1>8, <1>9, <1>10 DEF n

\* The line is the beginning of the message's line.
LEMMA LineFacts ==
  ASSUME WireInv, outcome = "Reading", ~closed, bytes # << >> \/ stream # << >>
  PROVE  /\ sender \in WireConfigs /\ receiver \in WireConfigs /\ Now \in MessageType
         /\ Payload(sender, Now) \in Seq(Byte)
         /\ Begins(bytes, Payload(sender, Now)) /\ Without(bytes, Newline) /\ stream # << >>
         /\ Head(stream) = Newline /\ Without(Payload(sender, Now), Newline) =>
              bytes = Payload(sender, Now) /\ Tail(stream) = Text(sender, Later)
         /\ Later = << >> /\ stream = <<Newline>> => bytes = Payload(sender, Now)
<1>1. /\ sender \in WireConfigs /\ receiver \in WireConfigs
      /\ bytes \in Seq(Byte) /\ stream \in Seq(Byte) /\ Without(bytes, Newline)
  BY DEF WireInv, ConnectionTypes
<1>2. /\ Now \in MessageType /\ Later \in Seq(MessageType) /\ Text(sender, Later) \in Seq(Byte)
      /\ bytes \o stream = (Payload(sender, Now) \o <<Newline>>) \o Text(sender, Later)
  BY Reading
<1>3. Payload(sender, Now) \in Seq(Byte)
  BY <1>1, <1>2, PayloadType
<1>4. Later = << >> => Text(sender, Later) = << >>
  BY <1>1, <1>2, TextFacts
<1> DEFINE p == Payload(sender, Now)
           w == Text(sender, Later)
<1> HIDE DEF p, w
<1>5. /\ p \in Seq(Byte) /\ w \in Seq(Byte) /\ bytes \o stream = (p \o <<Newline>>) \o w
      /\ Later = << >> => w = << >>
  BY <1>2, <1>3, <1>4 DEF p, w
<1>6. /\ Begins(bytes, p) /\ stream # << >>
      /\ Head(stream) = Newline /\ Without(p, Newline) => bytes = p /\ Tail(stream) = w
      /\ w = << >> /\ stream = <<Newline>> => bytes = p
  BY <1>1, <1>5, FirstLine
<1>7. QED
  BY <1>1, <1>2, <1>5, <1>6 DEF p, w

\* What can be made of a line of a message.
Understood(d, m, whole) ==
  /\ d.kind = m.kind
  /\ m.kind \notin {"INVENTORY", "BLOCK", "END_BLOCKS"} => CutShort(d, m)
  /\ m.kind = "BLOCK" /\ TraceOk(d) /\ TraceOk(m) => d = m
  /\ m.kind = "END_BLOCKS" => d = m
  /\ whole /\ m.kind \notin {"INVENTORY", "HEADERS", "PEERS"} => d = m

\* What the reader makes of the line it has, if anything.
LEMMA LineMeaning ==
  ASSUME WireInv, outcome = "Reading", ~closed, bytes # << >> \/ stream # << >>,
         MessageOf(bytes) # NoMessage
  PROVE  /\ receiver = [sender EXCEPT !.network_id = Utf8(@)]
         /\ Without(sender.network_id, Newline)
         /\ Without(Payload(sender, Now), Newline)
         /\ Understood(MessageOf(bytes), Now, bytes = Payload(sender, Now))
<1>1. /\ sender \in WireConfigs /\ receiver \in WireConfigs /\ Now \in MessageType
      /\ Begins(bytes, Payload(sender, Now)) /\ Without(bytes, Newline)
  BY LineFacts
<1>2. MessageOf(bytes) = DecodeNetworkMessage(bytes, receiver)
  BY DEF MessageOf
<1>3. DecodeNetworkMessage(bytes, receiver) # NoMessage
  BY <1>2
<1>4. /\ receiver = [sender EXCEPT !.network_id = Utf8(@)]
      /\ Without(sender.network_id, Newline)
      /\ Without(Payload(sender, Now), Newline)
      /\ \E text : /\ Begins(text, EncodeMessage(Now))
                   /\ DecodeNetworkMessage(bytes, receiver) = DecodeMessage(text)
                   /\ Len(bytes) = Len(Payload(sender, Now)) => text = EncodeMessage(Now)
  BY <1>1, <1>3, EnvelopeRead
<1>5. PICK text : /\ Begins(text, EncodeMessage(Now))
                  /\ MessageOf(bytes) = DecodeMessage(text)
                  /\ Len(bytes) = Len(Payload(sender, Now)) => text = EncodeMessage(Now)
  BY <1>2, <1>4
<1>6. Understood(DecodeMessage(text), Now, text = EncodeMessage(Now))
  <2>1. DecodeMessage(text) # NoMessage
    BY <1>5
  <2>2. QED
    BY <1>1, <1>5, <2>1, MessageRead DEF Understood
<1>7. QED
  BY <1>4, <1>5, <1>6 DEF Understood

\* What a handler takes.
LEMMA AcceptedKinds ==
  ASSUME NEW m, Accepts(m)
  PROVE  /\ m # NoMessage
         /\ m.kind \in {"HELLO", "GET_BLOCKS", "GET", "GET_PEERS", "BLOCK"}
         /\ m.kind = "BLOCK" => TraceOk(m) /\ m.entries # << >>
<1>1. m.kind \in {"HELLO", "GET_BLOCKS", "GET", "GET_PEERS", "BLOCK"}
  BY DEF Accepts
<1>2. m # NoMessage
  BY <1>1 DEF NoMessage
<1>3. ASSUME m.kind = "BLOCK" PROVE TraceOk(m) /\ m.entries # << >>
  <2>1. TraceOk(m)
    BY <1>3 DEF Accepts
  <2>2. Len(m.entries) = TraceLength /\ TraceLength # 0
    BY <2>1, WireAssumption DEF TraceOk, WireAssumption
  <2>3. QED
    BY <2>1, <2>2, EmptySeq
<1>4. QED
  BY <1>1, <1>2, <1>3

\* The end of a line, at a line break or at the end of the connection.
LineEnds ==
  \/ stream # << >> /\ Head(stream) = Newline /\ stream' = Tail(stream) /\ closed' = closed
  \/ bytes # << >> /\ stream' = stream /\ closed' = TRUE

\* The line of a reader that still reads.
LineStep ==
  /\ outcome = "Reading" /\ ~closed
  /\ LineEnds
  /\ UNCHANGED <<sender, receiver, reader, script>>

\* A handler's line: of the sender's configuration it is read whole.
LEMMA HandledWhole ==
  ASSUME WireInv, LineStep, reader = "Handler", Plain(sender.network_id),
         stream' \in {<< >>, <<Newline>>}
  PROVE  /\ Now = script[1] /\ Later = << >>
         /\ bytes = Payload(sender, script[1])
<1>1. received = << >> /\ Len(script) = 1 /\ script \in Seq(MessageType)
  BY DEF WireInv, ConnectionTypes, ConnectionRoles
<1>2. Now = script[1] /\ Later = << >>
  <2>1. Len(<< >>) = 0 /\ 0 + 1 = 1 /\ 0 + 2 = 2
    BY EmptySeq
  <2>2. \A X : \A s \in Seq(X) : Len(s) = 1 => SubSeq(s, 2, 1) = << >>
    OBVIOUS
  <2>3. QED
    BY <1>1, <2>1, <2>2 DEF Now, Later
<1>3. bytes # << >> \/ stream # << >>
  BY DEF LineStep, LineEnds
<1>4. /\ sender \in WireConfigs /\ Now \in MessageType /\ stream # << >>
      /\ Head(stream) = Newline /\ Without(Payload(sender, Now), Newline) => bytes = Payload(sender, Now)
      /\ Later = << >> /\ stream = <<Newline>> => bytes = Payload(sender, Now)
  BY <1>3, LineFacts DEF LineStep
<1>5. Without(Payload(sender, Now), Newline)
  <2>1. Without(sender.network_id, Newline)
    BY <1>4, ConfigFacts, PlainText
  <2>2. QED
    BY <1>4, <2>1, PayloadWithout
<1>6. CASE Head(stream) = Newline
  BY <1>2, <1>4, <1>5, <1>6
<1>7. CASE stream' = stream
  BY <1>2, <1>4, <1>7
<1>8. QED
  BY <1>2, <1>6, <1>7 DEF LineStep, LineEnds

\* A handler of the sender's configuration takes a whole line for what was sent.
LEMMA WholeMeaning ==
  ASSUME NEW config \in WireConfigs, Plain(config.network_id), NEW m \in MessageType, Accepts(m),
         receiver = config
  PROVE  MessageOf(Payload(config, m)) = m
<1>1. /\ m.kind \in {"HELLO", "GET_BLOCKS", "GET", "GET_PEERS", "BLOCK"}
      /\ m.kind = "BLOCK" => m.entries # << >>
  BY AcceptedKinds
<1>2. IsUtf8(Payload(config, m))
  BY <1>1, PayloadUtf8
<1>3. DecodeNetworkMessage(Payload(config, m), config) = m
  BY <1>1, PlainEnvelope, MessageDecoded
<1>4. QED
  BY <1>2, <1>3 DEF MessageOf

\* The parts of the invariant that every line leaves alone.
LEMMA TypesKept ==
  ASSUME WireInv, LineStep, bytes' \in {bytes, << >>}
  PROVE  ConnectionTypes'
<1>1. /\ sender \in WireConfigs /\ receiver \in WireConfigs /\ script \in Seq(MessageType)
      /\ bytes \in Seq(Byte) /\ Without(bytes, Newline) /\ stream \in Seq(Byte) /\ closed \in BOOLEAN
  BY DEF WireInv, ConnectionTypes
<1>2. bytes' \in Seq(Byte) /\ Without(bytes', Newline)
  <2>1. << >> \in Seq(Byte) /\ Without(<< >>, Newline)
    BY EmptySeq DEF Without
  <2>2. QED
    BY <1>1, <2>1
<1>3. stream' \in Seq(Byte) /\ closed' \in BOOLEAN
  <2>1. \A X : \A s \in Seq(X) : s # << >> => Tail(s) \in Seq(X)
    OBVIOUS
  <2>2. QED
    BY <1>1, <2>1 DEF LineStep, LineEnds
<1>4. QED
  BY <1>1, <1>2, <1>3 DEF LineStep, ConnectionTypes

\* The handler's line.
LEMMA HandledLine ==
  ASSUME WireInv, LineStep, HandleLine(bytes)
  PROVE  WireInv'
<1> DEFINE d == MessageOf(bytes)
           m == script[1]
<1>1. /\ reader = "Handler" /\ received = << >> /\ Len(script) = 1 /\ m \in Messages
      /\ received' = received /\ bytes' = bytes /\ reader' = reader /\ script' = script
      /\ sender' = sender /\ receiver' = receiver
      /\ outcome = "Reading" /\ ~closed /\ taken = NoMessage
  BY DEF WireInv, ConnectionRoles, StillReading, LineStep, HandleLine, Finish, Take
<1>2. \/ Accepts(d) /\ taken' = d /\ outcome' = "Done"
      \/ ~Accepts(d) /\ taken' = NoMessage /\ outcome' \in {"Rejected", "Incompatible", "Malformed"}
  <2>1. CASE Accepts(d)
    BY <2>1 DEF HandleLine, Take
  <2>2. CASE ~Accepts(d)
    <3> DEFINE how == CASE d.kind = "BLOCK" -> "Rejected"
                        [] d = NoMessage /\ IsUtf8(bytes) /\ IsPrefix(<<"CHESSCOIN">>, bytes) -> "Incompatible"
                        [] OTHER -> "Malformed"
    <3>1. how \in {"Rejected", "Incompatible", "Malformed"}
      OBVIOUS
    <3>2. Finish(how)
      BY <2>2 DEF HandleLine
    <3> HIDE DEF how
    <3>3. QED
      BY <1>1, <2>2, <3>1, <3>2 DEF Finish
  <2>3. QED
    BY <2>1, <2>2
<1>3. bytes # << >> \/ stream # << >>
  BY DEF LineStep, LineEnds
<1>4. /\ sender \in WireConfigs /\ receiver \in WireConfigs /\ m \in MessageType /\ Now = m
      /\ m.kind = "BLOCK" => TraceOk(m)
  <2>1. Now = m
    <3>1. Len(<< >>) + 1 = 1
      BY EmptySeq
    <3>2. QED
      BY <1>1, <3>1 DEF Now
  <2>2. QED
    BY <1>1, <1>3, <2>1, LineFacts, WireAssumption DEF WireAssumption
<1>5. ASSUME d # NoMessage
      PROVE  /\ receiver = [sender EXCEPT !.network_id = Utf8(@)]
             /\ Without(sender.network_id, Newline)
             /\ Understood(d, m, bytes = Payload(sender, m))
  BY <1>1, <1>3, <1>4, <1>5, LineMeaning
<1> HIDE DEF d, m
<1>6. ConnectionTypes'
  BY <1>1, TypesKept
<1>7. ConnectionRoles'
  <2>1. outcome' # "Applied" /\ script[1] \in Messages
    BY <1>1, <1>2 DEF m
  <2>2. QED
    BY <1>1, <2>1 DEF ConnectionRoles
<1>8. StillReading'
  BY <1>2 DEF StillReading
<1>9. OnlySameBytesTaken'
  <2>1. receiver # [sender EXCEPT !.network_id = Utf8(@)] => taken' = NoMessage
    BY <1>2, <1>5
  <2>2. QED
    BY <1>1, <1>2, <2>1 DEF OnlySameBytesTaken
<1>10. CutNeverMisread'
  <2>1. ASSUME taken' # NoMessage PROVE taken' = m \/ CutShort(taken', m)
    <3>1. Accepts(d) /\ taken' = d /\ d # NoMessage
      BY <1>2, <2>1
    <3>2. /\ d.kind \in {"HELLO", "GET_BLOCKS", "GET", "GET_PEERS", "BLOCK"}
          /\ d.kind = "BLOCK" => TraceOk(d)
      BY <3>1, AcceptedKinds
    <3>3. Understood(d, m, bytes = Payload(sender, m))
      BY <1>5, <3>1
    <3>4. QED
      BY <1>4, <3>1, <3>2, <3>3 DEF Understood
  <2>2. QED
    BY <1>1, <1>2, <2>1 DEF CutNeverMisread, m
<1>11. OneNetworkUnderstands'
  <2>1. SUFFICES ASSUME sender = receiver, Accepts(m)
                 PROVE  IF Plain(sender.network_id) THEN Reached' => taken' = m ELSE taken' = NoMessage
    BY <1>1 DEF OneNetworkUnderstands, m
  <2>2. CASE Plain(sender.network_id)
    <3>1. ASSUME stream' \in {<< >>, <<Newline>>} PROVE taken' = m
      <4>1. bytes = Payload(sender, m)
        BY <1>1, <2>2, <3>1, HandledWhole DEF m
      <4>2. d = m
        BY <1>4, <2>1, <2>2, <4>1, WholeMeaning DEF d
      <4>3. QED
        BY <1>2, <2>1, <4>2
    <3>2. QED
      BY <2>2, <3>1 DEF Reached
  <2>3. CASE ~Plain(sender.network_id)
    <3>1. ASSUME d # NoMessage PROVE FALSE
      <4>1. /\ receiver = [sender EXCEPT !.network_id = Utf8(@)]
            /\ Without(sender.network_id, Newline)
        BY <1>5, <3>1
      <4>2. sender.network_id \in Seq(Byte) /\ "network_id" \in DOMAIN sender
        BY <1>4, ConfigFacts
      <4>3. receiver.network_id = Utf8(sender.network_id)
        BY <4>1, <4>2
      <4>4. Utf8(sender.network_id) = sender.network_id
        BY <2>1, <4>3
      <4>5. QED
        BY <2>3, <4>1, <4>2, <4>4, PlainText
    <3>2. QED
      BY <1>2, <2>3, <3>1
  <2>4. QED
    BY <2>2, <2>3
<1>12. QED
  BY <1>6, <1>7, <1>8, <1>9, <1>10, <1>11 DEF WireInv

\* The readers of listings.
LEMMA ListingStep ==
  ASSUME WireInv, LineStep, ReceivePeers(bytes) \/ ReceiveHeaders(bytes)
  PROVE  WireInv'
<1> DEFINE d == MessageOf(bytes)
           m == script[1]
<1>1. /\ reader \in {"Exchange", "Headers"} /\ received = << >> /\ Len(script) = 1
      /\ received' = received /\ bytes' = bytes /\ reader' = reader /\ script' = script
      /\ sender' = sender /\ receiver' = receiver
      /\ outcome = "Reading" /\ ~closed /\ taken = NoMessage
  BY DEF WireInv, ConnectionRoles, StillReading, LineStep, ReceivePeers, ReceiveHeaders, Finish, Take
<1>2. \/ d.kind \in {"PEERS", "HEADERS"} /\ taken' = d /\ outcome' = "Done"
      \/ taken' = NoMessage /\ outcome' = "Failed"
  <2>1. \/ d.kind \in {"PEERS", "HEADERS"} /\ Take(d)
        \/ Finish("Failed")
    BY DEF ReceivePeers, ReceiveHeaders
  <2>2. QED
    BY <1>1, <2>1 DEF Finish, Take
<1>3. bytes # << >> \/ stream # << >>
  BY DEF LineStep, LineEnds
<1>4. Now = m
  <2>1. Len(<< >>) + 1 = 1
    BY EmptySeq
  <2>2. QED
    BY <1>1, <2>1 DEF Now
<1>5. ASSUME d # NoMessage
      PROVE  /\ receiver = [sender EXCEPT !.network_id = Utf8(@)]
             /\ Understood(d, m, bytes = Payload(sender, m))
  BY <1>1, <1>3, <1>4, <1>5, LineMeaning
<1> HIDE DEF d, m
<1>6. ConnectionTypes'
  BY <1>1, TypesKept
<1>7. ConnectionRoles'
  BY <1>1, <1>2 DEF ConnectionRoles
<1>8. StillReading'
  BY <1>2 DEF StillReading
<1>9. OnlySameBytesTaken'
  <2>1. receiver # [sender EXCEPT !.network_id = Utf8(@)] => taken' = NoMessage
    BY <1>2, <1>5
  <2>2. QED
    BY <1>1, <1>2, <2>1 DEF OnlySameBytesTaken
<1>10. CutNeverMisread'
  <2>1. ASSUME taken' # NoMessage PROVE CutShort(taken', m)
    BY <1>2, <1>5, <2>1 DEF Understood
  <2>2. QED
    BY <1>1, <1>2, <2>1 DEF CutNeverMisread, m
<1>11. OneNetworkUnderstands'
  BY <1>1 DEF OneNetworkUnderstands
<1>12. QED
  BY <1>6, <1>7, <1>8, <1>9, <1>10, <1>11 DEF WireInv

\* The two other properties say nothing of a sync that has not ended.
LEMMA SyncHasNothing ==
  ASSUME reader' = "Sync", taken' = NoMessage
  PROVE  OneNetworkUnderstands' /\ (outcome' # "Applied" => CutNeverMisread')
BY DEF OneNetworkUnderstands, CutNeverMisread

\* The blocks that a sync applies are the expected ones.
LEMMA AppliedBlocks ==
  ASSUME script \in Responses, ReceivedAsSent, Len(received) = Len(Expected),
         \A i \in 1..Len(received) : TraceOk(received[i])
  PROVE  received = Expected
<1> DEFINE n == Len(received)
<1>1. /\ received \in Seq(MessageType) /\ n \in Nat /\ n = Len(Expected) /\ n <= Len(script)
      /\ \A i \in 1..n : /\ received[i] = script[i] /\ received[i].kind = "BLOCK"
                         /\ BlockHash(received[i]) = BlockHash(Expected[i])
  BY LenProperties DEF ReceivedAsSent
<1>2. /\ Expected \in Seq(BlockMessages) /\ script \in Seq(MessageType)
      /\ \A b \in ToSet(script), e \in ToSet(Expected) :
           (b.kind = "BLOCK" /\ TraceOk(b) /\ BlockHash(b) = BlockHash(e)) => b = e
  BY WireAssumption DEF WireAssumption
<1>3. ASSUME NEW i \in 1..n PROVE received[i] = Expected[i]
  <2>1. Expected[i] \in ToSet(Expected)
    BY <1>1, <1>2, LenProperties DEF ToSet
  <2>2. script[i] \in ToSet(script)
    <3>1. i \in 1..Len(script)
      BY <1>1, <1>2, LenProperties
    <3>2. QED
      BY <1>2, <3>1, LenProperties DEF ToSet
  <2>3. QED
    BY <1>1, <1>2, <2>1, <2>2
<1>4. BlockMessages \subseteq MessageType
  BY DEF MessageType
<1>5. received = [i \in 1..n |-> received[i]] /\ Expected = [i \in 1..n |-> Expected[i]]
  BY <1>1, <1>2, LenProperties
<1>6. QED
  BY <1>3, <1>5

\* Blocks and the message behind them are the beginning of what was sent.
LEMMA SentPrefix ==
  ASSUME NEW X, NEW s \in Seq(X), NEW t \in Seq(X), Len(s) + 1 <= Len(t),
         \A i \in 1..Len(s) : s[i] = t[i], NEW x, x = t[Len(s) + 1]
  PROVE  IsPrefix(Append(s, x), t)
<1> DEFINE n == Len(s)
           a == Append(s, x)
<1>1. n \in Nat /\ n + 1 \in 1..Len(t) /\ x \in X
  BY LenProperties, ElementOfSeq
<1>2. a \in Seq(X) /\ Len(a) = n + 1 /\ a[n + 1] = x /\ \A i \in 1..n : a[i] = s[i]
  BY <1>1
<1>3. /\ SubSeq(t, 1, n + 1) \in Seq(X) /\ Len(SubSeq(t, 1, n + 1)) = n + 1
      /\ \A i \in 1..(n + 1) : SubSeq(t, 1, n + 1)[i] = t[i]
  BY <1>1, Beginning
<1>4. \A i \in 1..(n + 1) : a[i] = SubSeq(t, 1, n + 1)[i]
  <2>1. \A i \in 1..(n + 1) : i = n + 1 \/ i \in 1..n
    BY <1>1
  <2>2. QED
    BY <1>2, <1>3, <2>1
<1> HIDE DEF a
<1>5. a = SubSeq(t, 1, n + 1)
  BY <1>2, <1>3, <1>4, SeqEqual
<1>6. SubSeq(a, 1, Len(a)) = a
  BY <1>2, WholeList
<1>7. QED
  BY <1>2, <1>5, <1>6 DEF IsPrefix, a

\* A block of a sync is the one that was sent, unless its line was cut.
LEMMA BlockReceived ==
  ASSUME WireInv, LineStep, reader = "Sync",
         LET m == MessageOf(bytes)
             n == Len(received)
         IN  m.kind = "BLOCK" /\ n < Len(Expected) /\ BlockHash(m) = BlockHash(Expected[n + 1]),
         received' = Append(received, MessageOf(bytes)), bytes' = << >>, UNCHANGED <<taken, outcome>>
  PROVE  WireInv'
<1> DEFINE d == MessageOf(bytes)
           n == Len(received)
<1>1. /\ reader' = reader /\ script' = script /\ sender' = sender /\ receiver' = receiver
      /\ outcome = "Reading" /\ ~closed /\ taken = NoMessage /\ outcome' = outcome /\ taken' = taken
      /\ script \in Responses /\ script \in Seq(MessageType)
  BY DEF WireInv, ConnectionRoles, ConnectionTypes, StillReading, LineStep
<1>2. d.kind = "BLOCK" /\ d # NoMessage
  BY DEF NoMessage
<1>3. bytes # << >> \/ stream # << >>
  BY DEF LineStep, LineEnds
<1>4. /\ receiver = [sender EXCEPT !.network_id = Utf8(@)]
      /\ Without(Payload(sender, Now), Newline)
      /\ Understood(d, Now, bytes = Payload(sender, Now))
  BY <1>1, <1>2, <1>3, LineMeaning
<1>5. n + 1 \in 1..Len(script) /\ Now \in MessageType
  BY <1>1, <1>3, Reading
<1>6. ConnectionTypes'
  BY TypesKept
<1>7. ConnectionRoles'
  BY <1>1 DEF ConnectionRoles
<1>8. OnlySameBytesTaken'
  BY <1>1, <1>4 DEF OnlySameBytesTaken
<1>9. OneNetworkUnderstands' /\ CutNeverMisread'
  BY <1>1, SyncHasNothing
<1>10. StillReading'
  <2>1. CASE bytes # << >> /\ stream' = stream /\ closed' = TRUE
    BY <1>1, <2>1 DEF StillReading
  <2>2. CASE stream # << >> /\ Head(stream) = Newline /\ stream' = Tail(stream) /\ closed' = closed
    <3>1. bytes = Payload(sender, Now) /\ Tail(stream) = Text(sender, Later)
      BY <1>1, <1>3, <1>4, <2>2, LineFacts
    <3>2. d = Now
      BY <1>2, <1>4, <3>1 DEF Understood
    <3>3. /\ received \in Seq(MessageType) /\ n \in Nat
          /\ n <= Len(script) /\ n <= Len(Expected)
          /\ \A i \in 1..n : /\ received[i] = script[i] /\ received[i].kind = "BLOCK"
                             /\ BlockHash(received[i]) = BlockHash(Expected[i])
      BY <1>1, LenProperties DEF WireInv, StillReading, ReceivedAsSent
    <3>4. n < Len(Expected) /\ BlockHash(d) = BlockHash(Expected[n + 1])
      OBVIOUS
    <3>5. d \in MessageType /\ received' = Append(received, d) /\ d = script[n + 1]
      BY <1>5, <3>2 DEF Now
    <3>6. Len(script) \in Nat /\ Len(Expected) \in Nat
      BY <1>1, WireAssumption, LenProperties DEF WireAssumption
    <3> HIDE DEF d, n
    <3>7. /\ received' \in Seq(MessageType) /\ Len(received') = n + 1
          /\ received'[n + 1] = d /\ \A i \in 1..n : received'[i] = received[i]
      <4>1. \A X : \A s \in Seq(X) : \A x \in X :
              /\ Append(s, x) \in Seq(X) /\ Len(Append(s, x)) = Len(s) + 1 /\ Append(s, x)[Len(s) + 1] = x
              /\ \A i \in 1..Len(s) : Append(s, x)[i] = s[i]
        OBVIOUS
      <4>2. QED
        BY <3>3, <3>5, <4>1 DEF n
    <3>8. ReceivedAsSent'
      <4>1. n + 1 <= Len(script) /\ n + 1 <= Len(Expected)
        BY <1>5, <3>3, <3>4, <3>6
      <4>2. \A i \in 1..(n + 1) : i = n + 1 \/ i \in 1..n
        BY <3>3
      <4>3. \A i \in 1..(n + 1) : /\ received'[i] = script[i]
                                  /\ received'[i].kind = "BLOCK"
                                  /\ BlockHash(received'[i]) = BlockHash(Expected[i])
        BY <1>2, <3>3, <3>4, <3>5, <3>7, <4>2
      <4>4. \A i : BlockHash(received'[i]) = BlockHash(received[i])'
        BY DEF BlockHash
      <4>5. QED
        BY <1>1, <3>7, <4>1, <4>3 DEF ReceivedAsSent, BlockHash
    <3>9. bytes' \o stream' = Text(sender, ToRead)'
      <4>1. ToRead' = Later
        <5>1. (n + 1) + 1 = n + 2
          BY <3>3
        <5>2. QED
          BY <1>1, <3>7, <5>1 DEF ToRead, Later, n
      <4>2. Text(sender, ToRead)' = Text(sender, Later)
        BY <1>1, <4>1 DEF Text
      <4>3. << >> \o stream' = stream'
        <5>1. stream' \in Seq(Byte)
          BY <1>6 DEF ConnectionTypes
        <5>2. QED
          BY <5>1
      <4>4. QED
        BY <2>2, <3>1, <4>2, <4>3
    <3>10. QED
      BY <1>1, <2>2, <3>8, <3>9 DEF StillReading
  <2>3. QED
    BY <2>1, <2>2 DEF LineStep, LineEnds
<1>11. QED
  BY <1>6, <1>7, <1>8, <1>9, <1>10 DEF WireInv

\* The line of a sync.
LEMMA BlockStep ==
  ASSUME WireInv, LineStep, ReceiveBlock(bytes)
  PROVE  WireInv'
<1> DEFINE d == MessageOf(bytes)
           n == Len(received)
           expected == d.kind = "BLOCK" /\ n < Len(Expected) /\ BlockHash(d) = BlockHash(Expected[n + 1])
           complete == d = EndBlocks /\ n = Len(Expected)
           applied == \A i \in 1..n : TraceOk(received[i])
<1>1. /\ reader = "Sync"
      /\ \/ expected /\ received' = Append(received, d) /\ bytes' = << >> /\ UNCHANGED <<taken, outcome>>
         \/ complete /\ Finish(IF applied THEN "Applied" ELSE "Failed")
         \/ Finish("Failed")
  BY DEF ReceiveBlock
<1>2. CASE expected /\ received' = Append(received, d) /\ bytes' = << >> /\ UNCHANGED <<taken, outcome>>
  BY <1>1, <1>2, BlockReceived
<1>3. ASSUME received' = received, bytes' = bytes, taken' = taken, outcome' \in {"Applied", "Failed"},
             outcome' = "Applied" => complete /\ applied
      PROVE  WireInv'
  <2>1. /\ reader' = reader /\ script' = script /\ sender' = sender /\ receiver' = receiver
        /\ outcome = "Reading" /\ ~closed /\ taken = NoMessage
        /\ script \in Responses /\ script \in Seq(MessageType) /\ ReceivedAsSent /\ OnlySameBytesTaken
    BY <1>1 DEF WireInv, ConnectionRoles, ConnectionTypes, StillReading, LineStep
  <2>2. ConnectionTypes'
    BY <1>3, TypesKept
  <2>3. ConnectionRoles'
    BY <1>1, <1>3, <2>1 DEF ConnectionRoles
  <2>4. StillReading'
    BY <1>3 DEF StillReading
  <2>5. bytes # << >> \/ stream # << >>
    BY DEF LineStep, LineEnds
  <2>6. ASSUME outcome' = "Applied"
        PROVE  /\ receiver = [sender EXCEPT !.network_id = Utf8(@)]
               /\ received = Expected /\ IsPrefix(Append(received, EndBlocks), script)
    <3>1. d = EndBlocks /\ n = Len(Expected) /\ d # NoMessage /\ d.kind = "END_BLOCKS"
      BY <1>3, <2>6 DEF EndBlocks, NoMessage
    <3>2. receiver = [sender EXCEPT !.network_id = Utf8(@)] /\ Understood(d, Now, bytes = Payload(sender, Now))
      BY <2>1, <2>5, <3>1, LineMeaning
    <3>3. n + 1 \in 1..Len(script)
      BY <2>1, <2>5, Reading
    <3>4. EndBlocks = script[n + 1]
      BY <3>1, <3>2 DEF Understood, Now
    <3>5. received = Expected
      BY <1>3, <2>1, <2>6, <3>1, AppliedBlocks
    <3>6. /\ received \in Seq(MessageType) /\ Len(received) + 1 <= Len(script)
          /\ \A i \in 1..Len(received) : received[i] = script[i]
      BY <2>1, <3>3, LenProperties DEF ReceivedAsSent
    <3>7. IsPrefix(Append(received, EndBlocks), script)
      BY <2>1, <3>4, <3>6, SentPrefix
    <3>8. QED
      BY <3>2, <3>5, <3>7
  <2>7. OnlySameBytesTaken'
    BY <1>3, <2>1, <2>6 DEF OnlySameBytesTaken
  <2>8. OneNetworkUnderstands' /\ CutNeverMisread'
    <3>1. outcome' = "Applied" => CutNeverMisread'
      BY <1>3, <2>1, <2>6 DEF CutNeverMisread
    <3>2. QED
      BY <1>1, <1>3, <2>1, <3>1, SyncHasNothing
  <2>9. QED
    BY <2>2, <2>3, <2>4, <2>7, <2>8 DEF WireInv
<1>4. CASE complete /\ Finish(IF applied THEN "Applied" ELSE "Failed")
  <2>1. /\ received' = received /\ bytes' = bytes /\ taken' = taken
        /\ outcome' = IF applied THEN "Applied" ELSE "Failed"
    BY <1>4 DEF Finish
  <2>2. QED
    BY <1>3, <1>4, <2>1
<1>5. CASE Finish("Failed")
  BY <1>3, <1>5 DEF Finish
<1>6. QED
  BY <1>1, <1>2, <1>4, <1>5

\* Every reader's line.
LEMMA LineKeeps ==
  ASSUME WireInv, LineStep, Line(bytes)
  PROVE  WireInv'
BY HandledLine, ListingStep, BlockStep DEF Line

\* One byte more of the line.
LEMMA ByteKeeps ==
  ASSUME WireInv, outcome = "Reading", ~closed, stream # << >>, stream' = Tail(stream),
         Head(stream) # Newline, bytes' = Append(bytes, Head(stream)),
         UNCHANGED <<received, taken, outcome, sender, receiver, reader, script, closed>>
  PROVE  WireInv'
<1>1. /\ sender \in WireConfigs /\ receiver \in WireConfigs /\ script \in Seq(MessageType)
      /\ bytes \in Seq(Byte) /\ Without(bytes, Newline) /\ stream \in Seq(Byte) /\ closed \in BOOLEAN
      /\ bytes \o stream = Text(sender, ToRead) /\ ReceivedAsSent /\ taken = NoMessage
  BY DEF WireInv, ConnectionTypes, StillReading
<1>2. /\ Head(stream) \in Byte /\ Tail(stream) \in Seq(Byte)
      /\ Append(bytes, Head(stream)) \in Seq(Byte)
      /\ Append(bytes, Head(stream)) \o Tail(stream) = bytes \o stream
  <2>1. \A X : \A s, t \in Seq(X) : t # << >> =>
          /\ Head(t) \in X /\ Tail(t) \in Seq(X) /\ Append(s, Head(t)) \in Seq(X)
          /\ Append(s, Head(t)) \o Tail(t) = s \o t
    OBVIOUS
  <2>2. bytes \in Seq(Byte) /\ stream \in Seq(Byte) /\ stream # << >>
    BY <1>1
  <2>3. QED
    BY ONLY <2>1, <2>2
<1>3. Without(Append(bytes, Head(stream)), Newline)
  BY <1>1, <1>2, WithoutFacts
<1>4. ConnectionTypes'
  BY <1>1, <1>2, <1>3 DEF ConnectionTypes
<1>5. ConnectionRoles'
  BY DEF WireInv, ConnectionRoles
<1>6. StillReading'
  <2>1. ReceivedAsSent'
    BY <1>1 DEF ReceivedAsSent, BlockHash
  <2>2. Text(sender, ToRead)' = Text(sender, ToRead)
    BY DEF Text, ToRead
  <2>3. (bytes \o stream)' = Text(sender, ToRead)'
    BY <1>1, <1>2, <2>2
  <2>4. QED
    BY <1>1, <2>1, <2>3 DEF StillReading
<1>7. taken' = NoMessage /\ received' = received /\ outcome' = "Reading"
  BY <1>1
<1>8. OneNetworkUnderstands' /\ CutNeverMisread'
  BY <1>7 DEF OneNetworkUnderstands, CutNeverMisread, Reached
<1>9. OnlySameBytesTaken'
  BY <1>7 DEF WireInv, OnlySameBytesTaken
<1>10. QED
  BY <1>4, <1>5, <1>6, <1>8, <1>9 DEF WireInv

\* A handler's connection is not at its end before a line is read.
LEMMA SomethingSent ==
  ASSUME WireInv, outcome = "Reading", reader = "Handler", bytes = << >>, Accepts(script[1])
  PROVE  stream \notin {<< >>, <<Newline>>}
<1>1. /\ ~closed /\ received = << >> /\ Len(script) = 1 /\ script \in Seq(MessageType)
      /\ sender \in WireConfigs
      /\ bytes \o stream = Text(sender, ToRead)
  BY DEF WireInv, ConnectionTypes, ConnectionRoles, StillReading
<1>2. Len(<< >>) = 0 /\ 0 + 1 = 1 /\ 0 + 2 = 2 /\ << >> \in Seq(Byte)
  BY EmptySeq
<1>3. ToRead = script /\ script # << >>
  BY <1>1, <1>2, WholeList DEF ToRead
<1>4. CASE stream = << >>
  <2>1. bytes \o stream = << >>
    <3>1. << >> \o << >> = << >>
      OBVIOUS
    <3>2. QED
      BY <1>4, <3>1
  <2> DEFINE p == Payload(sender, script[1])
             w == Text(sender, Tail(script))
  <2>2. script[1] \in MessageType /\ Tail(script) \in Seq(MessageType)
    BY <1>1, <1>3
  <2>3. p \in Seq(Byte) /\ w \in Seq(Byte)
    BY <1>1, <2>2, PayloadType, TextFacts
  <2>4. (p \o <<Newline>>) \o w = << >>
    BY <1>1, <1>3, <2>1, TextFacts
  <2> HIDE DEF p, w
  <2>5. (p \o <<Newline>>) \o w # << >>
    <3>1. \A X : \A s, t \in Seq(X) : \A x \in X : (s \o <<x>>) \o t # << >>
      OBVIOUS
    <3>2. QED
      BY <2>3, <3>1, NamedBytes
  <2>6. QED
    BY <2>4, <2>5
<1>5. CASE stream = <<Newline>>
  <2>1. stream # << >>
    BY <1>5
  <2>2. Now = script[1]
    BY <1>1, <1>2 DEF Now
  <2>3. Later = << >>
    <3>1. \A X : \A s \in Seq(X) : Len(s) = 1 => SubSeq(s, 2, 1) = << >>
      OBVIOUS
    <3>2. QED
      BY <1>1, <1>2, <3>1 DEF Later
  <2>4. Now \in MessageType /\ bytes = Payload(sender, Now)
    BY <1>1, <1>5, <2>1, <2>3, LineFacts
  <2>5. Payload(sender, Now) # << >>
    BY <1>1, <2>2, <2>4, AcceptedKinds, PayloadUtf8
  <2>6. QED
    BY <2>4, <2>5
<1>6. QED
  BY <1>4, <1>5

\* A connection that ends without a line.
LEMMA EndKeeps ==
  ASSUME WireInv, outcome = "Reading", NEW how \in {"Oversized", "Nothing", "Broken"}, Finish(how),
         how = "Nothing" => bytes = << >> /\ stream' = stream,
         stream' \in Seq(Byte), closed' \in BOOLEAN, UNCHANGED <<sender, receiver, reader, script>>
  PROVE  WireInv'
<1>1. outcome' = how /\ bytes' = bytes /\ received' = received /\ taken' = taken /\ taken = NoMessage
  BY DEF WireInv, StillReading, Finish
<1>2. ConnectionTypes'
  BY <1>1 DEF WireInv, ConnectionTypes
<1>3. ConnectionRoles'
  BY <1>1 DEF WireInv, ConnectionRoles
<1>4. StillReading'
  BY <1>1 DEF StillReading
<1>5. OnlySameBytesTaken' /\ CutNeverMisread'
  BY <1>1 DEF WireInv, OnlySameBytesTaken, CutNeverMisread
<1>6. OneNetworkUnderstands'
  <2>1. ASSUME reader = "Handler", Accepts(script[1]), Reached' PROVE FALSE
    <3>1. how = "Nothing" /\ stream \in {<< >>, <<Newline>>} /\ bytes = << >>
      BY <1>1, <2>1 DEF Reached
    <3>2. QED
      BY <2>1, <3>1, SomethingSent
  <2>2. QED
    BY <1>1, <2>1 DEF OneNetworkUnderstands
<1>7. QED
  BY <1>2, <1>3, <1>4, <1>5, <1>6 DEF WireInv

\* Every step keeps the invariant.
LEMMA WireStep ==
  ASSUME WireInv, WireNext
  PROVE  WireInv'
<1>1. stream \in Seq(Byte) /\ bytes \in Seq(Byte) /\ closed \in BOOLEAN
  BY DEF WireInv, ConnectionTypes
<1>2. CASE ReadByte
  <2>1. /\ outcome = "Reading" /\ ~closed /\ stream # << >> /\ stream' = Tail(stream)
        /\ UNCHANGED <<sender, receiver, reader, script, closed>>
    BY <1>2 DEF ReadByte
  <2>2. stream' \in Seq(Byte)
    <3>1. \A X : \A s \in Seq(X) : s # << >> => Tail(s) \in Seq(X)
      OBVIOUS
    <3>2. QED
      BY <1>1, <2>1, <3>1
  <2>3. CASE Finish("Oversized")
    BY <1>1, <2>1, <2>2, <2>3, EndKeeps
  <2>4. CASE Head(stream) = Newline /\ Line(bytes)
    BY <2>1, <2>4, LineKeeps DEF LineStep, LineEnds
  <2>5. CASE Head(stream) # Newline /\ bytes' = Append(bytes, Head(stream))
               /\ UNCHANGED <<received, taken, outcome>>
    BY <2>1, <2>5, ByteKeeps
  <2>6. QED
    BY <1>2, <2>3, <2>4, <2>5 DEF ReadByte
<1>3. CASE EndOfFile
  <2>1. /\ outcome = "Reading" /\ closed' = TRUE /\ stream' = stream
        /\ UNCHANGED <<sender, receiver, reader, script>>
    BY <1>3 DEF EndOfFile
  <2>2. CASE bytes = << >> /\ Finish("Nothing")
    BY <1>1, <2>1, <2>2, EndKeeps
  <2>3. CASE bytes # << >> /\ Line(bytes)
    <3>1. ~closed
      BY <2>1, <2>3 DEF WireInv, StillReading
    <3>2. QED
      BY <2>1, <2>3, <3>1, LineKeeps DEF LineStep, LineEnds
  <2>4. QED
    BY <1>3, <2>2, <2>3 DEF EndOfFile
<1>4. CASE ReadFails
  <2>1. outcome = "Reading" /\ Finish("Broken") /\ UNCHANGED <<sender, receiver, reader, script, stream, closed>>
    BY <1>4 DEF ReadFails
  <2>2. QED
    BY <1>1, <2>1, EndKeeps
<1>5. QED
  BY <1>2, <1>3, <1>4 DEF WireNext

\* The first state has it.
LEMMA WireStart ==
  ASSUME WireInit
  PROVE  WireInv
<1>1. /\ sender \in WireConfigs /\ receiver \in WireConfigs /\ bytes = << >> /\ closed = FALSE
      /\ received = << >> /\ taken = NoMessage /\ outcome = "Reading"
  BY DEF WireInit
<1>2. /\ script \in Seq(MessageType)
      /\ reader \in {"Handler", "Exchange", "Headers", "Sync"}
      /\ reader # "Sync" => Len(script) = 1
      /\ reader = "Handler" => script[1] \in Messages
      /\ reader = "Sync" => script \in Responses
  <2>1. /\ Messages \cup Listings \subseteq MessageType
        /\ \A response \in Responses : response \in Seq(MessageType)
    BY WireAssumption DEF WireAssumption
  <2>2. \A X : \A x \in X : <<x>> \in Seq(X) /\ Len(<<x>>) = 1 /\ <<x>>[1] = x
    OBVIOUS
  <2>3. CASE \E m \in Messages : Connects("Handler", <<m>>)
    BY <2>1, <2>2, <2>3 DEF Connects
  <2>4. CASE \E m \in Listings, role \in {"Exchange", "Headers"} : Connects(role, <<m>>)
    BY <2>1, <2>2, <2>4 DEF Connects
  <2>5. CASE \E response \in Responses : Connects("Sync", response)
    BY <2>1, <2>5 DEF Connects
  <2>6. QED
    BY <2>3, <2>4, <2>5 DEF WireInit
<1>3. Len(<< >>) = 0 /\ 0 + 1 = 1 /\ << >> \in Seq(Byte) /\ << >> \in Seq(MessageType)
  BY EmptySeq
<1>4. stream = Text(sender, ToRead) /\ stream \in Seq(Byte)
  <2>1. stream = Text(sender, script)
    BY DEF WireInit, Text
  <2>2. ToRead = script
    BY <1>1, <1>2, <1>3, WholeList DEF ToRead
  <2>3. Text(sender, script) \in Seq(Byte)
    BY <1>1, <1>2, TextFacts
  <2>4. QED
    BY <2>1, <2>2, <2>3
<1>5. ConnectionTypes
  <2>1. Without(<< >>, Newline)
    BY <1>3 DEF Without
  <2>2. QED
    BY <1>1, <1>2, <1>3, <1>4, <2>1 DEF ConnectionTypes
<1>6. ConnectionRoles
  BY <1>1, <1>2 DEF ConnectionRoles
<1>7. ReceivedAsSent
  <2>1. Len(script) \in Nat /\ Len(Expected) \in Nat
    BY <1>2, WireAssumption, LenProperties DEF WireAssumption
  <2>2. QED
    BY <1>1, <1>3, <2>1 DEF ReceivedAsSent
<1>8. << >> \o stream = stream
  BY <1>4
<1>9. StillReading
  BY <1>1, <1>4, <1>7, <1>8 DEF StillReading
<1>10. OneNetworkUnderstands /\ OnlySameBytesTaken /\ CutNeverMisread
  BY <1>1 DEF OneNetworkUnderstands, OnlySameBytesTaken, CutNeverMisread, Reached
<1>11. QED
  BY <1>5, <1>6, <1>9, <1>10 DEF WireInv

-----------------------------------------------------------------------------
(* Theorems about a connection                                               *)

\* What the reader of a connection knows: the bytes it has and those to come are the text
\* of the messages that it has not read, and a line it has cut is not read any further.
THEOREM WireInvariance == WireSpec => []WireInv
<1>1. WireInit => WireInv
  BY WireStart
<1>2. WireInv /\ [WireNext]_connection => WireInv'
  <2>1. WireInv /\ WireNext => WireInv'
    BY WireStep
  <2>2. ASSUME WireInv, UNCHANGED connection PROVE WireInv'
    <3>1. /\ sender' = sender /\ receiver' = receiver /\ reader' = reader /\ script' = script
          /\ stream' = stream /\ bytes' = bytes /\ closed' = closed /\ received' = received
          /\ taken' = taken /\ outcome' = outcome
      BY <2>2 DEF connection
    <3>2. ConnectionTypes' /\ ConnectionRoles'
      BY <2>2, <3>1 DEF WireInv, ConnectionTypes, ConnectionRoles
    <3>3. StillReading'
      BY <2>2, <3>1 DEF WireInv, StillReading, ReceivedAsSent, BlockHash, ToRead, Text
    <3>4. OneNetworkUnderstands'
      BY <2>2, <3>1 DEF WireInv, OneNetworkUnderstands, Reached
    <3>5. OnlySameBytesTaken'
      BY <2>2, <3>1 DEF WireInv, OnlySameBytesTaken
    <3>6. CutNeverMisread'
      BY <2>2, <3>1 DEF WireInv, CutNeverMisread, CutShort, TraceOk
    <3>7. QED
      BY <3>2, <3>3, <3>4, <3>5, <3>6 DEF WireInv
  <2>3. QED
    BY <2>1, <2>2
<1>3. QED
  BY <1>1, <1>2, PTL DEF WireSpec

\* Nodes of one configuration understand each other if the network id is ASCII and one
\* line, and with any other never do: of every set of bytes, messages and configurations.
THEOREM OneNetworkAlwaysUnderstands == WireSpec => []OneNetworkUnderstands
<1>1. WireInv => OneNetworkUnderstands
  BY DEF WireInv
<1>2. QED
  BY <1>1, WireInvariance, PTL

\* A reader acts on a message only of a sender whose version and fingerprint are its own,
\* and whose network id has the bytes that the reader's has characters.  That these can be
\* two different ids is what ForeignRefused is violated by.
THEOREM AlwaysSameBytes == WireSpec => []OnlySameBytesTaken
<1>1. WireInv => OnlySameBytesTaken
  BY DEF WireInv
<1>2. QED
  BY <1>1, WireInvariance, PTL

\* So a handler acts on nothing of a sender of another configuration whose network id is
\* ASCII and one line; docs/node-v0.1.md says so of any sender.
THEOREM PlainForeignRefused == WireSpec => [](Plain(sender.network_id) => ForeignRefused)
<1>1. ASSUME WireInv, Plain(sender.network_id)
      PROVE  ForeignRefused
  <2>1. sender \in WireConfigs /\ OnlySameBytesTaken
    BY <1>1 DEF WireInv, ConnectionTypes
  <2>2. /\ Utf8(sender.network_id) = sender.network_id
        /\ sender = [protocol_version |-> sender.protocol_version, network_id |-> sender.network_id,
                     chain_fingerprint |-> sender.chain_fingerprint]
    BY <1>1, <2>1, ConfigFacts, PlainText
  <2>3. [sender EXCEPT !.network_id = Utf8(@)] = sender
    BY <2>2
  <2>4. QED
    BY <2>1, <2>3 DEF OnlySameBytesTaken, ForeignRefused
<1>2. QED
  BY <1>1, WireInvariance, PTL

\* A connection that is cut changes no more than the last number or the list that is cut,
\* and no block of a sync.
THEOREM CutAlwaysHarmless == WireSpec => []CutNeverMisread
<1>1. WireInv => CutNeverMisread
  BY DEF WireInv
<1>2. QED
  BY <1>1, WireInvariance, PTL
=============================================================================
