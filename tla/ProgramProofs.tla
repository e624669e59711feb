---------------------------- MODULE ProgramProofs ----------------------------
(***************************************************************************)
(* Theorems about a chesscoin process: about CommandLine, for any lines,   *)
(* files and tables of numerals and addresses, and about Lifecycle, for    *)
(* any number of nodes, handler threads, commands, connections, permits    *)
(* and kills.                                                              *)
(*                                                                         *)
(* That settings come out as they were meant needs to know, between two    *)
(* words, which settings the words still to read are (ExpandInv,           *)
(* ParseInv): the line from the setting that is next, except that the      *)
(* first pass may stand between a flag and its value, and behind it the    *)
(* groups of words that the parser will take at once.                      *)
(*                                                                         *)
(* That the lock file outlives every writer follows from who holds a       *)
(* reference to NodeState at each moment (HoldersInv): exactly the owner   *)
(* from start until it stops or drops the node, the loop until it has      *)
(* joined, and the handlers until they finish.  That nothing is left after *)
(* stop also needs the order in which threads end (PhasesInv).             *)
(***************************************************************************)
EXTENDS CommandLine, Lifecycle, FiniteSetTheorems, SequenceTheorems, TLAPS

-----------------------------------------------------------------------------
(* The command line: defaults and kinds of words                             *)

Flags == NodeFlags \ {"--peer"}
Numbers == NodeFlags \ (Texts \cup AddressFlags)

\* What a node has that is told nothing.
LEMMA DefaultsOf ==
  /\ NodeDefault = [flag \in Flags |-> NodeDefault[flag]]
  /\ \A flag \in Numbers : flag \in Flags /\ NodeDefault[flag] \in DOMAIN Numeral
  /\ NodeDefault["--mine-interval-ms"] = "5000"
  /\ NodeDefault["--listen"] = "127.0.0.1:9333"
  /\ NodeDefault["--advertise"] = "none"
<1>1. \A flag \in Flags : NodeDefault[flag] = NodeDefaultOf(flag)
  BY DEF NodeDefault, Flags
<1>2. \A flag \in Numbers : flag \in Flags
  BY DEF Flags, Numbers, AddressFlags
<1>3. \A flag \in Numbers : NodeDefaultOf(flag) \in DOMAIN Numeral
  BY CommandLineAssumption
     DEF NodeDefaultOf, Numbers, NodeFlags, Limits, ChainFlags, Timeouts, SyncLimits, Texts,
         AddressFlags
<1>4. /\ NodeDefaultOf("--mine-interval-ms") = "5000"
      /\ NodeDefaultOf("--listen") = "127.0.0.1:9333"
      /\ NodeDefaultOf("--advertise") = "none"
  BY DEF NodeDefaultOf
<1>5. {"--mine-interval-ms", "--listen", "--advertise"} \subseteq Flags
  BY DEF Flags, NodeFlags, AddressFlags
<1>6. NodeDefault = [flag \in Flags |-> NodeDefault[flag]]
  BY DEF NodeDefault, Flags
<1>7. QED
  BY <1>1, <1>2, <1>3, <1>4, <1>5, <1>6

\* What a simulation has that is told nothing.
LEMMA SimulationDefaultsOf ==
  /\ SimulationDefault = [flag \in SimulationFlags |-> SimulationDefault[flag]]
  /\ \A flag \in SimulationFlags \ {"--tamper-step"} : SimulationDefault[flag] \in DOMAIN Numeral
  /\ SimulationDefault["--tamper-step"] = "none"
<1>1. \A flag \in SimulationFlags \ {"--tamper-step"} : NodeDefaultOf(flag) \in DOMAIN Numeral
  BY CommandLineAssumption DEF NodeDefaultOf, SimulationFlags
<1>2. "--tamper-step" \in SimulationFlags
  BY DEF SimulationFlags
<1>3. SimulationDefault = [flag \in SimulationFlags |-> SimulationDefault[flag]]
  BY DEF SimulationDefault
<1>4. QED
  BY <1>1, <1>2, <1>3 DEF SimulationDefault
-----------------------------------------------------------------------------
(* Lists                                                                     *)

\* FlattenSeq is a loop that appends.
Joined(context, all, list) == all \o list

Lists == INSTANCE FoldTheorems WITH Step <- Joined

\* An instance has definitions of its own; these two are the same.
LEMMA FlattenIs ==
  ASSUME NEW lists
  PROVE  FlattenSeq(lists) = Lists!FlattenSeq(lists)
BY DEF FlattenSeq, Lists!FlattenSeq

\* A name for \o, which the provers take for more than a function of two lists.
Join(a, b) == a \o b

\* Three lists can be joined in any order.
LEMMA JoinsInAnyOrder ==
  ASSUME NEW X, NEW a \in Seq(X), NEW b \in Seq(X), NEW c \in Seq(X)
  PROVE  Join(Join(a, b), c) = Join(a, Join(b, c))
BY Lists!JoinInAnyOrder DEF Join

\* FlattenSeq returns the last list that its loop goes through; all of them are lists.
LEMMA FlattenIsLoop ==
  ASSUME NEW X, NEW lists \in Seq(Seq(X)), NEW n \in Nat, n = Len(lists)
  PROVE  \E r : /\ Lists!FlattenRuns(lists, n, r)
                /\ \A i \in 0..n : r[i] \in Seq(X)
                /\ FlattenSeq(lists) = r[n]
BY FlattenIs, Lists!FlattenIsLoop

\* No lists joined are empty.
LEMMA FlattenEmpty ==
  FlattenSeq(<< >>) = << >>
BY FlattenIs, Lists!FlattenEmpty

\* What a function gives for each element of a list, joined.
Flattened(f, s) == FlattenSeq([i \in DOMAIN s |-> f[s[i]]])

\* Lists given by a function join to a list.
LEMMA MapType ==
  ASSUME NEW X, NEW A, NEW f \in [A -> Seq(X)], NEW s \in Seq(A)
  PROVE  /\ [i \in DOMAIN s |-> f[s[i]]] \in Seq(Seq(X))
         /\ Flattened(f, s) \in Seq(X)
BY FlattenIs, Lists!MapType DEF Flattened, Lists!Flattened

\* Nothing gives nothing.
LEMMA MapEmpty ==
  ASSUME NEW f
  PROVE  Flattened(f, << >>) = << >>
BY FlattenIs, Lists!MapEmpty DEF Flattened, Lists!Flattened

\* What the last element gives comes last.
LEMMA MapAppend ==
  ASSUME NEW X, NEW A, NEW f \in [A -> Seq(X)], NEW s \in Seq(A), NEW x \in A
  PROVE  Flattened(f, Append(s, x)) = Join(Flattened(f, s), f[x])
<1>1. \A list : Flattened(f, list) = Lists!Flattened(f, list)
  BY FlattenIs DEF Flattened, Lists!Flattened
<1>2. Lists!Flattened(f, Append(s, x)) = Lists!Join(Lists!Flattened(f, s), f[x])
  BY Lists!MapAppend
<1>3. QED
  BY <1>1, <1>2 DEF Join, Lists!Join

\* What the first element gives comes first.
LEMMA MapFirst ==
  ASSUME NEW X, NEW A, NEW f \in [A -> Seq(X)], NEW s \in Seq(A), s # << >>
  PROVE  Flattened(f, s) = Join(f[s[1]], Flattened(f, Tail(s)))
<1>1. \A list : Flattened(f, list) = Lists!Flattened(f, list)
  BY FlattenIs DEF Flattened, Lists!Flattened
<1>2. Lists!Flattened(f, s) = Lists!Join(f[s[1]], Lists!Flattened(f, Tail(s)))
  BY Lists!MapFirst
<1>3. QED
  BY <1>1, <1>2 DEF Join, Lists!Join

-----------------------------------------------------------------------------
(* What is typed and what is meant                                           *)

\* A setting is typed as words of which the first is its flag.
LEMMA WordsOfType ==
  ASSUME NEW e \in Settings
  PROVE  WordsOf(e) \in Seq(STRING) /\ WordsOf(e) # << >> /\ WordsOf(e)[1] = e.flag
<1>1. e.flag \in STRING /\ e.value \in STRING
  BY DEF Settings
<1>2. CASE e.flag \in Switches \cup Help \/ e.value = Missing
  BY <1>1, <1>2 DEF WordsOf
<1>3. CASE ~(e.flag \in Switches \cup Help \/ e.value = Missing)
  <2>1. WordsOf(e) = <<e.flag, e.value>>
    BY <1>3 DEF WordsOf
  <2>2. QED
    BY <1>1, <2>1
<1>4. QED
  BY <1>2, <1>3

\* The words of a line are those of its first setting and those of the others.
LEMMA WordsOfAllParts ==
  ASSUME NEW settings \in Seq(Settings)
  PROVE  /\ WordsOfAll(settings) \in Seq(STRING)
         /\ WordsOfAll(<< >>) = << >>
         /\ settings # << >> =>
              WordsOfAll(settings) = WordsOf(settings[1]) \o WordsOfAll(Tail(settings))
<1> DEFINE f == [e \in Settings |-> WordsOf(e)]
<1>1. f \in [Settings -> Seq(STRING)]
  BY WordsOfType
<1>2. ASSUME NEW s \in Seq(Settings)
      PROVE  WordsOfAll(s) = Flattened(f, s)
  <2>1. \A i \in DOMAIN s : s[i] \in Settings
    OBVIOUS
  <2>2. [i \in DOMAIN s |-> WordsOf(s[i])] = [i \in DOMAIN s |-> f[s[i]]]
    BY <2>1
  <2>3. QED
    BY <2>2 DEF WordsOfAll, Flattened
<1>3. \A e \in Settings : f[e] = WordsOf(e)
  OBVIOUS
<1> HIDE DEF f
<1>4. WordsOfAll(settings) \in Seq(STRING)
  BY <1>1, <1>2, MapType
<1>5. WordsOfAll(<< >>) = << >>
  BY <1>2, MapEmpty, EmptySeq
<1>6. ASSUME settings # << >>
      PROVE  WordsOfAll(settings) = WordsOf(settings[1]) \o WordsOfAll(Tail(settings))
  <2>1. settings[1] \in Settings /\ Tail(settings) \in Seq(Settings)
    BY <1>6
  <2>2. Flattened(f, settings) = Join(f[settings[1]], Flattened(f, Tail(settings)))
    BY <1>1, <1>6, MapFirst
  <2>3. QED
    BY <1>2, <1>3, <2>1, <2>2 DEF Join
<1>7. QED
  BY <1>4, <1>5, <1>6

\* The words of a line start with the flag of its first setting.
LEMMA WordsStart ==
  ASSUME NEW settings \in Seq(Settings), settings # << >>
  PROVE  WordsOfAll(settings) # << >> /\ WordsOfAll(settings)[1] = settings[1].flag
<1> DEFINE first == WordsOf(settings[1])
           others == WordsOfAll(Tail(settings))
           all == WordsOfAll(settings)
<1>1. settings[1] \in Settings /\ Tail(settings) \in Seq(Settings)
  OBVIOUS
<1>2. all = first \o others /\ others \in Seq(STRING)
  BY <1>1, WordsOfAllParts
<1>3. first \in Seq(STRING) /\ first # << >> /\ first[1] = settings[1].flag
  BY <1>1, WordsOfType
<1> HIDE DEF first, others, all
<1>4. all # << >> /\ all[1] = first[1]
  BY <1>2, <1>3
<1>5. QED
  BY <1>3, <1>4 DEF all

\* What a setting of the line means is a list of settings.
LEMMA MeantByType ==
  ASSUME NEW e \in Settings
  PROVE  MeantBy(e) \in Seq(Settings)
<1>1. CASE e.flag # "--config"
  BY <1>1 DEF MeantBy
<1>2. CASE e.flag = "--config" /\ ~FileReadable(e.value)
  BY <1>2 DEF MeantBy
<1>3. CASE e.flag = "--config" /\ FileReadable(e.value)
  <2> DEFINE file == Files[e.value]
             f == [x \in Settings |-> MeantByEntry(x)]
  <2>1. file \in Seq(Settings)
    BY <1>3, CommandLineAssumption DEF FileReadable
  <2>2. f \in [Settings -> Seq(Settings)]
    BY DEF MeantByEntry
  <2>3. [i \in DOMAIN file |-> MeantByEntry(file[i])] = [i \in DOMAIN file |-> f[file[i]]]
    BY <2>1
  <2>4. MeantByFile(e.value) = Flattened(f, file)
    BY <2>3 DEF MeantByFile, Flattened
  <2> HIDE DEF f, file
  <2>5. Flattened(f, file) \in Seq(Settings)
    BY <2>1, <2>2, MapType
  <2>6. QED
    BY <1>3, <2>4, <2>5 DEF MeantBy
<1>4. QED
  BY <1>1, <1>2, <1>3

\* What a line means is what its first setting means and what the others do.
LEMMA MeantByAllParts ==
  ASSUME NEW settings \in Seq(Settings)
  PROVE  /\ MeantByAll(settings) \in Seq(Settings)
         /\ MeantByAll(<< >>) = << >>
         /\ settings # << >> =>
              MeantByAll(settings) = MeantBy(settings[1]) \o MeantByAll(Tail(settings))
<1> DEFINE f == [e \in Settings |-> MeantBy(e)]
<1>1. f \in [Settings -> Seq(Settings)]
  BY MeantByType
<1>2. ASSUME NEW s \in Seq(Settings)
      PROVE  MeantByAll(s) = Flattened(f, s)
  <2>1. \A i \in DOMAIN s : s[i] \in Settings
    OBVIOUS
  <2>2. [i \in DOMAIN s |-> MeantBy(s[i])] = [i \in DOMAIN s |-> f[s[i]]]
    BY <2>1
  <2>3. QED
    BY <2>2 DEF MeantByAll, Flattened
<1>3. \A e \in Settings : f[e] = MeantBy(e)
  OBVIOUS
<1> HIDE DEF f
<1>4. MeantByAll(settings) \in Seq(Settings)
  <2>1. Flattened(f, settings) \in Seq(Settings)
    BY <1>1, MapType
  <2>2. QED
    BY <1>2, <2>1
<1>5. MeantByAll(<< >>) = << >>
  BY <1>2, MapEmpty, EmptySeq
<1>6. ASSUME settings # << >>
      PROVE  MeantByAll(settings) = MeantBy(settings[1]) \o MeantByAll(Tail(settings))
  <2>1. settings[1] \in Settings /\ Tail(settings) \in Seq(Settings)
    BY <1>6
  <2>2. Flattened(f, settings) = Join(f[settings[1]], Flattened(f, Tail(settings)))
    BY <1>1, <1>6, MapFirst
  <2>3. QED
    BY <1>2, <1>3, <2>1, <2>2 DEF Join
<1>7. QED
  BY <1>4, <1>5, <1>6

-----------------------------------------------------------------------------
(* What the parser reads                                                     *)

\* The words that the parser takes at once, and the settings that they mean.  A switch
\* that a file gives a value is read without it.
IsGroup(g, e) ==
  \/ e.flag \in Switches \cup Help /\ g = [words |-> <<e.flag>>, means |-> <<e>>]
  \/ /\ e.flag \notin Switches \cup Help \cup {"--config"}
     /\ g = [words |-> <<e.flag, e.value>>, means |-> <<e>>]
  \/ /\ e.flag \in {"--no-sync"} \cup Help /\ FileClear(e)
     /\ g = [words |-> <<e.flag, e.value>>, means |-> <<e>>]
  \/ e.flag = "--config" /\ g = [words |-> <<e.flag, e.value>>, means |-> << >>]

Groups == {g \in [words : Seq(STRING), means : Seq(Settings)] : \E e \in Settings : IsGroup(g, e)}

WordsIn(groups) == FlattenSeq([i \in DOMAIN groups |-> groups[i].words])
MeansIn(groups) == FlattenSeq([i \in DOMAIN groups |-> groups[i].means])

\* No groups have no words and mean nothing.
LEMMA EmptyGroups ==
  WordsIn(<< >>) = << >> /\ MeansIn(<< >>) = << >>
<1>1. /\ [i \in DOMAIN << >> |-> << >>[i].words] = << >>
      /\ [i \in DOMAIN << >> |-> << >>[i].means] = << >>
  OBVIOUS
<1>2. QED
  BY <1>1, FlattenEmpty DEF WordsIn, MeansIn

\* Groups can be added behind and taken from the front, with their words and settings.
LEMMA GroupsParts ==
  ASSUME NEW groups \in Seq(Groups)
  PROVE  /\ WordsIn(groups) \in Seq(STRING)
         /\ MeansIn(groups) \in Seq(Settings)
         /\ \A g \in Groups : /\ WordsIn(Append(groups, g)) = WordsIn(groups) \o g.words
                              /\ MeansIn(Append(groups, g)) = MeansIn(groups) \o g.means
         /\ groups # << >> =>
              /\ groups[1] \in Groups
              /\ Tail(groups) \in Seq(Groups)
              /\ WordsIn(groups) = groups[1].words \o WordsIn(Tail(groups))
              /\ MeansIn(groups) = groups[1].means \o MeansIn(Tail(groups))
<1> DEFINE w == [g \in Groups |-> g.words]
           m == [g \in Groups |-> g.means]
<1>w. w \in [Groups -> Seq(STRING)]
  BY DEF Groups
<1>m. m \in [Groups -> Seq(Settings)]
  BY DEF Groups
<1>2. ASSUME NEW s \in Seq(Groups)
      PROVE  WordsIn(s) = Flattened(w, s) /\ MeansIn(s) = Flattened(m, s)
  <2>1. \A i \in DOMAIN s : s[i] \in Groups
    OBVIOUS
  <2>2. /\ [i \in DOMAIN s |-> s[i].words] = [i \in DOMAIN s |-> w[s[i]]]
        /\ [i \in DOMAIN s |-> s[i].means] = [i \in DOMAIN s |-> m[s[i]]]
    BY <2>1
  <2>3. QED
    BY <2>2 DEF WordsIn, MeansIn, Flattened
<1>3. \A g \in Groups : w[g] = g.words /\ m[g] = g.means
  OBVIOUS
<1> HIDE DEF w, m
<1>4. WordsIn(groups) \in Seq(STRING) /\ MeansIn(groups) \in Seq(Settings)
  <2>1. Flattened(w, groups) \in Seq(STRING)
    BY <1>w, MapType
  <2>2. Flattened(m, groups) \in Seq(Settings)
    BY <1>m, MapType
  <2>3. QED
    BY <1>2, <2>1, <2>2
<1>5. ASSUME NEW g \in Groups
      PROVE  /\ WordsIn(Append(groups, g)) = WordsIn(groups) \o g.words
             /\ MeansIn(Append(groups, g)) = MeansIn(groups) \o g.means
  <2>1. Append(groups, g) \in Seq(Groups)
    OBVIOUS
  <2>2. Flattened(w, Append(groups, g)) = Join(Flattened(w, groups), w[g])
    BY <1>w, MapAppend
  <2>3. Flattened(m, Append(groups, g)) = Join(Flattened(m, groups), m[g])
    BY <1>m, MapAppend, SMTT(30)
  <2>4. QED
    BY <1>2, <1>3, <2>1, <2>2, <2>3 DEF Join
<1>6. ASSUME groups # << >>
      PROVE  /\ groups[1] \in Groups
             /\ Tail(groups) \in Seq(Groups)
             /\ WordsIn(groups) = groups[1].words \o WordsIn(Tail(groups))
             /\ MeansIn(groups) = groups[1].means \o MeansIn(Tail(groups))
  <2>1. groups[1] \in Groups /\ Tail(groups) \in Seq(Groups)
    BY <1>6
  <2>2. Flattened(w, groups) = Join(w[groups[1]], Flattened(w, Tail(groups)))
    BY <1>w, <1>6, MapFirst
  <2>3. Flattened(m, groups) = Join(m[groups[1]], Flattened(m, Tail(groups)))
    BY <1>m, <1>6, MapFirst
  <2>4. QED
    BY <1>2, <1>3, <2>1, <2>2, <2>3 DEF Join
<1>7. QED
  BY <1>4, <1>5, <1>6

-----------------------------------------------------------------------------
(* The last setting of a list                                                *)

\* A setting that comes last is the one that counts.
LEMMA ValueOfMore ==
  ASSUME NEW settings \in Seq(Settings), NEW e \in Settings, NEW flag
  PROVE  LET more == Append(settings, e)
         IN  /\ GivenIn(more, flag) # {} <=> GivenIn(settings, flag) # {} \/ e.flag = flag
             /\ \A default : ValueIn(more, flag, default)
                               = IF e.flag = flag THEN e.value ELSE ValueIn(settings, flag, default)
<1> DEFINE more == Append(settings, e)
           n == Len(settings)
<1>1. /\ n \in Nat /\ DOMAIN settings = 1..n /\ DOMAIN more = 1..(n + 1)
      /\ \A i \in 1..n : more[i] = settings[i]
      /\ more[n + 1] = e
  OBVIOUS
<1> HIDE DEF more, n
<1>2. CASE e.flag = flag
  <2>1. n + 1 \in GivenIn(more, flag) /\ GivenIn(more, flag) \subseteq 1..(n + 1)
    BY <1>1, <1>2 DEF GivenIn
  <2> DEFINE last == CHOOSE i \in GivenIn(more, flag) : \A j \in GivenIn(more, flag) : j <= i
  <2>2. \A j \in GivenIn(more, flag) : j <= n + 1
    BY <1>1, <2>1
  <2>3. last \in GivenIn(more, flag) /\ \A j \in GivenIn(more, flag) : j <= last
    BY <2>1, <2>2
  <2>4. last = n + 1
    BY <1>1, <2>1, <2>3
  <2>5. \A default : ValueIn(more, flag, default) = more[last].value
    BY <2>1 DEF ValueIn
  <2> HIDE DEF last
  <2>6. QED
    BY <1>1, <1>2, <2>1, <2>4, <2>5 DEF more
<1>3. CASE e.flag # flag
  <2>1. GivenIn(more, flag) = GivenIn(settings, flag)
    BY <1>1, <1>3 DEF GivenIn
  <2>2. CASE GivenIn(settings, flag) = {}
    BY <1>3, <2>1, <2>2 DEF ValueIn, more
  <2>3. CASE GivenIn(settings, flag) # {}
    <3> DEFINE last(given) == CHOOSE i \in given : \A j \in given : j <= i
               given == GivenIn(settings, flag)
    <3>1. given \in SUBSET (1..n) /\ given # {}
      BY <1>1, <2>3 DEF GivenIn
    <3>2. \E i \in given : \A j \in given : j <= i
      <4> DEFINE T == {n - i : i \in given}
      <4>1. T \in SUBSET Nat /\ T # {}
        BY <1>1, <3>1
      <4>2. PICK m \in T : \A k \in T : m <= k
        BY <4>1, Lists!LeastNumber
      <4>3. PICK i \in given : m = n - i
        BY <4>2
      <4>4. \A j \in given : n - i <= n - j
        BY <4>2, <4>3
      <4>5. \A j \in given : j <= i
        BY <1>1, <3>1, <4>4
      <4>6. QED
        BY <4>5
    <3>3. last(given) \in 1..n
      BY <3>1, <3>2
    <3>4. /\ \A default : ValueIn(settings, flag, default) = settings[last(given)].value
          /\ \A default : ValueIn(more, flag, default) = more[last(given)].value
      BY <2>1, <2>3 DEF ValueIn
    <3> HIDE DEF last, given
    <3>5. QED
      BY <1>1, <1>3, <2>1, <3>3, <3>4 DEF more
  <2>4. QED
    BY <2>2, <2>3
<1>4. QED
  BY <1>2, <1>3

\* Of what is not given the default is meant.
LEMMA NothingGiven ==
  ASSUME NEW flag
  PROVE  /\ GivenIn(<< >>, flag) = {}
         /\ \A default : ValueIn(<< >>, flag, default) = default
<1>1. GivenIn(<< >>, flag) = {}
  BY DEF GivenIn
<1>2. QED
  BY <1>1 DEF ValueIn

\* A peer that is given last is the last of the peers.
LEMMA PeersOfMore ==
  ASSUME NEW settings \in Seq(Settings), NEW e \in Settings
  PROVE  /\ PeersIn(settings) \in Seq(STRING)
         /\ PeersIn(Append(settings, e))
              = IF e.flag = "--peer" THEN Append(PeersIn(settings), e.value) ELSE PeersIn(settings)
<1> DEFINE f == [x \in Settings |-> IF x.flag = "--peer" THEN <<x.value>> ELSE << >>]
           peers == Flattened(f, settings)
<1>1. f \in [Settings -> Seq(STRING)]
  <2>1. ASSUME NEW x \in Settings
        PROVE  f[x] \in Seq(STRING)
    <3>1. x.value \in STRING
      BY DEF Settings
    <3>2. << >> \in Seq(STRING) /\ <<x.value>> \in Seq(STRING)
      BY <3>1
    <3>3. f[x] = IF x.flag = "--peer" THEN <<x.value>> ELSE << >>
      OBVIOUS
    <3> HIDE DEF f
    <3>4. QED
      BY <3>2, <3>3
  <2>2. QED
    BY <2>1
<1>2. ASSUME NEW s \in Seq(Settings)
      PROVE  PeersIn(s) = Flattened(f, s)
  <2>1. \A i \in DOMAIN s : s[i] \in Settings
    OBVIOUS
  <2>2. [i \in DOMAIN s |-> IF s[i].flag = "--peer" THEN <<s[i].value>> ELSE << >>]
          = [i \in DOMAIN s |-> f[s[i]]]
    BY <2>1
  <2>3. QED
    BY <2>2 DEF PeersIn, Flattened
<1>3. f[e] = IF e.flag = "--peer" THEN <<e.value>> ELSE << >>
  OBVIOUS
<1>4. e.value \in STRING
  BY DEF Settings
<1> HIDE DEF f
<1>5. peers \in Seq(STRING)
  BY <1>1, MapType
<1>6. Flattened(f, Append(settings, e)) = Join(peers, f[e])
  BY <1>1, MapAppend, SMTT(30)
<1>7. Append(settings, e) \in Seq(Settings)
  OBVIOUS
<1> HIDE DEF peers
<1>8. Join(peers, f[e]) = IF e.flag = "--peer" THEN Append(peers, e.value) ELSE peers
  <2>1. CASE e.flag = "--peer"
    BY <1>3, <1>4, <1>5, <2>1, AppendIsConcat DEF Join
  <2>2. CASE e.flag # "--peer"
    BY <1>3, <1>5, <2>2, ConcatEmptySeq DEF Join
  <2>3. QED
    BY <2>1, <2>2
<1>9. QED
  BY <1>2, <1>5, <1>6, <1>7, <1>8 DEF peers

\* Nothing gives no peers.
LEMMA NoPeers ==
  PeersIn(<< >>) = << >>
<1>1. [i \in DOMAIN << >> |-> IF << >>[i].flag = "--peer" THEN << << >>[i].value>> ELSE << >>] = << >>
  OBVIOUS
<1>2. QED
  BY <1>1, FlattenEmpty DEF PeersIn

-----------------------------------------------------------------------------
(* What a setting does to the request                                        *)

\* The shape of a request: it has a value for each flag, which is a number where one is
\* asked for.
NodeRequestOk(r) ==
  /\ r = [config |-> r.config, peers |-> r.peers, miner |-> r.miner, mining |-> r.mining,
          mine_once |-> r.mine_once, sync |-> r.sync]
  /\ r.config = [flag \in Flags |-> r.config[flag]]
  /\ \A flag \in Numbers : r.config[flag] \in DOMAIN Numeral

\* The request has what these settings mean.
NodeMeans(r, settings) ==
  /\ \A flag \in Flags : r.config[flag] = ValueIn(settings, flag, NodeDefault[flag])
  /\ r.peers = PeersIn(settings)
  /\ r.mining <=> GivenIn(settings, "--mine") # {}
  /\ r.miner = IF r.mining THEN r.config["--mine-interval-ms"] ELSE "none"
  /\ r.mine_once <=> GivenIn(settings, "--mine-once") # {}
  /\ r.sync <=> GivenIn(settings, "--no-sync") = {}

\* Which words are flags of which kind: no word is of two kinds.
LEMMA FlagFacts ==
  /\ Numbers \subseteq Flags
  /\ "--mine-interval-ms" \in Flags
  /\ "--peer" \notin Numbers
  /\ Flags \cap Switches = {}
  /\ "--config" \notin NodeFlags \cup Switches \cup Help
  /\ NodeFlags \cap (Switches \cup Help) = {}
  /\ Switches \cap Help = {}
  /\ ChainFlags \subseteq Flags
BY DEF Flags, Numbers, NodeFlags, Limits, ChainFlags, Timeouts, SyncLimits, Texts, AddressFlags,
       Switches, Help

\* The request before the first word has a shape and means what nothing means.
LEMMA DefaultIsRequest ==
  NodeRequestOk(DefaultRequest(NodeDefault)) /\ NodeMeans(DefaultRequest(NodeDefault), << >>)
<1> DEFINE r == DefaultRequest(NodeDefault)
<1>1. r = [config |-> r.config, peers |-> r.peers, miner |-> r.miner, mining |-> r.mining,
          mine_once |-> r.mine_once, sync |-> r.sync]
  BY DEF DefaultRequest
<1>2. /\ r.config = NodeDefault /\ r.peers = << >> /\ r.miner = "none" /\ ~r.mining
      /\ ~r.mine_once /\ r.sync
  BY DEF DefaultRequest
<1> HIDE DEF r
<1>4. NodeRequestOk(r)
  BY <1>1, <1>2, DefaultsOf DEF NodeRequestOk
<1>5. NodeMeans(r, << >>)
  BY <1>2, NothingGiven, NoPeers DEF NodeMeans
<1>6. QED
  BY <1>4, <1>5 DEF r

\* What WithValue changes.
ValueSet(r, flag, value, new) ==
  /\ new = [config |-> new.config, peers |-> new.peers, miner |-> new.miner,
            mining |-> new.mining, mine_once |-> new.mine_once, sync |-> new.sync]
  /\ new.config = [f \in Flags |-> IF f = flag THEN value ELSE r.config[f]]
  /\ new.peers = IF flag = "--peer" THEN Append(r.peers, value) ELSE r.peers
  /\ new.miner = IF flag = "--mine-interval-ms" /\ r.mining THEN value ELSE r.miner
  /\ (new.mining <=> r.mining) /\ (new.mine_once <=> r.mine_once) /\ (new.sync <=> r.sync)

\* Those are the changes, whichever flag it is.
LEMMA WithValueChanges ==
  ASSUME NEW r, NodeRequestOk(r), NEW flag \in NodeFlags, NEW value
  PROVE  ValueSet(r, flag, value, WithValue(r, flag, value))
<1> DEFINE new == WithValue(r, flag, value)
<1>1. r = [config |-> r.config, peers |-> r.peers, miner |-> r.miner, mining |-> r.mining,
           mine_once |-> r.mine_once, sync |-> r.sync]
  BY DEF NodeRequestOk
<1>2. r.config = [f \in Flags |-> r.config[f]]
  BY DEF NodeRequestOk
<1>3. CASE flag = "--peer"
  <2>1. new = [r EXCEPT !.peers = Append(r.peers, value)]
    BY <1>3 DEF WithValue
  <2>2. flag \notin Flags
    BY <1>3 DEF Flags
  <2> HIDE DEF new
  <2>3. new.config = r.config
    BY <1>1, <2>1
  <2>4. new.config = [f \in Flags |-> IF f = flag THEN value ELSE r.config[f]]
    BY <1>2, <2>2, <2>3
  <2>5. QED
    BY <1>1, <1>3, <2>1, <2>4 DEF new, ValueSet
<1>4. CASE flag = "--mine-interval-ms"
  <2>1. new = [r EXCEPT !.config[flag] = value, !.miner = IF r.mining THEN value ELSE r.miner]
    BY <1>4 DEF WithValue
  <2>2. flag \in Flags /\ flag # "--peer"
    BY <1>4, FlagFacts
  <2> HIDE DEF new
  <2>3. /\ new.config = [r.config EXCEPT ![flag] = value]
        /\ new.miner = IF r.mining THEN value ELSE r.miner
        /\ new.peers = r.peers
        /\ (new.mining <=> r.mining) /\ (new.mine_once <=> r.mine_once) /\ (new.sync <=> r.sync)
    BY <1>1, <2>1
  <2>4. new.config = [f \in Flags |-> IF f = flag THEN value ELSE r.config[f]]
    BY <1>2, <2>2, <2>3
  <2>5. QED
    BY <1>1, <1>4, <2>1, <2>2, <2>3, <2>4 DEF new, ValueSet
<1>5. CASE flag \notin {"--peer", "--mine-interval-ms"}
  <2>1. new = [r EXCEPT !.config[flag] = value]
    BY <1>5 DEF WithValue
  <2>2. flag \in Flags
    BY <1>5 DEF Flags
  <2> HIDE DEF new
  <2>3. /\ new.config = [r.config EXCEPT ![flag] = value]
        /\ new.miner = r.miner
        /\ new.peers = r.peers
        /\ (new.mining <=> r.mining) /\ (new.mine_once <=> r.mine_once) /\ (new.sync <=> r.sync)
    BY <1>1, <2>1
  <2>4. new.config = [f \in Flags |-> IF f = flag THEN value ELSE r.config[f]]
    BY <1>2, <2>2, <2>3
  <2>5. QED
    BY <1>1, <1>5, <2>1, <2>3, <2>4 DEF new, ValueSet
<1>6. QED
  BY <1>3, <1>4, <1>5

\* A value keeps the request in shape, whatever was meant by it.
LEMMA ValueKeepsRequest ==
  ASSUME NEW r, NodeRequestOk(r), NEW flag \in NodeFlags, NEW value, Parses(flag, value)
  PROVE  NodeRequestOk(WithValue(r, flag, value))
<1> DEFINE new == WithValue(r, flag, value)
<1>0. ValueSet(r, flag, value, new)
  BY WithValueChanges
<1> HIDE DEF new
<1>1. /\ new = [config |-> new.config, peers |-> new.peers, miner |-> new.miner,
                mining |-> new.mining, mine_once |-> new.mine_once, sync |-> new.sync]
      /\ new.config = [f \in Flags |-> IF f = flag THEN value ELSE r.config[f]]
  BY <1>0 DEF ValueSet
<1>2. flag \in Numbers => value \in DOMAIN Numeral
  BY DEF Parses, Numbers
<1>3. \A f \in Numbers : r.config[f] \in DOMAIN Numeral
  BY DEF NodeRequestOk
<1>4. \A f \in Numbers : new.config[f] \in DOMAIN Numeral
  BY <1>1, <1>2, <1>3, FlagFacts
<1>6. new.config = [f \in Flags |-> new.config[f]]
  BY <1>1
<1>7. QED
  BY <1>1, <1>4, <1>6 DEF NodeRequestOk, new

\* A setting with a value adds what it means.
LEMMA ValueMeans ==
  ASSUME NEW r, NodeRequestOk(r), NEW settings \in Seq(Settings), NodeMeans(r, settings),
         NEW flag \in NodeFlags, NEW value
  PROVE  \A e \in Settings : e.flag = flag /\ e.value = value
           => NodeMeans(WithValue(r, flag, value), Append(settings, e))
<1> DEFINE new == WithValue(r, flag, value)
<1>0. ValueSet(r, flag, value, new)
  BY WithValueChanges
<1> HIDE DEF new
<1>1. /\ new.config = [f \in Flags |-> IF f = flag THEN value ELSE r.config[f]]
      /\ new.peers = IF flag = "--peer" THEN Append(r.peers, value) ELSE r.peers
      /\ new.miner = IF flag = "--mine-interval-ms" /\ r.mining THEN value ELSE r.miner
      /\ (new.mining <=> r.mining) /\ (new.mine_once <=> r.mine_once) /\ (new.sync <=> r.sync)
  BY <1>0 DEF ValueSet
<1> SUFFICES ASSUME NEW e \in Settings, e.flag = flag, e.value = value
             PROVE  NodeMeans(new, Append(settings, e))
  BY DEF new
<1> DEFINE more == Append(settings, e)
<1>2. ASSUME NEW f
      PROVE  /\ GivenIn(more, f) # {} <=> GivenIn(settings, f) # {} \/ e.flag = f
             /\ \A default : ValueIn(more, f, default)
                               = IF e.flag = f THEN e.value ELSE ValueIn(settings, f, default)
  BY ValueOfMore
<1>3. PeersIn(more) = IF e.flag = "--peer" THEN Append(PeersIn(settings), e.value)
                      ELSE PeersIn(settings)
  BY PeersOfMore
<1> HIDE DEF more
<1>4. e.flag \notin {"--mine", "--mine-once", "--no-sync"}
  BY FlagFacts DEF Switches
<1>5. \A f \in Flags : new.config[f] = ValueIn(more, f, NodeDefault[f])
  <2>1. \A f \in Flags : ValueIn(more, f, NodeDefault[f])
          = IF e.flag = f THEN e.value ELSE ValueIn(settings, f, NodeDefault[f])
    BY <1>2
  <2>2. QED
    BY <1>1, <2>1 DEF NodeMeans
<1>6. new.peers = PeersIn(more)
  BY <1>1, <1>3 DEF NodeMeans
<1>7. /\ new.mining <=> GivenIn(more, "--mine") # {}
      /\ new.mine_once <=> GivenIn(more, "--mine-once") # {}
      /\ new.sync <=> GivenIn(more, "--no-sync") = {}
  BY <1>1, <1>2, <1>4 DEF NodeMeans
<1>8. new.miner = IF new.mining THEN new.config["--mine-interval-ms"] ELSE "none"
  BY <1>1, FlagFacts DEF NodeMeans
<1>9. QED
  BY <1>5, <1>6, <1>7, <1>8 DEF NodeMeans, more

\* So does a switch, and it keeps the request in shape.
LEMMA SwitchMeans ==
  ASSUME NEW r, NodeRequestOk(r), NEW flag \in Switches
  PROVE  /\ NodeRequestOk(WithSwitch(r, flag))
         /\ \A settings \in Seq(Settings), e \in Settings :
              NodeMeans(r, settings) /\ e.flag = flag
                => NodeMeans(WithSwitch(r, flag), Append(settings, e))
<1> DEFINE new == WithSwitch(r, flag)
<1>1. r = [config |-> r.config, peers |-> r.peers, miner |-> r.miner, mining |-> r.mining,
           mine_once |-> r.mine_once, sync |-> r.sync]
  BY DEF NodeRequestOk
<1>2. /\ new = [config |-> r.config, peers |-> r.peers, miner |-> new.miner,
                mining |-> new.mining, mine_once |-> new.mine_once, sync |-> new.sync]
      /\ new.mining = IF flag = "--mine" THEN TRUE ELSE r.mining
      /\ new.miner = IF flag = "--mine" THEN r.config["--mine-interval-ms"] ELSE r.miner
      /\ new.mine_once = IF flag = "--mine-once" THEN TRUE ELSE r.mine_once
      /\ new.sync = IF flag = "--no-sync" THEN FALSE ELSE r.sync
  <2>1. CASE flag = "--mine"
    BY <1>1, <2>1 DEF WithSwitch
  <2>2. CASE flag = "--mine-once"
    BY <1>1, <2>2 DEF WithSwitch
  <2>3. CASE flag = "--no-sync"
    BY <1>1, <2>3 DEF WithSwitch
  <2>4. QED
    BY <2>1, <2>2, <2>3 DEF Switches
<1> HIDE DEF new
<1>3. /\ new = [config |-> new.config, peers |-> new.peers, miner |-> new.miner,
                mining |-> new.mining, mine_once |-> new.mine_once, sync |-> new.sync]
      /\ new.config = r.config /\ new.peers = r.peers
  <2>1. new.config = r.config /\ new.peers = r.peers
    BY <1>2
  <2>2. QED
    BY <1>2, <2>1
<1>4. NodeRequestOk(new)
  BY <1>3 DEF NodeRequestOk
<1>5. ASSUME NEW settings \in Seq(Settings), NEW e \in Settings,
             NodeMeans(r, settings), e.flag = flag
      PROVE  NodeMeans(new, Append(settings, e))
  <2> DEFINE more == Append(settings, e)
  <2>1. /\ \A f : GivenIn(more, f) # {} <=> GivenIn(settings, f) # {} \/ e.flag = f
        /\ \A f, default : ValueIn(more, f, default)
                             = IF e.flag = f THEN e.value ELSE ValueIn(settings, f, default)
    BY ValueOfMore
  <2>2. flag \notin Flags /\ flag # "--peer"
    BY FlagFacts DEF Switches
  <2>3. PeersIn(more) = PeersIn(settings)
    BY <1>5, <2>2, PeersOfMore
  <2> HIDE DEF more
  <2>4. \A f \in Flags : new.config[f] = ValueIn(more, f, NodeDefault[f])
    BY <1>3, <1>5, <2>1, <2>2 DEF NodeMeans
  <2>5. /\ new.mining <=> GivenIn(more, "--mine") # {}
        /\ new.mine_once <=> GivenIn(more, "--mine-once") # {}
        /\ new.sync <=> GivenIn(more, "--no-sync") = {}
    BY <1>2, <1>5, <2>1 DEF NodeMeans
  <2>6. new.miner = IF new.mining THEN new.config["--mine-interval-ms"] ELSE "none"
    BY <1>2, <1>3, <1>5 DEF NodeMeans
  <2>7. QED
    BY <1>3, <1>5, <2>3, <2>4, <2>5, <2>6 DEF NodeMeans, more
<1>6. QED
  BY <1>4, <1>5 DEF new

-----------------------------------------------------------------------------
(* From settings and files to what the parser reads                          *)

\* A list behind two words.
StartsWith(list, a, b, s) ==
  /\ list # << >> /\ Head(list) = a /\ list[1] = a
  /\ Tail(list) = Join(<<b>>, s)
  /\ Len(list) > 1 /\ list[2] = b
  /\ SubSeq(list, 3, Len(list)) = s
  /\ SubSeq(list, 1, 2) = <<a, b>>

\* A list behind one.
LEMMA FirstOfList ==
  ASSUME NEW X, NEW a \in X, NEW s \in Seq(X)
  PROVE  LET list == Join(<<a>>, s)
         IN  list \in Seq(X) /\ list # << >> /\ list[1] = a /\ Head(list) = a /\ Tail(list) = s
<1> DEFINE list == <<a>> \o s
<1>1. <<a>> \in Seq(X)
  OBVIOUS
<1>2. /\ list \in Seq(X) /\ Len(list) = Len(s) + 1 /\ Len(s) \in Nat
      /\ list[1] = a /\ \A i \in 1..Len(s) : list[i + 1] = s[i]
  BY <1>1
<1> HIDE DEF list
<1>3. Tail(list) \in Seq(X) /\ Len(Tail(list)) = Len(s) /\ list # << >>
      /\ Head(list) = a /\ \A i \in 1..Len(s) : Tail(list)[i] = list[i + 1]
  BY <1>2
<1>4. Tail(list) = s
  BY <1>2, <1>3, SeqEqual
<1>5. QED
  BY <1>2, <1>3, <1>4 DEF Join, list

\* A list behind two words starts with them.
LEMMA FirstTwoOfList ==
  ASSUME NEW X, NEW a \in X, NEW b \in X, NEW s \in Seq(X)
  PROVE  StartsWith(Join(<<a, b>>, s), a, b, s)
<1> DEFINE list == <<a, b>> \o s
           more == <<b>> \o s
<1>1. <<a, b>> \in Seq(X) /\ <<b>> \in Seq(X)
  OBVIOUS
<1>2. /\ list \in Seq(X) /\ Len(list) = Len(s) + 2 /\ Len(s) \in Nat
      /\ list[1] = a /\ list[2] = b /\ \A i \in 1..Len(s) : list[i + 2] = s[i]
  BY <1>1
<1>3. /\ more \in Seq(X) /\ Len(more) = Len(s) + 1
      /\ more[1] = b /\ \A i \in 1..Len(s) : more[i + 1] = s[i]
  BY <1>1
<1> HIDE DEF list, more
<1>4. /\ Tail(list) \in Seq(X) /\ Len(Tail(list)) = Len(s) + 1 /\ list # << >> /\ Head(list) = a
      /\ \A i \in 1..(Len(s) + 1) : Tail(list)[i] = list[i + 1]
  BY <1>2
<1>5. Tail(list) = more
  <2>1. ASSUME NEW i \in 1..(Len(s) + 1)
        PROVE  Tail(list)[i] = more[i]
    <3>1. CASE i = 1
      BY <1>2, <1>3, <1>4, <3>1
    <3>2. CASE i # 1
      <4>1. i - 1 \in 1..Len(s) /\ (i - 1) + 1 = i /\ (i - 1) + 2 = i + 1
        BY <1>2, <3>2
      <4>2. Tail(list)[i] = list[i + 1] /\ list[i + 1] = s[i - 1] /\ more[i] = s[i - 1]
        BY <1>2, <1>3, <1>4, <4>1
      <4>3. QED
        BY <4>2
    <3>3. QED
      BY <3>1, <3>2
  <2>2. QED
    BY <1>3, <1>4, <2>1, SeqEqual
<1>6. SubSeq(list, 3, Len(list)) = s
  <2> DEFINE rest == SubSeq(list, 3, Len(list))
  <2>1. /\ rest \in Seq(X) /\ Len(rest) = Len(s)
        /\ \A i \in 1..Len(s) : rest[i] = list[i + 2]
    BY <1>2
  <2> HIDE DEF rest
  <2>2. rest = s
    BY <1>2, <2>1, SeqEqual
  <2>3. QED
    BY <2>2 DEF rest
<1>7. SubSeq(list, 1, 2) = <<a, b>>
  <2> DEFINE front == SubSeq(list, 1, 2)
             both == <<a, b>>
  <2>1. /\ front \in Seq(X) /\ Len(front) = 2
        /\ \A i \in 1..2 : front[i] = list[i]
    BY <1>2
  <2>2. both \in Seq(X) /\ Len(both) = 2 /\ both[1] = a /\ both[2] = b
    OBVIOUS
  <2> HIDE DEF front, both
  <2>3. \A i \in 1..2 : front[i] = both[i]
    BY <1>2, <2>1, <2>2
  <2>4. front = both
    BY <2>1, <2>2, <2>3, SeqEqual
  <2>5. QED
    BY <2>4 DEF front, both
<1>8. QED
  BY <1>2, <1>4, <1>5, <1>6, <1>7 DEF StartsWith, Join, list, more

\* The same for words.
LEMMA FirstWord ==
  ASSUME NEW a \in STRING, NEW s \in Seq(STRING)
  PROVE  LET list == Join(<<a>>, s)
         IN  /\ list \in Seq(STRING) /\ list # << >> /\ list[1] = a /\ Head(list) = a
             /\ Tail(list) = s
<1> DEFINE X == STRING
<1>1. a \in X /\ s \in Seq(X)
  OBVIOUS
<1> HIDE DEF X
<1> DEFINE list == Join(<<a>>, s)
<1>2. list \in Seq(X) /\ list # << >> /\ list[1] = a /\ Head(list) = a /\ Tail(list) = s
  BY <1>1, FirstOfList
<1> HIDE DEF list
<1>3. QED
  BY <1>2 DEF X, list

\* The same for two words.
LEMMA FirstTwoWords ==
  ASSUME NEW a \in STRING, NEW b \in STRING, NEW s \in Seq(STRING)
  PROVE  StartsWith(Join(<<a, b>>, s), a, b, s)
<1> DEFINE X == STRING
<1>1. a \in X /\ b \in X /\ s \in Seq(X)
  OBVIOUS
<1> HIDE DEF X
<1>2. QED
  BY <1>1, FirstTwoOfList

\* A clear setting is a group of its own.
LEMMA SettingGroup ==
  ASSUME NEW e \in Settings, IsClear(e), e.flag # "--config"
  PROVE  \E g \in Groups : g.words = WordsOf(e) /\ g.means = <<e>> /\ MeantBy(e) = <<e>>
<1> DEFINE g == [words |-> WordsOf(e), means |-> <<e>>]
<1>1. g \in [words : Seq(STRING), means : Seq(Settings)]
  BY WordsOfType
<1>2. IsGroup(g, e)
  <2>1. CASE e.flag \in Switches \cup Help
    BY <2>1 DEF IsGroup, WordsOf
  <2>2. CASE e.flag \notin Switches \cup Help
    BY <2>2 DEF IsGroup, WordsOf, IsClear
  <2>3. QED
    BY <2>1, <2>2
<1>3. MeantBy(e) = <<e>>
  BY DEF MeantBy
<1>4. g \in Groups
  BY <1>1, <1>2 DEF Groups
<1>5. QED
  BY <1>3, <1>4

\* A line of a file is one, or says nothing.
LEMMA EntryGroup ==
  ASSUME NEW e \in Settings, FileLineOk(e), FileClear(e)
  PROVE  \/ WordsOfFileLine(e) = << >> /\ MeantByEntry(e) = << >>
         \/ \E g \in Groups : g.words = WordsOfFileLine(e) /\ g.means = MeantByEntry(e)
<1> DEFINE g == [words |-> WordsOfFileLine(e), means |-> MeantByEntry(e)]
<1>1. e.flag \in STRING /\ e.value \in STRING
  BY DEF Settings
<1>2. CASE e.flag \in FileSwitches /\ e.value \notin Yes
  BY <1>2 DEF WordsOfFileLine, MeantByEntry
<1>3. CASE e.flag \in FileSwitches /\ e.value \in Yes
  <2>1. WordsOfFileLine(e) = <<e.flag>> /\ MeantByEntry(e) = <<e>> /\ e.flag \in Switches
    BY <1>3 DEF WordsOfFileLine, MeantByEntry, FileSwitches, Switches
  <2>2. <<e.flag>> \in Seq(STRING) /\ <<e>> \in Seq(Settings)
    BY <1>1
  <2>3. IsGroup(g, e)
    BY <2>1 DEF IsGroup
  <2>4. g \in Groups
    BY <2>1, <2>2, <2>3 DEF Groups
  <2>5. QED
    BY <2>4
<1>4. CASE e.flag \notin FileSwitches
  <2>1. WordsOfFileLine(e) = <<e.flag, e.value>>
    BY <1>4 DEF WordsOfFileLine
  <2>2. MeantByEntry(e) = IF e.flag = "--config" THEN << >> ELSE <<e>>
    BY <1>4 DEF MeantByEntry
  <2>3. e.flag \in Switches \cup Help => e.flag \in {"--no-sync"} \cup Help
    BY <1>4 DEF FileSwitches, Switches
  <2>4. g \in [words : Seq(STRING), means : Seq(Settings)]
    BY <1>1, <2>1, <2>2
  <2>5. IsGroup(g, e)
    BY <2>1, <2>2, <2>3, FlagFacts DEF IsGroup
  <2>6. g \in Groups
    BY <2>4, <2>5 DEF Groups
  <2>7. QED
    BY <2>6
<1>5. QED
  BY <1>2, <1>3, <1>4

\* So a file adds groups, with its words and what it means.
LEMMA FileGroups ==
  ASSUME NEW groups \in Seq(Groups), NEW path, FileReadable(path),
         \A i \in DOMAIN Files[path] : FileClear(Files[path][i])
  PROVE  \E more \in Seq(Groups) :
           /\ WordsIn(more) = Join(WordsIn(groups), ReadConfigArgs(path))
           /\ MeansIn(more) = Join(MeansIn(groups), MeantByFile(path))
           /\ ReadConfigArgs(path) \in Seq(STRING)
           /\ MeantByFile(path) \in Seq(Settings)
<1> DEFINE file == Files[path]
           n == Len(file)
           w == [i \in DOMAIN file |-> WordsOfFileLine(file[i])]
           m == [i \in DOMAIN file |-> MeantByEntry(file[i])]
<1>1. /\ file \in Seq(Settings) /\ n \in Nat /\ DOMAIN file = 1..n
      /\ \A i \in 1..n : file[i] \in Settings /\ FileLineOk(file[i]) /\ FileClear(file[i])
  BY CommandLineAssumption DEF FileReadable
<1> HIDE DEF file, n
<1>2. ASSUME NEW i \in 1..n
      PROVE  WordsOfFileLine(file[i]) \in Seq(STRING) /\ MeantByEntry(file[i]) \in Seq(Settings)
  <2> DEFINE e == file[i]
  <2>1. e.flag \in STRING /\ e.value \in STRING /\ e \in Settings
    BY <1>1 DEF Settings
  <2> HIDE DEF e
  <2>2. WordsOfFileLine(e) \in Seq(STRING)
    <3>1. << >> \in Seq(STRING) /\ <<e.flag>> \in Seq(STRING) /\ <<e.flag, e.value>> \in Seq(STRING)
      BY <2>1
    <3>2. WordsOfFileLine(e) \in {<< >>, <<e.flag>>, <<e.flag, e.value>>}
      BY DEF WordsOfFileLine
    <3>3. QED
      BY <3>1, <3>2
  <2>3. MeantByEntry(e) \in Seq(Settings)
    BY <2>1 DEF MeantByEntry
  <2>4. QED
    BY <2>2, <2>3 DEF e
<1>3. w \in Seq(Seq(STRING)) /\ m \in Seq(Seq(Settings)) /\ Len(w) = n /\ Len(m) = n
  <2>1. w \in [1..n -> Seq(STRING)] /\ m \in [1..n -> Seq(Settings)]
    BY <1>1, <1>2
  <2> HIDE DEF w, m
  <2>2. w \in Seq(Seq(STRING)) /\ m \in Seq(Seq(Settings))
    <3>1. w \in Seq(Seq(STRING)) <=> \E k \in Nat : w \in [1..k -> Seq(STRING)]
      BY SeqDef
    <3>2. m \in Seq(Seq(Settings)) <=> \E k \in Nat : m \in [1..k -> Seq(Settings)]
      BY SeqDef
    <3>3. QED
      BY <1>1, <2>1, <3>1, <3>2
  <2>3. QED
    BY <1>1, <2>1, <2>2
<1>4. \A i \in 1..n : w[i] = WordsOfFileLine(file[i]) /\ m[i] = MeantByEntry(file[i])
  BY <1>1
<1>5. ReadConfigArgs(path) = FlattenSeq(w) /\ MeantByFile(path) = FlattenSeq(m)
  BY DEF ReadConfigArgs, MeantByFile, file
<1> HIDE DEF w, m
<1>6. PICK rw : Lists!FlattenRuns(w, n, rw) /\ FlattenSeq(w) = rw[n] /\ \A i \in 0..n : rw[i] \in Seq(STRING)
  BY <1>1, <1>3, FlattenIsLoop
<1>7. PICK rm : Lists!FlattenRuns(m, n, rm) /\ FlattenSeq(m) = rm[n] /\ \A i \in 0..n : rm[i] \in Seq(Settings)
  BY <1>1, <1>3, FlattenIsLoop
<1> DEFINE Fits(more, i) == /\ WordsIn(more) = Join(WordsIn(groups), rw[i])
                            /\ MeansIn(more) = Join(MeansIn(groups), rm[i])
           S == {i \in Nat : \E more \in Seq(Groups) : Fits(more, i)}
<1>8. WordsIn(groups) \in Seq(STRING) /\ MeansIn(groups) \in Seq(Settings)
  BY GroupsParts
<1>9. 0 \in S
  <2>1. rw[0] = << >> /\ rm[0] = << >>
    BY <1>6, <1>7 DEF Lists!FlattenRuns
  <2>2. Fits(groups, 0)
    BY <1>8, <2>1, ConcatEmptySeq DEF Join
  <2>3. QED
    BY <2>2
<1>10. ASSUME NEW i \in 1..n, i - 1 \in S PROVE i \in S
  <2>1. PICK more \in Seq(Groups) : Fits(more, i - 1)
    BY <1>10
  <2>2. /\ rw[i] = rw[i - 1] \o w[i] /\ rm[i] = rm[i - 1] \o m[i]
        /\ rw[i - 1] \in Seq(STRING) /\ rm[i - 1] \in Seq(Settings)
        /\ w[i] \in Seq(STRING) /\ m[i] \in Seq(Settings)
    <3>1. i - 1 \in 0..n
      BY <1>1
    <3>2. rw[i] = rw[i - 1] \o w[i] /\ rm[i] = rm[i - 1] \o m[i]
      BY <1>6, <1>7 DEF Lists!FlattenRuns
    <3>3. w[i] \in Seq(STRING) /\ m[i] \in Seq(Settings)
      BY <1>2, <1>4
    <3>4. QED
      BY <1>6, <1>7, <3>1, <3>2, <3>3
  <2>3. CASE w[i] = << >> /\ m[i] = << >>
    <3>1. rw[i] = rw[i - 1] /\ rm[i] = rm[i - 1]
      BY <2>2, <2>3, ConcatEmptySeq
    <3>2. Fits(more, i)
      BY <2>1, <3>1
    <3>3. QED
      BY <3>2, <1>1
  <2>4. ASSUME NEW g \in Groups, g.words = w[i], g.means = m[i]
        PROVE  i \in S
    <3>1. WordsIn(Append(more, g)) = WordsIn(more) \o w[i]
      BY <2>4, GroupsParts
    <3>2. MeansIn(Append(more, g)) = MeansIn(more) \o m[i]
      BY <2>4, GroupsParts
    <3>3. WordsIn(Append(more, g)) = Join(WordsIn(groups), rw[i])
      <4> DEFINE a == WordsIn(groups)
                 b == rw[i - 1]
                 c == w[i]
      <4>1. a \in Seq(STRING) /\ b \in Seq(STRING) /\ c \in Seq(STRING)
        BY <1>8, <2>2
      <4>2. WordsIn(more) = a \o b /\ rw[i] = b \o c
        BY <2>1, <2>2 DEF Join
      <4> HIDE DEF a, b, c
      <4>3. Join(Join(a, b), c) = Join(a, Join(b, c))
        BY <4>1, JoinsInAnyOrder
      <4>4. QED
        BY <3>1, <4>2, <4>3 DEF Join, a, b, c
    <3>4. MeansIn(Append(more, g)) = Join(MeansIn(groups), rm[i])
      <4> DEFINE a == MeansIn(groups)
                 b == rm[i - 1]
                 c == m[i]
      <4>1. a \in Seq(Settings) /\ b \in Seq(Settings) /\ c \in Seq(Settings)
        BY <1>8, <2>2
      <4>2. MeansIn(more) = a \o b /\ rm[i] = b \o c
        BY <2>1, <2>2 DEF Join
      <4> HIDE DEF a, b, c
      <4>3. Join(Join(a, b), c) = Join(a, Join(b, c))
        BY <4>1, JoinsInAnyOrder
      <4>4. QED
        BY <3>2, <4>2, <4>3 DEF Join, a, b, c
    <3>5. Append(more, g) \in Seq(Groups)
      OBVIOUS
    <3>6. Fits(Append(more, g), i)
      BY <3>3, <3>4
    <3>7. \E longer \in Seq(Groups) : Fits(longer, i)
      BY <3>5, <3>6
    <3>8. QED
      BY <3>7
  <2>5. \/ w[i] = << >> /\ m[i] = << >>
        \/ \E g \in Groups : g.words = w[i] /\ g.means = m[i]
    BY <1>1, <1>4, EntryGroup
  <2>6. QED
    BY <2>3, <2>4, <2>5
<1> HIDE DEF S
<1>11. 0..n \subseteq S
  BY <1>1, <1>9, <1>10, Lists!Counting
<1>12. n \in S /\ n \in 0..n
  BY <1>1, <1>11
<1>13. PICK more \in Seq(Groups) : Fits(more, n)
  BY <1>12 DEF S
<1>14. QED
  BY <1>5, <1>6, <1>7, <1>12, <1>13

-----------------------------------------------------------------------------
(* Simulations                                                               *)

\* The request of a simulation has what these settings mean; a number where one is
\* asked for, but for the step to tamper with, which need not be given.
SimulationMeans(r, settings) ==
  /\ r = [config |-> r.config, peers |-> r.peers, miner |-> r.miner, mining |-> r.mining,
          mine_once |-> r.mine_once, sync |-> r.sync]
  /\ r.config = [flag \in SimulationFlags |-> r.config[flag]]
  /\ \A flag \in SimulationFlags :
       r.config[flag] = ValueIn(settings, flag, SimulationDefault[flag])
  /\ \A flag \in SimulationFlags :
       \/ r.config[flag] \in DOMAIN Numeral
       \/ flag = "--tamper-step" /\ GivenIn(settings, flag) = {} /\ r.config[flag] = "none"

\* So does the request of a simulation before the first word.
LEMMA DefaultIsSimulation ==
  SimulationMeans(DefaultRequest(SimulationDefault), << >>)
<1> DEFINE r == DefaultRequest(SimulationDefault)
<1>1. r = [config |-> r.config, peers |-> r.peers, miner |-> r.miner, mining |-> r.mining,
          mine_once |-> r.mine_once, sync |-> r.sync]
  BY DEF DefaultRequest
<1>2. r.config = SimulationDefault
  BY DEF DefaultRequest
<1> HIDE DEF r
<1>3. r.config = [flag \in SimulationFlags |-> r.config[flag]]
  BY <1>2, SimulationDefaultsOf
<1>4. \A flag \in SimulationFlags : /\ r.config[flag] \in DOMAIN Numeral \/ flag = "--tamper-step"
                                    /\ flag = "--tamper-step" => r.config[flag] = "none"
  BY <1>2, SimulationDefaultsOf
<1>5. \A flag \in SimulationFlags :
        /\ r.config[flag] = ValueIn(<< >>, flag, SimulationDefault[flag])
        /\ GivenIn(<< >>, flag) = {}
  BY <1>2, NothingGiven
<1>6. ASSUME NEW flag \in SimulationFlags
      PROVE  \/ r.config[flag] \in DOMAIN Numeral
             \/ flag = "--tamper-step" /\ GivenIn(<< >>, flag) = {} /\ r.config[flag] = "none"
  <2>1. GivenIn(<< >>, flag) = {}
    BY <1>5
  <2>2. QED
    BY <1>4, <2>1
<1>7. SimulationMeans(r, << >>)
  BY <1>1, <1>3, <1>5, <1>6 DEF SimulationMeans
<1>8. QED
  BY <1>7 DEF r

\* A setting with a value adds what it means to a simulation.
LEMMA SimulationValueMeans ==
  ASSUME NEW r, NEW settings \in Seq(Settings), SimulationMeans(r, settings),
         NEW flag \in SimulationFlags, NEW value, Parses(flag, value)
  PROVE  \A e \in Settings : e.flag = flag /\ e.value = value
           => SimulationMeans(WithValue(r, flag, value), Append(settings, e))
<1> DEFINE new == WithValue(r, flag, value)
<1>1. /\ r = [config |-> r.config, peers |-> r.peers, miner |-> r.miner, mining |-> r.mining,
              mine_once |-> r.mine_once, sync |-> r.sync]
      /\ r.config = [f \in SimulationFlags |-> r.config[f]]
  BY DEF SimulationMeans
<1>2. new = [r EXCEPT !.config[flag] = value]
  <2>1. flag \notin {"--peer", "--mine-interval-ms"}
    BY DEF SimulationFlags
  <2>2. QED
    BY <2>1 DEF WithValue
<1>3. value \in DOMAIN Numeral
  <2>1. flag \notin Texts \cup AddressFlags
    BY DEF SimulationFlags, Texts, AddressFlags
  <2>2. QED
    BY <2>1 DEF Parses
<1> HIDE DEF new
<1>4. /\ new = [config |-> new.config, peers |-> new.peers, miner |-> new.miner,
                mining |-> new.mining, mine_once |-> new.mine_once, sync |-> new.sync]
      /\ new.config = [r.config EXCEPT ![flag] = value]
  BY <1>1, <1>2
<1>5. new.config = [f \in SimulationFlags |-> IF f = flag THEN value ELSE r.config[f]]
  BY <1>1, <1>4
<1> SUFFICES ASSUME NEW e \in Settings, e.flag = flag, e.value = value
             PROVE  SimulationMeans(new, Append(settings, e))
  BY DEF new
<1> DEFINE more == Append(settings, e)
<1>6. ASSUME NEW f
      PROVE  /\ GivenIn(more, f) # {} <=> GivenIn(settings, f) # {} \/ e.flag = f
             /\ \A default : ValueIn(more, f, default)
                               = IF e.flag = f THEN e.value ELSE ValueIn(settings, f, default)
  BY ValueOfMore
<1> HIDE DEF more
<1>7. new.config = [f \in SimulationFlags |-> new.config[f]]
  BY <1>5
<1>8. \A f \in SimulationFlags : new.config[f] = ValueIn(more, f, SimulationDefault[f])
  <2>1. \A f \in SimulationFlags : ValueIn(more, f, SimulationDefault[f])
          = IF e.flag = f THEN e.value ELSE ValueIn(settings, f, SimulationDefault[f])
    BY <1>6
  <2>2. QED
    BY <1>5, <2>1 DEF SimulationMeans
<1>9. \A f \in SimulationFlags :
        \/ new.config[f] \in DOMAIN Numeral
        \/ f = "--tamper-step" /\ GivenIn(more, f) = {} /\ new.config[f] = "none"
  <2> SUFFICES ASSUME NEW f \in SimulationFlags, f # flag
               PROVE  \/ new.config[f] \in DOMAIN Numeral
                      \/ f = "--tamper-step" /\ GivenIn(more, f) = {} /\ new.config[f] = "none"
    BY <1>3, <1>5
  <2>1. GivenIn(more, f) = {} <=> GivenIn(settings, f) = {}
    BY <1>6
  <2>2. QED
    BY <1>5, <2>1 DEF SimulationMeans
<1>10. QED
  BY <1>4, <1>7, <1>8, <1>9 DEF SimulationMeans, more

-----------------------------------------------------------------------------
(* The invariant                                                             *)

AllClear(settings) == \A i \in DOMAIN settings : IsClear(settings[i])

\* Files are spliced in up to a setting, or up to the value of one.
Expanding(groups, rest) ==
  /\ Meant = Join(MeansIn(groups), MeantByAll(rest))
  /\ words = WordsOfAll(rest) /\ expanded = WordsIn(groups)

ExpandingValue(groups, e, rest) ==
  /\ Meant = Join(Append(MeansIn(groups), e), MeantByAll(rest))
  /\ words = Join(<<e.value>>, WordsOfAll(rest))
  /\ expanded = Append(WordsIn(groups), e.flag)
  /\ IsClear(e)
  /\ e.value # Missing /\ e.flag \notin Switches \cup Help \cup {"--config"}

ExpandInv ==
  /\ request = DefaultRequest(NodeDefault)
  /\ Clear =>
       \E groups \in Seq(Groups), rest \in Seq(Settings) :
         /\ AllClear(rest)
         /\ Expanding(groups, rest) \/ \E e \in Settings : ExpandingValue(groups, e, rest)

\* The words are read up to a group, or to a word that is nothing.
Unread(groups, done) ==
  /\ Meant = Join(done, MeansIn(groups))
  /\ words = WordsIn(groups)
  /\ NodeMeans(request, done)

Unreadable == words # << >> /\ Head(words) \notin NodeFlags \cup Switches \cup {"--config"}

ParseInv ==
  /\ NodeRequestOk(request)
  /\ Clear => \/ Unreadable
              \/ \E groups \in Seq(Groups), done \in Seq(Settings) : Unread(groups, done)

AcceptedInv ==
  /\ NodeRequestOk(request)
  /\ Clear => NodeMeans(request, Meant)

UnreadSettings(rest, done) ==
  /\ Meant = Join(done, MeantByAll(rest))
  /\ words = WordsOfAll(rest)
  /\ SimulationMeans(request, done)

SimulationInv ==
  Clear => \E rest \in Seq(Settings), done \in Seq(Settings) :
             AllClear(rest) /\ UnreadSettings(rest, done)

CommandLineInv ==
  /\ line \in Lines
  /\ phase = "Dispatch" => /\ words = WordsOfAll(line.settings)
                           /\ expanded = << >>
                           /\ request = DefaultRequest(NodeDefault)
  /\ phase = "Expand" => ExpandInv
  /\ phase = "ParseNode" => ParseInv
  /\ Accepted => AcceptedInv
  /\ phase \in {"StartFailed", "Running", "Stopped"} => NodeOk(request)
  /\ phase = "ParseSimulation" => SimulationInv
  /\ phase = "Simulated" => SimulationOk(request) /\ (Clear => SimulationMeans(request, Meant))

\* The program starts in the invariant.
LEMMA CommandLineStarts ==
  ASSUME CommandLineInit
  PROVE  CommandLineInv
BY DEF CommandLineInit, CommandLineInv, Accepted

\* What is meant does not change, nor whether it is clear.
LEMMA SameMeaning ==
  ASSUME line' = line
  PROVE  Meant' = Meant /\ Clear' = Clear
BY DEF Meant, Clear

\* Dispatch: all of the line is still to be read.
LEMMA DispatchKeeps ==
  ASSUME CommandLineInv, Dispatch
  PROVE  CommandLineInv'
<1>1. line \in Lines /\ phase = "Dispatch" /\ line' = line
  BY DEF CommandLineInv, Dispatch, Ends
<1>2. line.settings \in Seq(Settings)
  BY <1>1, CommandLineAssumption
<1>3. words = WordsOfAll(line.settings) /\ expanded = << >> /\ request = DefaultRequest(NodeDefault)
  BY <1>1 DEF CommandLineInv
<1>4. Meant' = Meant /\ Clear' = Clear
  BY <1>1, SameMeaning
<1>5. Meant = MeantByAll(line.settings) /\ (Clear => AllClear(line.settings))
  BY DEF Meant, Clear, AllClear
<1>6. Meant \in Seq(Settings)
  BY <1>2, <1>5, MeantByAllParts
<1>7. << >> \in Seq(Settings) /\ << >> \in Seq(Groups) /\ Join(<< >>, Meant) = Meant
  BY <1>6, ConcatEmptySeq DEF Join
<1>8. CASE phase' \in {"Helped", "Refused"}
  BY <1>1, <1>8 DEF CommandLineInv, Accepted
<1>9. CASE /\ phase' = "Expand"
           /\ UNCHANGED <<line, words, expanded, request>>
  <2>1. Clear => Expanding(<< >>, line.settings)'
    BY <1>3, <1>4, <1>5, <1>7, <1>9, EmptyGroups DEF Expanding
  <2>2. ExpandInv'
    BY <1>2, <1>3, <1>4, <1>5, <1>7, <1>9, <2>1 DEF ExpandInv
  <2>3. QED
    BY <1>1, <1>9, <2>2 DEF CommandLineInv, Accepted
<1>10. CASE /\ phase' = "ParseSimulation"
            /\ request' = DefaultRequest(SimulationDefault)
            /\ UNCHANGED <<line, words, expanded>>
  <2>1. UnreadSettings(line.settings, << >>)'
    BY <1>3, <1>4, <1>5, <1>7, <1>10, DefaultIsSimulation DEF UnreadSettings
  <2>2. SimulationInv'
    BY <1>2, <1>4, <1>5, <1>7, <1>10, <2>1 DEF SimulationInv
  <2>3. QED
    BY <1>1, <1>10, <2>2 DEF CommandLineInv, Accepted
<1>11. QED
  BY <1>8, <1>9, <1>10 DEF Dispatch, Ends

\* The first of clear settings is clear, and so are the others.
LEMMA ClearRest ==
  ASSUME NEW rest \in Seq(Settings), AllClear(rest), rest # << >>
  PROVE  rest[1] \in Settings /\ IsClear(rest[1]) /\ Tail(rest) \in Seq(Settings) /\ AllClear(Tail(rest))
<1>1. /\ 1 \in DOMAIN rest /\ Tail(rest) \in Seq(Settings) /\ rest[1] \in Settings
      /\ DOMAIN rest = 1..Len(rest) /\ DOMAIN Tail(rest) = 1..(Len(rest) - 1)
      /\ Len(rest) \in Nat
      /\ \A i \in 1..(Len(rest) - 1) : Tail(rest)[i] = rest[i + 1]
  OBVIOUS
<1>2. \A i \in 1..(Len(rest) - 1) : IsClear(rest[i + 1])
  BY <1>1 DEF AllClear
<1>3. QED
  BY <1>1, <1>2 DEF AllClear

\* A setting is taken over, whole or without its value.
LEMMA ExpandSetting ==
  ASSUME NEW groups \in Seq(Groups), NEW rest \in Seq(Settings), AllClear(rest),
         Expanding(groups, rest), rest # << >>, rest[1].flag # "--config",
         words' = Tail(words), expanded' = Append(expanded, Head(words)), line' = line
  PROVE  \E more \in Seq(Groups) :
           \/ Expanding(more, Tail(rest))'
           \/ \E e \in Settings : ExpandingValue(more, e, Tail(rest))'
<1> DEFINE e == rest[1]
           tail == Tail(rest)
<1>1. e \in Settings /\ IsClear(e) /\ tail \in Seq(Settings) /\ e.flag # "--config"
  BY ClearRest
<1>2. /\ words = WordsOf(e) \o WordsOfAll(tail) /\ WordsOfAll(tail) \in Seq(STRING)
      /\ expanded = WordsIn(groups) /\ expanded \in Seq(STRING)
  BY WordsOfAllParts, GroupsParts, <1>1 DEF Expanding
<1>3. Meant = MeansIn(groups) \o (MeantBy(e) \o MeantByAll(tail))
  BY MeantByAllParts DEF Expanding, Join
<1>4. /\ MeansIn(groups) \in Seq(Settings) /\ MeantByAll(tail) \in Seq(Settings)
      /\ MeantBy(e) = <<e>>
  BY GroupsParts, MeantByAllParts, <1>1 DEF MeantBy
<1>5. Meant' = Meant
  BY SameMeaning
<1> HIDE DEF e, tail
<1>6. Meant = Append(MeansIn(groups), e) \o MeantByAll(tail)
  <2> DEFINE a == MeansIn(groups)
             b == <<e>>
             c == MeantByAll(tail)
  <2>1. a \in Seq(Settings) /\ b \in Seq(Settings) /\ c \in Seq(Settings)
    BY <1>1, <1>4
  <2>2. Append(a, e) = Join(a, b)
    BY <1>1, <2>1, AppendIsConcat DEF Join
  <2>3. Meant = Join(a, Join(b, c))
    BY <1>3, <1>4 DEF Join
  <2> HIDE DEF a, b, c
  <2>4. Join(Join(a, b), c) = Join(a, Join(b, c))
    BY <2>1, JoinsInAnyOrder
  <2>5. Meant = Join(Append(a, e), c)
    BY <2>2, <2>3, <2>4
  <2>6. QED
    BY <2>5 DEF Join, a, c
<1>7. e.flag \in STRING /\ e.value \in STRING
  BY <1>1 DEF Settings
<1>8. CASE e.flag \in Switches \cup Help \/ e.value = Missing
  <2>1. WordsOf(e) = <<e.flag>>
    BY <1>8 DEF WordsOf
  <2>2. Head(words) = e.flag /\ Tail(words) = WordsOfAll(tail)
    <3>1. words = Join(<<e.flag>>, WordsOfAll(tail))
      BY <1>2, <2>1 DEF Join
    <3>2. QED
      BY <1>2, <1>7, <3>1, FirstWord, ZenonT(30)
  <2>3. PICK g \in Groups : g.words = <<e.flag>> /\ g.means = <<e>>
    BY <1>1, <2>1, SettingGroup
  <2> DEFINE more == Append(groups, g)
  <2>4. more \in Seq(Groups)
    OBVIOUS
  <2>5. WordsIn(more) = Append(WordsIn(groups), e.flag)
    <3>1. WordsIn(more) = WordsIn(groups) \o <<e.flag>>
      BY <2>3, GroupsParts
    <3>2. QED
      BY <1>2, <1>7, <3>1, AppendIsConcat
  <2>6. MeansIn(more) = Append(MeansIn(groups), e)
    <3>1. MeansIn(more) = MeansIn(groups) \o <<e>>
      BY <2>3, GroupsParts
    <3>2. QED
      BY <1>1, <1>4, <3>1, AppendIsConcat
  <2> HIDE DEF more
  <2>7. /\ words' = WordsOfAll(tail) /\ expanded' = WordsIn(more)
        /\ Meant' = Join(MeansIn(more), MeantByAll(tail))
    BY <1>2, <1>5, <1>6, <2>2, <2>5, <2>6 DEF Join
  <2>8. Expanding(more, tail)'
    BY <2>7 DEF Expanding
  <2>9. QED
    BY <2>4, <2>8 DEF tail
<1>9. CASE ~(e.flag \in Switches \cup Help \/ e.value = Missing)
  <2>1. WordsOf(e) = <<e.flag, e.value>>
    BY <1>9 DEF WordsOf
  <2>2. Head(words) = e.flag /\ Tail(words) = Join(<<e.value>>, WordsOfAll(tail))
    <3>1. words = Join(<<e.flag, e.value>>, WordsOfAll(tail))
      BY <1>2, <2>1 DEF Join
    <3>2. StartsWith(words, e.flag, e.value, WordsOfAll(tail))
      BY <1>2, <1>7, <3>1, FirstTwoWords
    <3>3. QED
      BY <3>2 DEF StartsWith
  <2>3. /\ words' = Join(<<e.value>>, WordsOfAll(tail))
        /\ expanded' = Append(WordsIn(groups), e.flag)
        /\ Meant' = Join(Append(MeansIn(groups), e), MeantByAll(tail))
    BY <1>2, <1>5, <1>6, <2>2 DEF Join
  <2>4. ExpandingValue(groups, e, tail)'
    BY <1>1, <1>9, <2>3 DEF ExpandingValue
  <2>5. QED
    BY <1>1, <2>4 DEF tail
<1>10. QED
  BY <1>8, <1>9

\* A file is read in the place of its setting, which stays behind it.
LEMMA ExpandFile ==
  ASSUME NEW groups \in Seq(Groups), NEW rest \in Seq(Settings), AllClear(rest),
         Expanding(groups, rest), rest # << >>, rest[1].flag = "--config",
         FileReadable(words[2]), line' = line,
         expanded' = expanded \o ReadConfigArgs(words[2]) \o SubSeq(words, 1, 2),
         words' = SubSeq(words, 3, Len(words))
  PROVE  \E more \in Seq(Groups) : Expanding(more, Tail(rest))'
<1> DEFINE e == rest[1]
           tail == Tail(rest)
           path == e.value
           groupOf == [words |-> <<e.flag, e.value>>, means |-> << >>]
<1>1. e \in Settings /\ IsClear(e) /\ tail \in Seq(Settings) /\ e.flag = "--config"
  BY ClearRest
<1>2. /\ words = WordsOf(e) \o WordsOfAll(tail) /\ WordsOfAll(tail) \in Seq(STRING)
      /\ expanded = WordsIn(groups) /\ expanded \in Seq(STRING)
  BY WordsOfAllParts, GroupsParts, <1>1 DEF Expanding
<1>3. Meant = MeansIn(groups) \o (MeantBy(e) \o MeantByAll(tail))
  BY MeantByAllParts DEF Expanding, Join
<1>4. MeansIn(groups) \in Seq(Settings) /\ MeantByAll(tail) \in Seq(Settings)
  BY GroupsParts, MeantByAllParts, <1>1
<1>5. Meant' = Meant
  BY SameMeaning
<1>6. e.flag \in STRING /\ path \in STRING
  BY <1>1 DEF Settings
<1>7. WordsOf(e) = <<e.flag, path>>
  BY <1>1, FlagFacts DEF WordsOf, IsClear
<1> HIDE DEF e, tail, path, groupOf
<1>8. /\ words[2] = path /\ SubSeq(words, 1, 2) = <<e.flag, path>>
      /\ SubSeq(words, 3, Len(words)) = WordsOfAll(tail)
  <2>1. words = Join(<<e.flag, path>>, WordsOfAll(tail))
    BY <1>2, <1>7 DEF Join
  <2>2. StartsWith(words, e.flag, path, WordsOfAll(tail))
    BY <1>2, <1>6, <2>1, FirstTwoWords
  <2>3. QED
    BY <2>2 DEF StartsWith
<1>9. FileReadable(path) /\ \A i \in DOMAIN Files[path] : FileClear(Files[path][i])
  BY <1>1, <1>8 DEF IsClear, path, FileReadable
<1>10. MeantBy(e) = MeantByFile(path)
  BY <1>1, <1>9 DEF MeantBy, path
<1>11. PICK some \in Seq(Groups) :
         /\ WordsIn(some) = Join(WordsIn(groups), ReadConfigArgs(path))
         /\ MeansIn(some) = Join(MeansIn(groups), MeantByFile(path))
         /\ ReadConfigArgs(path) \in Seq(STRING)
         /\ MeantByFile(path) \in Seq(Settings)
  BY <1>9, FileGroups
<1>12. groupOf \in Groups
  <2>1. groupOf \in [words : Seq(STRING), means : Seq(Settings)]
    BY <1>6 DEF path, groupOf
  <2>2. IsGroup(groupOf, e)
    BY <1>1 DEF IsGroup, groupOf
  <2>3. QED
    BY <1>1, <2>1, <2>2 DEF Groups
<1> DEFINE more == Append(some, groupOf)
<1>13. groupOf.words = <<e.flag, path>> /\ groupOf.means = << >>
  BY DEF path, groupOf
<1>14. more \in Seq(Groups)
  BY <1>12
<1>15. WordsIn(more) = WordsIn(some) \o <<e.flag, path>>
  BY <1>12, <1>13, GroupsParts
<1>16. MeansIn(more) = MeansIn(some)
  <2>1. MeansIn(more) = MeansIn(some) \o << >>
    BY <1>12, <1>13, GroupsParts
  <2>2. MeansIn(some) \in Seq(Settings)
    BY GroupsParts
  <2>3. QED
    BY <2>1, <2>2, ConcatEmptySeq
<1> HIDE DEF more
<1>17. expanded' = WordsIn(more)
  BY <1>2, <1>8, <1>11, <1>15 DEF Join
<1>18. Meant' = Join(MeansIn(more), MeantByAll(tail))
  <2> DEFINE a == MeansIn(groups)
             b == MeantByFile(path)
             c == MeantByAll(tail)
  <2>1. a \in Seq(Settings) /\ b \in Seq(Settings) /\ c \in Seq(Settings)
    BY <1>4, <1>11
  <2>2. MeansIn(more) = Join(a, b)
    BY <1>11, <1>16
  <2>3. Meant' = Join(a, Join(b, c))
    BY <1>3, <1>5, <1>10 DEF Join
  <2> HIDE DEF a, b, c
  <2>4. Join(Join(a, b), c) = Join(a, Join(b, c))
    BY <2>1, JoinsInAnyOrder
  <2>5. QED
    BY <2>2, <2>3, <2>4 DEF c
<1>19. words' = WordsOfAll(tail)
  BY <1>8
<1>20. Expanding(more, tail)'
  BY <1>17, <1>18, <1>19 DEF Expanding
<1>21. QED
  BY <1>14, <1>20 DEF tail

\* ExpandWord: a word that is a value is never taken for --config, as a flag comes after it.
LEMMA ExpandWordKeeps ==
  ASSUME CommandLineInv, ExpandWord
  PROVE  CommandLineInv'
<1>1. line \in Lines /\ phase = "Expand" /\ line' = line /\ ExpandInv /\ words # << >> /\ request' = request
  BY DEF CommandLineInv, ExpandWord
<1>2. Meant' = Meant /\ Clear' = Clear
  BY <1>1, SameMeaning
<1>3. CASE phase' = "Refused"
  BY <1>1, <1>3 DEF CommandLineInv, Accepted
<1>4. CASE phase' # "Refused"
  <2>1. phase' = "Expand"
    BY <1>1, <1>4 DEF ExpandWord
  <2>2. \/ /\ Head(words) # "--config"
           /\ expanded' = Append(expanded, Head(words))
           /\ words' = Tail(words)
        \/ /\ Head(words) = "--config" /\ Len(words) > 1 /\ FileReadable(words[2])
           /\ expanded' = expanded \o ReadConfigArgs(words[2]) \o SubSeq(words, 1, 2)
           /\ words' = SubSeq(words, 3, Len(words))
    BY <1>4 DEF ExpandWord
  <2>3. ASSUME Clear
        PROVE  (\E groups \in Seq(Groups), rest \in Seq(Settings) :
                  /\ AllClear(rest)
                  /\ Expanding(groups, rest) \/ \E e \in Settings : ExpandingValue(groups, e, rest))'
    <3>1. PICK groups \in Seq(Groups), rest \in Seq(Settings) :
            /\ AllClear(rest)
            /\ Expanding(groups, rest) \/ \E e \in Settings : ExpandingValue(groups, e, rest)
      BY <1>1, <2>3 DEF ExpandInv
    <3>2. CASE Expanding(groups, rest)
      <4>1. rest # << >>
        BY <1>1, <3>2, WordsOfAllParts DEF Expanding
      <4>2. /\ Tail(rest) \in Seq(Settings) /\ AllClear(Tail(rest))
            /\ rest[1] \in Settings /\ IsClear(rest[1])
        BY <3>1, <4>1, ClearRest
      <4>3. Head(words) = rest[1].flag
        <5>1. words[1] = rest[1].flag /\ words \in Seq(STRING)
          BY <3>2, <4>1, WordsStart, WordsOfAllParts DEF Expanding
        <5>2. QED
          BY <1>1, <5>1
      <4>4. CASE Head(words) # "--config"
        <5>1. expanded' = Append(expanded, Head(words)) /\ words' = Tail(words)
          BY <2>2, <4>4
        <5>2. rest[1].flag # "--config"
          BY <4>3, <4>4
        <5>3. \E more \in Seq(Groups) :
                \/ Expanding(more, Tail(rest))'
                \/ \E e \in Settings : ExpandingValue(more, e, Tail(rest))'
          BY <1>1, <3>1, <3>2, <4>1, <5>1, <5>2, ExpandSetting
        <5>4. QED
          BY <4>2, <5>3
      <4>5. CASE Head(words) = "--config"
        <5>1. /\ FileReadable(words[2])
              /\ expanded' = expanded \o ReadConfigArgs(words[2]) \o SubSeq(words, 1, 2)
              /\ words' = SubSeq(words, 3, Len(words))
          BY <2>2, <4>5
        <5>2. rest[1].flag = "--config"
          BY <4>3, <4>5
        <5>3. \E more \in Seq(Groups) : Expanding(more, Tail(rest))'
          BY <1>1, <3>1, <3>2, <4>1, <5>1, <5>2, ExpandFile
        <5>4. QED
          BY <4>2, <5>3
      <4>6. QED
        BY <4>4, <4>5
    <3>3. ASSUME NEW e \in Settings, ExpandingValue(groups, e, rest)
          PROVE  \E more \in Seq(Groups) : Expanding(more, rest)'
      <4>1. e.flag \in STRING /\ e.value \in STRING
        BY DEF Settings
      <4>2. WordsOfAll(rest) \in Seq(STRING)
        BY WordsOfAllParts
      <4>3. Head(words) = e.value /\ Tail(words) = WordsOfAll(rest)
        BY <3>3, <4>1, <4>2, FirstWord DEF ExpandingValue
      <4>4. Head(words) # "--config"
        <5> SUFFICES ASSUME Head(words) = "--config"
                     PROVE  FALSE
          OBVIOUS
        <5>1. Len(words) > 1 /\ words[2] \in DOMAIN Files
          BY <2>2 DEF FileReadable
        <5>2. words \in Seq(STRING) /\ words[2] = WordsOfAll(rest)[1] /\ WordsOfAll(rest) # << >>
          <6>1. words \in Seq(STRING)
            BY <3>3, <4>1, <4>2, FirstWord DEF ExpandingValue
          <6> DEFINE tail == WordsOfAll(rest)
          <6>2. Tail(words) = tail
            BY <4>3
          <6> HIDE DEF tail
          <6>3. Tail(words)[1] = words[2] /\ Tail(words) # << >>
            <7> DEFINE X == STRING
            <7>1. words \in Seq(X) /\ Len(words) \in Nat /\ Len(words) > 1
              BY <5>1, <6>1
            <7> HIDE DEF X
            <7>2. /\ Len(Tail(words)) = Len(words) - 1
                  /\ \A i \in 1..(Len(words) - 1) : Tail(words)[i] = words[i + 1]
              BY <7>1
            <7>3. 1 \in 1..(Len(words) - 1) /\ 1 + 1 = 2 /\ Len(words) - 1 # 0
              <8> DEFINE n == Len(words)
              <8>1. n \in Nat /\ n > 1
                BY <7>1
              <8> HIDE DEF n
              <8>2. 1 \in 1..(n - 1) /\ 1 + 1 = 2 /\ n - 1 # 0
                BY <8>1
              <8>3. QED
                BY <8>2 DEF n
            <7>4. Tail(words) # << >>
              BY <7>2, <7>3
            <7>5. QED
              BY <7>2, <7>3, <7>4
          <6>4. QED
            BY <6>1, <6>2, <6>3 DEF tail
        <5>3. rest # << >>
          BY <5>2, WordsOfAllParts
        <5>4. rest[1] \in Settings /\ IsClear(rest[1]) /\ Tail(rest) \in Seq(Settings)
          BY <3>1, <5>3, ClearRest
        <5>5. WordsOfAll(rest)[1] = rest[1].flag
          BY <5>3, WordsStart
        <5>6. QED
          BY <5>1, <5>2, <5>4, <5>5 DEF IsClear
      <4>5. expanded' = Append(expanded, e.value) /\ words' = WordsOfAll(rest)
        BY <2>2, <4>3, <4>4
      <4> DEFINE g == [words |-> <<e.flag, e.value>>, means |-> <<e>>]
      <4>6. g \in Groups /\ g.words = <<e.flag, e.value>> /\ g.means = <<e>>
        <5>1. g \in [words : Seq(STRING), means : Seq(Settings)]
          BY <4>1
        <5>2. IsGroup(g, e)
          BY <3>3 DEF IsGroup, ExpandingValue
        <5>3. QED
          BY <5>1, <5>2 DEF Groups
      <4> HIDE DEF g
      <4> DEFINE more == Append(groups, g)
      <4>7. more \in Seq(Groups)
        BY <4>6
      <4>8. WordsIn(more) = WordsIn(groups) \o <<e.flag, e.value>> /\ WordsIn(groups) \in Seq(STRING)
        BY <4>6, GroupsParts
      <4>9. MeansIn(more) = MeansIn(groups) \o <<e>> /\ MeansIn(groups) \in Seq(Settings)
        BY <4>6, GroupsParts
      <4> HIDE DEF more
      <4>10. expanded' = WordsIn(more)
        <5> DEFINE a == WordsIn(groups)
        <5>1. expanded = Append(a, e.flag) /\ WordsIn(more) = a \o <<e.flag, e.value>> /\ a \in Seq(STRING)
          BY <3>3, <4>8 DEF ExpandingValue
        <5> HIDE DEF a
        <5>2. Append(Append(a, e.flag), e.value) = a \o <<e.flag, e.value>>
          BY <4>1, <5>1
        <5>3. QED
          BY <4>5, <5>1, <5>2
      <4>11. Meant' = Join(MeansIn(more), MeantByAll(rest))
        <5>1. Append(MeansIn(groups), e) = MeansIn(groups) \o <<e>>
          BY <4>9, AppendIsConcat
        <5>2. QED
          BY <1>2, <3>3, <4>9, <5>1 DEF ExpandingValue
      <4>12. Expanding(more, rest)'
        BY <4>5, <4>10, <4>11 DEF Expanding
      <4>13. QED
        BY <4>7, <4>12
    <3>4. QED
      BY <3>1, <3>2, <3>3
  <2>4. ExpandInv'
    BY <1>1, <1>2, <2>3 DEF ExpandInv
  <2>5. QED
    BY <1>1, <2>1, <2>4 DEF CommandLineInv, Accepted
<1>5. QED
  BY <1>3, <1>4

\* ExpandDone: nothing is left half read, so that the words are those of the groups.
LEMMA ExpandDoneKeeps ==
  ASSUME CommandLineInv, ExpandDone
  PROVE  CommandLineInv'
<1>1. /\ line \in Lines /\ phase = "Expand" /\ ExpandInv /\ words = << >>
      /\ line' = line /\ phase' = "ParseNode" /\ words' = expanded /\ request' = request
  BY DEF CommandLineInv, ExpandDone
<1>2. Meant' = Meant /\ Clear' = Clear
  BY <1>1, SameMeaning
<1>3. request = DefaultRequest(NodeDefault)
  BY <1>1 DEF ExpandInv
<1>4. NodeRequestOk(request) /\ NodeMeans(request, << >>)
  BY <1>3, DefaultIsRequest
<1>5. ASSUME Clear
      PROVE  \E groups \in Seq(Groups) : Unread(groups, << >>)'
  <2>1. PICK groups \in Seq(Groups), rest \in Seq(Settings) :
          /\ AllClear(rest)
          /\ Expanding(groups, rest) \/ \E e \in Settings : ExpandingValue(groups, e, rest)
    BY <1>1, <1>5 DEF ExpandInv
  <2>2. MeansIn(groups) \in Seq(Settings) /\ WordsOfAll(rest) \in Seq(STRING)
    BY GroupsParts, WordsOfAllParts
  <2>3. Expanding(groups, rest)
    <3> SUFFICES ASSUME NEW e \in Settings, ExpandingValue(groups, e, rest)
                 PROVE  FALSE
      BY <2>1
    <3>1. e.value \in STRING
      BY DEF Settings
    <3>2. words # << >>
      BY <2>2, <3>1, FirstWord DEF ExpandingValue
    <3>3. QED
      BY <1>1, <3>2
  <2>4. rest = << >>
    BY <1>1, <2>3, WordsStart DEF Expanding
  <2>5. Meant = MeansIn(groups) \o << >>
    BY <2>3, <2>4, MeantByAllParts, EmptySeq DEF Expanding, Join
  <2>6. Meant' = Join(<< >>, MeansIn(groups))
    BY <1>2, <2>2, <2>5, ConcatEmptySeq DEF Join
  <2>7. Unread(groups, << >>)'
    BY <1>1, <1>4, <2>3, <2>6 DEF Unread, Expanding
  <2>8. QED
    BY <2>7
<1>6. << >> \in Seq(Settings)
  OBVIOUS
<1>7. ParseInv'
  BY <1>1, <1>2, <1>4, <1>5, <1>6 DEF ParseInv
<1>8. QED
  BY <1>1, <1>7 DEF CommandLineInv, Accepted

\* The first setting of what is left becomes the last of what is done.
LEMMA MoveSetting ==
  ASSUME NEW done \in Seq(Settings), NEW e \in Settings, NEW rest \in Seq(Settings)
  PROVE  Join(done, Join(<<e>>, rest)) = Join(Append(done, e), rest)
<1> DEFINE one == <<e>>
<1>1. one \in Seq(Settings) /\ Append(done, e) = Join(done, one)
  BY AppendIsConcat DEF Join
<1> HIDE DEF one
<1>2. Join(Join(done, one), rest) = Join(done, Join(one, rest))
  BY <1>1, JoinsInAnyOrder
<1>3. QED
  BY <1>1, <1>2 DEF one

\* The parser at a group: what its words are and where it leads.
LEMMA ParseGroup ==
  ASSUME NEW groups \in Seq(Groups), NEW done \in Seq(Settings), Unread(groups, done),
         NodeRequestOk(request), ParseNode, phase' = "ParseNode"
  PROVE  \/ Unreadable'
         \/ \E more \in Seq(Groups), settings \in Seq(Settings) : Unread(more, settings)'
<1>1. line' = line /\ words # << >> /\ Meant' = Meant /\ phase = "ParseNode"
  BY SameMeaning DEF ParseNode, TakeValue, TakeHelp, Ends
<1>2. groups # << >>
  BY <1>1, EmptyGroups DEF Unread
<1> DEFINE g == groups[1]
           tail == Tail(groups)
           rest == WordsIn(tail)
           means == MeansIn(tail)
<1>3. /\ g \in Groups /\ tail \in Seq(Groups)
      /\ words = Join(g.words, rest) /\ Meant = Join(done, Join(g.means, means))
  BY <1>2, GroupsParts DEF Unread, Join
<1>4. rest \in Seq(STRING) /\ means \in Seq(Settings) /\ WordsIn(tail) = rest /\ MeansIn(tail) = means
  BY <1>3, GroupsParts
<1> HIDE DEF g, tail, rest, means
<1>5. PICK e \in Settings : IsGroup(g, e)
  BY <1>3 DEF Groups
<1>6. e.flag \in STRING /\ e.value \in STRING
  BY DEF Settings
<1>7. NodeMeans(request, done)
  BY DEF Unread
<1>8. Join(done, Join(<<e>>, means)) = Join(Append(done, e), means) /\ Append(done, e) \in Seq(Settings)
  BY <1>4, MoveSetting
<1>9. CASE e.flag \in Switches \cup Help /\ g = [words |-> <<e.flag>>, means |-> <<e>>]
  <2>1. words = Join(<<e.flag>>, rest) /\ Meant = Join(Append(done, e), means)
    BY <1>3, <1>8, <1>9
  <2>2. Head(words) = e.flag /\ Tail(words) = rest
    BY <1>4, <1>6, <2>1, FirstWord
  <2>3. e.flag \in Switches /\ words' = Tail(words) /\ request' = WithSwitch(request, e.flag)
    BY <1>9, <2>2, FlagFacts DEF ParseNode, TakeValue, TakeHelp, Ends, Help
  <2>4. NodeMeans(request', Append(done, e))
    BY <1>7, <2>3, SwitchMeans
  <2>5. Unread(tail, Append(done, e))'
    BY <1>1, <1>4, <2>1, <2>2, <2>3, <2>4 DEF Unread
  <2>6. QED
    BY <1>3, <1>8, <2>5
<1>10. CASE /\ e.flag \notin Switches \cup Help \cup {"--config"}
            /\ g = [words |-> <<e.flag, e.value>>, means |-> <<e>>]
  <2>1. words = Join(<<e.flag, e.value>>, rest) /\ Meant = Join(Append(done, e), means)
    BY <1>3, <1>8, <1>10
  <2>2. StartsWith(words, e.flag, e.value, rest)
    BY <1>4, <1>6, <2>1, FirstTwoWords
  <2>3. /\ Head(words) = e.flag /\ Len(words) > 1 /\ words[2] = e.value
        /\ SubSeq(words, 3, Len(words)) = rest
    BY <2>2 DEF StartsWith
  <2>4. /\ e.flag \in NodeFlags /\ words' = rest
        /\ request' = WithValue(request, e.flag, e.value)
    BY <1>10, <2>3 DEF ParseNode, TakeValue, TakeHelp, Ends
  <2>5. NodeMeans(request', Append(done, e))
    <3>1. NodeMeans(WithValue(request, e.flag, e.value), Append(done, e))
      BY <1>7, <2>4, ValueMeans
    <3>2. QED
      BY <2>4, <3>1
  <2>6. Unread(tail, Append(done, e))'
    BY <1>1, <1>4, <2>1, <2>4, <2>5 DEF Unread
  <2>7. QED
    BY <1>3, <1>8, <2>6
<1>11. CASE /\ e.flag \in {"--no-sync"} \cup Help /\ FileClear(e)
            /\ g = [words |-> <<e.flag, e.value>>, means |-> <<e>>]
  <2>1. words = Join(<<e.flag, e.value>>, rest)
    BY <1>3, <1>11
  <2>2. StartsWith(words, e.flag, e.value, rest)
    BY <1>4, <1>6, <2>1, FirstTwoWords
  <2>3. Head(words) = e.flag /\ Tail(words) = Join(<<e.value>>, rest)
    BY <2>2 DEF StartsWith
  <2>4. e.flag \in Switches /\ words' = Tail(words)
    BY <1>11, <2>3, FlagFacts DEF ParseNode, TakeValue, TakeHelp, Ends, Switches
  <2>5. words' # << >> /\ Head(words') = e.value
    <3> DEFINE list == Join(<<e.value>>, rest)
    <3>1. list # << >> /\ Head(list) = e.value
      BY <1>4, <1>6, FirstWord
    <3>2. words' = list
      BY <2>3, <2>4
    <3> HIDE DEF list
    <3>3. QED
      BY <3>1, <3>2
  <2>6. e.flag = "--no-sync"
    BY <1>11, <2>4, FlagFacts
  <2>7. e.value \notin NodeFlags \cup Switches \cup {"--config"}
    BY <1>11, <2>6 DEF FileClear
  <2>8. Unreadable'
    BY <2>5, <2>7 DEF Unreadable
  <2>9. QED
    BY <2>8
<1>12. CASE e.flag = "--config" /\ g = [words |-> <<e.flag, e.value>>, means |-> << >>]
  <2>1. words = Join(<<e.flag, e.value>>, rest) /\ Meant = Join(done, Join(<< >>, means))
    BY <1>3, <1>12
  <2>2. StartsWith(words, e.flag, e.value, rest)
    BY <1>4, <1>6, <2>1, FirstTwoWords
  <2>3. Head(words) = "--config" /\ SubSeq(words, 3, Len(words)) = rest
    BY <1>12, <2>2 DEF StartsWith
  <2>4. words' = rest /\ request' = request
    BY <2>3, FlagFacts DEF ParseNode, TakeValue, TakeHelp, Ends
  <2>5. Meant = Join(done, means)
    BY <1>4, <2>1, ConcatEmptySeq DEF Join
  <2>6. Unread(tail, done)'
    BY <1>1, <1>4, <1>7, <2>4, <2>5 DEF Unread
  <2>7. QED
    BY <1>3, <2>6
<1>13. QED
  BY <1>5, <1>9, <1>10, <1>11, <1>12 DEF IsGroup

\* ParseNode: a group at a time, and none after a word that is nothing.
LEMMA ParseNodeKeeps ==
  ASSUME CommandLineInv, ParseNode
  PROVE  CommandLineInv'
<1>1. line \in Lines /\ phase = "ParseNode" /\ line' = line /\ ParseInv /\ words # << >>
  BY DEF CommandLineInv, ParseNode, TakeValue, TakeHelp, Ends
<1>2. Meant' = Meant /\ Clear' = Clear
  BY <1>1, SameMeaning
<1>3. NodeRequestOk(request)
  BY <1>1 DEF ParseInv
<1>4. CASE phase' \in {"Helped", "Refused"}
  BY <1>1, <1>4 DEF CommandLineInv, Accepted
<1>5. CASE phase' \notin {"Helped", "Refused"}
  <2>1. phase' = "ParseNode"
    BY <1>1, <1>5 DEF ParseNode, TakeValue, TakeHelp, Ends
  <2>2. \/ /\ Head(words) \in NodeFlags /\ Parses(Head(words), words[2])
           /\ request' = WithValue(request, Head(words), words[2])
        \/ Head(words) \in Switches /\ request' = WithSwitch(request, Head(words))
        \/ request' = request /\ Head(words) = "--config"
    BY <1>5 DEF ParseNode, TakeValue, TakeHelp, Ends
  <2>3. NodeRequestOk(request')
    <3>1. CASE /\ Head(words) \in NodeFlags /\ Parses(Head(words), words[2])
               /\ request' = WithValue(request, Head(words), words[2])
      BY <1>3, <3>1, ValueKeepsRequest
    <3>2. CASE Head(words) \in Switches /\ request' = WithSwitch(request, Head(words))
      BY <1>3, <3>2, SwitchMeans
    <3>3. CASE request' = request
      BY <1>3, <3>3
    <3>4. QED
      BY <2>2, <3>1, <3>2, <3>3
  <2>4. ASSUME Clear
        PROVE  \/ Unreadable'
               \/ \E more \in Seq(Groups), settings \in Seq(Settings) : Unread(more, settings)'
    <3>1. ~Unreadable
      BY <2>2 DEF Unreadable
    <3>2. PICK groups \in Seq(Groups), done \in Seq(Settings) : Unread(groups, done)
      BY <1>1, <2>4, <3>1 DEF ParseInv
    <3>3. QED
      BY <1>3, <2>1, <3>2, ParseGroup
  <2>5. ParseInv'
    BY <1>2, <2>3, <2>4 DEF ParseInv
  <2>6. QED
    BY <1>1, <2>1, <2>5 DEF CommandLineInv, Accepted
<1>6. QED
  BY <1>4, <1>5

\* NodeParsed: when no word is left all that was meant is in the request.
LEMMA NodeParsedKeeps ==
  ASSUME CommandLineInv, NodeParsed
  PROVE  CommandLineInv'
<1>1. line \in Lines /\ phase = "ParseNode" /\ line' = line /\ ParseInv /\ words = << >>
  BY DEF CommandLineInv, NodeParsed, Ends
<1>2. Meant' = Meant /\ Clear' = Clear
  BY <1>1, SameMeaning
<1>3. NodeRequestOk(request)
  BY <1>1 DEF ParseInv
<1>4. CASE phase' = "Refused"
  BY <1>1, <1>4 DEF CommandLineInv, Accepted
<1>5. CASE phase' # "Refused"
  <2>1. phase' = "StartNode" /\ request' = request
    BY <1>5 DEF NodeParsed, Ends
  <2>2. ASSUME Clear
        PROVE  NodeMeans(request, Meant)
    <3>1. PICK groups \in Seq(Groups), done \in Seq(Settings) : Unread(groups, done)
      BY <1>1, <2>2 DEF ParseInv, Unreadable
    <3>2. groups = << >>
      <4> SUFFICES ASSUME groups # << >>
                   PROVE  FALSE
        OBVIOUS
      <4> DEFINE first == groups[1].words
                 others == WordsIn(Tail(groups))
      <4>1. /\ groups[1] \in Groups /\ Tail(groups) \in Seq(Groups)
            /\ words = first \o others
        BY <3>1, GroupsParts DEF Unread
      <4>2. others \in Seq(STRING)
        BY <4>1, GroupsParts
      <4>3. first \in Seq(STRING) /\ first # << >>
        <5> DEFINE g == groups[1]
        <5>1. g \in [words : Seq(STRING), means : Seq(Settings)]
          BY <4>1 DEF Groups
        <5>2. PICK e \in Settings : IsGroup(g, e)
          BY <4>1 DEF Groups
        <5> HIDE DEF g
        <5>3. g.words = <<e.flag>> \/ g.words = <<e.flag, e.value>>
          BY <5>2 DEF IsGroup
        <5>4. g.words # << >>
          <6>1. \A a, b : <<a>> # << >> /\ <<a, b>> # << >>
            OBVIOUS
          <6>2. QED
            BY <5>3, <6>1
        <5>5. QED
          BY <5>1, <5>4 DEF g
      <4> HIDE DEF first, others
      <4>4. words # << >>
        BY <4>1, <4>2, <4>3
      <4>5. QED
        BY <1>1, <4>4
    <3>3. Meant = done
      BY <3>1, <3>2, EmptyGroups, ConcatEmptySeq DEF Unread, Join
    <3>4. QED
      BY <3>1, <3>3 DEF Unread
  <2>4. AcceptedInv'
    BY <1>2, <1>3, <2>1, <2>2 DEF AcceptedInv
  <2>5. QED
    BY <1>1, <2>1, <2>4 DEF CommandLineInv, Accepted
<1>6. QED
  BY <1>4, <1>5

\* StartNode and StopNode: the request stays what it was accepted as.
LEMMA RunKeeps ==
  ASSUME CommandLineInv, StartNode \/ StopNode
  PROVE  CommandLineInv'
<1>1. /\ line \in Lines /\ Accepted /\ AcceptedInv
      /\ line' = line /\ request' = request
  BY DEF CommandLineInv, StartNode, StopNode, Ends, Accepted
<1>2. Meant' = Meant /\ Clear' = Clear
  BY <1>1, SameMeaning
<1>3. AcceptedInv'
  BY <1>1, <1>2 DEF AcceptedInv
<1>4. \/ phase' = "Refused"
      \/ phase' \in {"Running", "StartFailed", "Stopped"} /\ NodeOk(request)
  BY DEF CommandLineInv, StartNode, StopNode, Ends
<1>5. NodeOk(request) => NodeOk(request')
  BY <1>1
<1>6. QED
  BY <1>1, <1>3, <1>4, <1>5 DEF CommandLineInv, Accepted

\* ParseSimulation: a setting at a time.
LEMMA ParseSimulationKeeps ==
  ASSUME CommandLineInv, ParseSimulation
  PROVE  CommandLineInv'
<1>1. line \in Lines /\ phase = "ParseSimulation" /\ line' = line /\ SimulationInv /\ words # << >>
  BY DEF CommandLineInv, ParseSimulation, TakeValue, TakeHelp, Ends
<1>2. Meant' = Meant /\ Clear' = Clear
  BY <1>1, SameMeaning
<1>3. CASE phase' \in {"Helped", "Refused"}
  BY <1>1, <1>3 DEF CommandLineInv, Accepted
<1>4. CASE phase' \notin {"Helped", "Refused"}
  <2>1. /\ phase' = "ParseSimulation"
        /\ Head(words) \in SimulationFlags /\ Parses(Head(words), words[2])
        /\ request' = WithValue(request, Head(words), words[2])
        /\ words' = SubSeq(words, 3, Len(words))
    BY <1>1, <1>4 DEF ParseSimulation, TakeValue, TakeHelp, Ends
  <2>2. ASSUME Clear
        PROVE  \E rest \in Seq(Settings), done \in Seq(Settings) :
                 AllClear(rest) /\ UnreadSettings(rest, done)'
    <3>1. PICK rest \in Seq(Settings), done \in Seq(Settings) :
            AllClear(rest) /\ UnreadSettings(rest, done)
      BY <1>1, <2>2 DEF SimulationInv
    <3>2. rest # << >>
      BY <1>1, <3>1, WordsOfAllParts DEF UnreadSettings
    <3> DEFINE e == rest[1]
               tail == Tail(rest)
               others == WordsOfAll(tail)
               means == MeantByAll(tail)
    <3>3. e \in Settings /\ IsClear(e) /\ tail \in Seq(Settings) /\ AllClear(tail)
      BY <3>1, <3>2, ClearRest
    <3>4. /\ words = Join(WordsOf(e), others) /\ others \in Seq(STRING)
          /\ Meant = Join(done, Join(MeantBy(e), means)) /\ means \in Seq(Settings)
      <4>1. words = WordsOf(e) \o others
        BY <3>1, <3>2, WordsOfAllParts DEF UnreadSettings
      <4>2. MeantByAll(rest) = MeantBy(e) \o means
        BY <3>2, MeantByAllParts
      <4>3. others \in Seq(STRING)
        BY <3>3, WordsOfAllParts
      <4>4. means \in Seq(Settings)
        BY <3>3, MeantByAllParts
      <4>5. Meant = Join(done, MeantByAll(rest))
        BY <3>1 DEF UnreadSettings
      <4>6. QED
        BY <4>1, <4>2, <4>3, <4>4, <4>5 DEF Join
    <3>5. WordsOfAll(tail) = others /\ MeantByAll(tail) = means
      OBVIOUS
    <3> HIDE DEF e, tail, others, means
    <3>6. e.flag \in STRING /\ e.value \in STRING
      BY <3>3 DEF Settings
    <3>7. Head(words) = e.flag
      <4>1. words[1] = e.flag /\ words \in Seq(STRING)
        BY <3>1, <3>2, WordsStart, WordsOfAllParts DEF UnreadSettings, e
      <4>2. QED
        BY <1>1, <4>1
    <3>8. e.flag \notin Switches \cup Help \cup {"--config"}
      BY <2>1, <3>7 DEF SimulationFlags, Switches, Help
    <3>9. WordsOf(e) = <<e.flag, e.value>> /\ MeantBy(e) = <<e>>
      BY <3>3, <3>8 DEF IsClear, WordsOf, MeantBy
    <3>10. StartsWith(words, e.flag, e.value, others)
      BY <3>4, <3>6, <3>9, FirstTwoWords
    <3>11. words[2] = e.value /\ words' = others
      BY <2>1, <3>10 DEF StartsWith
    <3>12. Meant = Join(Append(done, e), means) /\ Append(done, e) \in Seq(Settings)
      BY <3>3, <3>4, <3>9, MoveSetting
    <3>13. SimulationMeans(request', Append(done, e))
      <4>1. SimulationMeans(request, done)
        BY <3>1 DEF UnreadSettings
      <4>2. e.flag \in SimulationFlags /\ Parses(e.flag, e.value)
        BY <2>1, <3>7, <3>11
      <4>3. SimulationMeans(WithValue(request, e.flag, e.value), Append(done, e))
        BY <3>3, <4>1, <4>2, SimulationValueMeans
      <4>4. QED
        BY <2>1, <3>7, <3>11, <4>3
    <3>14. UnreadSettings(tail, Append(done, e))'
      BY <1>2, <3>5, <3>11, <3>12, <3>13 DEF UnreadSettings
    <3>15. QED
      BY <3>3, <3>12, <3>14
  <2>3. SimulationInv'
    BY <1>2, <2>2 DEF SimulationInv
  <2>4. QED
    BY <1>1, <2>1, <2>3 DEF CommandLineInv, Accepted
<1>5. QED
  BY <1>3, <1>4

\* Simulate: when no word is left all that was meant is in the request.
LEMMA SimulateKeeps ==
  ASSUME CommandLineInv, Simulate
  PROVE  CommandLineInv'
<1>1. /\ line \in Lines /\ SimulationInv /\ words = << >> /\ line' = line /\ request' = request
      /\ phase' = IF SimulationOk(request) THEN "Simulated" ELSE "Refused"
  BY DEF CommandLineInv, Simulate, Ends
<1>2. Meant' = Meant /\ Clear' = Clear
  BY <1>1, SameMeaning
<1>3. ASSUME Clear
      PROVE  SimulationMeans(request, Meant)
  <2>1. PICK rest \in Seq(Settings), done \in Seq(Settings) :
          AllClear(rest) /\ UnreadSettings(rest, done)
    BY <1>1, <1>3 DEF SimulationInv
  <2>2. rest = << >>
    BY <1>1, <2>1, WordsStart DEF UnreadSettings
  <2>3. MeantByAll(rest) = << >>
    BY <2>2, MeantByAllParts, EmptySeq
  <2>4. Meant = done
    BY <2>1, <2>3, ConcatEmptySeq DEF UnreadSettings, Join
  <2>5. QED
    BY <2>1, <2>4 DEF UnreadSettings
<1>4. SimulationMeans(request, Meant) => SimulationMeans(request', Meant)
  BY <1>1
<1>5. SimulationOk(request) => SimulationOk(request')
  BY <1>1
<1>6. QED
  BY <1>1, <1>2, <1>3, <1>4, <1>5 DEF CommandLineInv, Accepted

\* Every step keeps the invariant.
LEMMA CommandLineStep ==
  ASSUME CommandLineInv, [CommandLineNext]_program
  PROVE  CommandLineInv'
<1>1. CASE UNCHANGED program
  <2>1. /\ line' = line /\ phase' = phase /\ words' = words /\ expanded' = expanded
        /\ request' = request
    BY <1>1 DEF program
  <2>2. Meant' = Meant /\ Clear' = Clear
    BY <2>1, SameMeaning
  <2>3. ExpandInv => ExpandInv'
    BY <2>1, <2>2 DEF ExpandInv, Expanding, ExpandingValue
  <2>4. ParseInv => ParseInv'
    BY <2>1, <2>2 DEF ParseInv, Unread, Unreadable
  <2>5. AcceptedInv => AcceptedInv'
    BY <2>1, <2>2 DEF AcceptedInv
  <2>6. SimulationInv => SimulationInv'
    BY <2>1, <2>2 DEF SimulationInv, UnreadSettings
  <2>7. QED
    BY <2>1, <2>2, <2>3, <2>4, <2>5, <2>6 DEF CommandLineInv, Accepted
<1>2. CASE Dispatch
  BY <1>2, DispatchKeeps
<1>3. CASE ExpandWord
  BY <1>3, ExpandWordKeeps
<1>4. CASE ExpandDone
  BY <1>4, ExpandDoneKeeps
<1>5. CASE ParseNode
  BY <1>5, ParseNodeKeeps
<1>6. CASE NodeParsed
  BY <1>6, NodeParsedKeeps
<1>7. CASE StartNode \/ StopNode
  BY <1>7, RunKeeps
<1>8. CASE ParseSimulation
  BY <1>8, ParseSimulationKeeps
<1>9. CASE Simulate
  BY <1>9, SimulateKeeps
<1>10. QED
  BY <1>1, <1>2, <1>3, <1>4, <1>5, <1>6, <1>7, <1>8, <1>9 DEF CommandLineNext

-----------------------------------------------------------------------------
(* Theorems                                                                  *)

\* The invariant holds in every state of the program.
THEOREM CommandLineInvariance == CommandLineSpec => []CommandLineInv
<1>1. CommandLineInit => CommandLineInv
  BY CommandLineStarts
<1>2. CommandLineInv /\ [CommandLineNext]_program => CommandLineInv'
  BY CommandLineStep
<1>3. QED
  BY <1>1, <1>2, PTL DEF CommandLineSpec

\* An accepted node command has for every flag what the line and its files give last, its peers in
\* order and its switches, for every line that is clear.
THEOREM SettingsAlwaysAsMeant == CommandLineSpec => []SettingsAsMeant
<1>1. ASSUME CommandLineInv
      PROVE  SettingsAsMeant
  <2> SUFFICES ASSUME Clear, Accepted
               PROVE  /\ \A flag \in NodeFlags \ {"--peer"} :
                           request.config[flag] = MeantValue(flag, NodeDefault[flag])
                      /\ request.peers = PeersIn(Meant)
                      /\ request.miner = IF Given("--mine") = {} THEN "none"
                                         ELSE MeantValue("--mine-interval-ms", "5000")
                      /\ request.sync <=> Given("--no-sync") = {}
                      /\ request.mine_once <=> Given("--mine-once") # {}
    BY DEF SettingsAsMeant
  <2>1. NodeMeans(request, Meant)
    BY <1>1 DEF CommandLineInv, AcceptedInv
  <2>2. request.config["--mine-interval-ms"] = MeantValue("--mine-interval-ms", "5000")
    BY <2>1, FlagFacts, DefaultsOf DEF NodeMeans, MeantValue
  <2>3. \A flag \in NodeFlags \ {"--peer"} :
          request.config[flag] = MeantValue(flag, NodeDefault[flag])
    BY <2>1 DEF NodeMeans, MeantValue, Flags
  <2>4. QED
    BY <2>1, <2>2, <2>3 DEF NodeMeans, Given
<1>2. QED
  BY <1>1, CommandLineInvariance, PTL

\* A node or a simulation runs only with settings that fit each other, as docs/node-v0.1.md promises,
\* and these are the settings that were meant.
THEOREM OnlySafeSettingsAlways == CommandLineSpec => []OnlySafeSettingsRun
<1>1. ASSUME CommandLineInv
      PROVE  OnlySafeSettingsRun
  <2>1. ASSUME Clear, phase \in {"StartFailed", "Running", "Stopped"}
        PROVE  /\ MeantNumber("--samples", NodeDefault) \in 1..MeantNumber("--steps", NodeDefault)
               /\ MeantNumber("--difficulty", NodeDefault) \in 0..256
               /\ MeantNumber("--max-message-bytes", NodeDefault) >= 128
               /\ \A flag \in Timeouts
                            \cup {"--max-peers", "--max-inbound-connections", "--protocol-version"} :
                    MeantNumber(flag, NodeDefault) > 0
               /\ MeantValue("--listen", "127.0.0.1:9333") \in Unspecified =>
                    MeantValue("--advertise", "none") \in Dialable
    <3> DEFINE config == request.config
    <3>1. NodeMeans(request, Meant) /\ NodeRequestOk(request) /\ NodeOk(request)
      BY <1>1, <2>1 DEF CommandLineInv, AcceptedInv, Accepted
    <3>2. ASSUME NEW flag \in Numbers
          PROVE  /\ MeantNumber(flag, NodeDefault) = Numeral[config[flag]]
                 /\ Numeral[config[flag]] \in Nat
      <4>1. config[flag] = MeantValue(flag, NodeDefault[flag])
        BY <3>1, FlagFacts DEF NodeMeans, MeantValue
      <4>2. config[flag] \in DOMAIN Numeral
        BY <3>1 DEF NodeRequestOk
      <4>3. QED
        BY <4>1, <4>2, CommandLineAssumption DEF MeantNumber
    <3>3. /\ config["--listen"] = MeantValue("--listen", "127.0.0.1:9333")
          /\ config["--advertise"] = MeantValue("--advertise", "none")
      <4>1. "--listen" \in Flags /\ "--advertise" \in Flags
        BY DEF Flags, NodeFlags, AddressFlags
      <4>2. QED
        BY <3>1, <4>1, DefaultsOf DEF NodeMeans, MeantValue
    <3>5. {"--steps", "--samples", "--difficulty", "--max-message-bytes", "--max-peers",
           "--max-inbound-connections", "--protocol-version"}
             \cup Timeouts \subseteq Numbers
      BY DEF Numbers, NodeFlags, Limits, ChainFlags, Timeouts, SyncLimits, Texts, AddressFlags
    <3> HIDE DEF config
    <3>6. /\ Numeral[config["--samples"]] # 0
          /\ Numeral[config["--samples"]] <= Numeral[config["--steps"]]
          /\ Numeral[config["--difficulty"]] <= 256
          /\ Numeral[config["--protocol-version"]] # 0
          /\ IF config["--advertise"] = "none" THEN config["--listen"] \notin Unspecified
             ELSE config["--advertise"] \in Dialable
          /\ Numeral[config["--max-message-bytes"]] >= 128
          /\ \A flag \in {"--max-peers", "--max-inbound-connections"} \cup Timeouts :
               Numeral[config[flag]] # 0
      BY <3>1 DEF NodeOk, ChainOk, Zero, config
    <3>7. MeantNumber("--samples", NodeDefault) \in 1..MeantNumber("--steps", NodeDefault)
      BY <3>2, <3>5, <3>6
    <3>8. /\ MeantNumber("--difficulty", NodeDefault) \in 0..256
          /\ MeantNumber("--max-message-bytes", NodeDefault) >= 128
      BY <3>2, <3>5, <3>6
    <3>9. ASSUME NEW flag \in Timeouts \cup {"--max-peers", "--max-inbound-connections", "--protocol-version"}
          PROVE  MeantNumber(flag, NodeDefault) > 0
      <4>1. flag \in Numbers /\ Numeral[config[flag]] # 0
        BY <3>5, <3>6
      <4>2. QED
        BY <3>2, <4>1
    <3>11. MeantValue("--listen", "127.0.0.1:9333") \in Unspecified =>
             MeantValue("--advertise", "none") \in Dialable
      BY <3>3, <3>6
    <3>12. QED
      BY <3>7, <3>8, <3>9, <3>11
  <2>2. ASSUME Clear, phase = "Simulated"
        PROVE  /\ MeantNumber("--samples", SimulationDefault)
                    \in 1..MeantNumber("--steps", SimulationDefault)
               /\ Given("--tamper-step") # {} =>
                    MeantNumber("--tamper-step", SimulationDefault)
                      < MeantNumber("--steps", SimulationDefault)
    <3> DEFINE config == request.config
    <3>1. SimulationMeans(request, Meant) /\ SimulationOk(request)
      BY <1>1, <2>2 DEF CommandLineInv
    <3>2. {"--steps", "--samples", "--tamper-step"} \subseteq SimulationFlags
      BY DEF SimulationFlags
    <3>3. \A flag \in SimulationFlags : config[flag] = MeantValue(flag, SimulationDefault[flag])
      BY <3>1 DEF SimulationMeans, MeantValue
    <3>4. \A flag \in SimulationFlags :
            \/ config[flag] \in DOMAIN Numeral
            \/ flag = "--tamper-step" /\ Given(flag) = {} /\ config[flag] = "none"
      BY <3>1 DEF SimulationMeans, Given
    <3>5. /\ ~Zero(config, "--samples")
          /\ Numeral[config["--samples"]] <= Numeral[config["--steps"]]
          /\ config["--tamper-step"] # "none" =>
               Numeral[config["--tamper-step"]] < Numeral[config["--steps"]]
      BY <3>1 DEF SimulationOk
    <3> HIDE DEF config
    <3>6. /\ MeantNumber("--samples", SimulationDefault) = Numeral[config["--samples"]]
          /\ MeantNumber("--steps", SimulationDefault) = Numeral[config["--steps"]]
          /\ MeantNumber("--tamper-step", SimulationDefault) = Numeral[config["--tamper-step"]]
      BY <3>2, <3>3 DEF MeantNumber
    <3>7. Numeral[config["--samples"]] \in Nat /\ Numeral[config["--steps"]] \in Nat
      BY <3>2, <3>4, CommandLineAssumption
    <3>8. Given("--tamper-step") # {} => config["--tamper-step"] # "none"
      BY <3>2, <3>4, CommandLineAssumption
    <3>9. QED
      BY <3>5, <3>6, <3>7, <3>8 DEF Zero
  <2>3. QED
    BY <2>1, <2>2 DEF OnlySafeSettingsRun
<1>2. QED
  BY <1>1, CommandLineInvariance, PTL

-----------------------------------------------------------------------------
(* The life of a node: its threads and its lock                              *)

Looping == {"Accepting", "Draining", "Mining", "Syncing", "JoiningAll"}
Handling(n) == {h \in Handlers : handler[n][h] = "Handling"}

\* The references to NodeState are those of the threads that are at work.
HoldersInv ==
  \A n \in Nodes :
    /\ "main" \in refs[n] <=> main[n] \notin {"Off", "Detached"}
    /\ "loop" \in refs[n] <=> loop[n] \in Looping
    /\ \A h \in Handlers : h \in refs[n] <=> handler[n][h] \in {"Handling", "Released"}

\* Handlers live and commands wait only while the loop runs, and a node that is off
\* has no loop.
PhaseOk(n) ==
  /\ main[n] \in {"Off", "Loading"} => loop[n] = "None"
  /\ main[n] \in {"Announcing", "Serving", "Stopping"} => loop[n] # "None"
  /\ main[n] = "Detached" => loop[n] \in Looping
  /\ loop[n] \notin Looping => handler[n] = NoHandlers /\ commands[n] = <<>>
  /\ main[n] = "Off" \/ loop[n] = "Ended" => pending[n] = 0

PhasesInv == \A n \in Nodes : PhaseOk(n)

PermitsInv == \A n \in Nodes : active[n] = Cardinality(Handling(n))

\* The lock file is there for somebody: a node that is alive, or one that was killed.
LockInv ==
  /\ OneWriter
  /\ stale => node_lock /\ \A n \in Nodes : ~Alive(n)
  /\ node_lock => stale \/ \E n \in Nodes : Alive(n)

\* The two halves of the type invariant.
ThreadsType ==
  /\ node_lock \in BOOLEAN /\ stale \in BOOLEAN
  /\ main \in [Nodes -> {"Off", "Loading", "Announcing", "Serving", "Stopping", "Detached"}]
  /\ loop \in [Nodes -> {"None", "Accepting", "Draining", "Mining", "Syncing", "JoiningAll", "Ended"}]
  /\ handler \in [Nodes -> [Handlers -> {"None", "Handling", "Released", "Finished"}]]
  /\ active \in [Nodes -> 0..MaxInboundConnections]
  /\ refs \in [Nodes -> SUBSET ({"main", "loop"} \cup Handlers)]
  /\ pending \in [Nodes -> 0..Backlog]
  /\ crashes \in 0..MaxCrashes

ChannelType ==
  /\ commands \in [Nodes -> Seq(NodeCommands)]
  /\ stop \in [Nodes -> BOOLEAN] /\ miner \in [Nodes -> BOOLEAN]

LifecycleInv == TypeOK /\ HoldersInv /\ PhasesInv /\ PermitsInv /\ LockInv

-----------------------------------------------------------------------------
\* A handler thread is not one of the two other threads.
LEMMA NotHandlers == "main" \notin Handlers /\ "loop" \notin Handlers
BY LifecycleAssumption

LEMMA TypeParts == TypeOK <=> ThreadsType /\ ChannelType
BY DEF TypeOK, ThreadsType, ChannelType

\* The handlers that are handling are finitely many.
LEMMA HandlingIsFinite ==
  ASSUME NEW n \in Nodes
  PROVE  IsFiniteSet(Handling(n)) /\ Cardinality(Handling(n)) \in Nat
<1>1. Handling(n) \in SUBSET Handlers
  BY DEF Handling
<1>2. IsFiniteSet(Handling(n))
  BY <1>1, FS_Subset, LifecycleAssumption
<1>3. QED
  BY <1>2, FS_CardinalityType

\* While a handler is at work, its permit is counted.
LEMMA PermitOut ==
  ASSUME ThreadsType, PermitsInv, NEW n \in Nodes, NEW h \in Handlers, handler[n][h] = "Handling"
  PROVE  active[n] > 0
<1>1. Handling(n) # {}
  BY DEF Handling
<1>2. Cardinality(Handling(n)) # 0
  BY <1>1, HandlingIsFinite, FS_EmptySet
<1>3. QED
  BY <1>2, HandlingIsFinite DEF PermitsInv

\* Whoever lets go, the lock stays while another thread of its node holds on.
LEMMA DropKeepsLock ==
  ASSUME ThreadsType, LockInv, NEW n \in Nodes, NEW holder \in refs[n], Dropped(n, holder), stale' = stale
  PROVE  LockInv'
BY DEF ThreadsType, LockInv, OneWriter, Alive, Dropped

\* What an accepted connection takes when a permit is free.
Reserved(n, h) ==
  /\ CanReserve(n)
  /\ handler[n][h] \in {"None", "Finished"}
  /\ handler' = [handler EXCEPT ![n][h] = "Handling"]
  /\ refs' = [refs EXCEPT ![n] = @ \cup {h}]
  /\ active' = [active EXCEPT ![n] = @ + 1]

LEMMA AcceptCases ==
  ASSUME NEW n \in Nodes, AcceptOne(n)
  PROVE  UNCHANGED <<handler, active, refs>> \/ \E h \in Handlers : Reserved(n, h)
BY DEF AcceptOne, Reserved

\* Each thread's reference comes and goes with the thread.
LEMMA HoldersStep ==
  ASSUME ThreadsType, HoldersInv, PhasesInv, [Next]_vars
  PROVE  HoldersInv'
<1>1. ASSUME NEW n \in Nodes, AcquireLock(n) PROVE HoldersInv'
  BY <1>1, NotHandlers DEF AcquireLock, HoldersInv, PhasesInv, PhaseOk, ThreadsType, Looping, NoHandlers
<1>2. ASSUME NEW n \in Nodes, LoadFails(n) PROVE HoldersInv'
  BY <1>2, NotHandlers DEF LoadFails, Dropped, HoldersInv, PhasesInv, PhaseOk, ThreadsType, Looping, NoHandlers
<1>3. ASSUME NEW n \in Nodes, Serve(n) PROVE HoldersInv'
  BY <1>3, NotHandlers DEF Serve, HoldersInv, PhasesInv, PhaseOk, ThreadsType, Looping, NoHandlers
<1>4. ASSUME NEW n \in Nodes, Connect(n) PROVE HoldersInv'
  BY <1>4, NotHandlers DEF Connect, HoldersInv, PhasesInv, PhaseOk, ThreadsType, Looping, NoHandlers
<1>5. ASSUME NEW n \in Nodes, AcceptOne(n) PROVE HoldersInv'
  <2>1. CASE UNCHANGED <<handler, active, refs>>
    BY <1>5, <2>1 DEF AcceptOne, HoldersInv
  <2>2. ASSUME NEW h \in Handlers, Reserved(n, h) PROVE HoldersInv'
    BY <1>5, <2>2, NotHandlers DEF AcceptOne, Reserved, HoldersInv, ThreadsType, Looping
  <2>3. QED BY <1>5, <2>1, <2>2, AcceptCases
<1>6. ASSUME NEW n \in Nodes, AcceptDone(n) PROVE HoldersInv'
  BY <1>6, NotHandlers DEF AcceptDone, HoldersInv, PhasesInv, PhaseOk, ThreadsType, Looping, NoHandlers, JoinFinished
<1>7. ASSUME NEW n \in Nodes, TakeCommand(n) PROVE HoldersInv'
  BY <1>7, NotHandlers DEF TakeCommand, HoldersInv, PhasesInv, PhaseOk, ThreadsType, Looping
<1>8. ASSUME NEW n \in Nodes, LoopEnds(n) PROVE HoldersInv'
  BY <1>8, NotHandlers DEF LoopEnds, Dropped, HoldersInv, PhasesInv, PhaseOk, ThreadsType, Looping, NoHandlers, JoinFinished
<1>9. ASSUME NEW n \in Nodes, RequestStop(n) PROVE HoldersInv'
  BY <1>9, NotHandlers DEF RequestStop, HoldersInv, PhasesInv, PhaseOk, ThreadsType, Looping, NoHandlers
<1>10. ASSUME NEW n \in Nodes, StopReturns(n) PROVE HoldersInv'
  BY <1>10, NotHandlers DEF StopReturns, Dropped, HoldersInv, PhasesInv, PhaseOk, ThreadsType, Looping, NoHandlers
<1>11. ASSUME NEW n \in Nodes, Crash(n) PROVE HoldersInv'
  BY <1>11, NotHandlers DEF Crash, HoldersInv, PhasesInv, PhaseOk, ThreadsType, Looping, NoHandlers
<1>12. ASSUME NEW n \in Nodes, NEW h \in Handlers, ReleasePermit(n, h) PROVE HoldersInv'
  BY <1>12, NotHandlers DEF ReleasePermit, HoldersInv, PhasesInv, PhaseOk, ThreadsType, Looping, NoHandlers
<1>13. ASSUME NEW n \in Nodes, NEW h \in Handlers, FinishHandler(n, h) PROVE HoldersInv'
  BY <1>13, NotHandlers DEF FinishHandler, Dropped, HoldersInv, PhasesInv, PhaseOk, ThreadsType, Looping, NoHandlers
<1>14. CASE RemoveStaleLock
  BY <1>14 DEF RemoveStaleLock, HoldersInv, PhasesInv, PhaseOk, ThreadsType, Looping, NoHandlers
<1>15. CASE UNCHANGED vars
  BY <1>15 DEF vars, owner, HoldersInv, PhasesInv, PhaseOk, ThreadsType, Looping, NoHandlers
<1>16. ASSUME NEW n \in Nodes, Started(n) PROVE HoldersInv'
  BY <1>16, NotHandlers DEF Started, HoldersInv, PhasesInv, PhaseOk, ThreadsType, Looping
<1>17. ASSUME NEW n \in Nodes, CommandsDone(n) PROVE HoldersInv'
  BY <1>17, NotHandlers DEF CommandsDone, HoldersInv, PhasesInv, PhaseOk, ThreadsType, Looping
<1>18. ASSUME NEW n \in Nodes, MineDone(n) PROVE HoldersInv'
  BY <1>18, NotHandlers DEF MineDone, HoldersInv, PhasesInv, PhaseOk, ThreadsType, Looping
<1>19. ASSUME NEW n \in Nodes, TurnDone(n) PROVE HoldersInv'
  BY <1>19, NotHandlers DEF TurnDone, HoldersInv, PhasesInv, PhaseOk, ThreadsType, Looping
<1>20. ASSUME NEW n \in Nodes, NEW command \in Commands, Send(n, command) PROVE HoldersInv'
  BY <1>20, NotHandlers DEF Send, HoldersInv, PhasesInv, PhaseOk, ThreadsType, Looping
<1>21. ASSUME NEW n \in Nodes, DropNode(n) PROVE HoldersInv'
  BY <1>21, NotHandlers DEF DropNode, Dropped, HoldersInv, PhasesInv, PhaseOk, ThreadsType, Looping
<1>22. QED
  BY <1>1, <1>2, <1>3, <1>4, <1>5, <1>6, <1>7, <1>8, <1>9, <1>10, <1>11, <1>12, <1>13, <1>14, <1>15, <1>16, <1>17, <1>18, <1>19, <1>20, <1>21
     DEF Next, StartStep, OwnerStep, LoopStep, HandlerStep

\* A step of one node disturbs the phase of no other.
LEMMA OtherPhases ==
  ASSUME PhasesInv, NEW n \in Nodes, PhaseOk(n)',
         \A m \in Nodes \ {n} :
           /\ main'[m] = main[m] /\ loop'[m] = loop[m] /\ handler'[m] = handler[m]
           /\ commands'[m] = commands[m] /\ pending'[m] = pending[m]
  PROVE  PhasesInv'
BY DEF PhasesInv, PhaseOk

\* Threads end in order: handlers, loop, caller.
LEMMA PhasesStep ==
  ASSUME ThreadsType, ChannelType, HoldersInv, PhasesInv, [Next]_vars
  PROVE  PhasesInv'
<1>0. commands = [n \in Nodes |-> commands[n]]
  BY DEF ChannelType
<1>1. ASSUME NEW n \in Nodes, AcquireLock(n) PROVE PhasesInv'
  BY <1>1 DEF AcquireLock, HoldersInv, PhasesInv, PhaseOk, ThreadsType, Looping, NoHandlers, owner
<1>2. ASSUME NEW n \in Nodes, LoadFails(n) PROVE PhasesInv'
  BY <1>2 DEF LoadFails, Dropped, HoldersInv, PhasesInv, PhaseOk, ThreadsType, Looping, NoHandlers, owner
<1>3. ASSUME NEW n \in Nodes, Serve(n) PROVE PhasesInv'
  BY <1>3 DEF Serve, HoldersInv, PhasesInv, PhaseOk, ThreadsType, Looping, NoHandlers, owner
<1>4. ASSUME NEW n \in Nodes, Connect(n) PROVE PhasesInv'
  BY <1>4 DEF Connect, HoldersInv, PhasesInv, PhaseOk, ThreadsType, Looping, NoHandlers, owner
<1>5. ASSUME NEW n \in Nodes, AcceptOne(n) PROVE PhasesInv'
  BY <1>5 DEF AcceptOne, HoldersInv, PhasesInv, PhaseOk, ThreadsType, Looping, NoHandlers, owner
<1>6. ASSUME NEW n \in Nodes, AcceptDone(n) PROVE PhasesInv'
  BY <1>6 DEF AcceptDone, HoldersInv, PhasesInv, PhaseOk, ThreadsType, Looping, NoHandlers, owner
<1>7. ASSUME NEW n \in Nodes, TakeCommand(n) PROVE PhasesInv'
  BY <1>7 DEF TakeCommand, HoldersInv, PhasesInv, PhaseOk, ThreadsType, Looping, NoHandlers, owner
<1>8. ASSUME NEW n \in Nodes, LoopEnds(n) PROVE PhasesInv'
  <2>1. handler'[n] = JoinFinished(handler[n]) /\ commands'[n] = <<>> /\ pending'[n] = 0
    <3>1. handler'[n] = JoinFinished(handler[n])
      BY <1>8 DEF LoopEnds, ThreadsType
    <3>2. commands'[n] = <<>>
      BY <1>0, <1>8 DEF LoopEnds
    <3>3. pending'[n] = 0
      BY <1>8 DEF LoopEnds, ThreadsType
    <3>4. QED
      BY <3>1, <3>2, <3>3
  <2>2. JoinFinished(handler[n]) = NoHandlers
    BY <1>8 DEF LoopEnds, AllFinished, JoinFinished, NoHandlers
  <2>3. \/ main'[n] = "Off" /\ loop'[n] = "None"
        \/ main'[n] = main[n] /\ main[n] # "Detached" /\ loop'[n] = "Ended"
    BY <1>8 DEF LoopEnds, ThreadsType
  <2>4. main[n] \notin {"Off", "Loading"}
    BY <1>8 DEF LoopEnds, PhasesInv, PhaseOk
  <2>5. PhaseOk(n)'
    BY <2>1, <2>2, <2>3, <2>4 DEF PhaseOk, NoHandlers, Looping
  <2>6. \A m \in Nodes \ {n} :
         /\ main'[m] = main[m] /\ loop'[m] = loop[m] /\ handler'[m] = handler[m]
         /\ commands'[m] = commands[m] /\ pending'[m] = pending[m]
    <3>1. \A m \in Nodes \ {n} : commands'[m] = commands[m]
      BY <1>0, <1>8 DEF LoopEnds
    <3>2. QED
      BY <1>8, <3>1 DEF LoopEnds, ThreadsType
  <2>7. QED
    BY <2>5, <2>6, OtherPhases
<1>9. ASSUME NEW n \in Nodes, RequestStop(n) PROVE PhasesInv'
  BY <1>9 DEF RequestStop, HoldersInv, PhasesInv, PhaseOk, ThreadsType, Looping, NoHandlers, owner
<1>10. ASSUME NEW n \in Nodes, StopReturns(n) PROVE PhasesInv'
  BY <1>10 DEF StopReturns, Dropped, HoldersInv, PhasesInv, PhaseOk, ThreadsType, Looping, NoHandlers, owner
<1>11. ASSUME NEW n \in Nodes, Crash(n) PROVE PhasesInv'
  <2>1. /\ main'[n] = "Off" /\ loop'[n] = "None" /\ handler'[n] = NoHandlers
        /\ commands'[n] = <<>> /\ pending'[n] = 0
    <3>1. commands'[n] = <<>>
      BY <1>0, <1>11 DEF Crash
    <3>2. QED
      BY <1>11, <3>1 DEF Crash, ThreadsType
  <2>2. PhaseOk(n)'
    BY <2>1 DEF PhaseOk, NoHandlers
  <2>3. \A m \in Nodes \ {n} :
         /\ main'[m] = main[m] /\ loop'[m] = loop[m] /\ handler'[m] = handler[m]
         /\ commands'[m] = commands[m] /\ pending'[m] = pending[m]
    <3>1. \A m \in Nodes \ {n} : commands'[m] = commands[m]
      BY <1>0, <1>11 DEF Crash
    <3>2. QED
      BY <1>11, <3>1 DEF Crash, ThreadsType
  <2>4. QED
    BY <2>2, <2>3, OtherPhases
<1>12. ASSUME NEW n \in Nodes, NEW h \in Handlers, ReleasePermit(n, h) PROVE PhasesInv'
  BY <1>12 DEF ReleasePermit, HoldersInv, PhasesInv, PhaseOk, ThreadsType, Looping, NoHandlers, owner
<1>13. ASSUME NEW n \in Nodes, NEW h \in Handlers, FinishHandler(n, h) PROVE PhasesInv'
  BY <1>13 DEF FinishHandler, Dropped, HoldersInv, PhasesInv, PhaseOk, ThreadsType, Looping, NoHandlers, owner
<1>14. CASE RemoveStaleLock
  BY <1>14 DEF RemoveStaleLock, HoldersInv, PhasesInv, PhaseOk, ThreadsType, Looping, NoHandlers, owner
<1>15. CASE UNCHANGED vars
  BY <1>15 DEF vars, owner, HoldersInv, PhasesInv, PhaseOk, ThreadsType, Looping, NoHandlers
<1>16. ASSUME NEW n \in Nodes, Started(n) PROVE PhasesInv'
  <2>1. main'[n] = "Serving" /\ loop' = loop /\ handler' = handler /\ pending' = pending
    BY <1>16 DEF Started, ThreadsType
  <2>2. loop[n] # "None" /\ PhaseOk(n)
    BY <1>16 DEF Started, PhasesInv, PhaseOk
  <2>3. loop[n] # "Ended" \/ commands' = commands
    BY <1>16 DEF Started
  <2>7. loop[n] \in Looping \/ loop[n] = "Ended"
    BY <2>2 DEF ThreadsType, Looping
  <2>4. PhaseOk(n)'
    BY <2>1, <2>2, <2>3, <2>7 DEF PhaseOk, NoHandlers
  <2>5. \A m \in Nodes \ {n} :
         /\ main'[m] = main[m] /\ loop'[m] = loop[m] /\ handler'[m] = handler[m]
         /\ commands'[m] = commands[m] /\ pending'[m] = pending[m]
    <3>1. \A m \in Nodes \ {n} : commands'[m] = commands[m]
      BY <1>0, <1>16 DEF Started
    <3>2. QED
      BY <1>16, <3>1 DEF Started, ThreadsType
  <2>6. QED
    BY <2>4, <2>5, OtherPhases
<1>17. ASSUME NEW n \in Nodes, CommandsDone(n) PROVE PhasesInv'
  BY <1>17 DEF CommandsDone, HoldersInv, PhasesInv, PhaseOk, ThreadsType, Looping, NoHandlers, owner
<1>18. ASSUME NEW n \in Nodes, MineDone(n) PROVE PhasesInv'
  BY <1>18 DEF MineDone, HoldersInv, PhasesInv, PhaseOk, ThreadsType, Looping, NoHandlers, owner
<1>19. ASSUME NEW n \in Nodes, TurnDone(n) PROVE PhasesInv'
  BY <1>19 DEF TurnDone, HoldersInv, PhasesInv, PhaseOk, ThreadsType, Looping, NoHandlers, owner
<1>20. ASSUME NEW n \in Nodes, NEW command \in Commands, Send(n, command) PROVE PhasesInv'
  BY <1>20 DEF Send, HoldersInv, PhasesInv, PhaseOk, ThreadsType, Looping, NoHandlers, owner
<1>21. ASSUME NEW n \in Nodes, DropNode(n) PROVE PhasesInv'
  <2>1. UNCHANGED <<commands, handler, pending>>
    BY <1>21 DEF DropNode, owner
  <2>2. QED
    BY <1>21, <2>1 DEF DropNode, PhasesInv, PhaseOk, ThreadsType, Looping
<1>22. QED
  BY <1>1, <1>2, <1>3, <1>4, <1>5, <1>6, <1>7, <1>8, <1>9, <1>10, <1>11, <1>12, <1>13, <1>14, <1>15, <1>16, <1>17, <1>18, <1>19, <1>20, <1>21
     DEF Next, StartStep, OwnerStep, LoopStep, HandlerStep

\* A step keeps the types of threads and holders; the counter of permits stays within its limit.
LEMMA ThreadsTypeStep ==
  ASSUME ThreadsType, HoldersInv, PhasesInv, PermitsInv, [Next]_vars
  PROVE  ThreadsType'
<1>1. ASSUME NEW n \in Nodes, AcquireLock(n) PROVE ThreadsType'
  BY <1>1, LifecycleAssumption DEF AcquireLock, ThreadsType, NoHandlers
<1>2. ASSUME NEW n \in Nodes, LoadFails(n) PROVE ThreadsType'
  BY <1>2, LifecycleAssumption DEF LoadFails, Dropped, ThreadsType, NoHandlers
<1>3. ASSUME NEW n \in Nodes, Serve(n) PROVE ThreadsType'
  BY <1>3, LifecycleAssumption DEF Serve, ThreadsType, NoHandlers
<1>4. ASSUME NEW n \in Nodes, Connect(n) PROVE ThreadsType'
  BY <1>4, LifecycleAssumption DEF Connect, ThreadsType, NoHandlers, PhasesInv, PhaseOk
<1>5. ASSUME NEW n \in Nodes, AcceptOne(n) PROVE ThreadsType'
  <2>1. CASE UNCHANGED <<handler, active, refs>>
    BY <1>5, <2>1, LifecycleAssumption DEF AcceptOne, ThreadsType
  <2>2. ASSUME NEW h \in Handlers, Reserved(n, h) PROVE ThreadsType'
    BY <1>5, <2>2, LifecycleAssumption DEF AcceptOne, Reserved, CanReserve, ThreadsType
  <2>3. QED BY <1>5, <2>1, <2>2, AcceptCases
<1>6. ASSUME NEW n \in Nodes, AcceptDone(n) PROVE ThreadsType'
  BY <1>6, LifecycleAssumption DEF AcceptDone, ThreadsType, NoHandlers, JoinFinished
<1>7. ASSUME NEW n \in Nodes, TakeCommand(n) PROVE ThreadsType'
  BY <1>7, LifecycleAssumption DEF TakeCommand, ThreadsType
<1>8. ASSUME NEW n \in Nodes, LoopEnds(n) PROVE ThreadsType'
  <2>1. JoinFinished(handler[n]) \in [Handlers -> {"None", "Handling", "Released", "Finished"}]
    BY DEF ThreadsType, JoinFinished
  <2>2. handler' \in [Nodes -> [Handlers -> {"None", "Handling", "Released", "Finished"}]]
    BY <1>8, <2>1 DEF LoopEnds, ThreadsType
  <2>3. /\ main' \in [Nodes -> {"Off", "Loading", "Announcing", "Serving", "Stopping", "Detached"}]
        /\ loop' \in [Nodes -> {"None", "Accepting", "Draining", "Mining", "Syncing", "JoiningAll", "Ended"}]
    BY <1>8 DEF LoopEnds, ThreadsType
  <2>4. pending' \in [Nodes -> 0..Backlog]
    BY <1>8, LifecycleAssumption DEF LoopEnds, ThreadsType
  <2>5. node_lock' \in BOOLEAN /\ refs' \in [Nodes -> SUBSET ({"main", "loop"} \cup Handlers)]
    BY <1>8 DEF LoopEnds, Dropped, ThreadsType
  <2>6. UNCHANGED <<active, crashes, stale>>
    BY <1>8 DEF LoopEnds
  <2>7. QED
    BY <2>2, <2>3, <2>4, <2>5, <2>6 DEF ThreadsType
<1>9. ASSUME NEW n \in Nodes, RequestStop(n) PROVE ThreadsType'
  BY <1>9 DEF RequestStop, ThreadsType
<1>10. ASSUME NEW n \in Nodes, StopReturns(n) PROVE ThreadsType'
  BY <1>10, LifecycleAssumption DEF StopReturns, Dropped, ThreadsType, NoHandlers
<1>11. ASSUME NEW n \in Nodes, Crash(n) PROVE ThreadsType'
  BY <1>11, LifecycleAssumption DEF Crash, ThreadsType, NoHandlers
<1>12. ASSUME NEW n \in Nodes, NEW h \in Handlers, ReleasePermit(n, h) PROVE ThreadsType'
  BY <1>12, PermitOut, LifecycleAssumption DEF ReleasePermit, ThreadsType, PermitsInv
<1>13. ASSUME NEW n \in Nodes, NEW h \in Handlers, FinishHandler(n, h) PROVE ThreadsType'
  BY <1>13, LifecycleAssumption DEF FinishHandler, Dropped, ThreadsType, NoHandlers
<1>14. CASE RemoveStaleLock
  BY <1>14 DEF RemoveStaleLock, ThreadsType
<1>15. CASE UNCHANGED vars
  BY <1>15 DEF vars, ThreadsType, NoHandlers
<1>16. ASSUME NEW n \in Nodes, Started(n) PROVE ThreadsType'
  BY <1>16 DEF Started, ThreadsType
<1>17. ASSUME NEW n \in Nodes, CommandsDone(n) PROVE ThreadsType'
  BY <1>17, LifecycleAssumption DEF CommandsDone, ThreadsType
<1>18. ASSUME NEW n \in Nodes, MineDone(n) PROVE ThreadsType'
  BY <1>18, LifecycleAssumption DEF MineDone, ThreadsType
<1>19. ASSUME NEW n \in Nodes, TurnDone(n) PROVE ThreadsType'
  BY <1>19, LifecycleAssumption DEF TurnDone, ThreadsType
<1>20. ASSUME NEW n \in Nodes, NEW command \in Commands, Send(n, command) PROVE ThreadsType'
  BY <1>20, LifecycleAssumption DEF Send, ThreadsType
<1>21. ASSUME NEW n \in Nodes, DropNode(n) PROVE ThreadsType'
  BY <1>21, LifecycleAssumption DEF DropNode, Dropped, ThreadsType
<1>22. QED
  BY <1>1, <1>2, <1>3, <1>4, <1>5, <1>6, <1>7, <1>8, <1>9, <1>10, <1>11, <1>12, <1>13, <1>14, <1>15, <1>16, <1>17, <1>18, <1>19, <1>20, <1>21
     DEF Next, StartStep, OwnerStep, LoopStep, HandlerStep

\* What the channel holds is commands.
LEMMA SentType ==
  ASSUME NEW n \in Nodes, ChannelType, NEW command \in NodeCommands
  PROVE  [commands EXCEPT ![n] = Append(@, command)] \in [Nodes -> Seq(NodeCommands)]
<1>1. Append(commands[n], command) \in Seq(NodeCommands)
  BY DEF ChannelType
<1>2. QED
  BY <1>1 DEF ChannelType

\* A step keeps the types of the flag, the channel and the miner.
LEMMA ChannelTypeStep ==
  ASSUME ChannelType, [Next]_vars
  PROVE  ChannelType'
<1> USE DEF ChannelType
<1>1. ASSUME UNCHANGED owner PROVE ChannelType'
  BY <1>1 DEF owner
<1>2. ASSUME NEW n \in Nodes, Serve(n) PROVE ChannelType'
  BY <1>2 DEF Serve
<1>3. ASSUME NEW n \in Nodes, Started(n) PROVE ChannelType'
  BY <1>3, SentType DEF Started, NodeCommands
<1>4. ASSUME NEW n \in Nodes, TakeCommand(n) PROVE ChannelType'
  <2>1. Tail(commands[n]) \in Seq(NodeCommands)
    BY <1>4 DEF TakeCommand
  <2>2. commands' \in [Nodes -> Seq(NodeCommands)]
    BY <1>4, <2>1 DEF TakeCommand
  <2>3. stop' \in [Nodes -> BOOLEAN] /\ miner' \in [Nodes -> BOOLEAN]
    BY <1>4 DEF TakeCommand
  <2>4. QED
    BY <2>2, <2>3
<1>5. ASSUME NEW n \in Nodes, LoopEnds(n) \/ Crash(n) PROVE ChannelType'
  <2>1. <<>> \in Seq(NodeCommands)
    OBVIOUS
  <2>2. commands' = [commands EXCEPT ![n] = <<>>]
    BY <1>5 DEF LoopEnds, Crash
  <2>3. commands' \in [Nodes -> Seq(NodeCommands)]
    BY <2>1, <2>2
  <2>4. stop' \in [Nodes -> BOOLEAN] /\ miner' \in [Nodes -> BOOLEAN]
    BY <1>5 DEF LoopEnds, Crash
  <2>5. QED
    BY <2>3, <2>4
<1>6. ASSUME NEW n \in Nodes, NEW command \in Commands, Send(n, command) PROVE ChannelType'
  BY <1>6, SentType, LifecycleAssumption DEF Send
<1>7. ASSUME NEW n \in Nodes, RequestStop(n) PROVE ChannelType'
  <2>1. commands' \in [Nodes -> Seq(NodeCommands)]
    BY <1>7, SentType DEF RequestStop, NodeCommands
  <2>2. stop' \in [Nodes -> BOOLEAN] /\ miner' \in [Nodes -> BOOLEAN]
    BY <1>7 DEF RequestStop
  <2>3. QED
    BY <2>1, <2>2
<1>8. ASSUME NEW n \in Nodes,
             \/ AcquireLock(n) \/ LoadFails(n) \/ Connect(n) \/ AcceptOne(n) \/ AcceptDone(n)
             \/ CommandsDone(n) \/ MineDone(n) \/ TurnDone(n) \/ StopReturns(n) \/ DropNode(n)
             \/ \E h \in Handlers : ReleasePermit(n, h) \/ FinishHandler(n, h)
      PROVE  UNCHANGED owner
  BY <1>8 DEF AcquireLock, LoadFails, Connect, AcceptOne, AcceptDone, CommandsDone, MineDone,
              TurnDone, StopReturns, DropNode, ReleasePermit, FinishHandler
<1>9. ASSUME RemoveStaleLock \/ UNCHANGED vars PROVE UNCHANGED owner
  BY <1>9 DEF RemoveStaleLock, vars
<1>10. QED
  BY <1>1, <1>2, <1>3, <1>4, <1>5, <1>6, <1>7, <1>8, <1>9
     DEF Next, StartStep, OwnerStep, LoopStep, HandlerStep

\* What neither touches the lock file nor who is alive keeps them together.
LEMMA SameAlive ==
  ASSUME LockInv, UNCHANGED <<node_lock, stale>>, \A n \in Nodes : Alive(n)' <=> Alive(n)
  PROVE  LockInv'
BY DEF LockInv, OneWriter

LEMMA SameRefs ==
  ASSUME LockInv, UNCHANGED <<node_lock, stale, refs>>
  PROVE  LockInv'
BY SameAlive DEF Alive

\* The lock file is taken, kept and removed with the references.
LEMMA LockStep ==
  ASSUME ThreadsType, HoldersInv, PhasesInv, LockInv, [Next]_vars
  PROVE  LockInv'
<1>1. ASSUME NEW n \in Nodes, AcquireLock(n) PROVE LockInv'
  BY <1>1 DEF AcquireLock, LockInv, OneWriter, Alive, HoldersInv, ThreadsType, Looping
<1>2. ASSUME NEW n \in Nodes, LoadFails(n) PROVE LockInv'
  BY <1>2, DropKeepsLock DEF LoadFails, HoldersInv, Looping
<1>3. ASSUME NEW n \in Nodes, Serve(n) PROVE LockInv'
  <2>1. "main" \in refs[n]
    BY <1>3 DEF Serve, HoldersInv
  <2>2. \A m \in Nodes : Alive(m)' <=> Alive(m)
    BY <1>3, <2>1 DEF Serve, Alive, ThreadsType
  <2>3. UNCHANGED <<node_lock, stale>>
    BY <1>3 DEF Serve
  <2>4. QED
    BY <2>2, <2>3, SameAlive
<1>4. ASSUME NEW n \in Nodes, Connect(n) PROVE LockInv'
  BY <1>4, SameRefs DEF Connect
<1>5. ASSUME NEW n \in Nodes, AcceptOne(n) PROVE LockInv'
  <2>1. CASE UNCHANGED <<handler, active, refs>>
    BY <1>5, <2>1, SameRefs DEF AcceptOne
  <2>2. ASSUME NEW h \in Handlers, Reserved(n, h) PROVE LockInv'
    <3>1. Alive(n)
      BY <1>5 DEF AcceptOne, HoldersInv, Looping, Alive
    <3>2. \A m \in Nodes : Alive(m)' <=> Alive(m)
      BY <2>2, <3>1 DEF Reserved, Alive, ThreadsType
    <3>3. UNCHANGED <<node_lock, stale>>
      BY <1>5 DEF AcceptOne
    <3>4. QED
      BY <3>2, <3>3, SameAlive
  <2>3. QED BY <1>5, <2>1, <2>2, AcceptCases
<1>6. ASSUME NEW n \in Nodes, AcceptDone(n) PROVE LockInv'
  BY <1>6, SameRefs DEF AcceptDone
<1>7. ASSUME NEW n \in Nodes, TakeCommand(n) PROVE LockInv'
  BY <1>7, SameRefs DEF TakeCommand
<1>8. ASSUME NEW n \in Nodes, LoopEnds(n) PROVE LockInv'
  BY <1>8, DropKeepsLock DEF LoopEnds, HoldersInv, Looping
<1>9. ASSUME NEW n \in Nodes, RequestStop(n) PROVE LockInv'
  BY <1>9, SameRefs DEF RequestStop
<1>10. ASSUME NEW n \in Nodes, StopReturns(n) PROVE LockInv'
  BY <1>10, DropKeepsLock DEF StopReturns, HoldersInv, Looping
<1>11. ASSUME NEW n \in Nodes, Crash(n) PROVE LockInv'
  <2>1. refs[n] # {} /\ refs' = [refs EXCEPT ![n] = {}]
    BY <1>11 DEF Crash, HoldersInv, PhasesInv, PhaseOk, Looping
  <2>2. node_lock /\ \A m \in Nodes \ {n} : ~Alive(m)
    BY <2>1 DEF LockInv, OneWriter, Alive
  <2>3. \A m \in Nodes : ~Alive(m)'
    BY <2>1, <2>2 DEF Alive, ThreadsType
  <2>4. node_lock' /\ stale'
    BY <1>11, <2>2 DEF Crash
  <2>5. QED
    BY <2>3, <2>4 DEF LockInv, OneWriter
<1>12. ASSUME NEW n \in Nodes, NEW h \in Handlers, ReleasePermit(n, h) PROVE LockInv'
  BY <1>12, SameRefs DEF ReleasePermit
<1>13. ASSUME NEW n \in Nodes, NEW h \in Handlers, FinishHandler(n, h) PROVE LockInv'
  BY <1>13, DropKeepsLock DEF FinishHandler, HoldersInv, Looping
<1>14. CASE RemoveStaleLock
  BY <1>14 DEF RemoveStaleLock, LockInv, OneWriter, Alive, HoldersInv, ThreadsType, Looping
<1>15. CASE UNCHANGED vars
  BY <1>15, SameRefs DEF vars
<1>16. ASSUME NEW n \in Nodes, Started(n) PROVE LockInv'
  BY <1>16, SameRefs DEF Started
<1>17. ASSUME NEW n \in Nodes, CommandsDone(n) PROVE LockInv'
  BY <1>17, SameRefs DEF CommandsDone
<1>18. ASSUME NEW n \in Nodes, MineDone(n) PROVE LockInv'
  BY <1>18, SameRefs DEF MineDone
<1>19. ASSUME NEW n \in Nodes, TurnDone(n) PROVE LockInv'
  BY <1>19, SameRefs DEF TurnDone
<1>20. ASSUME NEW n \in Nodes, NEW command \in Commands, Send(n, command) PROVE LockInv'
  BY <1>20, SameRefs DEF Send
<1>21. ASSUME NEW n \in Nodes, DropNode(n) PROVE LockInv'
  <2>1. "main" \in refs[n] /\ Dropped(n, "main") /\ stale' = stale
    BY <1>21 DEF DropNode, HoldersInv
  <2>2. QED
    BY <2>1, DropKeepsLock
<1>22. QED
  BY <1>1, <1>2, <1>3, <1>4, <1>5, <1>6, <1>7, <1>8, <1>9, <1>10, <1>11, <1>12, <1>13, <1>14, <1>15, <1>16, <1>17, <1>18, <1>19, <1>20, <1>21
     DEF Next, StartStep, OwnerStep, LoopStep, HandlerStep

\* What changes neither handlers nor the counter keeps them in step.
LEMMA SameHandlers ==
  ASSUME PermitsInv, UNCHANGED <<handler, active>>
  PROVE  PermitsInv'
BY DEF PermitsInv, Handling

\* Each permit that is counted belongs to one handler at work.
LEMMA PermitsStep ==
  ASSUME ThreadsType, PhasesInv, PermitsInv, [Next]_vars
  PROVE  PermitsInv'
<1>1. ASSUME NEW n \in Nodes, AcquireLock(n) PROVE PermitsInv'
  BY <1>1, SameHandlers DEF AcquireLock
<1>2. ASSUME NEW n \in Nodes, LoadFails(n) PROVE PermitsInv'
  BY <1>2, SameHandlers DEF LoadFails
<1>3. ASSUME NEW n \in Nodes, Serve(n) PROVE PermitsInv'
  <2>1. handler'[n] = NoHandlers /\ active'[n] = 0
    BY <1>3 DEF Serve, ThreadsType, PhasesInv, PhaseOk, Looping
  <2>2. \A m \in Nodes \ {n} : handler'[m] = handler[m] /\ active'[m] = active[m]
    BY <1>3 DEF Serve, ThreadsType
  <2>3. Handling(n)' = {} /\ \A m \in Nodes \ {n} : Handling(m)' = Handling(m)
    BY <2>1, <2>2 DEF Handling, NoHandlers
  <2>4. QED BY <2>1, <2>2, <2>3, FS_EmptySet DEF PermitsInv
<1>4. ASSUME NEW n \in Nodes, Connect(n) PROVE PermitsInv'
  BY <1>4, SameHandlers DEF Connect
<1>5. ASSUME NEW n \in Nodes, AcceptOne(n) PROVE PermitsInv'
  <2>1. CASE ~CanReserve(n)
    BY <1>5, <2>1, SameHandlers DEF AcceptOne
  <2>2. CASE CanReserve(n)
    <3>1. PICK h \in Handlers : /\ handler[n][h] \in {"None", "Finished"}
                               /\ handler' = [handler EXCEPT ![n][h] = "Handling"]
                               /\ active' = [active EXCEPT ![n] = @ + 1]
      BY <1>5, <2>2 DEF AcceptOne
    <3>2. Handling(n)' = Handling(n) \cup {h} /\ h \notin Handling(n)
      BY <3>1 DEF Handling, ThreadsType
    <3>3. Cardinality(Handling(n)') = Cardinality(Handling(n)) + 1
      BY <3>2, HandlingIsFinite, FS_AddElement
    <3>4. \A m \in Nodes \ {n} : Handling(m)' = Handling(m) /\ active'[m] = active[m]
      BY <3>1 DEF Handling, ThreadsType
    <3>5. active'[n] = active[n] + 1
      BY <3>1 DEF ThreadsType
    <3>6. QED BY <3>3, <3>4, <3>5 DEF PermitsInv
  <2>3. QED BY <2>1, <2>2
<1>6. ASSUME NEW n \in Nodes, AcceptDone(n) PROVE PermitsInv'
  <2>1. \A m \in Nodes : Handling(m)' = Handling(m)
    BY <1>6 DEF AcceptDone, Handling, ThreadsType, JoinFinished
  <2>2. QED BY <1>6, <2>1 DEF AcceptDone, PermitsInv
<1>7. ASSUME NEW n \in Nodes, TakeCommand(n) PROVE PermitsInv'
  BY <1>7, SameHandlers DEF TakeCommand
<1>8. ASSUME NEW n \in Nodes, LoopEnds(n) PROVE PermitsInv'
  <2>1. \A m \in Nodes : Handling(m)' = Handling(m)
    BY <1>8 DEF LoopEnds, Handling, ThreadsType, JoinFinished
  <2>2. QED BY <1>8, <2>1 DEF LoopEnds, PermitsInv
<1>9. ASSUME NEW n \in Nodes, RequestStop(n) PROVE PermitsInv'
  BY <1>9, SameHandlers DEF RequestStop
<1>10. ASSUME NEW n \in Nodes, StopReturns(n) PROVE PermitsInv'
  BY <1>10, SameHandlers DEF StopReturns
<1>11. ASSUME NEW n \in Nodes, Crash(n) PROVE PermitsInv'
  <2>1. handler'[n] = NoHandlers /\ active'[n] = 0
    BY <1>11 DEF Crash, ThreadsType, PhasesInv, PhaseOk, Looping
  <2>2. \A m \in Nodes \ {n} : handler'[m] = handler[m] /\ active'[m] = active[m]
    BY <1>11 DEF Crash, ThreadsType
  <2>3. Handling(n)' = {} /\ \A m \in Nodes \ {n} : Handling(m)' = Handling(m)
    BY <2>1, <2>2 DEF Handling, NoHandlers
  <2>4. QED BY <2>1, <2>2, <2>3, FS_EmptySet DEF PermitsInv
<1>12. ASSUME NEW n \in Nodes, NEW h \in Handlers, ReleasePermit(n, h) PROVE PermitsInv'
  <2>1. /\ handler[n][h] = "Handling"
        /\ handler' = [handler EXCEPT ![n][h] = "Released"]
        /\ active' = [active EXCEPT ![n] = @ - 1]
    BY <1>12 DEF ReleasePermit
  <2>2. Handling(n)' = Handling(n) \ {h} /\ h \in Handling(n)
    BY <2>1 DEF Handling, ThreadsType
  <2>3. Cardinality(Handling(n)') = Cardinality(Handling(n)) - 1
    BY <2>2, HandlingIsFinite, FS_RemoveElement
  <2>4. \A m \in Nodes \ {n} : Handling(m)' = Handling(m) /\ active'[m] = active[m]
    BY <2>1 DEF Handling, ThreadsType
  <2>5. active'[n] = active[n] - 1
    BY <2>1 DEF ThreadsType
  <2>6. QED BY <2>3, <2>4, <2>5 DEF PermitsInv
<1>13. ASSUME NEW n \in Nodes, NEW h \in Handlers, FinishHandler(n, h) PROVE PermitsInv'
  <2>1. \A m \in Nodes : Handling(m)' = Handling(m)
    BY <1>13 DEF FinishHandler, Handling, ThreadsType
  <2>2. QED BY <1>13, <2>1 DEF FinishHandler, PermitsInv
<1>14. CASE RemoveStaleLock
  BY <1>14, SameHandlers DEF RemoveStaleLock
<1>15. CASE UNCHANGED vars
  BY <1>15, SameHandlers DEF vars, owner
<1>16. ASSUME NEW n \in Nodes, Started(n) PROVE PermitsInv'
  BY <1>16, SameHandlers DEF Started
<1>17. ASSUME NEW n \in Nodes, CommandsDone(n) PROVE PermitsInv'
  BY <1>17, SameHandlers DEF CommandsDone
<1>18. ASSUME NEW n \in Nodes, MineDone(n) PROVE PermitsInv'
  BY <1>18, SameHandlers DEF MineDone
<1>19. ASSUME NEW n \in Nodes, TurnDone(n) PROVE PermitsInv'
  BY <1>19, SameHandlers DEF TurnDone
<1>20. ASSUME NEW n \in Nodes, NEW command \in Commands, Send(n, command) PROVE PermitsInv'
  BY <1>20, SameHandlers DEF Send
<1>21. ASSUME NEW n \in Nodes, DropNode(n) PROVE PermitsInv'
  BY <1>21, SameHandlers DEF DropNode
<1>22. QED
  BY <1>1, <1>2, <1>3, <1>4, <1>5, <1>6, <1>7, <1>8, <1>9, <1>10, <1>11, <1>12, <1>13, <1>14, <1>15, <1>16, <1>17, <1>18, <1>19, <1>20, <1>21
     DEF Next, StartStep, OwnerStep, LoopStep, HandlerStep

-----------------------------------------------------------------------------
\* After any starts, stops, kills and removals of a stale lock, references, phases,
\* permits and the lock file belong together.
THEOREM LifecycleInvariance == Spec => []LifecycleInv
<1>1. Init => LifecycleInv
  <2> SUFFICES ASSUME Init PROVE LifecycleInv
    OBVIOUS
  <2>1. TypeOK
    <3>1. /\ 0 \in 0..MaxInboundConnections
          /\ 0 \in 0..Backlog
          /\ 0 \in 0..MaxCrashes
      BY LifecycleAssumption
    <3>2. NoHandlers \in [Handlers -> {"None", "Handling", "Released", "Finished"}]
      BY DEF NoHandlers
    <3>3. commands \in [Nodes -> Seq(NodeCommands)]
      <4>1. <<>> \in Seq(NodeCommands)
        OBVIOUS
      <4>2. QED
        BY <4>1 DEF Init
    <3>4. ThreadsType
      BY <3>1, <3>2 DEF Init, ThreadsType
    <3>5. ChannelType
      BY <3>3 DEF Init, ChannelType
    <3>6. QED
      BY <3>4, <3>5, TypeParts
  <2>2. HoldersInv /\ PhasesInv
    BY DEF Init, HoldersInv, PhasesInv, PhaseOk, Looping, NoHandlers
  <2>3. \A n \in Nodes : Handling(n) = {}
    BY DEF Init, Handling, NoHandlers
  <2>4. PermitsInv
    BY <2>3, FS_EmptySet DEF Init, PermitsInv
  <2>5. LockInv
    BY DEF Init, LockInv, OneWriter, Alive
  <2>6. QED
    BY <2>1, <2>2, <2>4, <2>5 DEF LifecycleInv
<1>2. LifecycleInv /\ [Next]_vars => LifecycleInv'
  <2> SUFFICES ASSUME LifecycleInv, [Next]_vars PROVE LifecycleInv'
    OBVIOUS
  <2>1. ThreadsType /\ ChannelType
    BY TypeParts DEF LifecycleInv
  <2>2. ThreadsType' /\ ChannelType'
    BY <2>1, ThreadsTypeStep, ChannelTypeStep DEF LifecycleInv
  <2>3. TypeOK'
    BY <2>2 DEF TypeOK, ThreadsType, ChannelType
  <2>4. HoldersInv' /\ PhasesInv'
    BY <2>1, HoldersStep, PhasesStep DEF LifecycleInv
  <2>5. PermitsInv' /\ LockInv'
    BY <2>1, PermitsStep, LockStep DEF LifecycleInv
  <2>6. QED
    BY <2>3, <2>4, <2>5 DEF LifecycleInv
<1>3. QED
  BY <1>1, <1>2, PTL DEF Spec

\* No two nodes on one data directory can ever append to its log at a time, and the
\* lock file is there for as long as one can.
THEOREM AlwaysOneWriter == Spec => []OneWriter
<1>1. LifecycleInv => OneWriter
  BY DEF LifecycleInv, LockInv
<1>2. QED
  BY <1>1, LifecycleInvariance, PTL

\* The counter of active connections is the number of handlers at work, within its limit.
THEOREM PermitsAlwaysCounted == Spec => []PermitsCountHandlers
<1>1. LifecycleInv => PermitsCountHandlers
  BY DEF LifecycleInv, PermitsInv, Handling, PermitsCountHandlers
<1>2. QED
  BY <1>1, LifecycleInvariance, PTL

\* When stop has returned, no thread of the node is left, and the lock file only if a
\* node was killed or another one runs.
THEOREM StopAlwaysClean == Spec => []StopLeavesNothing
<1>1. LifecycleInv => StopLeavesNothing
  <2> SUFFICES ASSUME LifecycleInv PROVE StopLeavesNothing
    OBVIOUS
  <2>1. ASSUME NEW n \in Nodes, main[n] = "Off"
        PROVE  /\ ~Alive(n) /\ active[n] = 0 /\ pending[n] = 0
               /\ loop[n] = "None" /\ handler[n] = NoHandlers /\ commands[n] = <<>>
    <3>1. loop[n] = "None" /\ handler[n] = NoHandlers /\ commands[n] = <<>> /\ pending[n] = 0
      BY <2>1 DEF LifecycleInv, PhasesInv, PhaseOk, Looping
    <3>2. Handling(n) = {}
      BY <3>1 DEF Handling, NoHandlers
    <3>3. active[n] = 0
      BY <3>2, FS_EmptySet DEF LifecycleInv, PermitsInv
    <3>4. ~Alive(n)
      <4>1. "main" \notin refs[n] /\ "loop" \notin refs[n]
        BY <2>1, <3>1 DEF LifecycleInv, HoldersInv, Looping
      <4>2. \A h \in Handlers : h \notin refs[n]
        BY <3>1 DEF LifecycleInv, HoldersInv, NoHandlers
      <4>3. refs[n] \subseteq {"main", "loop"} \cup Handlers
        BY DEF LifecycleInv, TypeOK
      <4>4. QED
        BY <4>1, <4>2, <4>3 DEF Alive
    <3>5. QED
      BY <3>1, <3>3, <3>4
  <2>2. QED
    BY <2>1 DEF StopLeavesNothing, LifecycleInv, LockInv
<1>2. QED
  BY <1>1, LifecycleInvariance, PTL
=============================================================================
