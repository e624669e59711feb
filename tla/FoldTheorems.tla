---------------------------- MODULE FoldTheorems ----------------------------
(***************************************************************************)
(* Facts about loops over a list.  The code goes through blocks, addresses *)
(* and written bytes in for loops that carry a state along; the model      *)
(* writes these loops as FoldLeft.  Here is what such a loop computes,     *)
(* from the definition of FoldLeft, for any body Step: a module that folds *)
(* instantiates this one with its own body and cites the theorems.         *)
(*                                                                         *)
(* The induction they need is the least number principle, which follows    *)
(* from the theorem of the library that < is well founded on Nat.          *)
(***************************************************************************)
EXTENDS SequencesExt, SequenceTheorems, WellFoundedInduction, TLAPS

CONSTANT Step(_, _, _)   \* the loop's body: what is fixed, the state, the element

\* The loop.
Fold(context, base, seq) == FoldLeft(LAMBDA acc, x : Step(context, acc, x), base, seq)

-----------------------------------------------------------------------------
(* Induction                                                                 *)

\* A set of natural numbers that is not empty has a least member.
LEMMA LeastNumber ==
  ASSUME NEW T \in SUBSET Nat, T # {}
  PROVE  \E m \in T : \A k \in T : m <= k
<1> DEFINE R == OpToRel(<, Nat)
<1>1. IsWellFoundedOn(R, Nat)
  BY NatLessThanWellFounded
<1>2. \A k, m \in Nat : k < m => <<k, m>> \in R
  BY DEF OpToRel
<1> HIDE DEF R
<1>3. PICK m \in T : \A k \in T : <<k, m>> \notin R
  BY <1>1, WFMin
<1>4. \A k \in T : k \in Nat /\ m \in Nat /\ ~(k < m)
  BY <1>2, <1>3
<1>5. QED
  BY <1>4

\* A set that has 0, and n + 1 with every n, has every natural number.  To prove P(n)
\* for all n, take {n \in Nat : P(n)}.
LEMMA Induction ==
  ASSUME NEW S, 0 \in S, \A n \in Nat : n \in S => n + 1 \in S
  PROVE  Nat \subseteq S
<1> DEFINE T == {n \in Nat : n \notin S}
<1>1. CASE T # {}
  <2>1. PICK m \in T : \A k \in T : m <= k BY <1>1, LeastNumber
  <2>2. m # 0 /\ m \in Nat OBVIOUS
  <2>3. m - 1 \in Nat /\ m - 1 \notin T BY <2>1, <2>2
  <2>4. m - 1 \in S BY <2>3
  <2>5. QED BY <2>2, <2>3, <2>4, <2>1
<1>2. QED BY <1>1

\* The same up to a bound, as the index of a loop runs.
LEMMA Counting ==
  ASSUME NEW n \in Nat, NEW S, 0 \in S, \A k \in 1..n : k - 1 \in S => k \in S
  PROVE  0..n \subseteq S
<1> DEFINE T == {k \in Nat : k <= n => k \in S}
<1>1. 0 \in T OBVIOUS
<1>2. ASSUME NEW k \in Nat, k \in T PROVE k + 1 \in T
  <2>1. CASE k + 1 <= n
    <3>1. k + 1 \in 1..n /\ (k + 1) - 1 = k /\ k \in S BY <1>2, <2>1
    <3>2. QED BY <3>1
  <2>2. QED BY <2>1
<1>3. Nat \subseteq T
  <2> HIDE DEF T
  <2>1. QED BY <1>1, <1>2, Induction
<1>4. QED BY <1>3

-----------------------------------------------------------------------------
(* The function that FoldLeft is defined with                                *)

\* It maps the set of the first k indices to the state after k elements.
IsIter(context, base, seq, f) ==
  f = [s \in SUBSET DOMAIN seq |->
         IF s = {} THEN base ELSE Step(context, f[s \ {Max(s)}], seq[Max(s)])]

Iter(context, base, seq) == CHOOSE f : IsIter(context, base, seq, f)

\* The loop's result is that of the function for all indices.
LEMMA FoldIsIter ==
  ASSUME NEW context, NEW base, NEW seq
  PROVE  Fold(context, base, seq) = Iter(context, base, seq)[DOMAIN seq]
BY DEF Fold, Iter, IsIter, FoldLeft, MapThenFoldSet

\* Taking the largest index off a set of the first k + 1 leaves a set of the first k.
LEMMA MaxOfInterval ==
  ASSUME NEW k \in Nat, NEW s \in SUBSET (1..k+1)
  PROVE  /\ k + 1 \in s => Max(s) = k + 1 /\ s \ {Max(s)} \in SUBSET (1..k)
         /\ k + 1 \notin s => s \in SUBSET (1..k)
<1>1. ASSUME k + 1 \in s PROVE Max(s) = k + 1
  <2>1. \A y \in s : k + 1 >= y OBVIOUS
  <2>2. \A x \in s : (\A y \in s : x >= y) => x = k + 1 BY <1>1, <2>1
  <2>3. QED BY <2>1, <2>2, <1>1 DEF Max
<1>2. \A x \in s : x # k + 1 => x \in 1..k
  OBVIOUS
<1>3. QED BY <1>1, <1>2

\* The recursive definition has a solution, so that CHOOSE finds it: one for the first
\* k + 1 indices extends one for the first k.
LEMMA IterUnfolds ==
  ASSUME NEW context, NEW base, NEW seq, NEW n \in Nat, DOMAIN seq = 1..n
  PROVE  IsIter(context, base, seq, Iter(context, base, seq))
<1> DEFINE IterTo(f, k) == f = [s \in SUBSET (1..k) |->
             IF s = {} THEN base ELSE Step(context, f[s \ {Max(s)}], seq[Max(s)])]
           Good == {k \in Nat : k <= n => \E f : IterTo(f, k)}
<1>1. 0 \in Good
  <2> DEFINE f == [s \in SUBSET (1..0) |-> base]
  <2>1. SUBSET (1..0) = {{}} OBVIOUS
  <2>2. IterTo(f, 0) BY <2>1
  <2>3. QED BY <2>2
<1>2. ASSUME NEW k \in Nat, k \in Good, k + 1 <= n PROVE \E f : IterTo(f, k+1)
  <2>1. k <= n BY <1>2
  <2>2. PICK f : IterTo(f, k) BY <1>2, <2>1
  <2> DEFINE g == [s \in SUBSET (1..k+1) |->
                     IF k + 1 \in s THEN Step(context, f[s \ {Max(s)}], seq[Max(s)]) ELSE f[s]]
  <2>3. ASSUME NEW s \in SUBSET (1..k+1)
        PROVE  g[s] = IF s = {} THEN base ELSE Step(context, g[s \ {Max(s)}], seq[Max(s)])
    <3>1. CASE k + 1 \in s
      <4>1. s \ {Max(s)} \in SUBSET (1..k) /\ Max(s) = k + 1 BY <3>1, MaxOfInterval
      <4>2. g[s \ {Max(s)}] = f[s \ {Max(s)}] BY <4>1
      <4>3. QED BY <3>1, <4>2
    <3>2. CASE k + 1 \notin s /\ s # {}
      <4>1. s \in SUBSET (1..k) BY <3>2, MaxOfInterval
      <4>2. s \ {Max(s)} \in SUBSET (1..k+1) /\ k + 1 \notin s \ {Max(s)} BY <3>2
      <4>3. g[s \ {Max(s)}] = f[s \ {Max(s)}] BY <4>2
      <4>4. f[s] = Step(context, f[s \ {Max(s)}], seq[Max(s)]) BY <2>2, <3>2, <4>1
      <4>5. g[s] = f[s] BY <3>2
      <4>6. QED BY <4>3, <4>4, <4>5, <3>2
    <3>3. CASE s = {}
      <4>1. s \in SUBSET (1..k) /\ k + 1 \notin s BY <3>3
      <4>2. f[s] = base BY <2>2, <3>3, <4>1
      <4>3. g[s] = f[s] BY <4>1
      <4>4. QED BY <3>3, <4>2, <4>3
    <3>4. QED BY <3>1, <3>2, <3>3
  <2>4. IterTo(g, k + 1)
    <3> DEFINE h == [s \in SUBSET (1..k+1) |->
             IF s = {} THEN base ELSE Step(context, g[s \ {Max(s)}], seq[Max(s)])]
    <3>1. \A s \in SUBSET (1..k+1) : g[s] = h[s] BY <2>3
    <3> HIDE DEF IterTo
    <3>2. g = h BY <3>1
    <3>3. QED BY <3>2 DEF IterTo
  <2>5. QED BY <2>4
<1>3. Nat \subseteq Good
  <2> HIDE DEF IterTo
  <2>1. \A k \in Nat : k \in Good => k + 1 \in Good BY <1>2
  <2> HIDE DEF Good
  <2>2. QED BY <1>1, <2>1, Induction
<1>4. \E f : IterTo(f, n) 
  <2> HIDE DEF IterTo
  <2>1. QED BY <1>3
<1>5. QED BY <1>4 DEF Iter, IsIter

-----------------------------------------------------------------------------
(* The loop as a run                                                         *)

\* r lists the states the loop goes through: r[k] is that after k elements.
Runs(context, base, seq, n, r) ==
  /\ r[0] = base
  /\ \A i \in 1..n : r[i] = Step(context, r[i - 1], seq[i])

\* A loop over n elements goes through n + 1 states and returns the last.
LEMMA FoldRuns ==
  ASSUME NEW context, NEW base, NEW seq, NEW n \in Nat, DOMAIN seq = 1..n
  PROVE  \E r : Runs(context, base, seq, n, r) /\ Fold(context, base, seq) = r[n]
<1> DEFINE iter == Iter(context, base, seq)
           r == [i \in 0..n |-> iter[1..i]]
<1>1. iter = [s \in SUBSET DOMAIN seq |->
           IF s = {} THEN base ELSE Step(context, iter[s \ {Max(s)}], seq[Max(s)])]
  <2>1. IsIter(context, base, seq, Iter(context, base, seq)) BY IterUnfolds
  <2>2. QED BY <2>1 DEF IsIter
<1> HIDE DEF iter
<1>2. r[0] = base
  <2>1. 1..0 = {} OBVIOUS
  <2>2. iter[{}] = base BY <1>1
  <2>3. QED BY <2>1, <2>2
<1>3. ASSUME NEW i \in 1..n PROVE r[i] = Step(context, r[i - 1], seq[i])
  <2> DEFINE k == i - 1
  <2>1. k \in Nat /\ i = k + 1 /\ 1..i \in SUBSET (1..k+1) /\ i \in 1..i OBVIOUS
  <2>2. Max(1..i) = i BY <2>1, MaxOfInterval
  <2>3. (1..i) \ {i} = 1..(i - 1) OBVIOUS
  <2>4. 1..i \in SUBSET DOMAIN seq /\ 1..i # {} OBVIOUS
  <2>5. iter[1..i] = Step(context, iter[(1..i) \ {Max(1..i)}], seq[Max(1..i)])
    BY <1>1, <2>4
  <2>6. iter[1..i] = Step(context, iter[1..(i - 1)], seq[i])
    BY <2>5, <2>2, <2>3
  <2>7. i \in 0..n /\ i - 1 \in 0..n OBVIOUS
  <2>8. QED BY <2>6, <2>7
<1>4. Fold(context, base, seq) = r[n]
  BY FoldIsIter DEF iter
<1>5. QED
  <2> HIDE DEF r
  <2>1. Runs(context, base, seq, n, r) BY <1>2, <1>3 DEF Runs
  <2>2. QED BY <2>1, <1>4

\* Lists that begin alike bring a loop to the same state.
LEMMA SameRuns ==
  ASSUME NEW context, NEW base, NEW s, NEW t, NEW k \in Nat, NEW q, NEW r,
         Runs(context, base, s, k, q), Runs(context, base, t, k, r),
         \A i \in 1..k : s[i] = t[i]
  PROVE  q[k] = r[k]
<1> DEFINE S == {i \in Nat : q[i] = r[i]}
<1>1. 0 \in S BY DEF Runs
<1>2. ASSUME NEW i \in 1..k, i - 1 \in S PROVE i \in S
  BY <1>2 DEF Runs
<1>3. 0..k \subseteq S
  <2> HIDE DEF S
  <2>1. QED BY <1>1, <1>2, Counting
<1>4. QED BY <1>3

\* A loop over nothing (no stored block, an empty listing of peers) changes nothing.
THEOREM FoldEmpty ==
  ASSUME NEW context, NEW base
  PROVE  Fold(context, base, << >>) = base
<1>1. DOMAIN << >> = 1..0 OBVIOUS
<1>2. PICK r : Runs(context, base, << >>, 0, r) /\ Fold(context, base, << >>) = r[0]
  BY <1>1, FoldRuns
<1>3. QED BY <1>2 DEF Runs

\* The state after k elements is one pass of the body from that after k - 1: what is
\* validated of a batch block by block is validated of the whole loop.
THEOREM FoldLast ==
  ASSUME NEW context, NEW base, NEW X, NEW seq \in Seq(X), NEW k \in 1..Len(seq)
  PROVE  Fold(context, base, SubSeq(seq, 1, k))
           = Step(context, Fold(context, base, SubSeq(seq, 1, k - 1)), seq[k])
<1> DEFINE s == SubSeq(seq, 1, k)
           t == SubSeq(seq, 1, k - 1)
<1>1. /\ k \in Nat /\ k - 1 \in Nat
      /\ DOMAIN s = 1..k /\ \A i \in 1..k : s[i] = seq[i]
      /\ DOMAIN t = 1..(k - 1) /\ \A i \in 1..(k - 1) : t[i] = seq[i]
  OBVIOUS
<1> HIDE DEF s, t
<1>2. PICK q : Runs(context, base, s, k, q) /\ Fold(context, base, s) = q[k]
  BY <1>1, FoldRuns
<1>3. PICK r : Runs(context, base, t, k - 1, r) /\ Fold(context, base, t) = r[k - 1]
  BY <1>1, FoldRuns
<1>4. Runs(context, base, s, k - 1, q) BY <1>1, <1>2 DEF Runs
<1>5. \A i \in 1..(k - 1) : s[i] = t[i] BY <1>1
<1>6. q[k - 1] = r[k - 1]
  BY <1>1, <1>3, <1>4, <1>5, SameRuns
<1>7. q[k] = Step(context, q[k - 1], seq[k]) BY <1>1, <1>2 DEF Runs
<1>8. QED BY <1>2, <1>3, <1>6, <1>7 DEF s, t

\* One more element is one more pass of the body: a log that has one more line is read
\* as before, and then that line.
THEOREM FoldAppend ==
  ASSUME NEW context, NEW base, NEW X, NEW seq \in Seq(X), NEW x \in X
  PROVE  Fold(context, base, Append(seq, x)) = Step(context, Fold(context, base, seq), x)
<1> DEFINE longer == Append(seq, x)
           k == Len(seq) + 1
<1>1. /\ longer \in Seq(X) /\ Len(longer) = k /\ k \in 1..k /\ longer[k] = x
      /\ SubSeq(longer, 1, k) = longer
      /\ SubSeq(longer, 1, k - 1) = seq
  OBVIOUS
<1> HIDE DEF longer, k
<1>2. Fold(context, base, SubSeq(longer, 1, k))
        = Step(context, Fold(context, base, SubSeq(longer, 1, k - 1)), longer[k])
  BY <1>1, FoldLast
<1>3. QED BY <1>1, <1>2 DEF longer

-----------------------------------------------------------------------------
(* Lists joined                                                              *)

\* Three lists can be joined in any order.
LEMMA JoinInAnyOrder ==
  ASSUME NEW X, NEW a \in Seq(X), NEW b \in Seq(X), NEW c \in Seq(X)
  PROVE  (a \o b) \o c = a \o (b \o c)
OBVIOUS

\* A name for \o, which the provers take for more than a function of two lists.
Join(a, b) == a \o b

\* The same under that name.
LEMMA JoinsInAnyOrder ==
  ASSUME NEW X, NEW a \in Seq(X), NEW b \in Seq(X), NEW c \in Seq(X)
  PROVE  Join(Join(a, b), c) = Join(a, Join(b, c))
BY JoinInAnyOrder DEF Join

\* FlattenSeq is a loop that appends; these are the lists it goes through.
FlattenRuns(lists, n, r) ==
  /\ r[0] = << >>
  /\ \A i \in 1..n : r[i] = r[i - 1] \o lists[i]

\* FlattenSeq returns the last list that its loop goes through; all of them are lists.
LEMMA FlattenIsLoop ==
  ASSUME NEW X, NEW lists \in Seq(Seq(X)), NEW n \in Nat, n = Len(lists)
  PROVE  \E r : /\ FlattenRuns(lists, n, r)
                /\ \A i \in 0..n : r[i] \in Seq(X)
                /\ FlattenSeq(lists) = r[n]
<1>1. DOMAIN lists = 1..n /\ \A i \in 1..n : lists[i] \in Seq(X)
  OBVIOUS
<1>2. \E r : FlattenRuns(lists, n, r)
  <2> DEFINE Good == {k \in Nat : \E r : FlattenRuns(lists, k, r)}
  <2>1. 0 \in Good
    <3>1. FlattenRuns(lists, 0, [i \in 0..0 |-> << >>])
      BY DEF FlattenRuns
    <3>2. QED
      BY <3>1
  <2>2. ASSUME NEW k \in Nat, k \in Good PROVE k + 1 \in Good
    <3>1. PICK r : FlattenRuns(lists, k, r)
      BY <2>2
    <3> DEFINE longer == [i \in 0..(k + 1) |-> IF i = k + 1 THEN r[k] \o lists[k + 1] ELSE r[i]]
    <3>2. longer[0] = << >> /\ longer[k + 1] = r[k] \o lists[k + 1] /\ longer[k] = r[k]
      <4>1. 0 \in 0..(k + 1) /\ k \in 0..(k + 1) /\ k + 1 \in 0..(k + 1) /\ k + 1 # 0 /\ k + 1 # k
        OBVIOUS
      <4>2. r[0] = << >>
        BY <3>1 DEF FlattenRuns
      <4>3. QED
        BY <4>1, <4>2
    <3>3. ASSUME NEW i \in 1..k PROVE longer[i] = longer[i - 1] \o lists[i]
      <4>1. longer[i] = r[i] /\ longer[i - 1] = r[i - 1]
        OBVIOUS
      <4>2. r[i] = r[i - 1] \o lists[i]
        BY <3>1 DEF FlattenRuns
      <4> HIDE DEF longer
      <4>3. QED
        BY <4>1, <4>2
    <3> HIDE DEF longer
    <3>4. \A i \in 1..(k + 1) : longer[i] = longer[i - 1] \o lists[i]
      <4>1. \A i \in 1..(k + 1) : i \in 1..k \/ (i = k + 1 /\ i - 1 = k)
        OBVIOUS
      <4>2. QED
        BY <3>2, <3>3, <4>1
    <3>5. FlattenRuns(lists, k + 1, longer)
      BY <3>2, <3>4 DEF FlattenRuns
    <3>6. QED
      BY <3>5
  <2> HIDE DEF Good
  <2>3. n \in Good
    BY <2>1, <2>2, Induction
  <2>4. QED
    BY <2>3 DEF Good
<1>3. PICK r : FlattenRuns(lists, n, r)
  BY <1>2
<1>4. \A i \in 0..n : r[i] \in Seq(X)
  <2> DEFINE S == {i \in Nat : r[i] \in Seq(X)}
  <2>1. 0 \in S
    BY <1>3, EmptySeq DEF FlattenRuns
  <2>2. ASSUME NEW i \in 1..n, i - 1 \in S PROVE i \in S
    <3>1. r[i] = r[i - 1] \o lists[i] /\ r[i - 1] \in Seq(X) /\ lists[i] \in Seq(X)
      BY <1>1, <1>3, <2>2 DEF FlattenRuns
    <3>2. r[i] \in Seq(X)
      BY <3>1, ConcatProperties
    <3>3. QED
      BY <3>2
  <2> HIDE DEF S
  <2>3. 0..n \subseteq S
    BY <2>1, <2>2, Counting
  <2>4. QED
    BY <2>3 DEF S
<1>5. FlattenSeq(lists) = r[n]
  <2>1. CASE n = 0
    <3>1. Len(lists) = 0
      BY <2>1
    <3>2. QED
      BY <1>3, <2>1, <3>1, EmptySeq DEF FlattenSeq, FlattenRuns
  <2>2. CASE n # 0
    <3> DEFINE Solves(f) == f = [i \in 1..n |-> IF i = 1 THEN lists[i] ELSE f[i - 1] \o lists[i]]
               flatten == CHOOSE f : Solves(f)
               g == [i \in 1..n |-> r[i]]
    <3>1. FlattenSeq(lists) = flatten[n]
      BY <2>2 DEF FlattenSeq
    <3>2. r[1] = lists[1]
      <4>1. 1 \in 1..n
        BY <2>2
      <4>2. r[1] = r[1 - 1] \o lists[1] /\ r[0] = << >> /\ lists[1] \in Seq(X)
        BY <1>1, <1>3, <4>1 DEF FlattenRuns
      <4>3. QED
        BY <4>2, ConcatEmptySeq, 1 - 1 = 0
    <3>3. Solves(g)
      <4>1. ASSUME NEW i \in 1..n
            PROVE  g[i] = IF i = 1 THEN lists[i] ELSE g[i - 1] \o lists[i]
        <5>1. g[i] = r[i] /\ (i # 1 => i - 1 \in 1..n /\ g[i - 1] = r[i - 1])
          OBVIOUS
        <5>2. r[i] = r[i - 1] \o lists[i]
          BY <1>3 DEF FlattenRuns
        <5> HIDE DEF g
        <5>3. QED
          BY <3>2, <5>1, <5>2
      <4>2. QED
        BY <4>1
    <3>4. Solves(flatten)
      <4> HIDE DEF Solves
      <4>1. QED
        BY <3>3
    <3> HIDE DEF flatten, g
    <3> DEFINE S == {i \in Nat : i # 0 => flatten[i] = r[i]}
    <3>5. 0 \in S
      OBVIOUS
    <3>6. ASSUME NEW i \in 1..n, i - 1 \in S PROVE i \in S
      <4>1. flatten[i] = IF i = 1 THEN lists[i] ELSE flatten[i - 1] \o lists[i]
        BY <3>4
      <4>2. r[i] = r[i - 1] \o lists[i]
        BY <1>3 DEF FlattenRuns
      <4>3. i # 1 => flatten[i - 1] = r[i - 1]
        BY <3>6
      <4>4. flatten[i] = r[i]
        BY <3>2, <4>1, <4>2, <4>3
      <4>5. QED
        BY <4>4
    <3> HIDE DEF S
    <3>7. 0..n \subseteq S
      BY <3>5, <3>6, Counting
    <3>8. QED
      BY <2>2, <3>1, <3>7 DEF S
  <2>3. QED
    BY <2>1, <2>2
<1>6. QED
  BY <1>3, <1>4, <1>5

\* Two loops over lists that begin alike.
LEMMA SameFlatten ==
  ASSUME NEW s, NEW t, NEW n \in Nat, NEW q, NEW r, FlattenRuns(s, n, q), FlattenRuns(t, n, r),
         \A i \in 1..n : s[i] = t[i]
  PROVE  q[n] = r[n]
<1> DEFINE S == {i \in Nat : q[i] = r[i]}
<1>1. 0 \in S
  BY DEF FlattenRuns
<1>2. ASSUME NEW i \in 1..n, i - 1 \in S PROVE i \in S
  <2>1. q[i] = q[i - 1] \o s[i] /\ r[i] = r[i - 1] \o t[i]
    BY DEF FlattenRuns
  <2>2. q[i - 1] = r[i - 1]
    BY <1>2
  <2>3. q[i] = r[i]
    BY <2>1, <2>2
  <2>4. QED
    BY <2>3
<1> HIDE DEF S
<1>3. 0..n \subseteq S
  BY <1>1, <1>2, Counting
<1>4. QED
  BY <1>3 DEF S

\* Lists joined are a list.
LEMMA FlattenType ==
  ASSUME NEW X, NEW lists \in Seq(Seq(X))
  PROVE  FlattenSeq(lists) \in Seq(X)
<1> DEFINE n == Len(lists)
<1>1. n \in Nat
  OBVIOUS
<1>2. PICK r : (\A i \in 0..n : r[i] \in Seq(X)) /\ FlattenSeq(lists) = r[n]
  BY <1>1, FlattenIsLoop
<1>3. QED
  BY <1>1, <1>2

\* No lists joined are empty.
LEMMA FlattenEmpty ==
  FlattenSeq(<< >>) = << >>
BY DEF FlattenSeq

\* The last list is appended to the others.
LEMMA FlattenAppend ==
  ASSUME NEW X, NEW lists \in Seq(Seq(X)), NEW list \in Seq(X)
  PROVE  FlattenSeq(Append(lists, list)) = FlattenSeq(lists) \o list
<1> DEFINE n == Len(lists)
           more == Append(lists, list)
<1>1. /\ n \in Nat /\ more \in Seq(Seq(X)) /\ Len(more) = n + 1
      /\ \A i \in 1..n : more[i] = lists[i]
      /\ more[n + 1] = list
  OBVIOUS
<1> HIDE DEF more
<1>2. PICK r : FlattenRuns(lists, n, r) /\ FlattenSeq(lists) = r[n]
  BY <1>1, FlattenIsLoop
<1>3. PICK q : FlattenRuns(more, n + 1, q) /\ FlattenSeq(more) = q[n + 1]
  BY <1>1, FlattenIsLoop
<1> HIDE DEF n
<1>4. FlattenRuns(more, n, q)
  <2>1. \A i \in 1..n : i \in 1..(n + 1)
    BY <1>1
  <2>2. QED
    BY <1>3, <2>1 DEF FlattenRuns
<1>5. q[n] = r[n]
  BY <1>1, <1>2, <1>4, SameFlatten
<1>6. q[n + 1] = q[n] \o more[n + 1]
  <2>1. n + 1 \in 1..(n + 1) /\ (n + 1) - 1 = n
    BY <1>1
  <2>2. QED
    BY <1>3, <2>1 DEF FlattenRuns
<1>7. QED
  BY <1>1, <1>2, <1>3, <1>5, <1>6 DEF more

\* The first list is in front of the others.
LEMMA FlattenFirst ==
  ASSUME NEW X, NEW lists \in Seq(Seq(X)), lists # << >>
  PROVE  FlattenSeq(lists) = lists[1] \o FlattenSeq(Tail(lists))
<1> DEFINE n == Len(lists) - 1
           rest == Tail(lists)
<1>1. /\ n \in Nat /\ Len(lists) = n + 1
      /\ rest \in Seq(Seq(X)) /\ Len(rest) = n
      /\ \A i \in 1..n : rest[i] = lists[i + 1] /\ rest[i] \in Seq(X)
      /\ lists[1] \in Seq(X)
  OBVIOUS
<1> HIDE DEF n, rest
<1>2. PICK r : /\ FlattenRuns(rest, n, r) /\ FlattenSeq(rest) = r[n]
               /\ \A i \in 0..n : r[i] \in Seq(X)
  BY <1>1, FlattenIsLoop
<1>3. PICK q : FlattenRuns(lists, n + 1, q) /\ FlattenSeq(lists) = q[n + 1]
  BY <1>1, FlattenIsLoop
<1> DEFINE S == {i \in Nat : q[i + 1] = lists[1] \o r[i]}
<1>4. 0 \in S
  <2>1. 1 \in 1..(n + 1) /\ 1 - 1 = 0
    BY <1>1
  <2>2. q[1] = << >> \o lists[1] /\ r[0] = << >>
    BY <1>2, <1>3, <2>1 DEF FlattenRuns
  <2>3. << >> \o lists[1] = lists[1] /\ lists[1] \o << >> = lists[1]
    BY <1>1, ConcatEmptySeq
  <2>4. q[0 + 1] = lists[1] \o r[0]
    BY <2>2, <2>3, 0 + 1 = 1
  <2>5. QED
    BY <2>4
<1>5. ASSUME NEW i \in 1..n, i - 1 \in S PROVE i \in S
  <2>1. i + 1 \in 1..(n + 1) /\ (i + 1) - 1 = i /\ (i - 1) + 1 = i /\ i - 1 \in 0..n
    BY <1>1
  <2>2. q[i + 1] = q[i] \o lists[i + 1]
    BY <1>3, <2>1 DEF FlattenRuns
  <2>3. q[i] = lists[1] \o r[i - 1]
    BY <1>5, <2>1
  <2>4. r[i] = r[i - 1] \o lists[i + 1] /\ r[i - 1] \in Seq(X) /\ lists[i + 1] \in Seq(X)
    BY <1>1, <1>2, <2>1 DEF FlattenRuns
  <2>5. q[i + 1] = lists[1] \o r[i]
    <3>1. (lists[1] \o r[i - 1]) \o lists[i + 1] = lists[1] \o (r[i - 1] \o lists[i + 1])
      <4> DEFINE a == lists[1]
                 b == r[i - 1]
                 c == lists[i + 1]
      <4>1. a \in Seq(X) /\ b \in Seq(X) /\ c \in Seq(X)
        BY <1>1, <2>4
      <4> HIDE DEF a, b, c
      <4>2. Join(Join(a, b), c) = Join(a, Join(b, c))
        BY <4>1, JoinsInAnyOrder
      <4>3. QED
        BY <4>2 DEF Join, a, b, c
    <3>2. QED
      BY <2>2, <2>3, <2>4, <3>1
  <2>6. i \in Nat
    BY <1>1
  <2>7. QED
    BY <2>5, <2>6
<1> HIDE DEF S
<1>6. 0..n \subseteq S
  BY <1>1, <1>4, <1>5, Counting
<1>7. q[n + 1] = lists[1] \o r[n]
  <2>1. n \in 0..n
    BY <1>1
  <2>2. QED
    BY <1>6, <2>1 DEF S
<1>8. QED
  BY <1>2, <1>3, <1>7 DEF rest

\* The same for a list of what a function gives for each element of another list.
Flattened(f, s) == FlattenSeq([i \in DOMAIN s |-> f[s[i]]])

\* Lists given by a function join to a list.
LEMMA MapType ==
  ASSUME NEW X, NEW A, NEW f \in [A -> Seq(X)], NEW s \in Seq(A)
  PROVE  /\ [i \in DOMAIN s |-> f[s[i]]] \in Seq(Seq(X))
         /\ Flattened(f, s) \in Seq(X)
<1> DEFINE m == [i \in DOMAIN s |-> f[s[i]]]
<1>1. Len(s) \in Nat /\ DOMAIN s = 1..Len(s) /\ \A i \in 1..Len(s) : s[i] \in A
  OBVIOUS
<1>2. m \in [1..Len(s) -> Seq(X)]
  BY <1>1
<1> HIDE DEF m
<1>3. m \in Seq(Seq(X))
  <2>1. m \in Seq(Seq(X)) <=> \E n \in Nat : m \in [1..n -> Seq(X)]
    BY SeqDef
  <2>2. QED
    BY <1>1, <1>2, <2>1
<1>4. QED
  BY <1>3, FlattenType DEF m, Flattened

\* Nothing gives nothing.
LEMMA MapEmpty ==
  ASSUME NEW f
  PROVE  Flattened(f, << >>) = << >>
<1>1. [i \in DOMAIN << >> |-> f[<< >>[i]]] = << >>
  OBVIOUS
<1>2. QED
  BY <1>1, FlattenEmpty DEF Flattened

\* What the last element gives comes last.
LEMMA MapAppend ==
  ASSUME NEW X, NEW A, NEW f \in [A -> Seq(X)], NEW s \in Seq(A), NEW x \in A
  PROVE  Flattened(f, Append(s, x)) = Join(Flattened(f, s), f[x])
<1> DEFINE m == [i \in DOMAIN s |-> f[s[i]]]
           more == [i \in DOMAIN Append(s, x) |-> f[Append(s, x)[i]]]
           n == Len(s)
<1>1. /\ n \in Nat /\ DOMAIN s = 1..n /\ DOMAIN Append(s, x) = 1..(n + 1)
      /\ \A i \in 1..n : Append(s, x)[i] = s[i]
      /\ Append(s, x)[n + 1] = x
      /\ Append(s, x) \in Seq(A)
      /\ f[x] \in Seq(X)
  OBVIOUS
<1>2. m \in Seq(Seq(X)) /\ more \in Seq(Seq(X))
  BY <1>1, MapType
<1>3. /\ DOMAIN m = 1..n /\ DOMAIN more = 1..(n + 1)
      /\ \A i \in 1..n : more[i] = m[i]
      /\ more[n + 1] = f[x]
  BY <1>1
<1> HIDE DEF m, more, n
<1>4. more = Append(m, f[x])
  <2>1. Len(m) = n /\ Len(more) = n + 1
    BY <1>1, <1>2, <1>3
  <2>2. /\ Append(m, f[x]) \in Seq(Seq(X)) /\ Len(Append(m, f[x])) = n + 1
        /\ \A i \in 1..n : Append(m, f[x])[i] = m[i]
        /\ Append(m, f[x])[n + 1] = f[x]
    BY <1>1, <1>2, <2>1, AppendProperties
  <2>3. \A i \in 1..(n + 1) : more[i] = Append(m, f[x])[i]
    BY <1>1, <1>3, <2>2
  <2>4. QED
    BY <1>2, <2>1, <2>2, <2>3, SeqEqual
<1>5. FlattenSeq(more) = FlattenSeq(m) \o f[x]
  BY <1>1, <1>2, <1>4, FlattenAppend
<1>6. QED
  BY <1>5 DEF m, more, Flattened, Join

\* What the first element gives comes first.
LEMMA MapFirst ==
  ASSUME NEW X, NEW A, NEW f \in [A -> Seq(X)], NEW s \in Seq(A), s # << >>
  PROVE  Flattened(f, s) = Join(f[s[1]], Flattened(f, Tail(s)))
<1> DEFINE m == [i \in DOMAIN s |-> f[s[i]]]
           rest == [i \in DOMAIN Tail(s) |-> f[Tail(s)[i]]]
           n == Len(s)
<1>1. /\ n \in Nat \ {0} /\ DOMAIN s = 1..n
      /\ Tail(s) \in Seq(A) /\ DOMAIN Tail(s) = 1..(n - 1)
      /\ \A i \in 1..(n - 1) : Tail(s)[i] = s[i + 1]
  OBVIOUS
<1>2. m \in Seq(Seq(X)) /\ rest \in Seq(Seq(X))
  BY <1>1, MapType
<1>3. /\ DOMAIN m = 1..n /\ DOMAIN rest = 1..(n - 1)
      /\ \A i \in 1..(n - 1) : i + 1 \in 1..n /\ rest[i] = m[i + 1]
      /\ m[1] = f[s[1]]
  BY <1>1
<1> HIDE DEF m, rest, n
<1>4. Len(m) = n /\ Len(rest) = n - 1 /\ m # << >>
  BY <1>1, <1>2, <1>3
<1>5. rest = Tail(m)
  <2>1. /\ Tail(m) \in Seq(Seq(X)) /\ Len(Tail(m)) = n - 1
        /\ \A i \in 1..(n - 1) : Tail(m)[i] = m[i + 1]
    BY <1>2, <1>4, HeadTailProperties
  <2>2. \A i \in 1..(n - 1) : rest[i] = Tail(m)[i]
    BY <1>3, <2>1
  <2>3. QED
    BY <1>2, <1>4, <2>1, <2>2, SeqEqual
<1>6. FlattenSeq(m) = m[1] \o FlattenSeq(rest)
  BY <1>2, <1>4, <1>5, FlattenFirst
<1>7. QED
  BY <1>3, <1>6 DEF m, rest, Flattened, Join
=============================================================================
