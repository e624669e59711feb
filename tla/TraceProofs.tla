----------------------------- MODULE TraceProofs -----------------------------
(***************************************************************************)
(* Proofs about the training trace, for traces of any length.              *)
(*                                                                         *)
(* The code goes through a trace with the previous commitment and the      *)
(* current model in variables of the loop; CommitmentAt and StateAt say    *)
(* what these are before each entry.  A function that is recursive over    *)
(* the steps (the builder, the models of AcceptedIsVerified, the opening   *)
(* of a commitment) is shown to be a given one: that one solves the        *)
(* equation, and by counting up there is no other.                         *)
(***************************************************************************)
EXTENDS Trace, TLAPS

\* A pass of the loop of build_trace_from.
TrainingPass(initial, es, s) == Trained(initial, s, es)

Passes == INSTANCE FoldTheorems WITH Step <- TrainingPass

-----------------------------------------------------------------------------
(* A list of entries                                                         *)

IsEntry(e) ==
  e = [previous_commitment |-> e.previous_commitment, step |-> e.step,
       commitment |-> e.commitment]

TrainingSteps ==
  [index : 0..StepsPerBlock + 1, seed : Seeds, state_before : ModelStates, state_after : ModelStates,
   derived : {"computed", "other"}]

Entries(es) ==
  /\ \E S : es \in Seq(S)
  /\ Len(es) <= StepsPerBlock + 1
  /\ \A i \in 1..Len(es) : IsEntry(es[i]) /\ es[i].step \in TrainingSteps

\* What the loops over a trace carry along, after k entries.
CommitmentAt(es, k) == IF k = 0 THEN NoCommitment ELSE es[k].commitment
StateAt(initial, es, k) == IF k = 0 THEN initial ELSE es[k].step.state_after

\* They are what the checks read from the entries so far.
LEMMA SoFar ==
  ASSUME NEW S, NEW es \in Seq(S), NEW k \in 0..Len(es), NEW initial
  PROVE  /\ LastCommitment(SubSeq(es, 1, k)) = CommitmentAt(es, k)
         /\ LastState(initial, SubSeq(es, 1, k)) = StateAt(initial, es, k)
<1> DEFINE s == SubSeq(es, 1, k)
<1>1. Len(s) = k
  OBVIOUS
<1>2. CASE k = 0
  <2>1. s = << >>
    BY <1>2
  <2>2. QED
    BY <1>2, <2>1 DEF LastCommitment, LastState, CommitmentAt, StateAt
<1>3. CASE k # 0
  <2>1. s # << >> /\ s[k] = es[k]
    BY <1>3
  <2>2. Last(s) = es[k]
    BY <1>1, <2>1 DEF Last
  <2>3. QED
    BY <1>3, <2>1, <2>2 DEF LastCommitment, LastState, CommitmentAt, StateAt
<1>4. QED
  BY <1>2, <1>3

\* The same for all entries.
LEMMA AtEnd ==
  ASSUME NEW S, NEW es \in Seq(S), NEW initial
  PROVE  /\ LastCommitment(es) = CommitmentAt(es, Len(es))
         /\ LastState(initial, es) = StateAt(initial, es, Len(es))
<1>1. SubSeq(es, 1, Len(es)) = es /\ Len(es) \in 0..Len(es)
  OBVIOUS
<1>2. QED
  BY <1>1, SoFar

\* One more entry leaves what comes before it.
LEMMA OneMore ==
  ASSUME NEW S, NEW es \in Seq(S), NEW e
  PROVE  /\ Append(es, e) \in Seq(S \cup {e})
         /\ Len(Append(es, e)) = Len(es) + 1
         /\ Append(es, e)[Len(es) + 1] = e
         /\ \A i \in 1..Len(es) : Append(es, e)[i] = es[i]
<1>1. es \in Seq(S \cup {e}) /\ e \in S \cup {e}
  OBVIOUS
<1>2. QED
  BY <1>1

LEMMA SameBefore ==
  ASSUME NEW S, NEW es \in Seq(S), NEW e, NEW initial, NEW k \in 0..Len(es)
  PROVE  /\ CommitmentAt(Append(es, e), k) = CommitmentAt(es, k)
         /\ StateAt(initial, Append(es, e), k) = StateAt(initial, es, k)
<1>1. k # 0 => k \in 1..Len(es)
  OBVIOUS
<1> DEFINE longer == Append(es, e)
<1>2. \A i \in 1..Len(es) : longer[i] = es[i]
  BY OneMore
<1> HIDE DEF longer
<1>3. QED
  BY <1>1, <1>2 DEF CommitmentAt, StateAt, longer

-----------------------------------------------------------------------------
(* Building                                                                  *)

\* The entry that is trained after k entries.
TrainedEntry(initial, s, es, k) ==
  [previous_commitment |-> CommitmentAt(es, k),
   step |-> Deterministic(s, k, StateAt(initial, es, k)),
   commitment |-> CommitStep(CommitmentAt(es, k), Deterministic(s, k, StateAt(initial, es, k)))]

\* A trace that build_trace_from builds, said entry by entry.
HonestEntries(initial, s, es) ==
  \A i \in 1..Len(es) : es[i] = TrainedEntry(initial, s, es, i - 1)

LEMMA TrainedIs ==
  ASSUME NEW S, NEW es \in Seq(S), NEW initial, NEW s
  PROVE  Trained(initial, s, es) = Append(es, TrainedEntry(initial, s, es, Len(es)))
BY AtEnd DEF Trained, TrainedEntry

\* The loop of build_trace_from goes through the beginnings of such a list and ends
\* with all of it.
LEMMA HonestIsBuilt ==
  ASSUME NEW S, NEW es \in Seq(S), NEW initial, NEW s, HonestEntries(initial, s, es)
  PROVE  BuildTraceFrom(initial, s, Len(es)) = TraceOf(initial, es)
<1> DEFINE n == Len(es)
           Pass(f, k) == IF k = 0 THEN << >> ELSE Trained(initial, s, f[k - 1])
           Solves(f) == f = [k \in 0..n |-> Pass(f, k)]
           begun == [k \in 0..n |-> SubSeq(es, 1, k)]
           built == CHOOSE f : Solves(f)
<1>1. n \in Nat /\ SubSeq(es, 1, 0) = << >> /\ SubSeq(es, 1, n) = es
  OBVIOUS
<1>2. ASSUME NEW k \in 1..n
      PROVE  Trained(initial, s, SubSeq(es, 1, k - 1)) = SubSeq(es, 1, k)
  <2> DEFINE before == SubSeq(es, 1, k - 1)
  <2>1. /\ before \in Seq(S) /\ Len(before) = k - 1 /\ k - 1 \in 0..Len(es)
        /\ SubSeq(es, 1, k) = Append(before, es[k])
    OBVIOUS
  <2>2. es[k] = TrainedEntry(initial, s, es, k - 1)
    BY DEF HonestEntries
  <2>3. /\ LastCommitment(before) = CommitmentAt(es, k - 1)
        /\ LastState(initial, before) = StateAt(initial, es, k - 1)
    BY <2>1, SoFar
  <2> HIDE DEF before
  <2>4. Trained(initial, s, before) = Append(before, es[k])
    BY <2>1, <2>2, <2>3 DEF Trained, TrainedEntry
  <2>5. QED
    BY <2>1, <2>4 DEF before
<1>3. Solves(begun)
  <2>1. ASSUME NEW k \in 0..n PROVE begun[k] = Pass(begun, k)
    <3>1. CASE k = 0
      BY <3>1, <1>1
    <3>2. CASE k # 0
      <4>1. k \in 1..n /\ k - 1 \in 0..n
        BY <3>2
      <4>2. begun[k - 1] = SubSeq(es, 1, k - 1) /\ begun[k] = SubSeq(es, 1, k)
        BY <4>1
      <4>3. QED
        BY <1>2, <3>2, <4>1, <4>2
    <3>3. QED
      BY <3>1, <3>2
  <2> DEFINE g == [k \in 0..n |-> Pass(begun, k)]
  <2>2. \A k \in 0..n : begun[k] = g[k]
    BY <2>1
  <2> HIDE DEF Pass
  <2>3. begun = g
    BY <2>2
  <2>4. QED
    BY <2>3
<1>4. Solves(built)
  <2> HIDE DEF Solves, begun
  <2>1. QED
    BY <1>3
<1>5. BuildTraceFrom(initial, s, n) = TraceOf(initial, built[n])
  BY DEF BuildTraceFrom
<1> HIDE DEF built
<1>6. built[n] = es
  <2> DEFINE T == {k \in Nat : built[k] = SubSeq(es, 1, k)}
  <2>1. \A k \in 0..n : built[k] = Pass(built, k)
    BY <1>4
  <2>2. 0 \in T
    <3>1. built[0] = Pass(built, 0)
      BY <1>1, <2>1
    <3>2. built[0] = << >>
      BY <3>1
    <3>3. QED
      BY <1>1, <3>2
  <2>3. ASSUME NEW k \in 1..n, k - 1 \in T PROVE k \in T
    <3>1. k \in 0..n /\ k # 0
      OBVIOUS
    <3>2. built[k] = Trained(initial, s, built[k - 1])
      BY <2>1, <3>1
    <3>3. built[k - 1] = SubSeq(es, 1, k - 1)
      BY <2>3
    <3>4. QED
      BY <1>2, <3>1, <3>2, <3>3
  <2>4. 0..n \subseteq T
    <3> HIDE DEF T
    <3>1. QED
      BY <1>1, <2>2, <2>3, Passes!Counting
  <2>5. QED
    BY <1>1, <2>4
<1>7. QED
  BY <1>5, <1>6

-----------------------------------------------------------------------------
(* Verifying                                                                 *)

\* validate_commitment_chain and validate_trace_continuity, without their loops.
LEMMA ChecksOfTrace ==
  ASSUME NEW S, NEW trace, trace.entries \in Seq(S)
  PROVE  LET es == trace.entries
         IN  /\ CommitmentChainOk(trace) <=>
                  /\ \A i \in 1..Len(es) :
                       /\ es[i].previous_commitment = CommitmentAt(es, i - 1)
                       /\ es[i].commitment = CommitStep(CommitmentAt(es, i - 1), es[i].step)
                  /\ trace.root = CommitmentAt(es, Len(es))
             /\ TraceContinuous(trace) <=>
                  /\ \A i \in 1..Len(es) :
                       es[i].step.state_before = StateAt(trace.initial_model, es, i - 1)
                  /\ trace.candidate_model = StateAt(trace.initial_model, es, Len(es))
<1> DEFINE es == trace.entries
<1>1. es \in Seq(S)
  OBVIOUS
<1> HIDE DEF es
<1>2. \A i \in 1..Len(es) :
        /\ LastCommitment(SubSeq(es, 1, i - 1)) = CommitmentAt(es, i - 1)
        /\ LastState(trace.initial_model, SubSeq(es, 1, i - 1))
             = StateAt(trace.initial_model, es, i - 1)
  <2>1. \A i \in 1..Len(es) : i - 1 \in 0..Len(es)
    BY <1>1
  <2>2. QED
    BY <1>1, <2>1, SoFar
<1>3. /\ LastCommitment(es) = CommitmentAt(es, Len(es))
      /\ LastState(trace.initial_model, es) = StateAt(trace.initial_model, es, Len(es))
  BY <1>1, AtEnd
<1>4. CommitmentChainOk(trace) <=>
        /\ \A i \in 1..Len(es) :
             /\ es[i].previous_commitment = CommitmentAt(es, i - 1)
             /\ es[i].commitment = CommitStep(CommitmentAt(es, i - 1), es[i].step)
        /\ trace.root = CommitmentAt(es, Len(es))
  BY <1>2, <1>3 DEF CommitmentChainOk, es
<1>5. TraceContinuous(trace) <=>
        /\ \A i \in 1..Len(es) :
             es[i].step.state_before = StateAt(trace.initial_model, es, i - 1)
        /\ trace.candidate_model = StateAt(trace.initial_model, es, Len(es))
  BY <1>2, <1>3 DEF TraceContinuous, es
<1>6. QED
  BY <1>4, <1>5 DEF es

\* A sampled step is opened as it was committed: what is checked of it is that the seed
\* computes it.
LEMMA SampleOfCommitted ==
  ASSUME NEW s, NEW index, NEW entry
  PROVE  SampleOk(VerifySample(s, index, entry, entry)) <=>
           /\ entry.commitment = CommitStep(entry.previous_commitment, entry.step)
           /\ entry.step.index = index
           /\ entry.step = Deterministic(s, index, entry.step.state_before)
BY DEF SampleOk, VerifySample

\* Another step under the commitment of a step is found out.
LEMMA SampleOfTampered ==
  ASSUME NEW s, NEW index, NEW entry, NEW opened,
         entry.commitment = CommitStep(entry.previous_commitment, entry.step),
         opened.step # entry.step
  PROVE  ~SampleOk(VerifySample(s, index, entry, opened))
<1>1. CommitStep(entry.previous_commitment, opened.step) # entry.commitment
  BY DEF CommitStep
<1>2. QED
  BY <1>1 DEF SampleOk, VerifySample

\* An honest list passes both loops, and every sample of it is accepted.
LEMMA HonestPasses ==
  ASSUME NEW S, NEW es \in Seq(S), NEW initial, NEW s, HonestEntries(initial, s, es)
  PROVE  /\ CommitmentChainOk(TraceOf(initial, es))
         /\ TraceContinuous(TraceOf(initial, es))
         /\ \A i \in 0..Len(es) - 1 : SampleOk(VerifySample(s, i, es[i + 1], es[i + 1]))
<1> DEFINE trace == TraceOf(initial, es)
<1>1. /\ trace.entries = es
      /\ trace.initial_model = initial
      /\ trace.root = CommitmentAt(es, Len(es))
      /\ trace.candidate_model = StateAt(initial, es, Len(es))
  BY AtEnd DEF TraceOf
<1> HIDE DEF trace
<1>2. \A i \in 1..Len(es) :
        /\ es[i].previous_commitment = CommitmentAt(es, i - 1)
        /\ es[i].step = Deterministic(s, i - 1, StateAt(initial, es, i - 1))
        /\ es[i].commitment = CommitStep(CommitmentAt(es, i - 1), es[i].step)
  <2> TAKE i \in 1..Len(es)
  <2>1. es[i] = TrainedEntry(initial, s, es, i - 1)
    BY DEF HonestEntries
  <2>2. QED
    BY <2>1 DEF TrainedEntry
<1>3. \A i \in 1..Len(es) :
        es[i].step.index = i - 1 /\ es[i].step.state_before = StateAt(initial, es, i - 1)
  <2> TAKE i \in 1..Len(es)
  <2>1. es[i].step = Deterministic(s, i - 1, StateAt(initial, es, i - 1))
    BY <1>2
  <2>2. QED
    BY <2>1 DEF Deterministic
<1>4. CommitmentChainOk(trace) /\ TraceContinuous(trace)
  BY <1>1, <1>2, <1>3, ChecksOfTrace
<1>5. ASSUME NEW i \in 0..Len(es) - 1
      PROVE  SampleOk(VerifySample(s, i, es[i + 1], es[i + 1]))
  <2>1. i + 1 \in 1..Len(es) /\ (i + 1) - 1 = i
    OBVIOUS
  <2> DEFINE entry == es[i + 1]
  <2>2. /\ entry.previous_commitment = CommitmentAt(es, i)
        /\ entry.commitment = CommitStep(CommitmentAt(es, i), entry.step)
        /\ entry.step.index = i
        /\ entry.step = Deterministic(s, i, entry.step.state_before)
    BY <1>2, <1>3, <2>1
  <2> HIDE DEF entry
  <2>3. SampleOk(VerifySample(s, i, entry, entry))
    BY <2>2, SampleOfCommitted
  <2>4. QED
    BY <2>3 DEF entry
<1>6. QED
  BY <1>4, <1>5 DEF trace

-----------------------------------------------------------------------------
(* What acceptance says                                                      *)

\* A list that validate_block_after accepts on a model, with the sampled steps of a seed.
AcceptedEntries(model, s, sampled, es) ==
  /\ Len(es) = StepsPerBlock
  /\ \A i \in 1..StepsPerBlock :
       /\ es[i].previous_commitment = CommitmentAt(es, i - 1)
       /\ es[i].commitment = CommitStep(CommitmentAt(es, i - 1), es[i].step)
       /\ es[i].step.state_before = StateAt(model, es, i - 1)
       /\ i - 1 \in sampled => es[i].step = Deterministic(s, i - 1, StateAt(model, es, i - 1))

SampledOf(b) == SampleIndices(StepsPerBlock, samples_per_block, b.sampling_entropy)

LEMMA AcceptedFacts ==
  ASSUME NEW S, NEW model, NEW b, b.trace.entries \in Seq(S), ValidateTrace(model, b)
  PROVE  LET es == b.trace.entries
         IN  /\ AcceptedEntries(model, b.training_seed, SampledOf(b), es)
             /\ b.trace.initial_model = model /\ b.model_before = model
             /\ b.trace.candidate_model = StateAt(model, es, StepsPerBlock)
             /\ b.model_after = b.trace.candidate_model
             /\ b.trace.root = CommitmentAt(es, StepsPerBlock)
             /\ b.trace_root = b.trace.root
<1> DEFINE es == b.trace.entries
<1>1. /\ b.model_before = model
      /\ b.trace.initial_model = b.model_before
      /\ b.trace.candidate_model = b.model_after
      /\ Len(es) = StepsPerBlock
      /\ b.sample_count = samples_per_block
      /\ b.trace.root = b.trace_root
      /\ CommitmentChainOk(b.trace)
      /\ TraceContinuous(b.trace)
      /\ \A i \in SampleIndices(Len(es), b.sample_count, b.sampling_entropy) :
           SampleOk(VerifySample(b.training_seed, i, es[i + 1], es[i + 1]))
  BY DEF ValidateTrace
<1>2. /\ \A i \in 1..Len(es) :
           /\ es[i].previous_commitment = CommitmentAt(es, i - 1)
           /\ es[i].commitment = CommitStep(CommitmentAt(es, i - 1), es[i].step)
           /\ es[i].step.state_before = StateAt(b.trace.initial_model, es, i - 1)
      /\ b.trace.root = CommitmentAt(es, Len(es))
      /\ b.trace.candidate_model = StateAt(b.trace.initial_model, es, Len(es))
  <2> DEFINE trace == b.trace
  <2>1. trace.entries \in Seq(S) /\ CommitmentChainOk(trace) /\ TraceContinuous(trace)
    BY <1>1
  <2>2. es = trace.entries
    OBVIOUS
  <2> HIDE DEF trace
  <2>3. /\ \A i \in 1..Len(trace.entries) :
             /\ trace.entries[i].previous_commitment = CommitmentAt(trace.entries, i - 1)
             /\ trace.entries[i].commitment
                  = CommitStep(CommitmentAt(trace.entries, i - 1), trace.entries[i].step)
        /\ trace.root = CommitmentAt(trace.entries, Len(trace.entries))
    BY <2>1, ChecksOfTrace
  <2>4. /\ \A i \in 1..Len(trace.entries) :
             trace.entries[i].step.state_before
               = StateAt(trace.initial_model, trace.entries, i - 1)
        /\ trace.candidate_model
             = StateAt(trace.initial_model, trace.entries, Len(trace.entries))
    BY <2>1, ChecksOfTrace
  <2>5. QED
    BY <2>3, <2>4 DEF trace
<1> HIDE DEF es
<1>3. ASSUME NEW i \in 1..StepsPerBlock, i - 1 \in SampledOf(b)
      PROVE  es[i].step = Deterministic(b.training_seed, i - 1, StateAt(model, es, i - 1))
  <2>1. (i - 1) + 1 = i
    OBVIOUS
  <2>2. SampleOk(VerifySample(b.training_seed, i - 1, es[i], es[i]))
    BY <1>1, <1>3, <2>1 DEF SampledOf
  <2>3. es[i].step = Deterministic(b.training_seed, i - 1, es[i].step.state_before)
    BY <2>2, SampleOfCommitted
  <2>4. QED
    BY <1>1, <1>2, <2>3
<1>4. AcceptedEntries(model, b.training_seed, SampledOf(b), es)
  BY <1>1, <1>2, <1>3 DEF AcceptedEntries
<1>5. QED
  BY <1>1, <1>2, <1>4 DEF es

\* With every step sampled, an accepted list is the one that is built.
LEMMA AllSampledIsBuilt ==
  ASSUME NEW S, NEW model, NEW s, NEW es \in Seq(S), \A i \in 1..Len(es) : IsEntry(es[i]),
         AcceptedEntries(model, s, 0..StepsPerBlock - 1, es)
  PROVE  BuildTraceFrom(model, s, StepsPerBlock) = TraceOf(model, es)
<1>1. StepsPerBlock \in Nat /\ Len(es) = StepsPerBlock
  BY TraceAssumption DEF AcceptedEntries
<1>2. ASSUME NEW i \in 1..Len(es)
      PROVE  es[i] = TrainedEntry(model, s, es, i - 1)
  <2>1. i \in 1..StepsPerBlock /\ i - 1 \in 0..StepsPerBlock - 1
    BY <1>1
  <2>2. /\ es[i].previous_commitment = CommitmentAt(es, i - 1)
        /\ es[i].commitment = CommitStep(CommitmentAt(es, i - 1), es[i].step)
        /\ es[i].step = Deterministic(s, i - 1, StateAt(model, es, i - 1))
    BY <2>1 DEF AcceptedEntries
  <2>3. IsEntry(es[i])
    OBVIOUS
  <2>4. QED
    BY <2>2, <2>3 DEF IsEntry, TrainedEntry
<1>3. HonestEntries(model, s, es)
  BY <1>2 DEF HonestEntries
<1>4. QED
  BY <1>1, <1>3, HonestIsBuilt

\* The models of an accepted list: computed where a step is sampled, as sent elsewhere.
\* This is the recursive function of AcceptedIsVerified.
IsModels(model, s, sampled, es, f) ==
  f = [i \in 0..StepsPerBlock |->
         IF i = 0 THEN model
         ELSE IF i - 1 \in sampled THEN NextModel[<<s, i - 1, f[i - 1]>>]
         ELSE es[i].step.state_after]

LEMMA ModelsOfAccepted ==
  ASSUME NEW S, NEW model, NEW s, NEW sampled, NEW es \in Seq(S),
         AcceptedEntries(model, s, sampled, es)
  PROVE  (CHOOSE f : IsModels(model, s, sampled, es, f))[StepsPerBlock]
           = StateAt(model, es, StepsPerBlock)
<1> DEFINE n == StepsPerBlock
           At(f, i) == IF i = 0 THEN model
                       ELSE IF i - 1 \in sampled THEN NextModel[<<s, i - 1, f[i - 1]>>]
                       ELSE es[i].step.state_after
           states == [i \in 0..n |-> StateAt(model, es, i)]
           chosen == CHOOSE f : IsModels(model, s, sampled, es, f)
<1>1. n \in Nat
  BY TraceAssumption
<1>2. ASSUME NEW i \in 1..n, i - 1 \in sampled
      PROVE  StateAt(model, es, i) = NextModel[<<s, i - 1, StateAt(model, es, i - 1)>>]
  <2>1. es[i].step = Deterministic(s, i - 1, StateAt(model, es, i - 1))
    BY <1>2 DEF AcceptedEntries
  <2>2. es[i].step.state_after = NextModel[<<s, i - 1, StateAt(model, es, i - 1)>>]
    BY <2>1 DEF Deterministic
  <2>3. QED
    BY <2>2 DEF StateAt
<1>3. IsModels(model, s, sampled, es, states)
  <2>1. ASSUME NEW i \in 0..n PROVE states[i] = At(states, i)
    <3>1. CASE i = 0
      BY <3>1 DEF StateAt
    <3>2. CASE i # 0
      <4>1. i \in 1..n /\ i - 1 \in 0..n
        BY <1>1, <3>2
      <4>2. states[i] = StateAt(model, es, i) /\ states[i - 1] = StateAt(model, es, i - 1)
        BY <4>1
      <4>3. StateAt(model, es, i) = es[i].step.state_after
        BY <3>2 DEF StateAt
      <4> HIDE DEF states
      <4>4. QED
        BY <1>2, <3>2, <4>1, <4>2, <4>3
    <3>3. QED
      BY <3>1, <3>2
  <2> DEFINE g == [i \in 0..n |-> At(states, i)]
  <2>2. \A i \in 0..n : states[i] = g[i]
    BY <2>1
  <2> HIDE DEF At
  <2>3. states = g
    BY <2>2
  <2>4. QED
    BY <2>3 DEF IsModels, At
<1>4. IsModels(model, s, sampled, es, chosen)
  <2> HIDE DEF states
  <2>1. QED
    BY <1>3
<1> HIDE DEF chosen
<1>5. \A i \in 0..n : chosen[i] = At(chosen, i)
  BY <1>4 DEF IsModels
<1> DEFINE T == {i \in Nat : chosen[i] = StateAt(model, es, i)}
<1>6. 0 \in T
  <2>1. 0 \in 0..n
    BY <1>1
  <2>2. chosen[0] = At(chosen, 0)
    BY <1>5, <2>1
  <2>3. QED
    BY <2>2 DEF StateAt
<1>7. ASSUME NEW i \in 1..n, i - 1 \in T PROVE i \in T
  <2>1. i \in 0..n /\ i # 0 /\ i \in Nat
    OBVIOUS
  <2>2. chosen[i - 1] = StateAt(model, es, i - 1)
    BY <1>7
  <2>3. StateAt(model, es, i) = es[i].step.state_after
    BY <2>1 DEF StateAt
  <2>4. chosen[i] = StateAt(model, es, i)
    BY <1>2, <1>5, <2>1, <2>2, <2>3
  <2>5. QED
    BY <2>1, <2>4
<1>8. 0..n \subseteq T
  <2> HIDE DEF T
  <2>1. QED
    BY <1>1, <1>6, <1>7, Passes!Counting
<1>9. QED
  BY <1>1, <1>8 DEF chosen

-----------------------------------------------------------------------------
(* What the header fixes                                                     *)

LEMMA TailLonger ==
  ASSUME NEW T, NEW t \in Seq(T), NEW k \in 1..Len(t)
  PROVE  <<t[k]>> \o SubSeq(t, k + 1, Len(t)) = SubSeq(t, k, Len(t))
<1> DEFINE l == <<t[k]>> \o SubSeq(t, k + 1, Len(t))
           r == SubSeq(t, k, Len(t))
<1>1. <<t[k]>> \in Seq(T) /\ Len(<<t[k]>>) = 1 /\ <<t[k]>>[1] = t[k]
  OBVIOUS
<1>2. /\ SubSeq(t, k + 1, Len(t)) \in Seq(T)
      /\ Len(SubSeq(t, k + 1, Len(t))) = Len(t) - k
      /\ \A i \in 1..Len(t) - k : SubSeq(t, k + 1, Len(t))[i] = t[k + i]
  OBVIOUS
<1>3. r \in Seq(T) /\ Len(r) = Len(t) - k + 1 /\ \A i \in 1..Len(t) - k + 1 : r[i] = t[k + i - 1]
  OBVIOUS
<1>4. l \in Seq(T) /\ Len(l) = Len(t) - k + 1
  BY <1>1, <1>2
<1>5. ASSUME NEW i \in 1..Len(t) - k + 1 PROVE l[i] = t[k + i - 1]
  BY <1>1, <1>2
<1> HIDE DEF l, r
<1>6. l = r
  BY <1>3, <1>4, <1>5
<1>7. QED
  BY <1>6 DEF l, r

StepsOf(es) == [i \in 1..Len(es) |-> es[i].step]

\* A pass of Opening over a commitment, and the equation it solves.
Opened(o) ==
  IF o.rest = NoCommitment THEN o
  ELSE [rest |-> o.rest[1], steps |-> <<o.rest[2]>> \o o.steps]

IsOpening(commitment, f) ==
  f = [n \in 0..StepsPerBlock + 1 |->
         IF n = 0 THEN [rest |-> commitment, steps |-> << >>] ELSE Opened(f[n - 1])]

\* What is open of a list after k passes: its last k steps.
OpenedSteps(es, k) ==
  [rest |-> CommitmentAt(es, Len(es) - k), steps |-> SubSeq(StepsOf(es), Len(es) - k + 1, Len(es))]

LEMMA OpenOne ==
  ASSUME NEW S, NEW es \in Seq(S), NEW k \in 1..Len(es),
         \A i \in 1..Len(es) : es[i].commitment = CommitStep(CommitmentAt(es, i - 1), es[i].step)
  PROVE  Opened(OpenedSteps(es, k - 1)) = OpenedSteps(es, k)
<1> DEFINE m == Len(es) - k + 1
           o == OpenedSteps(es, k - 1)
           st == StepsOf(es)
<1>1. m \in 1..Len(es) /\ m - 1 = Len(es) - k /\ m = Len(es) - (k - 1) /\ m # 0
  OBVIOUS
<1>2. /\ st \in Seq({es[i].step : i \in 1..Len(es)})
      /\ Len(st) = Len(es) /\ st[m] = es[m].step
  BY <1>1 DEF StepsOf
<1> HIDE DEF m
<1>3. o.rest = CommitmentAt(es, m) /\ o.steps = SubSeq(st, m + 1, Len(es))
  BY <1>1 DEF OpenedSteps
<1>4. o.rest = <<CommitmentAt(es, m - 1), es[m].step>>
  BY <1>1, <1>3 DEF CommitmentAt, CommitStep
<1> HIDE DEF o, st
<1>5. o.rest # NoCommitment /\ o.rest[1] = CommitmentAt(es, m - 1) /\ o.rest[2] = es[m].step
  BY <1>4 DEF NoCommitment
<1>6. <<es[m].step>> \o SubSeq(st, m + 1, Len(es)) = SubSeq(st, m, Len(es))
  BY <1>1, <1>2, TailLonger
<1>7. Opened(o) = [rest |-> CommitmentAt(es, m - 1), steps |-> SubSeq(st, m, Len(es))]
  BY <1>3, <1>5, <1>6 DEF Opened
<1>8. OpenedSteps(es, k) = [rest |-> CommitmentAt(es, m - 1), steps |-> SubSeq(st, m, Len(es))]
  BY <1>1 DEF OpenedSteps, m, st
<1>9. QED
  BY <1>7, <1>8 DEF o

\* A commitment of a list that has been chained stands for the steps of the list.
LEMMA OpeningIsSteps ==
  ASSUME NEW S, NEW es \in Seq(S), Len(es) = StepsPerBlock,
         \A i \in 1..Len(es) : es[i].commitment = CommitStep(CommitmentAt(es, i - 1), es[i].step)
  PROVE  Opening(CommitmentAt(es, StepsPerBlock)) = StepsOf(es)
<1> DEFINE n == StepsPerBlock
           c == CommitmentAt(es, n)
           st == StepsOf(es)
           At(f, k) == IF k = 0 THEN [rest |-> c, steps |-> << >>] ELSE Opened(f[k - 1])
           Upto(k) == IF k > n THEN n ELSE k
           states == [k \in 0..n + 1 |-> OpenedSteps(es, Upto(k))]
           chosen == CHOOSE f : IsOpening(c, f)
<1>1. n \in Nat
  BY TraceAssumption
<1>2. OpenedSteps(es, 0) = [rest |-> c, steps |-> << >>]
  <2>1. st \in Seq({es[i].step : i \in 1..Len(es)}) /\ Len(st) = n
    BY <1>1 DEF StepsOf
  <2> HIDE DEF st
  <2>2. SubSeq(st, n - 0 + 1, n) = << >>
    BY <1>1, <2>1
  <2>3. QED
    BY <1>1, <2>2 DEF OpenedSteps, st
<1>3. Opened(OpenedSteps(es, n)) = OpenedSteps(es, n)
  <2>1. OpenedSteps(es, n).rest = NoCommitment
    BY <1>1 DEF OpenedSteps, CommitmentAt
  <2>2. QED
    BY <2>1 DEF Opened
<1>4. OpenedSteps(es, n).steps = st
  <2>1. st \in Seq({es[i].step : i \in 1..Len(es)}) /\ Len(st) = n
    BY <1>1 DEF StepsOf
  <2> HIDE DEF st
  <2>2. SubSeq(st, n - n + 1, n) = st
    BY <1>1, <2>1
  <2>3. QED
    BY <2>2 DEF OpenedSteps, st
<1> HIDE DEF c, st
<1>5. IsOpening(c, states)
  <2>1. ASSUME NEW k \in 0..n + 1 PROVE states[k] = At(states, k)
    <3>1. CASE k = 0
      <4>1. Upto(k) = 0
        BY <1>1, <3>1
      <4>2. QED
        BY <1>2, <3>1, <4>1
    <3>2. CASE k \in 1..n
      <4>1. k - 1 \in 0..n + 1 /\ Upto(k) = k /\ Upto(k - 1) = k - 1
        BY <1>1, <3>2
      <4>2. Opened(OpenedSteps(es, k - 1)) = OpenedSteps(es, k)
        BY <3>2, OpenOne
      <4>3. states[k] = OpenedSteps(es, k) /\ states[k - 1] = OpenedSteps(es, k - 1)
        BY <4>1
      <4> HIDE DEF states
      <4>4. QED
        BY <1>1, <3>2, <4>2, <4>3
    <3>3. CASE k = n + 1
      <4>1. k - 1 \in 0..n + 1 /\ Upto(k) = n /\ Upto(k - 1) = n /\ k - 1 = n
        BY <1>1, <3>3
      <4>2. states[k] = OpenedSteps(es, n) /\ states[k - 1] = OpenedSteps(es, n)
        BY <4>1
      <4> HIDE DEF states
      <4>3. QED
        BY <1>1, <1>3, <3>3, <4>2
    <3>4. QED
      BY <1>1, <3>1, <3>2, <3>3
  <2> DEFINE g == [k \in 0..n + 1 |-> At(states, k)]
  <2>2. \A k \in 0..n + 1 : states[k] = g[k]
    BY <2>1
  <2> HIDE DEF At
  <2>3. states = g
    BY <2>2
  <2>4. QED
    BY <2>3 DEF IsOpening, At
<1>6. IsOpening(c, chosen)
  <2> HIDE DEF states
  <2>1. QED
    BY <1>5
<1>7. Opening(c) = chosen[n + 1].steps
  BY DEF Opening, IsOpening, Opened
<1> HIDE DEF chosen, states
<1>8. \A k \in 0..n + 1 : chosen[k] = At(chosen, k)
  BY <1>6 DEF IsOpening
<1>9. \A k \in 0..n + 1 : states[k] = At(states, k)
  BY <1>5 DEF IsOpening
<1> DEFINE T == {k \in Nat : chosen[k] = states[k]}
<1>10. 0 \in T
  <2>1. 0 \in 0..n + 1
    BY <1>1
  <2>2. QED
    BY <1>8, <1>9, <2>1
<1>11. ASSUME NEW k \in 1..n + 1, k - 1 \in T PROVE k \in T
  <2>1. k \in 0..n + 1 /\ k # 0 /\ k \in Nat
    OBVIOUS
  <2>2. chosen[k - 1] = states[k - 1]
    BY <1>11
  <2>3. QED
    BY <1>8, <1>9, <2>1, <2>2
<1>12. 0..n + 1 \subseteq T
  <2>1. n + 1 \in Nat
    BY <1>1
  <2> HIDE DEF T
  <2>2. QED
    BY <2>1, <1>10, <1>11, Passes!Counting
<1>13. chosen[n + 1] = OpenedSteps(es, n)
  <2>1. n + 1 \in 0..n + 1 /\ Upto(n + 1) = n
    BY <1>1
  <2>2. QED
    BY <1>12, <2>1 DEF states
<1>14. QED
  BY <1>4, <1>7, <1>13 DEF c, st

-----------------------------------------------------------------------------
\* The entries that the header's commitment is opened to are put together again.
\* This is the recursive function of Rebuilt.
IsRebuilt(steps, f) ==
  f = [n \in 0..Len(steps) |->
         IF n = 0 THEN << >>
         ELSE LET previous == LastCommitment(f[n - 1])
              IN  Append(f[n - 1], [previous_commitment |-> previous, step |-> steps[n],
                                    commitment |-> CommitStep(previous, steps[n])])]

LEMMA RebuiltIsList ==
  ASSUME NEW S, NEW es \in Seq(S),
         \A i \in 1..Len(es) :
           /\ IsEntry(es[i])
           /\ es[i].previous_commitment = CommitmentAt(es, i - 1)
           /\ es[i].commitment = CommitStep(CommitmentAt(es, i - 1), es[i].step)
  PROVE  (CHOOSE f : IsRebuilt(StepsOf(es), f))[Len(es)] = es
<1> DEFINE n == Len(es)
           st == StepsOf(es)
           Entry(f, k) == [previous_commitment |-> LastCommitment(f[k - 1]), step |-> st[k],
                           commitment |-> CommitStep(LastCommitment(f[k - 1]), st[k])]
           At(f, k) == IF k = 0 THEN << >> ELSE Append(f[k - 1], Entry(f, k))
           begun == [k \in 0..n |-> SubSeq(es, 1, k)]
           chosen == CHOOSE f : IsRebuilt(st, f)
<1>1. /\ n \in Nat /\ SubSeq(es, 1, 0) = << >> /\ SubSeq(es, 1, n) = es
  OBVIOUS
<1>2. Len(st) = n /\ \A i \in 1..n : st[i] = es[i].step
  <2>1. st \in Seq({es[i].step : i \in 1..Len(es)})
    BY DEF StepsOf
  <2>2. QED
    BY <2>1, <1>1 DEF StepsOf
<1> HIDE DEF st
<1>3. ASSUME NEW k \in 1..n
      PROVE  Append(SubSeq(es, 1, k - 1), Entry(begun, k)) = SubSeq(es, 1, k)
  <2>1. /\ k - 1 \in 0..n /\ SubSeq(es, 1, k) = Append(SubSeq(es, 1, k - 1), es[k])
    OBVIOUS
  <2>2. begun[k - 1] = SubSeq(es, 1, k - 1)
    BY <2>1
  <2>3. LastCommitment(begun[k - 1]) = CommitmentAt(es, k - 1)
    BY <2>1, <2>2, SoFar
  <2> HIDE DEF begun
  <2>4. Entry(begun, k) = es[k]
    BY <1>2, <2>3 DEF IsEntry
  <2>5. QED
    BY <2>1, <2>4
<1>4. IsRebuilt(st, begun)
  <2>1. ASSUME NEW k \in 0..n PROVE begun[k] = At(begun, k)
    <3>1. CASE k = 0
      BY <3>1, <1>1
    <3>2. CASE k # 0
      <4>1. k \in 1..n /\ k - 1 \in 0..n
        BY <3>2, <1>1
      <4>2. begun[k - 1] = SubSeq(es, 1, k - 1) /\ begun[k] = SubSeq(es, 1, k)
        BY <4>1
      <4> HIDE DEF begun, Entry
      <4>3. QED
        BY <1>3, <3>2, <4>1, <4>2
    <3>3. QED
      BY <3>1, <3>2
  <2> DEFINE g == [k \in 0..n |-> At(begun, k)]
  <2>2. \A k \in 0..n : begun[k] = g[k]
    BY <2>1
  <2> HIDE DEF At
  <2>3. begun = g
    BY <2>2
  <2>4. g = [k \in 0..Len(st) |->
               IF k = 0 THEN << >>
               ELSE LET previous == LastCommitment(begun[k - 1])
                    IN  Append(begun[k - 1], [previous_commitment |-> previous, step |-> st[k],
                                              commitment |-> CommitStep(previous, st[k])])]
    <3> HIDE DEF begun
    <3>1. QED
      BY <1>2 DEF At
  <2> HIDE DEF g, begun
  <2>5. QED
    BY <2>3, <2>4 DEF IsRebuilt
<1>5. IsRebuilt(st, chosen)
  <2> HIDE DEF begun
  <2>1. QED
    BY <1>4
<1> HIDE DEF chosen
<1>6. \A k \in 0..n : chosen[k] = At(chosen, k)
  BY <1>2, <1>5 DEF IsRebuilt
<1> DEFINE T == {k \in Nat : chosen[k] = begun[k]}
<1>7. 0 \in T
  <2>1. 0 \in 0..n
    BY <1>1
  <2>2. chosen[0] = << >> /\ begun[0] = << >>
    BY <1>1, <1>6, <2>1
  <2>3. QED
    BY <2>2
<1>8. ASSUME NEW k \in 1..n, k - 1 \in T PROVE k \in T
  <2>1. k \in 0..n /\ k # 0 /\ k - 1 \in 0..n /\ k \in Nat
    BY <1>1
  <2>2. begun[k - 1] = SubSeq(es, 1, k - 1) /\ begun[k] = SubSeq(es, 1, k)
    BY <2>1
  <2>3. chosen[k - 1] = begun[k - 1]
    BY <1>8
  <2> HIDE DEF begun
  <2>4. chosen[k] = Append(chosen[k - 1], Entry(chosen, k))
    BY <1>6, <2>1
  <2>5. Entry(chosen, k) = Entry(begun, k)
    BY <2>3
  <2>6. chosen[k] = begun[k]
    BY <1>3, <2>2, <2>3, <2>4, <2>5
  <2>7. QED
    BY <2>1, <2>6
<1>9. 0..n \subseteq T
  <2> HIDE DEF T
  <2>1. QED
    BY <1>1, <1>7, <1>8, Passes!Counting
<1>10. chosen[n] = es
  <2>1. n \in T
    BY <1>1, <1>9
  <2>2. n \in 0..n
    BY <1>1
  <2>3. QED
    BY <1>1, <2>1, <2>2
<1>11. QED
  BY <1>10 DEF chosen, st

\* A header, with the models and the root that are checked, determines its trace.
LEMMA HeaderRebuilds ==
  ASSUME NEW S, NEW model, NEW s, NEW sampled, NEW es \in Seq(S), NEW header,
         AcceptedEntries(model, s, sampled, es),
         \A i \in 1..Len(es) : IsEntry(es[i]),
         header.trace_root = CommitmentAt(es, StepsPerBlock)
  PROVE  Rebuilt(header)
           = [initial_model |-> header.model_before, candidate_model |-> header.model_after,
              entries |-> es, root |-> header.trace_root]
<1>1. /\ Len(es) = StepsPerBlock
      /\ \A i \in 1..Len(es) :
           /\ es[i].previous_commitment = CommitmentAt(es, i - 1)
           /\ es[i].commitment = CommitStep(CommitmentAt(es, i - 1), es[i].step)
  BY DEF AcceptedEntries
<1>2. Opening(header.trace_root) = StepsOf(es)
  BY <1>1, OpeningIsSteps
<1> DEFINE chosen == CHOOSE f : IsRebuilt(StepsOf(es), f)
<1>3. chosen[Len(es)] = es
  BY <1>1, RebuiltIsList
<1>4. Len(StepsOf(es)) = Len(es)
  <2>1. StepsOf(es) \in Seq({es[i].step : i \in 1..Len(es)})
    BY DEF StepsOf
  <2>2. QED
    BY <2>1 DEF StepsOf
<1>5. Rebuilt(header)
        = [initial_model |-> header.model_before, candidate_model |-> header.model_after,
           entries |-> chosen[Len(StepsOf(es))], root |-> header.trace_root]
  BY <1>2 DEF Rebuilt, IsRebuilt
<1> HIDE DEF chosen
<1>6. QED
  BY <1>3, <1>4, <1>5

-----------------------------------------------------------------------------
(* The invariant                                                             *)

TraceTypes ==
  /\ samples_per_block \in SampleCounts
  /\ parent_model \in ModelStates
  /\ seed \in Seeds
  /\ deviations \in Nat
  /\ Entries(entries)

\* Who never deviated has built an honest trace so far, and sealed that one.
HonestSoFar == deviations = 0 => HonestEntries(parent_model, seed, entries)

SealedIsBuilt ==
  block # NoBlock =>
    /\ block.sealed
    /\ block.sampling_entropy \in Entropies
    /\ block.trace = [initial_model |-> block.trace.initial_model,
                      candidate_model |-> block.trace.candidate_model,
                      entries |-> entries, root |-> block.trace.root]
    /\ deviations = 0 => block = SealedBlock(TraceOf(parent_model, entries), block.sampling_entropy)

TraceInv == TraceTypes /\ HonestSoFar /\ SealedIsBuilt

\* A model comes out of a list of entries of the right type.
LEMMA LastStateIsModel ==
  ASSUME NEW es, Entries(es), NEW initial \in ModelStates
  PROVE  LastState(initial, es) \in ModelStates
<1>1. PICK S : es \in Seq(S)
  BY DEF Entries
<1>2. LastState(initial, es) = StateAt(initial, es, Len(es))
  BY <1>1, AtEnd
<1>3. CASE Len(es) = 0
  BY <1>2, <1>3 DEF StateAt
<1>4. CASE Len(es) # 0
  <2>1. Len(es) \in 1..Len(es)
    BY <1>1, <1>4
  <2>2. es[Len(es)].step \in TrainingSteps
    BY <2>1 DEF Entries
  <2>3. QED
    BY <1>2, <1>4, <2>2 DEF StateAt, TrainingSteps
<1>5. QED
  BY <1>3, <1>4

LEMMA EntriesAppend ==
  ASSUME NEW es, Entries(es), Len(es) <= StepsPerBlock, NEW e, IsEntry(e), e.step \in TrainingSteps
  PROVE  Entries(Append(es, e))
<1>1. PICK S : es \in Seq(S)
  BY DEF Entries
<1> DEFINE longer == Append(es, e)
<1>2. /\ longer \in Seq(S \cup {e})
      /\ Len(longer) = Len(es) + 1
      /\ longer[Len(es) + 1] = e
      /\ \A i \in 1..Len(es) : longer[i] = es[i]
  BY <1>1, OneMore
<1> HIDE DEF longer
<1>3. Len(longer) <= StepsPerBlock + 1
  BY <1>1, <1>2, TraceAssumption
<1>4. ASSUME NEW i \in 1..Len(longer) PROVE IsEntry(longer[i]) /\ longer[i].step \in TrainingSteps
  <2>1. i = Len(es) + 1 \/ i \in 1..Len(es)
    BY <1>1, <1>2
  <2>2. QED
    BY <1>2, <2>1 DEF Entries
<1>5. QED
  BY <1>2, <1>3, <1>4 DEF Entries, longer

\* A step of build_trace_from continues an honest trace honestly.
LEMMA TrainedContinues ==
  ASSUME NEW es, Entries(es), Len(es) < StepsPerBlock, NEW initial \in ModelStates, NEW s \in Seeds
  PROVE  /\ Entries(Trained(initial, s, es))
         /\ HonestEntries(initial, s, es) => HonestEntries(initial, s, Trained(initial, s, es))
<1>1. PICK S : es \in Seq(S)
  BY DEF Entries
<1> DEFINE n == Len(es)
           e == TrainedEntry(initial, s, es, n)
           longer == Append(es, e)
<1>2. Trained(initial, s, es) = longer /\ n \in Nat
  BY <1>1, TrainedIs
<1>3. IsEntry(e) /\ e.step = Deterministic(s, n, StateAt(initial, es, n))
  BY DEF TrainedEntry, IsEntry
<1>4. StateAt(initial, es, n) \in ModelStates
  BY <1>1, LastStateIsModel, AtEnd
<1>5. Deterministic(s, n, StateAt(initial, es, n)) \in TrainingSteps
  <2> DEFINE m == StateAt(initial, es, n)
  <2>1. <<s, n, m>> \in Seeds \X (0..StepsPerBlock + 1) \X ModelStates
    BY <1>1, <1>2, <1>4, TraceAssumption
  <2>2. NextModel[<<s, n, m>>] \in ModelStates /\ n \in 0..StepsPerBlock + 1
    BY <1>2, <2>1, TraceAssumption
  <2>3. m \in ModelStates
    BY <1>4
  <2> HIDE DEF m, n
  <2>4. Deterministic(s, n, m) \in TrainingSteps
    BY <2>2, <2>3 DEF Deterministic, TrainingSteps
  <2>5. QED
    BY <2>4 DEF m
<1>6. Entries(longer)
  <2> HIDE DEF e
  <2>1. QED
    BY <1>1, <1>2, <1>3, <1>5, EntriesAppend, TraceAssumption
<1>7. ASSUME HonestEntries(initial, s, es) PROVE HonestEntries(initial, s, longer)
  <2>1. /\ longer \in Seq(S \cup {e})
        /\ Len(longer) = n + 1
        /\ longer[n + 1] = e
        /\ \A i \in 1..n : longer[i] = es[i]
        /\ \A k \in 0..n : /\ CommitmentAt(longer, k) = CommitmentAt(es, k)
                           /\ StateAt(initial, longer, k) = StateAt(initial, es, k)
    <3> HIDE DEF e
    <3>1. /\ Append(es, e) \in Seq(S \cup {e})
          /\ Len(Append(es, e)) = Len(es) + 1
          /\ Append(es, e)[Len(es) + 1] = e
          /\ \A i \in 1..Len(es) : Append(es, e)[i] = es[i]
      BY <1>1, OneMore
    <3>2. ASSUME NEW k \in 0..Len(es)
          PROVE  /\ CommitmentAt(Append(es, e), k) = CommitmentAt(es, k)
                 /\ StateAt(initial, Append(es, e), k) = StateAt(initial, es, k)
      BY <1>1, SameBefore
    <3>3. QED
      BY <3>1, <3>2
  <2>2. \A k \in 0..n : TrainedEntry(initial, s, longer, k) = TrainedEntry(initial, s, es, k)
    BY <2>1 DEF TrainedEntry
  <2> HIDE DEF longer
  <2>3. ASSUME NEW i \in 1..Len(longer)
        PROVE  longer[i] = TrainedEntry(initial, s, longer, i - 1)
    <3>1. i - 1 \in 0..n
      BY <1>2, <2>1
    <3>2. CASE i = n + 1
      <4>1. i - 1 = n
        BY <1>2, <3>2
      <4>2. QED
        BY <2>1, <2>2, <3>1, <3>2, <4>1
    <3>3. CASE i \in 1..n
      <4>1. es[i] = TrainedEntry(initial, s, es, i - 1)
        BY <1>7, <3>3 DEF HonestEntries
      <4>2. QED
        BY <2>1, <2>2, <3>1, <3>3, <4>1
    <3>4. QED
      BY <1>2, <2>1, <3>2, <3>3
  <2>4. QED
    BY <2>3 DEF HonestEntries
<1>8. QED
  BY <1>2, <1>6, <1>7

LEMMA TraceStarts ==
  ASSUME TraceInit
  PROVE  TraceInv
<1>1. << >> \in Seq({}) /\ Len(<< >>) = 0
  OBVIOUS
<1> DEFINE es == << >>
<1>2. Entries(es)
  <2>1. es \in Seq({}) /\ Len(es) = 0 /\ StepsPerBlock \in Nat
    BY <1>1, TraceAssumption
  <2> HIDE DEF es
  <2>2. QED
    BY <2>1 DEF Entries
<1>3. HonestEntries(parent_model, seed, es)
  BY <1>1 DEF HonestEntries
<1> HIDE DEF es
<1>4. entries = es
  BY DEF TraceInit, es
<1>5. TraceTypes /\ HonestSoFar /\ SealedIsBuilt
  BY <1>2, <1>3, <1>4 DEF TraceInit, TraceTypes, HonestSoFar, SealedIsBuilt
<1>6. QED
  BY <1>5 DEF TraceInv

LEMMA TrainStepKeeps ==
  ASSUME TraceInv, TrainStep
  PROVE  TraceInv'
<1> USE DEF TraceInv
<1>1. /\ Entries(entries')
      /\ HonestEntries(parent_model, seed, entries) => HonestEntries(parent_model, seed, entries')
  BY TrainedContinues DEF TraceTypes, TrainStep
<1>2. TraceTypes'
  BY <1>1 DEF TraceTypes, TrainStep
<1>3. HonestSoFar'
  BY <1>1 DEF HonestSoFar, TrainStep
<1>4. SealedIsBuilt'
  BY DEF SealedIsBuilt, TrainStep, Building
<1>5. QED
  BY <1>2, <1>3, <1>4

LEMMA ForgeStepKeeps ==
  ASSUME TraceInv, ForgeStep
  PROVE  TraceInv'
<1> USE DEF TraceInv
<1>1. PICK step \in ForgedSteps, previous \in {LastCommitment(entries), NoCommitment} :
        \E commitment \in {CommitStep(previous, step), NoCommitment} :
          entries' = Append(entries, [previous_commitment |-> previous, step |-> step,
                                      commitment |-> commitment])
  BY DEF ForgeStep
<1>2. PICK commitment : entries' = Append(entries, [previous_commitment |-> previous, step |-> step,
                                                    commitment |-> commitment])
  BY <1>1
<1> DEFINE e == [previous_commitment |-> previous, step |-> step, commitment |-> commitment]
<1>3. Len(entries) \in Nat /\ Len(entries) <= StepsPerBlock
  BY DEF TraceTypes, Entries, ForgeStep, Building
<1>4. step \in TrainingSteps
  BY <1>3, TraceAssumption DEF ForgedSteps, TrainingSteps
<1>5. IsEntry(e) /\ e.step \in TrainingSteps
  BY <1>4 DEF IsEntry
<1>6. Entries(entries')
  <2> HIDE DEF e
  <2>1. entries' = Append(entries, e)
    BY <1>2 DEF e
  <2>2. QED
    BY <1>3, <1>5, <2>1, EntriesAppend DEF TraceTypes
<1>7. deviations' \in Nat /\ deviations' # 0
  BY DEF TraceTypes, ForgeStep, Deviate
<1>8. TraceTypes'
  BY <1>6, <1>7 DEF TraceTypes, ForgeStep
<1>9. HonestSoFar'
  BY <1>7 DEF HonestSoFar
<1>10. SealedIsBuilt'
  BY DEF SealedIsBuilt, ForgeStep, Building
<1>11. QED
  BY <1>8, <1>9, <1>10

LEMMA SealKeeps ==
  ASSUME TraceInv, Seal
  PROVE  TraceInv'
<1> USE DEF TraceInv
<1>1. PICK entropy \in Entropies : block' = SealedBlock(TraceOf(parent_model, entries), entropy)
  BY DEF Seal
<1> DEFINE trace == TraceOf(parent_model, entries)
<1>2. trace = [initial_model |-> trace.initial_model, candidate_model |-> trace.candidate_model,
               entries |-> entries, root |-> trace.root]
  BY DEF TraceOf
<1> HIDE DEF trace
<1>3. block'.sealed /\ block'.sampling_entropy = entropy /\ block'.trace = trace
  BY <1>1 DEF SealedBlock, trace
<1>4. Entropies' = Entropies
  BY DEF Seal, Entropies
<1>5. SealedIsBuilt'
  <2>1. SealedBlock(trace, entropy)' = SealedBlock(trace, entropy)
    BY DEF Seal, SealedBlock, trace
  <2>2. TraceOf(parent_model, entries)' = trace
    BY DEF Seal, trace
  <2>3. block' = SealedBlock(TraceOf(parent_model, entries), block.sampling_entropy)'
    BY <1>1, <1>3, <2>2 DEF Seal, SealedBlock, trace
  <2>4. entries' = entries
    BY DEF Seal
  <2>5. QED
    BY <1>2, <1>3, <1>4, <2>3, <2>4 DEF SealedIsBuilt
<1>6. TraceTypes'
  BY DEF TraceTypes, Seal
<1>7. HonestSoFar'
  BY DEF HonestSoFar, Seal
<1>8. QED
  BY <1>5, <1>6, <1>7

LEMMA ForgeSealKeeps ==
  ASSUME TraceInv, ForgeSeal
  PROVE  TraceInv'
<1> USE DEF TraceInv
<1>1. PICK entropy \in Entropies, initial, before, candidate, after \in ModelStates,
           root, trace_root \in {LastCommitment(entries), NoCommitment},
           sample_count \in {samples_per_block, 0}, training_seed \in Seeds :
        block' = [SealedBlock([initial_model |-> initial, candidate_model |-> candidate,
                           entries |-> entries, root |-> root], entropy)
                    EXCEPT !.model_before = before, !.model_after = after,
                           !.trace_root = trace_root, !.sample_count = sample_count,
                           !.training_seed = training_seed]
  BY DEF ForgeSeal
<1> DEFINE trace == [initial_model |-> initial, candidate_model |-> candidate,
                     entries |-> entries, root |-> root]
           b == SealedBlock(trace, entropy)
<1>2. b.sealed /\ b.sampling_entropy = entropy /\ b.trace = trace
  BY DEF SealedBlock
<1>3. trace = [initial_model |-> trace.initial_model, candidate_model |-> trace.candidate_model,
               entries |-> entries, root |-> trace.root]
  OBVIOUS
<1>4. deviations' \in Nat /\ deviations' # 0
  BY DEF TraceTypes, ForgeSeal, Deviate
<1>5. Entropies' = Entropies
  BY DEF ForgeSeal, Entropies
<1>6. SealedIsBuilt'
  <2>1. /\ block'.sealed
        /\ block'.sampling_entropy = entropy
        /\ block'.trace = trace
    <3> HIDE DEF trace
    <3>1. block' = [b EXCEPT !.model_before = before, !.model_after = after,
                            !.trace_root = trace_root, !.sample_count = sample_count,
                            !.training_seed = training_seed]
      BY <1>1 DEF trace
    <3>2. b = [sealed |-> b.sealed, model_before |-> b.model_before, model_after |-> b.model_after,
               trace_root |-> b.trace_root, training_seed |-> b.training_seed,
               sampling_entropy |-> b.sampling_entropy, sample_count |-> b.sample_count,
               trace |-> b.trace]
      BY DEF SealedBlock
    <3> HIDE DEF b
    <3>3. QED
      BY <1>2, <3>1, <3>2
  <2> HIDE DEF trace, b
  <2>2. entries' = entries
    BY DEF ForgeSeal
  <2>3. QED
    BY <1>4, <1>5, <1>3, <2>1, <2>2 DEF SealedIsBuilt
<1>7. TraceTypes'
  BY <1>4 DEF TraceTypes, ForgeSeal
<1>8. HonestSoFar'
  BY <1>4 DEF HonestSoFar
<1>9. QED
  BY <1>6, <1>7, <1>8

\* What a peer and a miner have built and sealed: a list of entries of the right type, that
\* a block holds once it is sealed, and that is the honest one while nobody deviated.
THEOREM TraceInvariance == TraceSpec => []TraceInv
<1>1. TraceInit => TraceInv
  BY TraceStarts
<1>2. TraceInv /\ [TraceNext]_training => TraceInv'
  <2> SUFFICES ASSUME TraceInv, [TraceNext]_training
               PROVE  TraceInv'
    OBVIOUS
  <2>1. CASE TrainStep
    BY <2>1, TrainStepKeeps
  <2>2. CASE ForgeStep
    BY <2>2, ForgeStepKeeps
  <2>3. CASE Seal
    BY <2>3, SealKeeps
  <2>4. CASE ForgeSeal
    BY <2>4, ForgeSealKeeps
  <2>5. CASE UNCHANGED training
    BY <2>5 DEF training, TraceInv, TraceTypes, HonestSoFar, SealedIsBuilt, Entropies, SealedBlock
  <2>6. QED
    BY <2>1, <2>2, <2>3, <2>4, <2>5 DEF TraceNext
<1>3. QED
  BY <1>1, <1>2, PTL DEF TraceSpec

-----------------------------------------------------------------------------
(* What follows from it                                                      *)

\* The indices that are sampled are indices of the trace.
LEMMA SampledAreSteps ==
  ASSUME NEW entropy \in Entropies
  PROVE  SampleIndices(StepsPerBlock, samples_per_block, entropy) \subseteq 0..StepsPerBlock - 1
<1>1. StepsPerBlock \in Nat
  BY TraceAssumption
<1>2. entropy \in SUBSET (0..StepsPerBlock - 1)
  BY DEF Entropies, kSubset
<1>3. QED
  BY <1>1, <1>2 DEF SampleIndices

LEMMA HonestBlockAccepted ==
  ASSUME TraceInv, block.sealed, deviations = 0, Len(entries) = StepsPerBlock
  PROVE  /\ block.trace = BuildTraceFrom(parent_model, seed, StepsPerBlock)
         /\ Accepted
<1> DEFINE trace == TraceOf(parent_model, entries)
<1>1. block # NoBlock
  BY DEF NoBlock
<1>2. /\ block.sampling_entropy \in Entropies
      /\ block = SealedBlock(trace, block.sampling_entropy)
  BY <1>1 DEF TraceInv, SealedIsBuilt
<1>3. PICK S : entries \in Seq(S)
  BY DEF TraceInv, TraceTypes, Entries
<1>4. HonestEntries(parent_model, seed, entries)
  BY DEF TraceInv, HonestSoFar
<1>5. trace = BuildTraceFrom(parent_model, seed, StepsPerBlock)
  BY <1>3, <1>4, HonestIsBuilt
<1>6. /\ CommitmentChainOk(trace)
      /\ TraceContinuous(trace)
      /\ \A i \in 0..Len(entries) - 1 :
           SampleOk(VerifySample(seed, i, entries[i + 1], entries[i + 1]))
  BY <1>3, <1>4, HonestPasses
<1>7. trace.initial_model = parent_model /\ trace.entries = entries
  BY DEF TraceOf
<1> HIDE DEF trace
<1>8. /\ block.model_before = trace.initial_model
      /\ block.model_after = trace.candidate_model
      /\ block.trace_root = trace.root
      /\ block.training_seed = seed
      /\ block.sample_count = samples_per_block
      /\ block.trace = trace
  BY <1>2 DEF SealedBlock
<1>9. SampleIndices(StepsPerBlock, samples_per_block, block.sampling_entropy)
        \subseteq 0..StepsPerBlock - 1
  BY <1>2, SampledAreSteps
<1>10. ValidateTrace(parent_model, block)
  BY <1>6, <1>7, <1>8, <1>9 DEF ValidateTrace
<1>11. QED
  BY <1>5, <1>8, <1>10 DEF Accepted

\* A block's trace is accepted with the entries that were built.
LEMMA AcceptedBlock ==
  ASSUME TraceInv, Accepted
  PROVE  /\ \E S : entries \in Seq(S)
         /\ \A i \in 1..Len(entries) : IsEntry(entries[i])
         /\ block.sampling_entropy \in Entropies
         /\ AcceptedEntries(parent_model, block.training_seed, SampledOf(block), entries)
         /\ block.model_before = parent_model
         /\ block.model_after = StateAt(parent_model, entries, StepsPerBlock)
         /\ block.trace_root = CommitmentAt(entries, StepsPerBlock)
         /\ block.trace = [initial_model |-> block.model_before,
                           candidate_model |-> block.model_after,
                           entries |-> entries, root |-> block.trace_root]
<1>1. block # NoBlock /\ ValidateTrace(parent_model, block)
  BY DEF NoBlock, Accepted
<1>2. /\ block.sampling_entropy \in Entropies
      /\ block.trace = [initial_model |-> block.trace.initial_model,
                        candidate_model |-> block.trace.candidate_model,
                        entries |-> entries, root |-> block.trace.root]
  BY <1>1 DEF TraceInv, SealedIsBuilt
<1>3. block.trace.entries = entries
  BY <1>2
<1>4. PICK S : entries \in Seq(S)
  BY DEF TraceInv, TraceTypes, Entries
<1>5. \A i \in 1..Len(entries) : IsEntry(entries[i])
  BY DEF TraceInv, TraceTypes, Entries
<1>6. block.trace.entries \in Seq(S)
  BY <1>3, <1>4
<1>7. /\ AcceptedEntries(parent_model, block.training_seed, SampledOf(block), block.trace.entries)
      /\ block.trace.initial_model = parent_model /\ block.model_before = parent_model
      /\ block.trace.candidate_model = StateAt(parent_model, block.trace.entries, StepsPerBlock)
      /\ block.model_after = block.trace.candidate_model
      /\ block.trace.root = CommitmentAt(block.trace.entries, StepsPerBlock)
      /\ block.trace_root = block.trace.root
  BY <1>1, <1>6, AcceptedFacts
<1>8. QED
  BY <1>2, <1>3, <1>4, <1>5, <1>7

LEMMA AcceptedBlockVerified ==
  ASSUME TraceInv, Accepted
  PROVE  AcceptedIsVerified
<1> DEFINE sampled == SampledOf(block)
           models == CHOOSE f : IsModels(parent_model, block.training_seed, sampled, entries, f)
<1>1. /\ AcceptedEntries(parent_model, block.training_seed, sampled, entries)
      /\ block.model_before = parent_model
      /\ block.model_after = StateAt(parent_model, entries, StepsPerBlock)
      /\ block.trace_root = CommitmentAt(entries, StepsPerBlock)
      /\ block.trace = [initial_model |-> block.model_before,
                        candidate_model |-> block.model_after,
                        entries |-> entries, root |-> block.trace_root]
      /\ \A i \in 1..Len(entries) : IsEntry(entries[i])
  BY AcceptedBlock
<1>2. PICK S : entries \in Seq(S)
  BY AcceptedBlock
<1>3. models[StepsPerBlock] = block.model_after
  BY <1>1, <1>2, ModelsOfAccepted
<1>4. ASSUME sampled = 0..StepsPerBlock - 1
      PROVE  block.trace = BuildTraceFrom(parent_model, block.training_seed, StepsPerBlock)
  <2>1. Len(entries) = StepsPerBlock
    BY <1>1 DEF AcceptedEntries
  <2>2. block.trace = TraceOf(parent_model, entries)
    BY <1>1, <1>2, <2>1, AtEnd DEF TraceOf
  <2>3. BuildTraceFrom(parent_model, block.training_seed, StepsPerBlock)
          = TraceOf(parent_model, entries)
    BY <1>1, <1>2, <1>4, AllSampledIsBuilt
  <2>4. QED
    BY <2>2, <2>3
<1>5. QED
  BY <1>3, <1>4 DEF AcceptedIsVerified, IsModels, SampledOf

LEMMA TamperedFound ==
  ASSUME TraceInv
  PROVE  TamperFoundIfSampled
<1> SUFFICES ASSUME deviations = 0, Len(entries) = StepsPerBlock,
                    NEW entropy \in Entropies, NEW tamper_step \in 0..StepsPerBlock
             PROVE  FailedIndices(seed, entries, tamper_step, entropy)
                      = {i \in SampleIndices(StepsPerBlock, samples_per_block, entropy) :
                           i = tamper_step /\ Tampered(entries[i + 1]) # entries[i + 1]}
  BY DEF TamperFoundIfSampled
<1> DEFINE opened == IF tamper_step < Len(entries)
                     THEN [entries EXCEPT ![tamper_step + 1] = Tampered(@)]
                     ELSE entries
           ok(i) == SampleOk(VerifySample(seed, i, entries[i + 1], opened[i + 1]))
<1>1. PICK S : entries \in Seq(S)
  BY DEF TraceInv, TraceTypes, Entries
<1>2. HonestEntries(parent_model, seed, entries)
  BY DEF TraceInv, HonestSoFar
<1>3. /\ \A i \in 0..Len(entries) - 1 :
           SampleOk(VerifySample(seed, i, entries[i + 1], entries[i + 1]))
  BY <1>1, <1>2, HonestPasses
<1>4. SampleIndices(StepsPerBlock, samples_per_block, entropy) \subseteq 0..StepsPerBlock - 1
  BY SampledAreSteps
<1>5. ASSUME NEW i \in 0..StepsPerBlock - 1
      PROVE  ~ok(i) <=> i = tamper_step /\ Tampered(entries[i + 1]) # entries[i + 1]
  <2> DEFINE entry == entries[i + 1]
  <2>1. i + 1 \in 1..Len(entries) /\ i + 1 \in DOMAIN entries /\ i \in Nat /\ StepsPerBlock \in Nat
        /\ tamper_step \in Nat
    BY <1>1, TraceAssumption
  <2>2. IsEntry(entry)
    BY <2>1 DEF TraceInv, TraceTypes, Entries
  <2>3. entry = TrainedEntry(parent_model, seed, entries, i)
    BY <2>1, <1>2 DEF HonestEntries
  <2>4. entry.commitment = CommitStep(entry.previous_commitment, entry.step)
    BY <2>3 DEF TrainedEntry
  <2>5. opened[i + 1] = IF i = tamper_step THEN Tampered(entry) ELSE entry
    BY <1>1, <2>1
  <2>6. SampleOk(VerifySample(seed, i, entry, entry))
    BY <1>3
  <2> HIDE DEF entry, opened
  <2>7. CASE i = tamper_step /\ Tampered(entry) # entry
    <3>1. Tampered(entry).step # entry.step
      BY <2>2, <2>7 DEF Tampered, IsEntry
    <3>2. ~SampleOk(VerifySample(seed, i, entry, Tampered(entry)))
      BY <2>4, <3>1, SampleOfTampered
    <3>3. QED
      BY <2>5, <2>7, <3>2 DEF entry
  <2>8. CASE ~(i = tamper_step /\ Tampered(entry) # entry)
    <3>1. opened[i + 1] = entry
      BY <2>5, <2>8
    <3>2. QED
      BY <2>6, <2>8, <3>1 DEF entry
  <2>9. QED
    BY <2>7, <2>8 DEF entry
<1>6. FailedIndices(seed, entries, tamper_step, entropy)
        = {i \in SampleIndices(StepsPerBlock, samples_per_block, entropy) : ~ok(i)}
  BY DEF FailedIndices
<1> HIDE DEF ok
<1>7. QED
  BY <1>4, <1>5, <1>6

\* HonestTraceAccepted: what a miner builds with build_trace_from, validate_block_after
\* accepts, with any number of steps and whatever indices it samples.
THEOREM HonestTraceAlwaysAccepted == TraceSpec => []HonestTraceAccepted
<1>1. TraceInv => HonestTraceAccepted
  BY HonestBlockAccepted DEF HonestTraceAccepted
<1>2. QED
  BY <1>1, TraceInvariance, PTL

\* AcceptedIsVerified: an accepted trace leads from the parent's model to the header's by
\* steps that are computed where they are sampled, and is the honest one if all are.
THEOREM AcceptedAlwaysVerified == TraceSpec => []AcceptedIsVerified
<1>1. TraceInv => AcceptedIsVerified
  BY AcceptedBlockVerified DEF AcceptedIsVerified
<1>2. QED
  BY <1>1, TraceInvariance, PTL

\* HeaderFixesTrace: a header leaves no choice of an accepted trace, so that the first valid
\* body stored under a hash is the only one.
THEOREM HeaderAlwaysFixesTrace == TraceSpec => []HeaderFixesTrace
<1>1. TraceInv => HeaderFixesTrace
  <2> SUFFICES ASSUME TraceInv, Accepted
               PROVE  block.trace = Rebuilt(block)
    BY DEF HeaderFixesTrace
  <2>1. PICK S : entries \in Seq(S)
    BY AcceptedBlock
  <2>2. QED
    BY <2>1, AcceptedBlock, HeaderRebuilds
<1>2. QED
  BY <1>1, TraceInvariance, PTL

\* TamperFoundIfSampled: the simulator blames exactly the sampled step that was tampered.
THEOREM TamperAlwaysFound == TraceSpec => []TamperFoundIfSampled
<1>1. TraceInv => TamperFoundIfSampled
  BY TamperedFound
<1>2. QED
  BY <1>1, TraceInvariance, PTL
=============================================================================
