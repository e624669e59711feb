-------------------------------- MODULE Trace --------------------------------
(***************************************************************************)
(* The training trace of a block: how a miner builds it, what a validator  *)
(* checks of it, and the simulator of a tampered trace (ProtocolSimulator  *)
(* and the trace checks of validate_block_after in                         *)
(* crates/chesscoin-core/src/application.rs, TrainingStep in domain.rs,    *)
(* DeterministicSampler of crates/chesscoin-node/src/adapters.rs).         *)
(*                                                                         *)
(* In BlockTree all of this is the flag trace_ok of a block.  Here the     *)
(* trace is explicit, and height, parent and work are left to BlockTree.   *)
(*                                                                         *)
(* The hash is taken to have no collisions: the commitment of a step is    *)
(* the pair it is computed from.  NextModel is the arithmetic of a         *)
(* training step; batch_id, weight_index, gradient and learning_rate_ppm   *)
(* are the field derived, "computed" when they are what the seed, the      *)
(* index and the model of the step give.  sampling_entropy is the set of   *)
(* indices it selects.  A peer may send any trace: it trains some steps    *)
(* honestly and deviates in at most MaxDeviations entries or seals.        *)
(***************************************************************************)
EXTENDS Naturals, FiniteSets, FiniteSetsExt, SequencesExt

CONSTANTS
  ModelStates,
  Seeds,
  NextModel,          \* model after a step: seed, index, model before
  TamperedModel,      \* the first weight one higher, or as it is at its maximum
  StepsPerBlock,      \* config.steps_per_block
  SampleCounts,       \* the values of config.samples_per_block
  MaxDeviations       \* bound: forged entries and forged seals

\* ChainConfig::validate
ASSUME TraceAssumption ==
  /\ StepsPerBlock \in Nat \ {0}
  /\ SampleCounts \subseteq 1..StepsPerBlock
  /\ NextModel \in [Seeds \X (0..StepsPerBlock + 1) \X ModelStates -> ModelStates]
  /\ TamperedModel \in [ModelStates -> ModelStates]

VARIABLES
  samples_per_block,   \* configured, the same on all nodes
  parent_model,   \* of the block the trace is built on
  seed,           \* the training seed
  entries,        \* built so far
  block,          \* the sealed block, or NoBlock
  deviations      \* history: forged entries and seals

training == <<samples_per_block, parent_model, seed, entries, block, deviations>>

-----------------------------------------------------------------------------
(* Training                                                                  *)

NoCommitment == << >>

\* TrainingStep::deterministic
Deterministic(s, index, before) ==
  [index |-> index, seed |-> s, state_before |-> before,
   state_after |-> NextModel[<<s, index, before>>], derived |-> "computed"]

CommitStep(previous_commitment, step) == <<previous_commitment, step>>

LastCommitment(es) == IF es = << >> THEN NoCommitment ELSE Last(es).commitment
LastState(initial, es) == IF es = << >> THEN initial ELSE Last(es).step.state_after

\* Mutant: the first step of a trace has index 1.
TrainedFromOne(initial, s, es) ==
  LET step == Deterministic(s, Len(es) + 1, LastState(initial, es))
      previous == LastCommitment(es)
  IN  Append(es, [previous_commitment |-> previous, step |-> step,
                  commitment |-> CommitStep(previous, step)])

\* One iteration of build_trace_from.
Trained(initial, s, es) ==
  LET step == Deterministic(s, Len(es), LastState(initial, es))
      previous == LastCommitment(es)
  IN  Append(es, [previous_commitment |-> previous, step |-> step,
                  commitment |-> CommitStep(previous, step)])

TraceOf(initial, es) ==
  [initial_model |-> initial, candidate_model |-> LastState(initial, es),
   entries |-> es, root |-> LastCommitment(es)]

BuildTraceFrom(initial, s, steps) ==
  LET built[n \in 0..steps] == IF n = 0 THEN << >> ELSE Trained(initial, s, built[n - 1])
  IN  TraceOf(initial, built[steps])

-----------------------------------------------------------------------------
(* Verification                                                              *)

\* Mutant: the sample is compared with a step of the index it declares.
VerifySampleAnyIndex(s, index, committed, opened) ==
  [commitment_ok |->
     /\ opened.previous_commitment = committed.previous_commitment
     /\ opened.commitment = committed.commitment
     /\ CommitStep(committed.previous_commitment, opened.step) = committed.commitment,
   transition_ok |->
     opened.step = Deterministic(s, opened.step.index, opened.step.state_before)]

\* Mutant: an opened step is only compared with its own commitments.
VerifySampleOpened(s, index, committed, opened) ==
  [commitment_ok |-> opened.commitment = committed.commitment,
   transition_ok |->
     opened.step.index = index /\ opened.step.seed = s]

VerifySample(s, index, committed, opened) ==
  [commitment_ok |->
     /\ opened.previous_commitment = committed.previous_commitment
     /\ opened.commitment = committed.commitment
     /\ CommitStep(committed.previous_commitment, opened.step) = committed.commitment,
   transition_ok |->
     /\ opened.step.index = index
     /\ opened.step = Deterministic(s, opened.step.index, opened.step.state_before)]

SampleOk(sample) == sample.commitment_ok /\ sample.transition_ok

\* sample_indices: all indices, or sample_count distinct ones that the root and
\* the entropy select.
SampleIndices(trace_len, sample_count, entropy) ==
  IF trace_len = 0 \/ sample_count = 0 THEN {}
  ELSE IF sample_count >= trace_len THEN 0..trace_len - 1
  ELSE entropy

Entropies == kSubset(samples_per_block, 0..StepsPerBlock - 1)

\* Mutant: previous_commitment is trusted.
CommitmentChainOkLocal(trace) ==
  /\ \A i \in 1..Len(trace.entries) :
       trace.entries[i].commitment
         = CommitStep(trace.entries[i].previous_commitment, trace.entries[i].step)
  /\ trace.root = LastCommitment(trace.entries)

\* validate_commitment_chain
CommitmentChainOk(trace) ==
  /\ \A i \in 1..Len(trace.entries) :
       LET entry == trace.entries[i]
           previous == LastCommitment(SubSeq(trace.entries, 1, i - 1))
       IN  /\ entry.previous_commitment = previous
           /\ entry.commitment = CommitStep(previous, entry.step)
  /\ trace.root = LastCommitment(trace.entries)

\* validate_trace_continuity
TraceContinuous(trace) ==
  /\ \A i \in 1..Len(trace.entries) :
       trace.entries[i].step.state_before
         = LastState(trace.initial_model, SubSeq(trace.entries, 1, i - 1))
  /\ trace.candidate_model = LastState(trace.initial_model, trace.entries)

\* The checks of validate_block_after, height, parent and work apart.
ValidateTrace(model, b) ==
  /\ b.model_before = model
  /\ b.trace.initial_model = b.model_before
  /\ b.trace.candidate_model = b.model_after
  /\ Len(b.trace.entries) = StepsPerBlock
  /\ b.sample_count = samples_per_block
  /\ b.trace.root = b.trace_root
  /\ CommitmentChainOk(b.trace)
  /\ TraceContinuous(b.trace)
  /\ \A i \in SampleIndices(Len(b.trace.entries), b.sample_count, b.sampling_entropy) :
       SampleOk(VerifySample(b.training_seed, i, b.trace.entries[i + 1], b.trace.entries[i + 1]))

\* The simulator opens the trace it committed to, with one step tampered; it
\* reports the samples that fail.
Tampered(entry) == [entry EXCEPT !.step.state_after = TamperedModel[@]]

FailedIndices(s, committed, tamper_step, entropy) ==
  LET opened == IF tamper_step < Len(committed)
                THEN [committed EXCEPT ![tamper_step + 1] = Tampered(@)]
                ELSE committed
  IN  {i \in SampleIndices(Len(committed), samples_per_block, entropy) :
         ~SampleOk(VerifySample(s, i, committed[i + 1], opened[i + 1]))}

-----------------------------------------------------------------------------
NoBlock == [sealed |-> FALSE]

\* mine_next_block: header and trace of one block.
SealedBlock(trace, entropy) ==
  [sealed |-> TRUE, model_before |-> trace.initial_model, model_after |-> trace.candidate_model,
   trace_root |-> trace.root, training_seed |-> seed, sampling_entropy |-> entropy,
   sample_count |-> samples_per_block, trace |-> trace]

TraceInit ==
  /\ samples_per_block \in SampleCounts
  /\ parent_model \in ModelStates
  /\ seed \in Seeds
  /\ entries = << >>
  /\ block = NoBlock
  /\ deviations = 0

Building == block = NoBlock /\ Len(entries) <= StepsPerBlock

TrainStep ==
  /\ Building
  /\ Len(entries) < StepsPerBlock
  /\ entries' = Trained(parent_model, seed, entries)
  /\ UNCHANGED <<samples_per_block, parent_model, seed, block, deviations>>

Deviate == deviations < MaxDeviations /\ deviations' = deviations + 1

ForgedSteps ==
  [index : {Len(entries)} \cup (0..StepsPerBlock \cap {Len(entries) + 1}), seed : Seeds,
   state_before : ModelStates, state_after : ModelStates, derived : {"computed", "other"}]

ForgeStep ==
  /\ Building
  /\ Deviate
  /\ \E step \in ForgedSteps, previous \in {LastCommitment(entries), NoCommitment} :
       \E commitment \in {CommitStep(previous, step), NoCommitment} :
         entries' = Append(entries, [previous_commitment |-> previous, step |-> step,
                                     commitment |-> commitment])
  /\ UNCHANGED <<samples_per_block, parent_model, seed, block>>

Seal ==
  /\ block = NoBlock
  /\ \E entropy \in Entropies : block' = SealedBlock(TraceOf(parent_model, entries), entropy)
  /\ UNCHANGED <<samples_per_block, parent_model, seed, entries, deviations>>

\* A header or a trace head that does not belong to the entries.
ForgeSeal ==
  /\ block = NoBlock
  /\ Deviate
  /\ \E entropy \in Entropies, initial, before, candidate, after \in ModelStates,
        root, trace_root \in {LastCommitment(entries), NoCommitment},
        sample_count \in {samples_per_block, 0}, training_seed \in Seeds :
       block' = [SealedBlock([initial_model |-> initial, candidate_model |-> candidate,
                          entries |-> entries, root |-> root], entropy)
                   EXCEPT !.model_before = before, !.model_after = after,
                          !.trace_root = trace_root, !.sample_count = sample_count,
                          !.training_seed = training_seed]
  /\ UNCHANGED <<samples_per_block, parent_model, seed, entries>>

TraceNext == TrainStep \/ ForgeStep \/ Seal \/ ForgeSeal

TraceSpec == TraceInit /\ [][TraceNext]_training

-----------------------------------------------------------------------------
(* Properties                                                                *)

Accepted == block.sealed /\ ValidateTrace(parent_model, block)

\* What a miner builds, every validator accepts, whatever indices it samples:
\* build_trace_from and validate_block_after agree.
HonestTraceAccepted ==
  (block.sealed /\ deviations = 0 /\ Len(entries) = StepsPerBlock) =>
    /\ block.trace = BuildTraceFrom(parent_model, seed, StepsPerBlock)
    /\ Accepted

\* An accepted trace leads from the model of the parent to the model of the header
\* step by step, and each sampled step is the one the header's seed computes.
\* With every step sampled it is the honest trace and no other.
AcceptedIsVerified ==
  Accepted =>
    LET sampled == SampleIndices(StepsPerBlock, samples_per_block, block.sampling_entropy)
        model[i \in 0..StepsPerBlock] ==
          IF i = 0 THEN parent_model
          ELSE IF i - 1 \in sampled THEN NextModel[<<block.training_seed, i - 1, model[i - 1]>>]
          ELSE entries[i].step.state_after
    IN  /\ model[StepsPerBlock] = block.model_after
        /\ sampled = 0..StepsPerBlock - 1 =>
             block.trace = BuildTraceFrom(parent_model, block.training_seed, StepsPerBlock)

\* The steps that a commitment stands for, read back from it.
Opening(commitment) ==
  LET open[n \in 0..StepsPerBlock + 1] ==
        IF n = 0 THEN [rest |-> commitment, steps |-> << >>]
        ELSE IF open[n - 1].rest = NoCommitment THEN open[n - 1]
        ELSE [rest |-> open[n - 1].rest[1], steps |-> <<open[n - 1].rest[2]>> \o open[n - 1].steps]
  IN  open[StepsPerBlock + 1].steps

Rebuilt(header) ==
  LET steps == Opening(header.trace_root)
      built[n \in 0..Len(steps)] ==
        IF n = 0 THEN << >>
        ELSE LET previous == LastCommitment(built[n - 1])
             IN  Append(built[n - 1], [previous_commitment |-> previous, step |-> steps[n],
                                       commitment |-> CommitStep(previous, steps[n])])
  IN  [initial_model |-> header.model_before, candidate_model |-> header.model_after,
       entries |-> built[Len(steps)], root |-> header.trace_root]

\* The header leaves no choice of the trace: an accepted trace is the one that can
\* be rebuilt from the header alone.  So the first valid body a fork choice stores
\* under a header hash is the only one, and a refused twin is no loss.
HeaderFixesTrace == Accepted => block.trace = Rebuilt(block)

\* The simulator finds a tampered step exactly when it samples it, and blames no
\* other step.  A step whose model is at the maximum already is not tampered.
TamperFoundIfSampled ==
  (deviations = 0 /\ Len(entries) = StepsPerBlock) =>
    \A entropy \in Entropies, tamper_step \in 0..StepsPerBlock :
      FailedIndices(seed, entries, tamper_step, entropy)
        = {i \in SampleIndices(StepsPerBlock, samples_per_block, entropy) :
             i = tamper_step /\ Tampered(entries[i + 1]) # entries[i + 1]}
=============================================================================
