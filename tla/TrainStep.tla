------------------------------ MODULE TrainStep ------------------------------
(***************************************************************************)
(* One optimizer step of src/src/pretrain/train/loop.py as operators on    *)
(* the state a run carries from step to step.  Ranks run in lock-step: the *)
(* record stands for the state all of them hold at the same point.         *)
(*                                                                         *)
(* Tensors are abstracted to what was done to them.  weights is the        *)
(* sequence of updates applied since initialisation, moments the sequence  *)
(* of gradients folded in since they were last zero, a gradient the        *)
(* sequence of micro-batch rounds it accumulates.  A digest is the record  *)
(* of everything hashed into it, so two digests are equal exactly when     *)
(* blake2b's inputs are.                                                   *)
(***************************************************************************)
EXTENDS Sequences, SpikeProtocol, BatchSchedule

CONSTANTS
    Auditable,        \* run.reduction_mode = "deterministic_allgather"
    World,            \* dp_world_size
    TotalTokens,      \* train.total_tokens
    HashEvery,        \* train.state_hash.every_n_steps, 0 when off
    RewarmTokens,     \* schedule.rewarm_tokens
    RewarmOnResume,   \* schedule.rewarm_on_resume
    ResetOptimizer,   \* train.resume_reset_optimizer
    Fork,             \* the run's first launch resumes another run's checkpoint
    ForkStep, ForkTokens, ForkPos   \* where that checkpoint stands

ASSUME TrainAssumption ==
    /\ {Auditable, RewarmOnResume, ResetOptimizer, Fork} \subseteq BOOLEAN
    /\ World \in Nat \ {0}
    /\ {TotalTokens, HashEvery, RewarmTokens, ForkStep, ForkTokens, ForkPos}
           \subseteq Nat
    \* Both knobs are meant for forks (config/schema.py:273-287, 459-467).
    /\ RewarmOnResume \/ ResetOptimizer => Fork

NoAnchor == -1
NoLink == [link |-> "none"]
ParentLink == [link |-> "parent"]

\* Learning rate: the schedule is a function of the token clock, the re-warm
\* ramp of the distance to its anchor (RewarmTokens once it is over).
Ramp(elapsed) ==
    IF elapsed < 0 THEN 0 ELSE IF elapsed < RewarmTokens THEN elapsed ELSE RewarmTokens
LR(consumed, anchor) ==
    [at   |-> consumed,
     ramp |-> IF anchor = NoAnchor THEN RewarmTokens ELSE Ramp(consumed - anchor)]

\* The state of a cold start, after init_weights and prime_optimizer_state.
FreshState ==
    [step |-> 0, consumed |-> 0, weights |-> << >>, moments |-> << >>,
     lr |-> LR(0, NoAnchor), rng |-> 0, pos |-> 0, data |-> << >>,
     chain |-> NoLink, spike |-> SpikeInit, anchor |-> NoAnchor]

\* The state in the checkpoint a fork starts from.
ParentState ==
    [FreshState EXCEPT
        !.step = ForkStep, !.consumed = ForkTokens, !.pos = ForkPos,
        !.moments = << << 0 >> >>, !.chain = ParentLink]

\* Micro-batches every rank takes in the step that starts at this count.
Rounds(consumed) ==
    IF Auditable THEN MicrobatchesPerStep(consumed) \div World
                 ELSE GradAccumSteps(consumed, World)

\* An auditable step must split evenly over the ranks.
Uneven(consumed) == Auditable /\ MicrobatchesPerStep(consumed) % World # 0

\* The rounds the loader hands out: round k is the World consecutive
\* micro-batches starting at the stream position, k - 1 rounds further on.
StepBatches(pos, clock) ==
    [k \in 1..Rounds(clock) |-> pos + (k - 1) * World]

\* After schedule_lr and the micro-batch loop; clock is the loader's own
\* token clock, which decides how much of the stream the step walks.
Begun(st, clock) ==
    [st EXCEPT
        !.lr   = LR(st.consumed, st.anchor),
        !.pos  = @ + Rounds(clock) * World,
        !.data = IF HashEvery > 0 THEN @ \o StepBatches(st.pos, clock) ELSE @]

\* After the spike gate, optimizer.step() or the recorded skip, and the
\* counters; class is the class of the step's gradient.
Stepped(st, grads, class) ==
    LET skip == ShouldSkip(st.spike, class, st.step)
    IN  [st EXCEPT
            !.weights  = IF skip THEN @
                         ELSE Append(@, [grads |-> grads, lr |-> st.lr,
                                         rng |-> st.rng,
                                         moments |-> Len(st.moments)]),
            !.moments  = IF skip THEN @ ELSE Append(@, grads),
            !.rng      = @ + 1,
            !.spike    = AfterGate(@, class, st.step),
            !.consumed = @ + Rounds(st.consumed) * World * MicroTokens,
            !.step     = @ + 1]

HashDue(step) == HashEvery > 0 /\ step % HashEvery = 0

\* _sharded_state_hash: everything the canonical digest covers.
StepDigest(st, grads) ==
    [link |-> "digest", prev |-> st.chain, weights |-> st.weights,
     moments |-> st.moments, lr |-> st.lr, grads |-> grads, data |-> st.data]

\* The init artifact: weights and zero moments, no gradients, not chained.
InitEntry ==
    [step |-> 0,
     digest |-> [StepDigest(FreshState, << >>) EXCEPT !.link = "init"]]

\* The chain advances on the hash cadence only.
LinkedAtEveryStep(st, grads) == [st EXCEPT !.chain = StepDigest(st, grads)]
Linked(st, grads) ==
    IF HashDue(st.step) THEN [st EXCEPT !.chain = StepDigest(st, grads)] ELSE st

\* The whole step of an uninterrupted run, from loop top to loop top.
BeforeHash(st, class) ==
    Stepped(Begun(st, st.consumed), StepBatches(st.pos, st.consumed), class)
After(st, class) ==
    Linked(BeforeHash(st, class), StepBatches(st.pos, st.consumed))
DigestAfter(st, class) ==
    StepDigest(BeforeHash(st, class), StepBatches(st.pos, st.consumed))
=============================================================================
