# TLA+ verification of open-transformers

This directory holds the specifications, model-checking configurations and
machine-checked proofs kept beside the training stack in `src/src/pretrain`.
The stack's central promise is *reproducibility*: a training run that is
crashed, evicted, resumed and replayed any number of times publishes the same
chain of state hashes as a run nobody interrupts, and a third party with one
device can recompute any interval of it from the corpus up. The modules below
state that promise and what it rests on, from the building of the corpus to the
audit's hand-off.

Paths such as `train/loop.py` are relative to `src/src/pretrain`;
`build_corpus.py` is in `src/scripts`.

## 1. The system's parts

| part | source | state it keeps | operations | how it interacts |
|---|---|---|---|---|
| Spike protocol | `train/spike_protocol.py` | deque of fresh event steps, remaining cooldown, counters | `should_skip`, `record_skip`, `state_dict`/`load_state_dict` | called once per step by the loop and by the audit; saved and restored with a checkpoint; raises `Halt` |
| Batch schedule | `train/batch_schedule.py` | none (pure) | micro-batches of a step at a token count, canonical and legacy; step plans; ownership | loop, loader and audit ask it, each with its own token clock |
| Training loop | `train/loop.py` | `LoopState`, chain, running batch hasher, `last_ckpt_at`, LR anchor, exit flag | cold start, resume, one iteration, save, halt, emergency exit | drives everything else; its ranks meet in collectives |
| Checkpointer | `train/checkpoint.py` | `step_*` directories of files | `save`, `load`, `latest`, `has_checkpoints`, `garbage_collect` | many writes per save, by rank 0 and by every shard's owner; survives the process |
| State hash | `train/state_hash.py` | running batch digest | `local_shard_state_digest`, `combine_*`, `finalize_state_hash`, `audit_shard_state_digest` | chained from step to step; recomputed by the audit |
| Deterministic reduction | `parallel/deterministic_reduce.py`, `train/global_clip.py` | stashed gradients per step | tree fold, recursive doubling, broadcast, shard chunks, norms | replaces NCCL's reductions; replayed by the audit on one device |
| Canonical data stream | `data/global_stream.py`, `data/mix_sampler.py`, `data/loader.py` | position per source, carry-over tokens, window counter | refill, take a window, step plan, `state`/restore | every rank walks the whole stream and materialises its share |
| Audit replay | `cli/audit_replay.py`, `cli/verify_handoff.py` | replayed state, virtual ranks, spill files, hand-offs | replay an interval, compare digests, save a hand-off, gate one | reads checkpoints, digests and fetched shards |
| Audit data fetch | `data/fetch_interval.py`, `data/doc_map.py` and their CLIs | a download directory | which shards an interval needs, download, placeholders, position gate, doc map | walks the same stream by lengths only |
| Dataset preparation | `build_corpus.py`, `data/prepare.py`, `cli/prepare_data.py`, `data/manifest.py`, `data/indexed_dataset.py` | raw files, cursors, markers, shards, manifests | pull, shuffle, shard, merge | pods and worker processes over one shared volume |
| Parallel layout | `parallel/` | the device mesh | which ranks share a group | fixes the communicators of the loop |
| Checkpoint conversion | `cli/dcp_safetensors.py` | none | pack a checkpoint directory into one safetensors file, unpack one | offline; reads what a job left, writes what a job may resume from |
| Model, losses, optimizers, schedules | `model/`, `optim/`, `train/midtrain.py` | tensors | forward, backward, step, LR curves | pure functions of what the loop hands them |
| Evaluation, observability | `eval/`, `obs/` | none that training depends on | | |

### What is hard here

* **Crashes inside a save.** A save is nine writes to one directory and a marker;
  the next job may load any directory, and saves *over* an existing one.
* **Signals at any point.** `SIGTERM` only sets a flag, on some ranks and not on
  others; it is polled once per iteration, between optimizer step and hash.
* **Replays.** A job resumed from an older step repeats steps that were already
  published and re-saves directories that already exist.
* **State in many places.** Weights, moments, RNG, stream position, batch digest,
  chain, spike protocol and LR anchor are restored from seven files, two of
  which `load` accepts to be missing.
* **Decisions by rank.** Every rank decides for itself whether to skip, halt,
  save or leave; one that decides otherwise leaves its peers in a collective.
* **Messages without tags.** The cross-replica reduction is point-to-point; a
  replica that runs ahead meets a partner still in the previous reduction.
* **Two programs, one value.** The audit groups float additions with a carry
  stack, walks the stream rank by rank and slices tensors by hand; the cluster
  does the same with a butterfly, with processes and with DTensor. Digests agree
  only if all of these agree.
* **Files left by the dead.** Download directories, spill directories, staging
  directories, `.part` files, cursors and manifests outlive whoever wrote them
  and are reused by existence.

`PROJECT.json` lists the hazards one by one, at the line where each bites, with
the properties that would catch it.

### What makes each part correct

* spike protocol: cooldowns are served in full, the halt rule forgets nothing it
  needs, an unstable run halts within a bound;
* loop and checkpointer: resume is exact, digests are published once, what was
  saved is stable, an eviction leaves a sealed checkpoint, halts are final, the
  run settles; together: *the run implements the uninterrupted run*;
* ranks: all make the same calls, and the marker means a whole checkpoint;
* reduction: every replica applies the fold the audit computes, and none waits
  for ever;
* stream: the windows trained are the windows of one stream, on any topology;
* audit: an honest replay matches, a match is worth something, a hand-off is the
  checkpoint it stands for;
* fetch: an interval's shards are exactly those the run drew, and what a replay
  reads is what the run trained;
* corpus: every document pulled reaches the manifest once, in order.

## 2. Modules

    SpikeProtocol   BatchSchedule
       |      \        /      \
    SpikeHalt  TrainStep       \        SourceWalk
       |        /     \         \       /        \
    SpikeHalt- |    RankShares   WindowView    GlobalStream   (abstract)
    Proofs     |     /      \      /     \        .
         Uninterrupted-  Rank-   DocMap  RankViews . . implements
         Run (abstract)  Lockstep  |        |
               |           |    AuditFetch  RankViewsMC
           TrainRun     RankLock-  |
           (implements)  stepMC  AuditFetchMC
           /      \
    Conversion  TrainRunProofs              RankShares
      |                                         |
    TrainRunMC                             RunSegments   SpillStore   ReduceTree
              ReduceTree                     |       \       |        /
             /          \                 HandoffGate    AuditReplay
    ReplicateReduce  ReplicatedUpdate            \        /
          |              |  (abstract)           AuditReplayMC
    ReplicateReduceMC  ReplicatedUpdateProofs

    ByteSegments -- CorpusSource -- CorpusBuild -- CorpusBuildMC -- CorpusBuildProofs

    RankShares    ShardRows       RankLockstepMC   AuditReplayMC
            \      /                     |               |
         TrainStepProofs          RankLockstepProofs  AuditReplayProofs
         (used by the two on                              |
          the right)                               AuditMatchProofs

An `MC` module holds the properties and the small constants of a run; the
modules below it are the model. Definitions named after a fault (for instance
`ReanchoredAtResume`, `FetchViewWithoutClock`) stand just before the definition
they are a broken variant of: `PROJECT.json` uses them to show that each
property notices when the code is changed that way.

### Training

**SpikeProtocol** models the mutable record of one `SpikeProtocol` object and its
two methods as operators. A gradient is its *class*: calm, above the threshold,
or NaN/Inf. The deque of event steps is ascending, so it is a set. **SpikeHalt**
drives it with arbitrary gradients, one `TakeStep` per optimizer step; its
history variables record which steps ever were fresh events and which reached the
weights.

**BatchSchedule** holds the schedule functions (ceiling division included).

**TrainStep** is one optimizer step on the state a run carries: `Begun` (LR,
micro-batches, running digest), `Stepped` (spike gate, update or skip, counters),
`Linked` (the chain). Tensors are abstracted to what was done to them: weights
are the sequence of updates applied, each naming its gradients, LR, RNG state and
moments; a digest is the record of everything hashed into it. Two digests are
equal exactly when the hashed bytes describe the same history, which is what
blake2b is trusted for. **RankShares** cuts a step's micro-batches by rank and
puts the parts together again, as the batch digests of the ranks are combined.

**UninterruptedRun** is the abstract specification: a tip that advances one
boundary at a time, the state at every boundary (`trail`), the published journal,
and the halt. **TrainRun** is the program across process lifetimes, all ranks as
one state. `dirs` is durable; everything else dies with the job:

| action | code |
|---|---|
| `ColdStart` | `train()` without `--resume-from`, its guard and the init digest |
| `ResumeOwn`, `ResumeParent` | `Checkpointer.load` and the resume block; the directory is any that loads, as `--resume-from` may name any |
| `BeginStep`, `RefuseUneven`, `Finish` | the `while` test, the even-split check, `schedule_lr`, the micro-batch loop |
| `UpdateWeights`, `HaltJob` | the spike gate with `optimizer.step()` or `record_skip`, the counters; `Halt` |
| `PollExit` | the all-reduced exit flag |
| `HashState` | the hash gate, the digest, the chain, the journal |
| `BeginSave`, `WriteFile` | `mkdir(exist_ok=True)` and each file in the order `save` writes it, the marker last |
| `EndStep` | `zero_grad` and `SystemExit` |
| `Sigterm`, `Crash` | the signal handler; the job dies, the file being written is lost or torn |

`trail`, `tip` and `haltedAt` are bookkeeping beside the code: they record what
was reached first and are never read by an action's guard. `ResetOptimizer` runs
resume from their parent only, as `docs/audit-replay-usage.md:218-221` demands
of their operator. A fork's parent carries no anchor of its own here; forks of
forks are in RunSegments.

**Conversion** is `dcp_safetensors.py` applied to a directory of TrainRun. The
program is sequential and changes nothing it reads, so it is a set of operators
and not a state machine: what `to-safetensors` packs of a directory, torn or
whole (`Packed`), and every directory a `from-safetensors` of that file leaves,
killed behind or in any of its writes (`Outcomes`). `load` decides about these
directories as about any other.

**RankLockstep** is the same loop with every rank a process on a 2-dimensional
mesh, and justifies that TrainRun keeps one state. A rank's action carries it
from one completed collective to the next; `calls` records, per communicator,
which call each rank made there and what it gave. The n-th call of a rank
completes when every member has made its n-th call, whatever that call is for,
so a rank that takes another branch is answered with what belongs to another
call. Actions: the guard (`AskGuard`, `Refuse`, `HashInit`, `EnterLoop`), the
iteration (`Backward`, `Flush`, `FoldNorm`, `UpdateWeights`, `HaltRank`,
`AskExit`, `HashShard`, `HashBatches`, `Hashed`, `NextStep`, `EndStep`,
`Finish`), the save (`BeginSave`, `SaveShard`, `SendFiles`, `WriteFiles`,
`Seal`), and `Sigterm`, `Die`, `Abort` (a collective whose member is gone times
out). Four simplifications: a rank that is not the root may leave
`gather_object` before the root has called it, which allows more than torch
does; a gradient that is out of range shows in the first shard; a rank whose own
loss is infinite has an infinite gradient too; and jobs start cold.

**ShardRows** is arithmetic only: which rows of a `Shard(0)` tensor a rank
holds, pads, hashes and sums, on the cluster and in the audit.

### Reduction

**ReduceTree** is the arithmetic of the reduction. Float addition commutes and
does not associate, so a sum is the unordered tree of its additions, kept as the
bag of the leaf sets below its nodes. `TreeReduceSum` is the reference both sides
name; `Push`/`FoldResult` are the audit's carry stack.

**ReplicateReduce** is the cross-replica all-reduce as every replica runs it. What
a replica posts and waits for depends only on its rank and the group size, so the
loops of `_recursive_doubling_allreduce_avg` and `_binomial_broadcast` are a
`Plan`, a sequence of batches of sends and receives:

| action | code |
|---|---|
| `Hook` | `on_module`: stash the shard, or reduce it now in immediate mode |
| `Flush` | `flush` after the last micro-batch: coalesce in install order, or nothing to do |
| `Wait` | `work.wait()` of a batch, the addition, the next batch; at the end `× 1/ws` and the copy back into `.grad` |
| `Update` | clip, optimizer step, `zero_grad` |
| `Depart`, `Arrive`, `Rendezvous` | the backend (external): it may buffer a send or complete it with its receive; messages of an ordered pair match in order and carry no tag |

In bucketed mode hooks may fire in any order on each replica, as `flush`'s comment
claims to support; in immediate mode the model takes FSDP's reverse install order
on every replica, which that mode depends on and does not enforce.

**ReplicatedUpdate** is its abstract specification: a replica applies exactly the
update the audit folds, after every replica has finished its backward.

### Data

**SourceWalk** is the order of documents (`DocWalker` over a permutation per
epoch, a seeded draw of the source); the generators are constants, since the same
seed draws the same. **GlobalStream** is the stream a buffer of tokens makes of
it. **WindowView** has the operations of one `ShardedWindowView`: the buffer of
segments, the length-walk that moves it without reading tokens, the step plans.
**RankViews** runs one such view per data-parallel rank, with saves by rank 0 and
relaunches on another number of ranks.

**DocMap** is the rows and files of the doc map. **AuditFetch** composes the
cluster's run, the fetch of an interval (manifest, indexes, walk, downloads to
`.part`, placeholders, every step a place to be killed), replays by each virtual
rank from the fetched directory, and the doc map's walk.

**ByteSegments** is how the fan-out sharder divides a file's bytes.
**CorpusSource** has the pure parts of a corpus build: visiting order, quotas,
shuffle, segments, shards. **CorpusBuild** is one source from upstream to
manifest: the four pullers (resumable stream, listing, ordered window over files,
ordered window over blobs), rename, shuffle and its marker, sharding by one
process, by worker processes or by pods, and both merges; a pod may die at any
step, with any prefix of what it buffered on disk, and is retried.

### Audit

**RunSegments** is the cluster as an audit sees it: segments, each forked from a
step of the one before, each with its own descriptor in `meta.json`. A segment is
taken as the uninterrupted run that TrainRun is shown to implement, so any of its
steps may carry a checkpoint. **SpillStore** is the pair of payload and sidecar.
**AuditReplay** is the audit: the start gates, the descriptor overlay and load
(`Start`, `VerifyInit`), one virtual rank after another (`BeginStep`, `RunRank`
with its push on the disk-backed carry stack), `FoldGradients`, `UpdateWeights`,
`HashStep`, `EndStep`, the verdict (`Judge`), the hand-off
(`StageSidecar`, `StageCheckpoint`, `Publish`), and `Kill` and `Rot`.
**HandoffGate** is what `verify_handoff.py` recomputes.

## 3. Runs

| run | question | result |
|---|---|---|
| `spike_halt` | Do skips, cooldowns and the halt rule do what the module promises, for all sequences of 13 gradients? | holds |
| `train_resume` | Is an auditable run with crashes, evictions and resumes the uninterrupted one, file by file and digest by digest? Does what a conversion makes of any directory on the way, finished or killed, resume as the run or not at all? Does it end at its budget, at its halt or wedged, and never in between? | holds |
| `train_fork` | The same for a re-warmed fork on two ranks with the token cadence; are evictions served, and does the run end in its halt or in the refusal of a step that does not split? | holds |
| `train_latest` | Is what `latest()` returns always loadable? | violated: a re-save leaves the old marker on a torn directory |
| `rank_lockstep` | Do four ranks make the same calls, with signals, a killed rank, differing views of the volume and a bad loss on one rank? Is a marked checkpoint whole, and does every rank leave? | holds |
| `replicate_reduce` | Do groups of one to seven replicas apply the audit's updates, in both modes and over the transports that buffer most and least, without ever consuming another reduction's message or waiting for ever? | holds |
| `stream` | Do one to three ranks train the windows of the one stream across saves and relaunches on other world sizes, each view a refinement of it? | holds |
| `fetch` | Do the offline walks see exactly the shards, tokens and positions of the cluster's run, in a directory shared by killed and repeated fetches? | holds |
| `audit` | Does an honest replay match, is a match worth something, is a hand-off the checkpoint it stands for, and does the gate tell? | holds |
| `audit_reset` | Does a later interval of a segment with an optimizer reset need no flag? | violated: the start checkpoint's moments are dropped |
| `corpus_build` | Does every pulled document reach the manifest once, in order, whatever crashes and overtakes, and does the build end? | holds |
| `corpus_cursor` | Are `.part` and `.scanned` mutually consistent for a pull that ends between two chunks? | violated: the rows behind the boundary are skipped |

Deadlock checking is off because finished, halted or refused runs, builds and
audits stop; that they do stop is stated as liveness where it matters.

### What the violations say

* `train_latest`: `save()` enters an existing step directory and never removes
  its `_COMPLETE`. A job that re-saves a complete directory and dies leaves a
  torn one that `latest()` returns.
* `corpus_cursor`: `pull_dclm` and `pull_fineweb` save a final cursor at any
  count, while a retry floors `.part` to a chunk. A pod that dies before the
  rename loses up to a chunk of documents, where the comment allows only
  duplicates.
* `audit_reset`: the config in every checkpoint of a reset segment carries
  `resume_reset_optimizer`, so the replay loads weights only also where the
  checkpoint has the moments of the new segment.

Four more places where code and prose differ were met while modelling. The
models follow the code, and no run is devoted to them:
`config/schema.py:312-315` says that a configuration which can never halt is
refused, but line 316 computes with `skip_steps_on_spike` as configured and
`SpikeProtocol` takes at least one step for it (`train/spike_protocol.py:52`):
`skip_steps_on_spike = 0` with five skips in a window of 3 is admitted, and
`UnhaltableNeverHalts` proves that it never halts;
`train/spike_protocol.py:15-17` says a run halts on *more than* K events, line 93
halts on the K-th; `parallel/deterministic_reduce.py:326-327` speaks of a
power-of-two degree, nothing checks it and lines 478-481 and the audit support
any (as `replicate_reduce` confirms for 3, 5, 6 and 7); the legacy loader's
last file before the marker is `spike_protocol.json`, so a directory torn in
front of it loads in legacy mode and its cooldown is lost
(`train/checkpoint.py:336`, against `train/loop.py:525-529`), which the proofs
exclude by `Auditable`.

### Bounds

* `train_*`: `MaxLaunches = 3` is two interruptions. One leaves a directory,
  the second can hit the *re-save* of that directory, and the third job resumes
  from the result. The resume run has five steps: with `HashEvery = 2` and
  `CkptEverySteps = 3` there are steps that hash only, save only and do
  neither, and a final step off both cadences. The schedule changes phase on
  the way, so the loader's clock matters. `train_resume` ends in all the ways
  `RunSettles` allows it: done (its final step is hashed and saved for being
  the final one alone), halted, and wedged on directories that do not load. The
  fork takes three steps and meets a fourth that does not split over its two
  ranks: it ends halted or refused, and never reaches its budget. Cooldowns straddle checkpoints, and one surface halts the
  run while others do not. A surface is a function from stream position to
  gradient class: a replayed position shows its gradient again, as
  deterministic kernels do.
* `spike_halt`: 13 steps; events forced two steps apart slide the window past
  several of them. The window is the smallest that can hold three events.
* `rank_lockstep`: a 2×2 mesh has two members on every axis and a rank (3) that
  is neither root nor writer. Four steps: one that neither hashes nor saves,
  one that hashes, one that saves and a final one. The last rank's loss is bad
  in the second step, with or without a spike before it (a skip, or a halt).
  One signal and one death reach any rank at any point between its calls.
* `replicate_reduce`: groups of 1 to 4 have one binary block, two blocks and a
  group of one, with two steps (a replica may run ahead into the next
  reduction), two modules (the coalesced buffer has an order) and a buffer of
  4, more than the three messages ever in flight. Groups of 5 to 7 have two and
  three blocks and a broadcast truncated at every depth, over a transport that
  buffers nothing and so deadlocks first.
* `stream`: documents of 1 to 4 tokens and windows of 3, so that windows end in
  a document, on its last token and on its separator; one source starts over
  several times; batch sizes that change phase; world sizes 1, 2 and 3.
* `fetch`: three steps with a phase change, two sources, shards that an
  interval needs and does not; two fetches into one directory and one changed
  object, an index of which may be malformed, or well-formed and another's.
* `audit`: six ranks as three replicates of two shards, so the carry stack
  carries once and holds two partials; four steps with hashes on every second,
  checkpoints on and off that cadence, a fork at any step, and a last phase
  that does not split, where the run ends and a replay that aims further is
  refused; two audits in a row (the second from the first one's hand-off) and
  one fault. Targets aim at most one step past the run's last.
* `corpus_build`: each kind of puller with a handful of items, chunks of two
  documents, two fetches in flight, up to two pods or workers, three launches
  of a pod: two interruptions, the second of a resumed pull. One stream
  reaches its target, another runs out of rows on a chunk boundary. The window
  over files (4 in flight) fills; the one over blobs (8) does not.

### Fairness

* TrainRun: `WF(Job)`, a live job keeps executing, and `WF(Launch)`, whoever
  operates the run relaunches a job that went down (the launcher's retry, or an
  operator). Crashes and signals are only bounded: the last launch is left alone.
* RankLockstep: `WF(Work)`, some rank that can go on does; a collective whose
  member will never come times out (`Abort`), as the process-group timeout does.
* ReplicateReduce: a replica keeps executing and the transport completes matched
  operations; `Depart` has no fairness, since no backend owes buffering. A
  replica that dies ends the job (TrainRun's `Crash`), so none fails here.
* CorpusBuild: pods, fetches, child processes and the operator's merge proceed,
  and a failed pod is started again (the Job's `backoffLimit`).

## 4. Proofs

All proofs are for *every* value of the constants: any schedule, cadence, loss
surface, spike configuration and number of launches. The assumptions are the
named `ASSUME`s of the modules (types, positive sizes, what
`SpikeConfig._validate` admits, re-warm and reset belonging to forks). That the
halt count is positive and the window not negative no validator checks; a
protocol without either is not considered.

**TrainRunProofs** (auditable mode). The properties are not inductive: a job that
is in the middle of a step says nothing about the trail. `RunInv` (in `TrainRun`)
adds what each phase holds (`AtTop` … `AtSaving`: the live state is the trail's
state, begun, stepped or linked), what every file of every directory holds
(`DirsInv`: absent, torn or exactly the trail's content, and the optional files
never missing behind a file written after them), what the journal holds, and
that a halt happens at the tip. `RestoreExact` is the heart: a directory that
loads has its stream file, therefore its spike file and batch digest, therefore
rebuilds the trail's state. One lemma per action then re-establishes the
invariant, and the theorems follow: type correctness, `ResumeIsExact`,
`JournalAgrees`, `StampMatchesJournal`, `SideLinksHangOffTheChain`,
`LoaderInStep`, `HaltIsFinal`, `CooldownSurvivesResume`, `SavedFilesAreStable`
and the refinement `Spec => USpec`. The theorems need `Auditable`: in legacy mode
nothing behind the spike file forces it to exist.

It also proves `DepartureIsSaved`. `RunInv` says that what a
directory holds is right, not that it is all there. `SaveInv` adds the order of a
save (`EarlierFiles` of the file being written are written) and the lag of the
last save's token clock behind a step's: at a step that does not save, the final
step's condition cannot hold, so a finished run passed through a save. The
theorem excludes the optimizer reset, which loads other moments than were saved,
and a fork of a parent with no tokens left.

And it proves `ConversionResumesExactly` from `RunInv`. The one
fact about the conversion that carries it is the order of the writes: the RNG
states, which `load` insists on, come behind every file whose absence it would
accept (`RngIsLast`), so an outcome that loads is the original directory but for
its marker, to which `RestoreExact` applies. It excludes the optimizer reset,
as above.

**SpikeHaltProofs**. `CooldownInv` says that the remaining cooldown is what is
still owed since the last fresh event: cooldowns are always served and fresh
events always spaced. `DequeInv` says what the deque still holds of the events
that ever were (the recent ones), and `Spaced(k)` that k spaced events span at
least k-1 cooldowns, so the deque stays below the halt count until it halts:
the run halts exactly on a full window, over all events and not only those the
deque kept. `StreakInv` counts a streak of bad gradients by its events, which
gives `EndlessSkippingHalts` where `Haltable` holds: the validator's inequality,
for the cooldown the protocol takes. The validator guarantees it when the
configured cooldown is at least one step (`ValidatedIsHaltable`) and not
otherwise; without it the protocol never halts at all (`UnhaltableNeverHalts`:
events a cooldown apart fall into different slots of that length, of which the
window has fewer than the halt count).

**ReplicatedUpdateProofs**. `UpdateInv` says that every log is a prefix of the
audit's list and that nobody applied an update before everybody contributed to
it; the replicas therefore stay identical and at most one update apart. That
ReplicateReduce implements this specification is model-checked for groups of up
to seven: the powers of two behind its plan need inductions out of the provers'
reach.

**AuditReplayProofs**. For every schedule, loss surface, world size, number of
forks, audits, kills and lost bytes, and every choice of what is spilled. `Inv`
has four parts. `ClusterInv`: every segment follows the course of the first one
(what a step does to position, clock, RNG, spike record and batch chains depends
on neither learning rate nor optimizer, `CourseStep`), it does so by `After`, and
the batch chain grows with every step. `HandoffsInv`: what a published hand-off
holds beside its tensors is the run's, and its stamp is a digest of what it
holds, chained as the step says. `LeftInv`: the run is over when audits start.
`AuditInv`: phase by phase, where the replay stands on the course rank by rank
(`Stands`: a rank has or has not taken its share of the step), what the spill
files hold, and what the target digest was taken of, moments on disk included.
Then a digest decides: equal batch chains mean equal steps, since the chain grows
(`BeyondInv` for a replay that outlives the run), so a match is earned
(`MatchesAreEarned`), a matched hand-off is the checkpoint of its step, the parts
no digest covers among them (`HandoffsAreCheckpoints`), and the gate tells
(`GateIsExact`).

**AuditMatchProofs** proves the converse, that honest replays do match, and the
type correctness of AuditReplay (`AuditTypeHolds`). `FoldInv` follows the carry
stack: after `slot` replicates the stack on disk is, level by level and sum by
sum, the fold of their partials, and the ranks of the next replicate wait in
order (`FoldedTo`, by induction over the pushes; division of ranks into shards by
`UniqueDivision`). `ForkInv` says that a segment keeps the boundary it was forked
at. `TrackInv` says of an honest audit that master, moments and learning rate,
wherever they are at the time, are those of the audited segment at that step, and
that its running chain and its target digest are the published ones.
`FaithfulAuditsMatch` then holds for every kind of fork and excludes only what
`audit_reset` finds; without resets it is `HonestAuditsMatch`.

Both modules assume `SpillVerify` (the default): with verification off a byte
lost between the hash and the verdict reaches the hand-off. AuditMatchProofs
assumes besides `FoldIsTheClusters`, that the carry stack groups any replicates'
sums as `tree_reduce_sum` does. That is a statement about ReduceTree alone, for
one number of replicates; for one to seven of them it follows from the run
`replicate_reduce`, whose `ImplementsPromise` equates the two on distinct leaves,
and a grouping does not depend on what its leaves are.

**CorpusBuildProofs**. For every upstream, chunk and number of launches, and any
number of deaths at any step. `NothingSkippedOverAlways`: the raw file of a
resumable stream skips no usable row before its last one.
`DuplicatesBoundedOfStreams`: an interruption repeats at most one chunk. Neither
is inductive, since both speak of the renamed file and the damage is done in the
`.part` file and its cursor. `StreamInv` follows these two: `Backed` says that
the lines hold exactly the texts of the rows up to one at or beyond the cursor
(beyond, when a pod died between the flush and the cursor), and that what a pull
from the cursor would repeat, or has repeated, is at most a chunk for each
interruption. The work is in three steps. A kill leaves some prefix of the
buffer in the file, and the floor to whole chunks in `_resume_offset` takes
exactly that prefix away (`TornLines`, `ResumedDropsTheRest`); reading on from
the cursor adds a row that is either new or behind the lines already there
(`BackedRead`, `BackedBehind`); and the flush before the cursor is saved is what
an interruption can be charged a chunk for (`Pull`). Both theorems assume
`StreamsFill`: a stream has one pod, at most one text in a row, a target of whole
chunks, and rows enough for it. Where the last flush is not a whole chunk, a
resume drops lines the cursor is already past, which is what the run
`corpus_cursor` shows. The first theorem leaves sources of the other pullers
free; that they obey `DuplicatesBounded` is only model-checked.
`WrittenInOrderAlways`: what a pod writes through its window of fetches is what it
submitted, in that order, cut only at the target. The invariant behind it is
`WindowInv`: of what was submitted, all that is not yet written is either in
flight or waits and never both (so no result can be lost between the two), and
the `.part` file is exactly the flattened results before the next one to write.
`WindowHarvest` is the step that matters: the results ready to be written are an
interval from the next one to the first gap (`ReadyInterval`), and appending them
extends what was due by the flattening of that interval (`DueGrows`, from
`FlattenBoth`). The theorem assumes `WindowsListed`, that a windowed source lists
sequences of documents; the run's sources do. `WindowKeepsOrderAlways` adds that
files go by rounds, which speaks of `RoundRobin` alone and is an assumption of
the proof (`SpreadByRounds`): TLC evaluates it for the run's directories, and the
prover cannot, since `RoundRobin` selects from sequences.
`EveryLineOwnedOnce`: for every file, every set of line starts and every number
of workers, a line belongs to exactly one segment, by monotonicity of the floors
that bound the segments.

**TrainStepProofs** holds what several proofs need about a step (which fields it
changes and how, `AfterFields`, `AfterCourse`), about sequences and about the
ranks' shares, and the theorems on ShardRows. For every number of rows, shards
and replicas: the logical part of a rank's local shard is the audit's chunk, the
padded chunk is the local shard, the audit's list of row sets is the cluster's,
rank by rank, and every row is in exactly one shard, empty trailing shards
included.

**RankLockstepProofs**. For every number of ranks and shards, schedule, loss
surface and save cadence, every view of the volume, and any number of signals and
deaths. Neither `RanksStayInStep` nor `SealedMeansWhole` says where a rank in the
middle of a step is, so neither is inductive. `Course` writes down the one course
a job takes: the state after each step, the last checkpoint and how many calls
each communicator has seen by then, none of which depends on an interleaving.
`LockInv` places every rank in it, at a `place` of an iteration `n`, with four
parts. `LogInv`: its log is the course's calls up to there, with what the course
says it passes (the exit flag alone is free). `PaceInv`: every earlier iteration
was agreed to by all and stopped by none, and a rank past the exit check is where
the agreed flag or the cadence sends it. `MemInv`: it holds its share of the
course's state, begun, stepped or linked as the place says, and what the last
collective brought. `PutInv`: its part of every save of the course is on the
volume. `Shape` says of each directory that what it holds is the course's, and of
one with the marker that everything is there. `Lookup` is the heart: since calls
are counted, the i-th call of an iteration on a communicator is that iteration's
i-th call for every member, wherever it stands, so a completed collective brings
exactly what the course says the peers pass (`GatheredIs`). Then the gate's class
is the class of the whole step on every rank, its own loss included (`GateIs`
with `NormIs` over the mesh), the exit flag is everybody's answer (`ExitIs`),
and the digest each rank computes is TrainStep's (`DigestIs`). A rank that dies or
gives up leaves its log and its writes behind, which is all the others count on.
The theorems are `RanksAgree` and `SealedDirectoriesAreWhole`. `LockstepAssumption`
is what they rest on: an auditable run that is no fork and no schedule that
refuses a step half-way, both of which are TrainRun's.

Induction over data is by least counterexample (`LeastNat`, from the
well-foundedness of `<`), a statement at a time: the library's induction theorems
take an operator as a parameter, which the installed provers cannot instantiate.

Only model-checked: liveness (`SigtermIsServed`, `RunSettles`,
`EveryReplicaFinishes`, `EveryRankLeaves`, `BuildFinishes`), which the proof
system does not support under fairness; the plan of the cross-replica reduction
(see ReplicatedUpdateProofs); the stream and fetch modules, which compute with
folds over sequences and walks whose unfolding is a proof of its own; and of the
corpus what rests on a selection from a sequence: `CorpusTypeOK` and
`ManifestIsWhole` (a quota, a worker's documents), and the order of files
`SpreadByRounds`. The prover takes `SelectSeq` for an arbitrary function, and has
no induction over data to say what a fold returns; a flattening it reaches only
because the community modules define it by a recursive function, unfolded by
least counterexample (`FlattenIsJoined`).

## 5. Not modelled

* *Whole components*: tensor arithmetic of models, losses and optimizers;
  learning-rate curves (the model records their argument); evaluation; metrics
  and W&B.
* *Conversion*: the flattening and naming of tensors, foreign safetensors files,
  the gate on a foreign header, `--verify`; the gradients of a hand-off, whose
  files are in HandoffGate.
* *Training*: a warning of a batch phase that will not split, which the code does
  not give (the refusal at `train/loop.py:809` is modelled and counts as an end of
  the run); metrics, timing, dead-tensor and grad-norm diagnostics (their
  counters are not checkpointed, `train/loop.py:552`, so frequent resumes
  postpone the assertion); the DCP metadata whitelist; `garbage_collect`, which
  the loop never calls; two jobs that race through the cold-start guard with one
  run id (`train/loop.py:440`); a relaunch under another data-parallel size that
  finds fewer or more per-rank files (`train/checkpoint.py:488`): RankViews
  models what that does to the stream and no module what it does to the digests.
  Rank 0 alone computes the perplexity and writes files, and may raise alone;
  RankLockstep has this as the death of a rank.
* *Stream*: the legacy per-rank `MixSampler` (`data/mix_sampler.py:226-306`,
  `data/loader.py:91-126`) and the weights of a mix, which the generator's draw
  stands for.
* *Audit*: the progress report and evidence files; two audits that share one
  spill directory; `--config-name` overrides and the default target under the
  token cadence. The tools run after the cluster's run, which does not notice
  them; the mirror changes only while a fetch runs; `--expect-hash` and
  `--save-checkpoint-dir` are chosen where they are first read. With
  `PRETRAIN_AUDIT_SPILL_VERIFY` off, moments changed on disk after the hash would
  reach a matched hand-off (`cli/audit_replay.py:2716-2718`); the run has it on.
* *Fetch*: what a walk does with an index that is well-formed and not the run's
  (`_read_header` checks magic and version, `data/indexed_dataset.py:72-95`): it
  may name any shards, a replay may read anything, and the properties ask for a
  verified interval or for indexes that are the run's. An index once there is
  never downloaded again (`data/fetch_interval.py:214`), and an unverified fetch
  keeps a placeholder it finds (320-324), which is why what a replay reads is
  claimed of a verified one.
* *Corpus*: tokenisation, packing and the per-dataset text filters (a document
  is kept or not); the memory a slow fetch may cost its window
  (`build_corpus.py:753`); a second shuffle of a file whose pod died between the
  replacement and the marker (1275) is modelled, and permutes it again.

Behaviours of the code that a reader of the models meets and may not expect: a
conversion asks for no marker and always writes one, so the conversion of an
unsealed directory is sealed (`cli/dcp_safetensors.py:416-418`), also where it
does not load; the
hand-off gate cannot check the first hashed step, which has no link before it
(`cli/verify_handoff.py:297`); a replay that halts counts the step and not its
tokens; the existence gates of `build_corpus.py` accept a manifest torn by a
crash (`data/manifest.py:79`), and `ManifestIsWhole` therefore speaks of
manifests whose writes ended. It also takes for granted that whoever merges pods'
manifests gives their number: `--expected-workers` defaults to 0, which counts
nothing (`cli/prepare_data.py:157`, 340), and an early merge then leaves documents
out that no later step looks for.

## 6. How to extend it

The parts that would add most next: a parent checkpoint with an anchor of its
own in TrainRun, as RunSegments has it; per-rank checkpoint files with a
relaunch under another world size, which needs the world size as a variable of
TrainStep and of the proofs built on it; warm starts in RankLockstep; the legacy
mixing sampler; and proofs that RankViews' length-walk and GlobalStream agree,
once stated over recursive functions of the number of draws.
