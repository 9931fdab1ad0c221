----------------------------- MODULE AuditReplay -----------------------------
(***************************************************************************)
(* src/src/pretrain/cli/audit_replay.py: one device replays an interval of *)
(* an auditable run, virtual rank by virtual rank, compares the digest of  *)
(* the target step with the published one and hands its own checkpoint to  *)
(* the audit of the next interval.                                         *)
(*                                                                         *)
(* The cluster's segments come first; then audits run one after another,   *)
(* from the cluster's checkpoints or from hand-offs, each of them liable   *)
(* to be killed and to lose bytes on its disk.  Arguments that are only    *)
(* read at the end (--expect-hash, --save-checkpoint-dir) are chosen there.*)
(***************************************************************************)
EXTENDS RunSegments, SpillStore, ReduceTree

CONSTANTS
    DpShard,           \* ranks per replicate; World is dp_world_size
    CkptEverySteps,    \* train.ckpt_every_steps: the default interval
    SpillChoices,      \* which of "fold", "moments", "master" an audit spills
    MaxAudits,         \* bound: audits
    MaxFaults          \* bound: kills and bytes lost on disk

ASSUME AuditReplayAssumption ==
    /\ DpShard \in Nat \ {0} /\ World % DpShard = 0
    /\ CkptEverySteps \in Nat \ {0} /\ HashEvery > 0
    /\ SpillChoices \subseteq SUBSET {"fold", "moments", "master"}
    /\ {MaxAudits, MaxFaults} \subseteq Nat

DpReplicate == World \div DpShard

VARIABLES
    phase,      \* where the audit stands
    args,       \* its arguments
    live,       \* the replayed training state
    views,      \* per virtual rank: its view's position and token clock
    hashers,    \* per virtual rank: the running batch chain
    rank,       \* the virtual rank that runs next
    inner,      \* the shards of the replicate being summed
    stack,      \* the fold's stack of [level, slot]
    slot,       \* the fold's file counter
    store,      \* spilled tensors
    grads,      \* gradients on the master
    halted,     \* the spike protocol halted in this step
    target,     \* target_ckpt_digest
    held,       \* the target step's gradients kept for the sidecar
    verdict,    \* what the audit reports
    staged,     \* the hand-off under construction
    handoffs,   \* durable: published hand-offs by step
    left        \* audits and faults still allowed

memory == <<live, views, hashers, rank, inner, stack, slot, grads, halted,
            target, held, staged>>
audit == <<phase, args, memory, store, verdict, handoffs, left>>
vars == <<cluster, audit>>

\* Spill files: opt_*.pt and master_*.pt stand for one file each.
Moments == <<"moments", 0>>
Master == <<"master", 0>>
Fold(k) == <<"fold", k>>

NoDigest == [link |-> "unset"]
NoArgs == [origin |-> "none", segment |-> 0, step |-> 0, desc |-> 0, until |-> 0,
           spills |-> {}, reset |-> FALSE, expect |-> NoDigest]
NothingStaged == << >>
NotYet == "none"

-----------------------------------------------------------------------------
(* Starting: the gates, the descriptor overlay and the load *)

\* An audit starts from init, from a cluster checkpoint or from a hand-off.
Origins ==
    [origin : {"init"}, segment : {1}, step : {0}]
    \cup (UNION {[origin : {"cluster"}, segment : {g}, step : Steps(g)] :
                    g \in DOMAIN segments})
    \cup {[origin |-> "handoff", segment |-> handoffs[s].segment, step |-> s] :
             s \in DOMAIN handoffs}

LoadedFrom(o) ==
    CASE o.origin = "init" ->
            [state |-> FreshState, reset |-> FALSE,
             hashers |-> [r \in Ranks |-> << >>], stamp |-> NoDigest,
             grads |-> NoSidecar]
      [] o.origin = "cluster" -> Checkpoint(o.segment, o.step)
      [] o.origin = "handoff" -> handoffs[o.step].files

\* --descriptor-checkpoint: position keys stay, segment-scoped keys come from
\* a checkpoint of another segment (0: no overlay).
DescriptorOf(ckpt) == [anchor |-> ckpt.state.anchor, reset |-> ckpt.reset]
OverlaidWithoutAnchor(ckpt, d) ==
    IF d = 0 THEN ckpt
    ELSE LET desc == DescriptorOf(Checkpoint(d, segments[d].tip)) IN
         [ckpt EXCEPT !.reset = desc.reset]
Overlaid(ckpt, d) ==
    IF d = 0 THEN ckpt
    ELSE LET desc == DescriptorOf(Checkpoint(d, segments[d].tip)) IN
         [ckpt EXCEPT !.state.anchor = desc.anchor, !.reset = desc.reset]

Descriptors(o) ==
    {0} \cup {d \in DOMAIN segments :
                 o.origin # "init" /\ d > o.segment /\ Steps(d) # {}}

\* resume_reset_optimizer of the config in effect: weights only, cold moments.
StartState(ckpt) ==
    [ckpt.state EXCEPT !.moments = IF ckpt.reset THEN << >> ELSE @]

\* The chain the replayed hashes continue; the published digest of the start
\* checkpoint is a side-link when it was taken off the cadence.
ChainFromStamp(ckpt) == IF ckpt.stamp = NoDigest THEN NoLink ELSE ckpt.stamp
StartChain(ckpt) == ckpt.state.chain

\* The default target is one checkpoint interval on; a target the start step
\* has already reached is refused.
Target(until, step) == IF until = 0 THEN step + CkptEverySteps ELSE until
AdvancesAnyway(until, step) == TRUE
Advances(until, step) == Target(until, step) > step

Fresh(st, spills) ==
    /\ views' = [r \in Ranks |-> [pos |-> st.pos, clock |-> st.consumed]]
    /\ rank' = 0 /\ inner' = << >> /\ stack' = << >> /\ slot' = 0
    /\ grads' = << >> /\ halted' = FALSE
    /\ target' = NoDigest /\ held' = NoSidecar /\ staged' = NothingStaged
    /\ verdict' = NotYet

\* --offload-optimizer is refused with --from-init.
Supported(o, spills) == ~(o.origin = "init" /\ "moments" \in spills)

\* Bound: how far past the run's last step an audit aims.
BeyondTheEnd == 1

\* The audit of these arguments takes what it loads as its state.
StartWith(o, d, spills, until) ==
    LET ckpt == Overlaid(LoadedFrom(o), d)
        st == [StartState(ckpt) EXCEPT !.chain = StartChain(ckpt)]
    IN
    /\ Supported(o, spills) /\ Advances(until, st.step)
    /\ Target(until, st.step) <= Current.tip + BeyondTheEnd
    /\ args' = [origin |-> o.origin, segment |-> o.segment, step |-> o.step,
                desc |-> d, until |-> Target(until, st.step), spills |-> spills,
                reset |-> ckpt.reset, expect |-> NoDigest]
    /\ hashers' = ckpt.hashers
    /\ live' = IF "moments" \in spills THEN [st EXCEPT !.moments = << >>] ELSE st
    /\ store' = IF "moments" \in spills
                THEN Saved(EmptyStore, Moments, st.moments) ELSE EmptyStore
    /\ Fresh(st, spills)

Start ==
    /\ phase = "idle" /\ Ended /\ left.audits > 0
    /\ \E o \in Origins, spills \in SpillChoices :
       \E d \in Descriptors(o), until \in {0} \cup (1 .. Current.tip + BeyondTheEnd) :
          StartWith(o, d, spills, until)
    /\ left' = [left EXCEPT !.audits = @ - 1]
    /\ phase' = IF args'.until > live'.step THEN "top" ELSE "done"
    /\ UNCHANGED <<cluster, handoffs>>

\* --from-init --until-step 0, with or without a checkpoint: the regenerated
\* init is hashed and compared, nothing is replayed.
VerifyInit ==
    /\ phase = "idle" /\ Ended /\ left.audits > 0
    /\ \E expect \in {InitEntry.digest} \cup {Canonical(1, s) : s \in Steps(1)} :
          verdict' = IF expect = InitEntry.digest THEN "init" ELSE "mismatch"
    /\ args' = [origin |-> "init", segment |-> 1, step |-> 0, desc |-> 0,
                until |-> 0, spills |-> {}, reset |-> FALSE, expect |-> NoDigest]
    /\ left' = [left EXCEPT !.audits = @ - 1]
    /\ phase' = "ended"
    /\ UNCHANGED <<cluster, memory, store, handoffs>>

-----------------------------------------------------------------------------
(* The replay of one step *)

Spills(what) == what \in args.spills
Reached(step) == step >= args.until

\* The rounds of the step just folded and the class of its gradient.
StepRounds == SubSeq(hashers[0], Len(hashers[0]) - Rounds(live.consumed) + 1,
                     Len(hashers[0]))
StepClass == surface[StepRounds[1]]
Skips == ShouldSkip(live.spike, StepClass, live.step)
Hashes == HashDue(live.step + 1) \/ Reached(live.step + 1)

\* M % N, the learning rate with its re-warm ramp, and the master out of the
\* way of the micro-batches.
BeginStep ==
    /\ phase = "top" /\ ~Reached(live.step) /\ ~Uneven(live.consumed)
    /\ live' = [live EXCEPT
                   !.lr = LR(live.consumed, live.anchor),
                   !.weights = IF Spills("master") THEN << >> ELSE @]
    /\ store' = IF Spills("master") THEN Saved(store, Master, live.weights)
                                    ELSE store
    /\ stack' = << >> /\ slot' = 0 /\ rank' = 0
    /\ phase' = "ranks"
    /\ UNCHANGED <<cluster, args, views, hashers, inner, grads, halted, target,
                   held, verdict, staged, handoffs, left>>

RefuseUneven ==
    /\ phase = "top" /\ ~Reached(live.step) /\ Uneven(live.consumed)
    /\ phase' = "ended" /\ verdict' = "raised"
    /\ UNCHANGED <<cluster, args, memory, store, handoffs, left>>

\* The micro-batches rank r's loader yields in this step.
RankBatches(r) ==
    [k \in 1 .. Rounds(views[r].clock) |-> views[r].pos + (k - 1) * World + r]

\* The shards of one replicate, summed in ascending order.
Summed(r, batches) == IF r % DpShard = 0 THEN <<batches>> ELSE Append(inner, batches)

\* _DiskTreeFold.push: how many entries the carry consumes, and their files.
Carries == CarryLength(Levels(stack))
FoldFiles == {stack[i].file : i \in DOMAIN stack}
WholeDirectory == FoldFiles
Carried == {stack[i].file : i \in (Len(stack) - Carries + 1) .. Len(stack)}

\* The files the next phase loads.  A load that finds a file changed raises
\* SpillCorruption, and with it ends the audit.
PushesNext == phase = "ranks" /\ rank < World /\ (rank + 1) % DpShard = 0
NextReads ==
    CASE PushesNext -> Carried
      [] phase = "ranks" /\ rank = World ->
            FoldFiles \cup (IF Spills("master") THEN {Master} ELSE {})
      [] phase = "gate" /\ Spills("moments") /\ ~Skips -> {Moments}
      [] phase = "hash" /\ Spills("moments") /\ Hashes -> {Moments}
      [] phase = "done" /\ Spills("moments") -> {Moments}
      [] OTHER -> {}
ReadsIntact == \A f \in NextReads : Intact(store, f)

RaiseCorruption ==
    /\ ~ReadsIntact
    /\ phase' = "ended" /\ verdict' = "raised"
    /\ UNCHANGED <<cluster, args, memory, store, handoffs, left>>

\* The pushed partial joined to what it carries, lower replicate on the left.
Partials == [i \in DOMAIN stack |-> [level |-> stack[i].level,
                                    sum |-> Loaded(store, stack[i].file)]]
AfterPush(part) == LET s == Push(Partials, part) IN s[Len(s)]

\* One virtual rank: its micro-batches, its batch chain and, after the last
\* shard of its replicate, the push of the averaged partial.
RunRank ==
    /\ phase = "ranks" /\ rank < World /\ ReadsIntact
    /\ \E batches \in {RankBatches(rank)} :
          /\ hashers' = [hashers EXCEPT ![rank] = @ \o batches]
          /\ views' = [views EXCEPT ![rank] =
                          [pos |-> @.pos + Rounds(@.clock) * World,
                           clock |-> @.clock + Rounds(@.clock) * World * MicroTokens]]
          /\ IF PushesNext
             THEN \E top \in {AfterPush(Leaf(Summed(rank, batches)))} :
                  /\ store' = Saved(Unlinked(store, Carried), Fold(slot), top.sum)
                  /\ stack' = Append(SubSeq(stack, 1, Len(stack) - Carries),
                                     [level |-> top.level, file |-> Fold(slot)])
                  /\ slot' = slot + 1 /\ inner' = << >>
             ELSE /\ inner' = Summed(rank, batches)
                  /\ UNCHANGED <<store, stack, slot>>
    /\ rank' = rank + 1
    /\ UNCHANGED <<cluster, phase, args, live, grads, halted, target, held, verdict,
                   staged, handoffs, left>>

\* What the cluster's two-level reduction makes of these rounds.
ReplicateSum(rounds, rep) ==
    Leaf([sh \in 1 .. DpShard |-> RankShare(rounds, (rep - 1) * DpShard + sh - 1)])
ReplicateSums(rounds) == [rep \in 1 .. DpReplicate |-> ReplicateSum(rounds, rep)]
ClusterSum(rounds) == TreeReduceSum(ReplicateSums(rounds))

\* A gradient is named by its rounds when it is the cluster's reduction.
GradOf(sum, rounds) == IF sum = ClusterSum(rounds) THEN rounds ELSE Scrambled

\* result(), the master reloaded, the averaged gradient put on it.
FoldGradients ==
    /\ phase = "ranks" /\ rank = World /\ ReadsIntact
    /\ grads' = GradOf(FoldResult(Partials), StepRounds)
    /\ live' = IF Spills("master") THEN [live EXCEPT !.weights = Loaded(store, Master)]
                                   ELSE live
    /\ store' = Unlinked(store, FoldFiles)
    /\ stack' = << >>
    /\ phase' = "gate"
    /\ UNCHANGED <<cluster, args, views, hashers, rank, inner, slot, halted, target,
                   held, verdict, staged, handoffs, left>>

\* The spike gate on the folded norm, then AdamW on resident moments or on
\* moments streamed through the device.  A halt is kept for the loop's end.
UpdateWeights ==
    /\ phase = "gate" /\ ReadsIntact
    /\ LET streams == Spills("moments") /\ ~Skips
           st == IF streams THEN [live EXCEPT !.moments = Loaded(store, Moments)]
                            ELSE live
           next == Stepped(st, grads, StepClass)
       IN  /\ live' = [next EXCEPT
                           !.step = live.step, !.consumed = live.consumed,
                           !.moments = IF streams THEN << >> ELSE @]
           /\ store' = IF streams THEN Saved(store, Moments, next.moments) ELSE store
    /\ halted' = RaisesHalt(live.spike, StepClass, live.step)
    /\ phase' = "hash"
    /\ UNCHANGED <<cluster, args, views, hashers, rank, inner, stack, slot, grads,
                   target, held, verdict, staged, handoffs, left>>

\* The moments are back in the optimizer while the state is hashed.
WithMoments ==
    IF Spills("moments") THEN [live EXCEPT !.moments = Loaded(store, Moments)] ELSE live
DigestWithoutMoments == StepDigest([live EXCEPT !.data = RoundsOf(hashers)], grads)
ReplayDigest == StepDigest([WithMoments EXCEPT !.data = RoundsOf(hashers)], grads)

\* The canonical hash when one is due or the target is reached; the target's
\* gradients are kept before zero_grad; the chain moves on the cadence only.
HashStep ==
    /\ phase = "hash" /\ ReadsIntact
    /\ IF Hashes
       THEN \E digest \in {ReplayDigest} :
            /\ target' = IF Reached(live.step + 1) THEN digest ELSE target
            /\ held' = IF Reached(live.step + 1) THEN grads ELSE held
            /\ live' = IF HashDue(live.step + 1) THEN [live EXCEPT !.chain = digest]
                                                 ELSE live
       ELSE UNCHANGED <<target, held, live>>
    /\ phase' = "counters"
    /\ UNCHANGED <<cluster, args, views, hashers, rank, inner, stack, slot, store,
                   grads, halted, verdict, staged, handoffs, left>>

\* zero_grad and the counters; a halted step counts, its tokens do not.
EndStep ==
    /\ phase = "counters"
    /\ grads' = << >>
    /\ live' = [live EXCEPT
                   !.step = @ + 1,
                   !.consumed = IF halted THEN @
                                ELSE @ + Rounds(@) * World * MicroTokens]
    /\ phase' = IF halted \/ Reached(live.step + 1) THEN "done" ELSE "top"
    /\ UNCHANGED <<cluster, args, views, hashers, rank, inner, stack, slot, store,
                   halted, target, held, verdict, staged, handoffs, left>>

-----------------------------------------------------------------------------
(* The verdict and the hand-off *)

\* A replay that halted before its target reports the running chain; no link
\* at all, a digest of its own that no published one equals.
Reported ==
    IF target # NoDigest THEN target
    ELSE IF live.chain # NoLink THEN live.chain
    ELSE [StepDigest(live, << >>) EXCEPT !.link = "standalone"]

Published == UNION {{Canonical(g, s) : s \in Steps(g)} : g \in DOMAIN segments}

\* The moments come back, the spill files go; --expect-hash or none.
Judge ==
    /\ phase = "done" /\ ReadsIntact
    /\ live' = WithMoments
    /\ store' = EmptyStore
    /\ \E expect \in {NoDigest} \cup Published :
          /\ args' = [args EXCEPT !.expect = expect]
          /\ verdict' = IF expect = NoDigest THEN "unchecked"
                        ELSE IF expect = Reported THEN "match" ELSE "mismatch"
    /\ phase' = "judged"
    /\ UNCHANGED <<cluster, views, hashers, rank, inner, stack, slot, grads, halted,
                   target, held, staged, handoffs, left>>

EndUnsaved ==
    /\ phase = "judged"
    /\ phase' = "ended"
    /\ UNCHANGED <<cluster, args, memory, store, verdict, handoffs, left>>

\* The save is refused without a target digest, after a mismatch, or over an
\* existing hand-off.
SavesAnyVerdict == target # NoDigest
Saves == target # NoDigest /\ verdict # "mismatch"
RefuseSave ==
    /\ phase = "judged"
    /\ ~Saves \/ live.step \in DOMAIN handoffs
    /\ phase' = "ended" /\ verdict' = "raised"
    /\ UNCHANGED <<cluster, args, memory, store, handoffs, left>>

\* The hand-off is built in a private directory: the gradient sidecar first,
\* then the checkpoint and the other ranks' chains ...
StageSidecar ==
    /\ phase = "judged" /\ Saves /\ live.step \notin DOMAIN handoffs
    /\ staged' = [grads |-> held]
    /\ held' = NoSidecar
    /\ phase' = "staged"
    /\ UNCHANGED <<cluster, args, live, views, hashers, rank, inner, stack, slot,
                   grads, halted, target, store, verdict, handoffs, left>>

\* The meta keeps the running chain, state_hash.txt gets the target digest.
HandoffStateFromStamp == [live EXCEPT !.pos = views[0].pos, !.data = << >>, !.chain = target]
HandoffState == [live EXCEPT !.pos = views[0].pos, !.data = << >>]
StageCheckpoint ==
    /\ phase = "staged" /\ "stamp" \notin DOMAIN staged
    /\ staged' = [state |-> HandoffState, reset |-> args.reset, hashers |-> hashers,
                  stamp |-> target, grads |-> staged.grads]
    /\ UNCHANGED <<cluster, phase, args, live, views, hashers, rank, inner, stack,
                   slot, grads, halted, target, held, store, verdict, handoffs, left>>

\* ... and one rename publishes it.
Audited == IF args.desc = 0 THEN args.segment ELSE args.desc
Publish ==
    /\ phase = "staged" /\ "stamp" \in DOMAIN staged
    /\ handoffs' = [s \in DOMAIN handoffs \cup {live.step} |->
                       IF s = live.step
                       THEN [files |-> staged, segment |-> Audited,
                             matched |-> verdict = "match"]
                       ELSE handoffs[s]]
    /\ staged' = NothingStaged
    /\ phase' = "ended"
    /\ UNCHANGED <<cluster, args, live, views, hashers, rank, inner, stack, slot,
                   grads, halted, target, held, store, verdict, left>>

-----------------------------------------------------------------------------
(* The world around the audit *)

Idle ==
    /\ phase' = "idle" /\ args' = NoArgs /\ verdict' = NotYet
    /\ live' = FreshState /\ views' = << >> /\ hashers' = << >>
    /\ rank' = 0 /\ inner' = << >> /\ stack' = << >> /\ slot' = 0
    /\ grads' = << >> /\ halted' = FALSE
    /\ target' = NoDigest /\ held' = NoSidecar /\ staged' = NothingStaged
    /\ store' = EmptyStore

Leave ==
    /\ phase = "ended"
    /\ Idle
    /\ UNCHANGED <<cluster, handoffs, left>>

\* A killed audit leaves its spill files and its staging directory behind;
\* every audit writes its files before it reads them.
Kill ==
    /\ phase \notin {"idle", "ended"} /\ left.faults > 0
    /\ left' = [left EXCEPT !.faults = @ - 1]
    /\ Idle
    /\ UNCHANGED <<cluster, handoffs>>

OnDisk ==
    {f \in DOMAIN store : f[1] = "fold" => Spills("fold") /\ DpReplicate > 2}
Rot(f) ==
    CASE f[1] = "fold"    -> Leaf(<<Scrambled>>)
      [] f[1] = "moments" -> Append(store[f].payload, Scrambled)
      [] f[1] = "master"  -> Append(store[f].payload,
                                    [grads |-> Scrambled, lr |-> live.lr,
                                     rng |-> 0, moments |-> 0])
BytesLost ==
    /\ left.faults > 0
    /\ \E f \in OnDisk : store' = Rotted(store, f, Rot(f))
    /\ left' = [left EXCEPT !.faults = @ - 1]
    /\ UNCHANGED <<cluster, phase, args, memory, verdict, handoffs>>

-----------------------------------------------------------------------------
Init ==
    /\ ClusterInit
    /\ phase = "idle" /\ args = NoArgs /\ verdict = NotYet
    /\ live = FreshState /\ views = << >> /\ hashers = << >>
    /\ rank = 0 /\ inner = << >> /\ stack = << >> /\ slot = 0
    /\ grads = << >> /\ halted = FALSE
    /\ target = NoDigest /\ held = NoSidecar /\ staged = NothingStaged
    /\ store = EmptyStore /\ handoffs = << >>
    /\ left = [audits |-> MaxAudits, faults |-> MaxFaults]

\* Auditors wait for the run to end; it does not notice them.
Train ==
    /\ phase = "idle" /\ left.audits = MaxAudits
    /\ Advance \/ ForkRun
    /\ UNCHANGED audit

Replay ==
    \/ BeginStep \/ RefuseUneven \/ RunRank \/ FoldGradients \/ UpdateWeights
    \/ HashStep \/ EndStep \/ RaiseCorruption
HandOff ==
    \/ Judge \/ EndUnsaved \/ RefuseSave \/ StageSidecar \/ StageCheckpoint
    \/ Publish
Next == Train \/ Start \/ VerifyInit \/ Replay \/ HandOff \/ Leave \/ Kill \/ BytesLost

Spec == Init /\ [][Next]_vars
=============================================================================
