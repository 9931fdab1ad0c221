------------------------------- MODULE TrainRun -------------------------------
(***************************************************************************)
(* A training run across process lifetimes: train() of                     *)
(* src/src/pretrain/train/loop.py with the checkpointer of                 *)
(* src/src/pretrain/train/checkpoint.py.  A launch is one job, whose ranks *)
(* move in lock-step; it may be killed at any point, asked to leave by     *)
(* SIGTERM, or halt.  Its volatile state is then gone and a later launch   *)
(* starts from whatever the checkpoint directories hold, including one     *)
(* left half-written.                                                      *)
(*                                                                         *)
(* The bookkeeping variables of UninterruptedRun (tip, trail, haltedAt)    *)
(* record, beside the code, how far the run has ever got.                  *)
(***************************************************************************)
EXTENDS UninterruptedRun

CONSTANTS
    CkptEverySteps,    \* train.ckpt_every_steps, 0 for the token cadence
    CkptEveryTokens,   \* train.ckpt_every_tokens
    MaxLaunches        \* bound: jobs started for this run id

ASSUME CheckpointAssumption ==
    /\ CkptEverySteps \in Nat /\ CkptEveryTokens \in Nat \ {0}
    /\ MaxLaunches \in Nat \ {0}

VARIABLES
    pc,          \* where the job stands, see Phases
    live,        \* the training state in memory
    grads,       \* param.grad, << >> after zero_grad
    clock,       \* the canonical loader's own token clock
    exitDue,     \* this iteration's all-reduced exit flag
    stamp,       \* ckpt_state_hash of this iteration
    lastCkpt,    \* last_ckpt_at
    file,        \* the file save() writes next
    sigterm,     \* _emergency_exit_requested
    launches,    \* jobs started so far
    dirs         \* durable: the step_* directories and their files

jobvars == <<live, grads, clock, exitDue, stamp, lastCkpt, file>>
vars == <<uvars, pc, jobvars, sigterm, launches, dirs>>

Ended == {"down", "exited", "halted", "done", "refused"}
Phases == Ended \cup {"top", "backward", "stepped", "polled", "hashed",
                      "saving", "saved"}

NoStamp == [link |-> "unset"]

-----------------------------------------------------------------------------
(* Checkpoint files *)

Files == {"state_hash", "dcp", "sampler", "rng", "batch_hasher", "meta",
          "spike_protocol", "global_stream", "_COMPLETE"}

Absent == [status |-> "absent", data |-> << >>]
Torn == [status |-> "torn", data |-> << >>]
Written(content) == [status |-> "written", data |-> content]

\* What save() puts into each file.
Content(f, st, digest) ==
    CASE f = "state_hash"     -> digest
      [] f = "dcp"            -> [weights |-> st.weights, moments |-> st.moments,
                                  lr |-> st.lr]
      [] f \in {"sampler", "global_stream"} -> [pos |-> st.pos]
      [] f = "rng"            -> [rng |-> st.rng]
      [] f = "batch_hasher"   -> st.data
      [] f = "meta"           -> [step |-> st.step, consumed |-> st.consumed,
                                  chain |-> st.chain, anchor |-> st.anchor]
      [] f = "spike_protocol" -> st.spike
      [] OTHER                -> << >>

\* The order in which save() writes them.  Rank 0 writes every per-rank
\* file, so one name stands for the files of all ranks.
NextFile(f) ==
    CASE f = "state_hash"     -> "dcp"
      [] f = "dcp"            -> IF Auditable THEN "rng" ELSE "sampler"
      [] f = "sampler"        -> "rng"
      [] f = "rng"            -> IF HashEvery > 0 THEN "batch_hasher" ELSE "meta"
      [] f = "batch_hasher"   -> "meta"
      [] f = "meta"           -> "spike_protocol"
      [] f = "spike_protocol" -> IF Auditable THEN "global_stream" ELSE "_COMPLETE"
      [] OTHER                -> "_COMPLETE"

Has(d, f) == d[f].status = "written"
Missing(d, f) == d[f].status = "absent"

\* load() raises unless the mandatory files parse; an absent batch hasher or
\* spike file is accepted, a torn one is not, and so is a torn stream file.
Loadable(d) ==
    /\ Has(d, "dcp") /\ Has(d, "rng") /\ Has(d, "meta")
    /\ d["batch_hasher"].status # "torn" \/ HashEvery = 0
    /\ d["spike_protocol"].status # "torn"
    /\ \/ Has(d, "global_stream")
       \/ Missing(d, "global_stream") /\ Has(d, "sampler")

\* latest(): the highest step directory that carries the marker.
Sealed == {s \in DOMAIN dirs : Has(dirs[s], "_COMPLETE")}
Latest == CHOOSE s \in Sealed : \A t \in Sealed : t <= s

-----------------------------------------------------------------------------
(* Launching a job *)

\* The anchor of the resume block: a reset anchors at the boundary it loads,
\* a moments-kept fork inherits a recorded anchor, any other run has none.
ReanchoredAtResume(meta) ==
    IF ResetOptimizer \/ (RewarmOnResume /\ RewarmTokens > 0)
    THEN meta.consumed ELSE NoAnchor
ResumeAnchor(meta) ==
    IF ResetOptimizer THEN meta.consumed
    ELSE IF RewarmOnResume /\ RewarmTokens > 0
         THEN IF meta.anchor >= 0 THEN meta.anchor ELSE meta.consumed
         ELSE NoAnchor

\* Optimizer moments: primed by _init_optim_state and filled by DCP, or left
\* cold by model_weights_only.
ColdMoments(d) == << >>
LoadedMoments(d) == IF ResetOptimizer THEN << >> ELSE d["dcp"].data.moments

\* The per-rank RNG, which load() insists on.
ColdRng(d) == 0
LoadedRng(d) == d["rng"].data.rng

\* The published chain.
UnlinkedChain(d) == NoLink
LoadedChain(d) == d["meta"].data.chain

\* The running batch hasher, reseeded when its file exists.
ZeroedHasher(d) == << >>
LoadedHasher(d) ==
    IF HashEvery > 0 /\ Has(d, "batch_hasher") THEN d["batch_hasher"].data
                                               ELSE << >>

\* The spike protocol, restored when its file exists.
FreshSpike(d) == SpikeInit
LoadedSpike(d) ==
    IF Has(d, "spike_protocol") THEN d["spike_protocol"].data ELSE SpikeInit

\* The stream position: the global file when present, else the per-rank one.
LoadedPos(d) ==
    IF Has(d, "global_stream") THEN d["global_stream"].data.pos
                               ELSE d["sampler"].data.pos

\* The state load() and the resume block rebuild from a directory.
Restored(d) ==
    LET meta == d["meta"].data IN
    [step |-> meta.step, consumed |-> meta.consumed,
     weights |-> d["dcp"].data.weights, moments |-> LoadedMoments(d),
     lr |-> d["dcp"].data.lr, rng |-> LoadedRng(d), pos |-> LoadedPos(d),
     data |-> LoadedHasher(d), chain |-> LoadedChain(d),
     spike |-> LoadedSpike(d), anchor |-> ResumeAnchor(meta)]

\* The complete checkpoint of another run a fork is pinned to.
ParentFiles ==
    [f \in Files |-> IF f = "batch_hasher" /\ HashEvery = 0 THEN Absent
                     ELSE Written(Content(f, ParentState, ParentLink))]

Enter(st) ==
    /\ launches < MaxLaunches
    /\ launches' = launches + 1
    /\ pc' = "top"
    /\ live' = st
    /\ clock' = st.consumed
    /\ lastCkpt' = st.consumed
    /\ grads' = << >> /\ exitDue' = FALSE /\ stamp' = NoStamp
    /\ file' = "_COMPLETE" /\ sigterm' = FALSE

\* Without --resume-from: refused once any step_* directory exists.
ColdStart ==
    /\ pc \in {"down", "exited", "halted"} /\ ~Fork
    /\ DOMAIN dirs = {}
    /\ Enter(FreshState)
    /\ journal' = IF HashEvery > 0 THEN journal \cup {InitEntry} ELSE journal
    /\ UNCHANGED <<surface, tip, trail, haltedAt, dirs>>

\* --resume-from names a directory of this run or, for a fork, the parent's.
\* A reset run stays pinned to the parent (docs/audit-replay-usage.md:218-221).
\* Loading a directory that does not load changes nothing.
Resume(d) ==
    /\ pc \in {"down", "exited", "halted"}
    /\ Loadable(d)
    /\ Enter(Restored(d))
    /\ UNCHANGED <<uvars, dirs>>

ResumeOwn == ~ResetOptimizer /\ \E s \in DOMAIN dirs : Resume(dirs[s])
ResumeParent == Fork /\ Resume(ParentFiles)

Launch == ColdStart \/ ResumeOwn \/ ResumeParent

-----------------------------------------------------------------------------
(* One iteration of the loop *)

\* while consumed < total; the even-split check; schedule_lr; the
\* micro-batch loop and its running batch hash.
BeginStep ==
    /\ pc = "top"
    /\ live.consumed < TotalTokens /\ ~Uneven(live.consumed)
    /\ LET rounds == IF Auditable THEN clock ELSE live.consumed IN
       /\ grads' = grads \o StepBatches(live.pos, rounds)
       /\ live' = Begun(live, rounds)
       /\ clock' = clock + Rounds(rounds) * World * MicroTokens
    /\ pc' = "backward"
    /\ UNCHANGED <<uvars, exitDue, stamp, lastCkpt, file, sigterm, launches, dirs>>

\* ValueError: the step does not split evenly over the ranks.
RefuseUneven ==
    /\ pc = "top"
    /\ live.consumed < TotalTokens /\ Uneven(live.consumed)
    /\ pc' = "refused"
    /\ UNCHANGED <<uvars, jobvars, sigterm, launches, dirs>>

Finish ==
    /\ pc = "top"
    /\ live.consumed >= TotalTokens
    /\ pc' = "done"
    /\ UNCHANGED <<uvars, jobvars, sigterm, launches, dirs>>

\* The gradients came from the batch the stream pointed at when it began.
StepClass == surface[grads[1]]

\* flush, clip, the spike gate, optimizer.step() or a skip, the counters.
UpdateWeights ==
    /\ pc = "backward"
    /\ ~RaisesHalt(live.spike, StepClass, live.step)
    /\ live' = Stepped(live, grads, StepClass)
    /\ pc' = "stepped"
    /\ UNCHANGED <<uvars, grads, clock, exitDue, stamp, lastCkpt, file,
                   sigterm, launches, dirs>>

\* record_skip raises Halt: the job ends with no save and no hash.
HaltJob ==
    /\ pc = "backward"
    /\ RaisesHalt(live.spike, StepClass, live.step)
    /\ pc' = "halted"
    /\ haltedAt' = live.step
    /\ UNCHANGED <<surface, tip, trail, journal, jobvars, sigterm, launches, dirs>>

\* The exit flag is all-reduced after the step, before the hash.
PollNothing ==
    /\ pc = "stepped"
    /\ exitDue' = FALSE
    /\ pc' = "polled"
    /\ UNCHANGED <<uvars, live, grads, clock, stamp, lastCkpt, file, sigterm,
                   launches, dirs>>
PollExit ==
    /\ pc = "stepped"
    /\ exitDue' = sigterm
    /\ pc' = "polled"
    /\ UNCHANGED <<uvars, live, grads, clock, stamp, lastCkpt, file, sigterm,
                   launches, dirs>>

CkptDue ==
    IF CkptEverySteps > 0 THEN live.step % CkptEverySteps = 0
                          ELSE live.consumed - lastCkpt >= CkptEveryTokens
FinalStep == live.consumed >= TotalTokens
SaveDueOnCadence == CkptDue \/ (FinalStep /\ live.consumed > lastCkpt)
SaveDue == CkptDue \/ exitDue \/ (FinalStep /\ live.consumed > lastCkpt)
HashNeededOnCadence == HashDue(live.step) \/ CkptDue
HashNeededButAtTheEnd == HashDue(live.step) \/ CkptDue \/ exitDue
HashNeeded == HashDue(live.step) \/ CkptDue \/ exitDue \/ FinalStep

\* The canonical hash when a hash or a save is due; the chain and the
\* journal move on the hash cadence only.
HashState ==
    /\ pc = "polled"
    /\ LET digest == StepDigest(live, grads) IN
       /\ stamp' = IF HashNeeded THEN digest ELSE NoStamp
       /\ live' = Linked(live, grads)
       /\ journal' = IF HashDue(live.step)
                     THEN journal \cup {[step |-> live.step, digest |-> digest]}
                     ELSE journal
    /\ IF live.step > tip
       THEN /\ tip' = live.step
            /\ trail' = Extended(trail, live.step, Linked(live, grads))
       ELSE UNCHANGED <<tip, trail>>
    /\ pc' = "hashed"
    /\ UNCHANGED <<surface, haltedAt, grads, clock, exitDue, lastCkpt, file,
                   sigterm, launches, dirs>>

\* mkdir(exist_ok=True): an existing directory keeps its files.
BeginSave ==
    /\ pc = "hashed" /\ SaveDue
    /\ stamp # NoStamp
    /\ dirs' = IF live.step \in DOMAIN dirs THEN dirs
               ELSE Extended(dirs, live.step, [f \in Files |-> Absent])
    /\ file' = "state_hash"
    /\ pc' = "saving"
    /\ UNCHANGED <<uvars, live, grads, clock, exitDue, stamp, lastCkpt,
                   sigterm, launches>>

WriteFile ==
    /\ pc = "saving"
    /\ dirs' = [dirs EXCEPT ![live.step][file] =
                    Written(Content(file, live, stamp))]
    /\ file' = NextFile(file)
    /\ IF file = "_COMPLETE"
       THEN pc' = "saved" /\ lastCkpt' = live.consumed
       ELSE UNCHANGED <<pc, lastCkpt>>
    /\ UNCHANGED <<uvars, live, grads, clock, exitDue, stamp, sigterm, launches>>

\* zero_grad(set_to_none=True), then SystemExit if the exit flag was set.
EndStep ==
    /\ \/ pc = "hashed" /\ ~SaveDue
       \/ pc = "saved"
    /\ grads' = << >>
    /\ pc' = IF exitDue THEN "exited" ELSE "top"
    /\ UNCHANGED <<uvars, live, clock, exitDue, stamp, lastCkpt, file, sigterm,
                   launches, dirs>>

-----------------------------------------------------------------------------
(* The world around the job.  The last launch is left alone. *)

Running == pc \notin Ended

\* _handle_sigterm only sets the flag.
Sigterm ==
    /\ Running /\ ~sigterm /\ launches < MaxLaunches
    /\ sigterm' = TRUE
    /\ UNCHANGED <<uvars, pc, jobvars, launches, dirs>>

\* The job dies.  A save loses the file it was writing or leaves it torn;
\* the empty marker file cannot be torn.
Crash ==
    /\ Running /\ launches < MaxLaunches
    /\ \/ UNCHANGED dirs
       \/ /\ pc = "saving" /\ file # "_COMPLETE"
          /\ dirs' = [dirs EXCEPT ![live.step][file] = Torn]
    /\ pc' = "down"
    /\ live' = Boot
    /\ grads' = << >> /\ clock' = Boot.consumed /\ lastCkpt' = Boot.consumed
    /\ exitDue' = FALSE /\ stamp' = NoStamp /\ file' = "_COMPLETE"
    /\ sigterm' = FALSE
    /\ UNCHANGED <<uvars, launches>>

-----------------------------------------------------------------------------
Init ==
    /\ UInit
    /\ pc = "down" /\ live = Boot
    /\ grads = << >> /\ clock = Boot.consumed /\ lastCkpt = Boot.consumed
    /\ exitDue = FALSE /\ stamp = NoStamp /\ file = "_COMPLETE"
    /\ sigterm = FALSE /\ launches = 0
    /\ dirs = [s \in {} |-> << >>]

Job ==
    \/ BeginStep \/ RefuseUneven \/ Finish \/ UpdateWeights \/ HaltJob
    \/ PollExit \/ HashState \/ BeginSave \/ WriteFile \/ EndStep

Next == Launch \/ Job \/ Sigterm \/ Crash

Spec == Init /\ [][Next]_vars

\* A live job keeps executing, and whoever operates the run restarts a job
\* that went down.  Nothing makes crashes or signals happen.
Fairness == WF_vars(Job) /\ WF_vars(Launch)
FairSpec == Spec /\ Fairness

-----------------------------------------------------------------------------
(* Properties *)

AtBoundary == pc \in {"top", "hashed", "saving", "saved", "exited", "done"}

TypeOK ==
    /\ pc \in Phases
    /\ live.step \in Nat /\ live.consumed \in Nat /\ live.pos \in Nat
    /\ live.spike \in SpikeStates
    /\ clock \in Nat /\ lastCkpt \in Nat
    /\ exitDue \in BOOLEAN /\ sigterm \in BOOLEAN
    /\ file \in Files
    /\ launches \in 0..MaxLaunches
    /\ tip \in Nat /\ haltedAt \in Nat \cup {-1}
    /\ DOMAIN trail = Boot.step..tip
    /\ DOMAIN dirs \subseteq Nat
    /\ \A s \in DOMAIN dirs : DOMAIN dirs[s] = Files

\* Resume is bit-exact (README.md:226): at every step boundary a job holds
\* exactly the state the uninterrupted run holds there, whatever crashes and
\* resumes, from whichever directory, came before.
ResumeIsExact == AtBoundary => live.step \in DOMAIN trail /\ live = trail[live.step]

\* Replayed steps publish what they published before: the appended
\* state_hashes.jsonl never holds two digests for one step.
JournalAgrees == \A e, g \in journal : e.step = g.step => e.digest = g.digest

\* "state_hash.txt MUST equal the loop's state_hashes.jsonl entry for this
\* step" (checkpoint.py:287), also in directories written by several jobs.
StampMatchesJournal ==
    \A s \in DOMAIN dirs : \A e \in journal :
        Has(dirs[s], "state_hash") /\ e.step = s /\ s > 0
            => dirs[s]["state_hash"].data = e.digest

\* A checkpoint taken off the hash cadence carries a side-link an auditor can
\* recompute: the digest of the step's state chained from the last published
\* digest, which the next hashed step is chained from as well.
SideLinksHangOffTheChain ==
    \A s \in DOMAIN dirs :
        LET d == dirs[s]["state_hash"].data IN
        Has(dirs[s], "state_hash") /\ Has(dirs[s], "meta") =>
            dirs[s]["meta"].data.chain = IF HashDue(s) THEN d ELSE d.prev

\* The loader's own clock and the loop's agree at every loop top, so a step
\* never mixes micro-batches of two steps.
LoaderInStep == pc = "top" => clock = live.consumed

\* An emergency exit leaves a sealed checkpoint of exactly the step it left
\* at, and a finished run left a loadable one of its last step.
DepartureIsSaved ==
    /\ pc = "exited" => /\ live.step \in Sealed
                        /\ Loadable(dirs[live.step])
                        /\ Restored(dirs[live.step]) = live
    /\ pc = "done" => /\ live.step \in DOMAIN dirs
                      /\ Loadable(dirs[live.step])

\* A halt is final: no relaunch of a halted run ever checkpoints or publishes
\* a step behind the halt, because the halt window is restored with the rest.
HaltIsFinal ==
    haltedAt >= 0 =>
        /\ \A s \in DOMAIN dirs : s <= haltedAt
        /\ \A e \in journal : e.step <= haltedAt

\* What a directory once held is never replaced by something else: a rewrite
\* by a later job restores the same content, or is torn by a crash.
SavedFilesAreStable ==
    [][\A s \in DOMAIN dirs : \A f \in Files :
          Has(dirs[s], f) => s \in DOMAIN dirs' /\ dirs'[s][f] \in {dirs[s][f], Torn}]_vars

\* A requested exit is served: a job that was asked to leave before it polled
\* leaves after that step; it never trains on until a step is refused or the
\* token budget is spent.
SigtermIsServed ==
    []((sigterm /\ \/ pc \in {"backward", "stepped"}
                   \/ pc = "top" /\ live.consumed < TotalTokens
                                /\ ~Uneven(live.consumed))
          => <>(pc \in {"exited", "down", "halted"}))

\* Nothing is left to launch from: no loadable directory, and the directory
\* of a torn first save refuses a cold start.
Wedged ==
    /\ pc = "down" /\ ~Fork
    /\ DOMAIN dirs # {} /\ \A s \in DOMAIN dirs : ~Loadable(dirs[s])

\* With jobs that run and an operator who restarts them, a run reaches its
\* token budget, its halt or a refusal, unless it is wedged.
RunSettles == <>[](pc \in {"done", "halted", "refused"} \/ Wedged)

\* The documented meaning of latest() (checkpoint.py:796-801): it skips
\* in-progress saves and saves that crashed before the marker was written.
LatestIsUsable == Sealed # {} /\ ~Running => Loadable(dirs[Latest])

\* "Otherwise a spike whose cooldown straddled the checkpoint boundary would
\* silently end on resume" (loop.py:525-529): a resumed job is in the cooldown
\* and the halt window the run was in at that boundary.
CooldownSurvivesResume ==
    pc = "top" /\ live.step \in DOMAIN trail
        => live.spike = trail[live.step].spike

\* Crashes, evictions, relaunches and replayed steps are invisible: seen
\* through what was reached and published, the run is the uninterrupted one.
ImplementsUninterrupted == USpec

-----------------------------------------------------------------------------
(* The inductive invariant behind the theorems of TrainRunProofs.  It ties  *)
(* everything the job and the disk hold to the trail: the state in memory   *)
(* at each phase of the step, every file, every published digest.           *)

\* The fields of a state, as a record equation that carries no type.
IsState(st) ==
    st = [step |-> st.step, consumed |-> st.consumed, weights |-> st.weights,
          moments |-> st.moments, lr |-> st.lr, rng |-> st.rng, pos |-> st.pos,
          data |-> st.data, chain |-> st.chain, spike |-> st.spike,
          anchor |-> st.anchor]

GoodState(st) ==
    /\ IsState(st)
    /\ st.step \in Nat /\ st.consumed \in Nat /\ st.pos \in Nat
    /\ st.spike \in SpikeStates
    /\ st.anchor = Boot.anchor
    /\ HashEvery = 0 => st.data = << >>

\* A step was taken from this state.
StepsOn(st) ==
    /\ st.consumed < TotalTokens /\ ~Uneven(st.consumed)
    /\ ~RaisesHalt(st.spike, GradClass(st), st.step)

CanonicalDigest(s) == DigestAfter(trail[s - 1], GradClass(trail[s - 1]))

TrailInv ==
    /\ tip \in Nat /\ Boot.step <= tip
    /\ DOMAIN trail = Boot.step..tip
    /\ trail[Boot.step] = Boot
    /\ \A s \in DOMAIN trail : trail[s].step = s /\ GoodState(trail[s])
    /\ \A s \in Boot.step..(tip - 1) :
          StepsOn(trail[s]) /\ trail[s + 1] = After(trail[s], GradClass(trail[s]))

\* One conjunct per phase: what the job holds while it is there.
AtTop ==
    /\ live.step \in DOMAIN trail /\ live = trail[live.step]
    /\ grads = << >> /\ clock = live.consumed
AtBackward ==
    /\ live.step \in DOMAIN trail
    /\ LET st == trail[live.step] IN
       /\ st.consumed < TotalTokens /\ ~Uneven(st.consumed)
       /\ live = Begun(st, st.consumed)
       /\ grads = StepBatches(st.pos, st.consumed)
       /\ clock = st.consumed + Rounds(st.consumed) * World * MicroTokens
AtStepped ==
    /\ live.step - 1 \in DOMAIN trail
    /\ LET st == trail[live.step - 1] IN
       /\ StepsOn(st)
       /\ live = BeforeHash(st, GradClass(st))
       /\ grads = StepBatches(st.pos, st.consumed)
       /\ clock = live.consumed
AtHashed ==
    /\ live.step \in DOMAIN trail /\ live = trail[live.step]
    /\ live.step - 1 \in DOMAIN trail
    /\ stamp \in {NoStamp, CanonicalDigest(live.step)}
    /\ clock = live.consumed
AtSaving ==
    /\ live.step \in DOMAIN dirs
    /\ stamp = CanonicalDigest(live.step)
    /\ Auditable => file # "sampler"
    /\ LET d == dirs[live.step] IN
       /\ file = "meta" /\ HashEvery > 0 => ~Missing(d, "batch_hasher")
       /\ file = "spike_protocol" => ~Missing(d, "meta")
       /\ file = "global_stream" => ~Missing(d, "spike_protocol")

JobInv ==
    /\ pc \in Phases /\ file \in Files
    /\ exitDue \in BOOLEAN /\ sigterm \in BOOLEAN
    /\ launches \in 0..MaxLaunches
    /\ lastCkpt \in Nat /\ clock \in Nat /\ GoodState(live)
    /\ pc = "top" => AtTop
    /\ pc = "backward" => AtBackward
    /\ pc \in {"stepped", "polled"} => AtStepped
    /\ pc \in {"hashed", "saving", "saved"} => AtHashed
    /\ pc = "saving" => AtSaving
    /\ pc \in {"exited", "done"} =>
          live.step \in DOMAIN trail /\ live = trail[live.step]

\* A file holds what the uninterrupted run would have put there, and the
\* optional files come before the stream file that makes a directory load.
DirsInv ==
    \A s \in DOMAIN dirs :
        /\ s \in DOMAIN trail /\ s - 1 \in DOMAIN trail
        /\ DOMAIN dirs[s] = Files
        /\ \A f \in Files :
              dirs[s][f] \in {Absent, Torn,
                             Written(Content(f, trail[s], CanonicalDigest(s)))}
        /\ Auditable => Missing(dirs[s], "sampler")
        /\ ~Missing(dirs[s], "global_stream") => ~Missing(dirs[s], "spike_protocol")
        /\ ~Missing(dirs[s], "spike_protocol") => ~Missing(dirs[s], "meta")
        /\ ~Missing(dirs[s], "meta") /\ HashEvery > 0
              => ~Missing(dirs[s], "batch_hasher")

JournalInv ==
    /\ \A e \in journal :
          \/ e = InitEntry
          \/ /\ e.step \in (Boot.step + 1)..tip /\ HashDue(e.step)
             /\ e = [step |-> e.step, digest |-> CanonicalDigest(e.step)]
    /\ \A s \in (Boot.step + 1)..tip : HashDue(s) =>
          [step |-> s, digest |-> CanonicalDigest(s)] \in journal

HaltInv ==
    haltedAt # -1 =>
        /\ haltedAt = tip
        /\ RaisesHalt(trail[tip].spike, GradClass(trail[tip]), tip)

RunInv == TrailInv /\ JobInv /\ DirsInv /\ JournalInv /\ HaltInv
=============================================================================
