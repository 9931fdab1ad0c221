---------------------------- MODULE TrainRunProofs ----------------------------
(***************************************************************************)
(* Proofs about TrainRun, for every batch schedule, loss surface, hash and *)
(* checkpoint cadence, spike configuration and number of launches.         *)
(***************************************************************************)
EXTENDS TrainRun, Conversion, TLAPS

-----------------------------------------------------------------------------
(* Arithmetic of the batch schedule *)

\* The ceiling never rounds a positive token target to zero micro-batches
\* (batch_schedule.py:84-100).
LEMMA RoundedUpPositive ==
    ASSUME NEW n \in Nat, NEW d \in Nat \ {0}
    PROVE  RoundedUp(n, d) \in Nat \ {0}
<1>1. n \div d \in Nat
    OBVIOUS
<1>2. QED
    BY <1>1 DEF RoundedUp

LEMMA TargetPositive ==
    ASSUME NEW c
    PROVE  TargetTokens(c) \in Nat \ {0}
BY BatchScheduleAssumption DEF TargetTokens

LEMMA MicrobatchesPositive ==
    ASSUME NEW c
    PROVE  MicrobatchesPerStep(c) \in Nat \ {0}
BY RoundedUpPositive, TargetPositive, BatchScheduleAssumption
   DEF MicrobatchesPerStep

\* A positive multiple of the divisor has a positive quotient.
LEMMA EvenSplitPositive ==
    ASSUME NEW m \in Nat \ {0}, NEW w \in Nat \ {0}, m % w = 0
    PROVE  m \div w \in Nat \ {0}
OBVIOUS

LEMMA RoundsType ==
    ASSUME Auditable, NEW c
    PROVE  /\ Rounds(c) \in Nat
           /\ ~Uneven(c) => Rounds(c) \in Nat \ {0}
<1>1. World \in Nat \ {0}
    BY TrainAssumption
<1>2. MicrobatchesPerStep(c) \in Nat \ {0}
    BY MicrobatchesPositive
<1>3. MicrobatchesPerStep(c) \div World \in Nat
    BY <1>1, <1>2
<1>4. QED
    BY <1>1, <1>2, <1>3, EvenSplitPositive DEF Rounds, Uneven

-----------------------------------------------------------------------------
(* The spike protocol and the step preserve well-formed states *)

LEMMA SpikeInitType == SpikeInit \in SpikeStates
BY DEF SpikeInit, SpikeStates

\* Skips, cooldowns and halts keep the protocol's record well-formed
\* (spike_protocol.py:77-99).
LEMMA AfterGateType ==
    ASSUME NEW sp \in SpikeStates, NEW class, NEW step \in Nat
    PROVE  AfterGate(sp, class, step) \in SpikeStates
<1>1. EventsAfter(sp, step) \in SUBSET Nat
    BY DEF EventsAfter, SpikeStates
<1>2. RecordSkip(sp, step) \in SpikeStates
    <2>1. CASE sp.cooldown > 0
        <3>1. sp.cooldown - 1 \in Nat /\ sp.skipped + 1 \in Nat
            BY <2>1 DEF SpikeStates
        <3>2. RecordSkip(sp, step) =
                [sp EXCEPT !.cooldown = sp.cooldown - 1,
                           !.skipped = sp.skipped + 1, !.last = step]
            BY <2>1 DEF RecordSkip
        <3>3. QED
            BY <3>1, <3>2 DEF SpikeStates
    <2>2. CASE ~(sp.cooldown > 0)
        <3>1. (sp.halted \/ Cardinality(EventsAfter(sp, step)) >= HaltCount)
                \in BOOLEAN
            OBVIOUS
        <3>2. SkipSteps - 1 \in Nat
            BY SpikeConfigAssumption DEF SkipSteps
        <3>3. sp.skipped + 1 \in Nat
            BY DEF SpikeStates
        <3>4. RecordSkip(sp, step) =
                [recent   |-> EventsAfter(sp, step),
                 cooldown |-> SkipSteps - 1,
                 skipped  |-> sp.skipped + 1,
                 last     |-> step,
                 halted   |-> sp.halted
                                \/ Cardinality(EventsAfter(sp, step)) >= HaltCount]
            BY <2>2 DEF RecordSkip
        <3>5. QED
            BY <1>1, <3>1, <3>2, <3>3, <3>4 DEF SpikeStates
    <2>3. QED
        BY <2>1, <2>2
<1>3. QED
    BY <1>2 DEF AfterGate

LEMMA BootType ==
    /\ Boot.step \in Nat
    /\ GoodState(Boot)
<1>1. FreshState = [step |-> 0, consumed |-> 0, weights |-> << >>,
         moments |-> << >>, lr |-> LR(0, NoAnchor), rng |-> 0, pos |-> 0,
         data |-> << >>, chain |-> NoLink, spike |-> SpikeInit,
         anchor |-> NoAnchor]
    BY DEF FreshState
<1>2. CASE ~Fork
    BY <1>1, <1>2, SpikeInitType DEF Boot, GoodState, IsState
<1>3. CASE Fork
    <2>1. {ForkStep, ForkTokens, ForkPos} \subseteq Nat
        BY TrainAssumption
    <2>2. PICK m, a : Boot = [step |-> ForkStep, consumed |-> ForkTokens,
             weights |-> << >>, moments |-> m, lr |-> LR(0, NoAnchor),
             rng |-> 0, pos |-> ForkPos, data |-> << >>,
             chain |-> ParentLink, spike |-> SpikeInit, anchor |-> a]
        BY <1>1, <1>3 DEF Boot, ParentState
    <2>3. QED
        BY <2>1, <2>2, SpikeInitType DEF GoodState, IsState
<1>4. QED
    BY <1>2, <1>3

LEMMA BegunType ==
    ASSUME Auditable, NEW st, GoodState(st)
    PROVE  /\ GoodState(Begun(st, st.consumed))
           /\ Begun(st, st.consumed).step = st.step
           /\ Begun(st, st.consumed).consumed = st.consumed
           /\ Begun(st, st.consumed).spike = st.spike
           /\ Begun(st, st.consumed).anchor = st.anchor
<1>1. Rounds(st.consumed) * World \in Nat
    BY RoundsType, TrainAssumption
<1>2. HashEvery \in Nat
    BY TrainAssumption
<1>3. PICK d : /\ Begun(st, st.consumed) =
                    [st EXCEPT !.lr = LR(st.consumed, st.anchor),
                               !.pos = @ + Rounds(st.consumed) * World,
                               !.data = d]
               /\ ~(HashEvery > 0) => d = st.data
    BY DEF Begun
<1>4. Begun(st, st.consumed) =
        [step |-> st.step, consumed |-> st.consumed, weights |-> st.weights,
         moments |-> st.moments, lr |-> LR(st.consumed, st.anchor),
         rng |-> st.rng, pos |-> st.pos + Rounds(st.consumed) * World,
         data |-> d, chain |-> st.chain, spike |-> st.spike,
         anchor |-> st.anchor]
    BY <1>3 DEF GoodState, IsState
<1>5. QED
    BY <1>1, <1>2, <1>3, <1>4 DEF GoodState, IsState

LEMMA SteppedType ==
    ASSUME Auditable, NEW st, GoodState(st), NEW g, NEW class
    PROVE  /\ GoodState(Stepped(st, g, class))
           /\ Stepped(st, g, class).step = st.step + 1
           /\ Stepped(st, g, class).consumed
                = st.consumed + Rounds(st.consumed) * World * MicroTokens
<1>1. Rounds(st.consumed) * World * MicroTokens \in Nat
    BY RoundsType, TrainAssumption, BatchScheduleAssumption
<1>2. AfterGate(st.spike, class, st.step) \in SpikeStates
    BY AfterGateType DEF GoodState
<1>3. PICK w, m : Stepped(st, g, class) =
        [st EXCEPT !.weights = w, !.moments = m, !.rng = @ + 1,
                   !.spike = AfterGate(@, class, st.step),
                   !.consumed = @ + Rounds(st.consumed) * World * MicroTokens,
                   !.step = @ + 1]
    BY DEF Stepped
<1>4. Stepped(st, g, class) =
        [step |-> st.step + 1,
         consumed |-> st.consumed + Rounds(st.consumed) * World * MicroTokens,
         weights |-> w, moments |-> m, lr |-> st.lr, rng |-> st.rng + 1,
         pos |-> st.pos, data |-> st.data, chain |-> st.chain,
         spike |-> AfterGate(st.spike, class, st.step), anchor |-> st.anchor]
    BY <1>3 DEF GoodState, IsState
<1>5. QED
    BY <1>1, <1>2, <1>4 DEF GoodState, IsState

LEMMA LinkedType ==
    ASSUME NEW st, GoodState(st), NEW g
    PROVE  /\ GoodState(Linked(st, g))
           /\ Linked(st, g).step = st.step
           /\ Linked(st, g).consumed = st.consumed
<1>1. PICK c : Linked(st, g) = [st EXCEPT !.chain = c]
    <2>1. CASE HashDue(st.step)
        BY <2>1 DEF Linked
    <2>2. CASE ~HashDue(st.step)
        BY <2>2 DEF Linked, GoodState, IsState
    <2>3. QED
        BY <2>1, <2>2
<1>2. Linked(st, g) =
        [step |-> st.step, consumed |-> st.consumed, weights |-> st.weights,
         moments |-> st.moments, lr |-> st.lr, rng |-> st.rng, pos |-> st.pos,
         data |-> st.data, chain |-> c, spike |-> st.spike,
         anchor |-> st.anchor]
    BY <1>1 DEF GoodState, IsState
<1>3. QED
    BY <1>2 DEF GoodState, IsState

LEMMA BeforeHashType ==
    ASSUME Auditable, NEW st, GoodState(st), NEW class
    PROVE  /\ GoodState(BeforeHash(st, class))
           /\ BeforeHash(st, class).step = st.step + 1
           /\ BeforeHash(st, class).consumed
                = st.consumed + Rounds(st.consumed) * World * MicroTokens
<1>1. GoodState(Begun(st, st.consumed))
    BY BegunType
<1>2. QED
    BY <1>1, BegunType, SteppedType DEF BeforeHash

LEMMA AfterType ==
    ASSUME Auditable, NEW st, GoodState(st), NEW class
    PROVE  /\ GoodState(After(st, class))
           /\ After(st, class).step = st.step + 1
<1>1. GoodState(BeforeHash(st, class))
    BY BeforeHashType
<1>2. QED
    BY <1>1, BeforeHashType, LinkedType DEF After

\* The class the job looks up for its gradient is the class of the state the
\* step began in: the first round starts at the stream position.
LEMMA FirstRound ==
    ASSUME Auditable, NEW st, GoodState(st), ~Uneven(st.consumed),
           grads = StepBatches(st.pos, st.consumed)
    PROVE  StepClass = GradClass(st)
<1>1. Rounds(st.consumed) \in Nat \ {0}
    BY RoundsType
<1>2. World \in Nat \ {0} /\ st.pos \in Nat
    BY TrainAssumption DEF GoodState
<1>3. 1 \in 1..Rounds(st.consumed)
    BY <1>1
<1>4. grads[1] = st.pos + (1 - 1) * World
    BY <1>3 DEF StepBatches
<1>5. grads[1] = st.pos
    BY <1>2, <1>4
<1>6. QED
    BY <1>5 DEF StepClass, GradClass

-----------------------------------------------------------------------------
(* Restoring a checkpoint *)

\* The anchor of a run is inherited, never re-set, by a resume from one of
\* the run's own checkpoints (loop.py:572-580).
LEMMA AnchorInherited ==
    ASSUME ~ResetOptimizer, NEW meta, meta.anchor = Boot.anchor
    PROVE  ResumeAnchor(meta) = Boot.anchor
<1>1. CASE RewarmOnResume /\ RewarmTokens > 0
    <2>1. Fork
        BY <1>1, TrainAssumption
    <2>2. ForkTokens \in Nat
        BY TrainAssumption
    <2>3. Boot.anchor = ForkTokens
        BY <1>1, <2>1 DEF Boot, ParentState, FreshState
    <2>4. QED
        BY <1>1, <2>2, <2>3 DEF ResumeAnchor
<1>2. CASE ~(RewarmOnResume /\ RewarmTokens > 0)
    <2>1. Boot.anchor = NoAnchor
        BY <1>2 DEF Boot, ParentState, FreshState
    <2>2. QED
        BY <1>2, <2>1 DEF ResumeAnchor
<1>3. QED
    BY <1>1, <1>2

\* A directory that loads rebuilds the whole state it was taken of: what
\* load() tolerates to be absent cannot be absent once the stream file, the
\* last file it insists on, is there (checkpoint.py:271-326, 340-560).
LEMMA RestoreExact ==
    ASSUME Auditable, ~ResetOptimizer, NEW st, GoodState(st), NEW dg, NEW d,
           Loadable(d),
           \A f \in Files : d[f] \in {Absent, Torn, Written(Content(f, st, dg))},
           Missing(d, "sampler"),
           ~Missing(d, "global_stream") => ~Missing(d, "spike_protocol"),
           ~Missing(d, "meta") /\ HashEvery > 0 => ~Missing(d, "batch_hasher")
    PROVE  Restored(d) = st
<1>1. \A f \in Files : Has(d, f) => d[f].data = Content(f, st, dg)
    BY DEF Has, Absent, Torn, Written
<1>2. \A f \in Files : Has(d, f) \/ Missing(d, f) \/ d[f].status = "torn"
    BY DEF Has, Missing, Absent, Torn, Written
<1>3. {"dcp", "rng", "meta", "global_stream", "spike_protocol", "batch_hasher"}
        \subseteq Files
    BY DEF Files
<1>4. Has(d, "global_stream") /\ Has(d, "dcp") /\ Has(d, "rng") /\ Has(d, "meta")
    BY DEF Loadable, Has, Missing
<1>5. Has(d, "spike_protocol")
    BY <1>2, <1>3, <1>4 DEF Loadable, Has, Missing
<1>6. /\ d["meta"].data = [step |-> st.step, consumed |-> st.consumed,
                           chain |-> st.chain, anchor |-> st.anchor]
      /\ d["dcp"].data = [weights |-> st.weights, moments |-> st.moments,
                          lr |-> st.lr]
      /\ d["rng"].data = [rng |-> st.rng]
      /\ d["global_stream"].data = [pos |-> st.pos]
      /\ d["spike_protocol"].data = st.spike
    BY <1>1, <1>3, <1>4, <1>5 DEF Content
<1>7. LoadedHasher(d) = st.data
    <2>1. CASE HashEvery > 0
        <3>1. Has(d, "batch_hasher")
            BY <1>2, <1>3, <1>4, <2>1 DEF Loadable, Has, Missing
        <3>2. Content("batch_hasher", st, dg) = st.data
            BY DEF Content
        <3>3. QED
            BY <1>1, <1>3, <2>1, <3>1, <3>2 DEF LoadedHasher
    <2>2. CASE ~(HashEvery > 0)
        <3>1. HashEvery = 0
            BY <2>2, TrainAssumption
        <3>2. QED
            BY <2>2, <3>1 DEF LoadedHasher, GoodState
    <2>3. QED
        BY <2>1, <2>2
<1>8. ResumeAnchor(d["meta"].data) = st.anchor
    BY <1>6, AnchorInherited DEF GoodState
<1>9. QED
    BY <1>4, <1>5, <1>6, <1>7, <1>8
       DEF Restored, LoadedMoments, LoadedRng, LoadedPos, LoadedChain,
           LoadedSpike, GoodState, IsState

\* A fork's first launch starts in the state Boot.
LEMMA RestoreParent ==
    ASSUME Auditable, Fork
    PROVE  Restored(ParentFiles) = Boot
<1> DEFINE d == ParentFiles
<1>1. {"dcp", "rng", "meta", "global_stream", "spike_protocol", "batch_hasher"}
        \subseteq Files
    BY DEF Files
<1>2. \A f \in Files \ {"batch_hasher"} :
         Has(d, f) /\ d[f].data = Content(f, ParentState, ParentLink)
    <2>1. TAKE f \in Files \ {"batch_hasher"}
    <2>2. d[f] = Written(Content(f, ParentState, ParentLink))
        BY DEF ParentFiles
    <2>3. QED
        BY <2>2 DEF Has, Written
<1>3. /\ Has(d, "global_stream") /\ Has(d, "spike_protocol")
      /\ d["meta"].data = Content("meta", ParentState, ParentLink)
      /\ d["dcp"].data = Content("dcp", ParentState, ParentLink)
      /\ d["rng"].data = Content("rng", ParentState, ParentLink)
      /\ d["global_stream"].data = Content("global_stream", ParentState, ParentLink)
      /\ d["spike_protocol"].data = Content("spike_protocol", ParentState, ParentLink)
    BY <1>1, <1>2
<1>4. PICK p : p = ParentState
    OBVIOUS
<1>5. p = [step |-> ForkStep, consumed |-> ForkTokens, weights |-> << >>,
           moments |-> << << 0 >> >>, lr |-> LR(0, NoAnchor), rng |-> 0,
           pos |-> ForkPos, data |-> << >>, chain |-> ParentLink,
           spike |-> SpikeInit, anchor |-> NoAnchor]
    BY <1>4 DEF ParentState, FreshState
<1>6. /\ d["meta"].data = [step |-> ForkStep, consumed |-> ForkTokens,
                           chain |-> ParentLink, anchor |-> NoAnchor]
      /\ d["dcp"].data = [weights |-> << >>, moments |-> << << 0 >> >>,
                          lr |-> LR(0, NoAnchor)]
      /\ d["rng"].data = [rng |-> 0]
      /\ d["global_stream"].data = [pos |-> ForkPos]
      /\ d["spike_protocol"].data = SpikeInit
    BY <1>3, <1>4, <1>5 DEF Content
<1>7. LoadedHasher(d) = << >>
    <2>1. CASE HashEvery = 0
        BY <2>1 DEF LoadedHasher
    <2>2. CASE HashEvery # 0
        <3>1. d["batch_hasher"] = Written(Content("batch_hasher", ParentState, ParentLink))
            BY <1>1, <2>2 DEF ParentFiles
        <3>2. Content("batch_hasher", ParentState, ParentLink) = << >>
            BY <1>4, <1>5 DEF Content
        <3>3. QED
            BY <3>1, <3>2 DEF LoadedHasher, Written
    <2>3. QED
        BY <2>1, <2>2
<1>8. PICK m, a :
         /\ m = IF ResetOptimizer THEN << >> ELSE << << 0 >> >>
         /\ a = IF ResetOptimizer \/ (RewarmOnResume /\ RewarmTokens > 0)
                THEN ForkTokens ELSE NoAnchor
    OBVIOUS
<1>9. Boot = [step |-> ForkStep, consumed |-> ForkTokens, weights |-> << >>,
              moments |-> m, lr |-> LR(0, NoAnchor), rng |-> 0, pos |-> ForkPos,
              data |-> << >>, chain |-> ParentLink, spike |-> SpikeInit,
              anchor |-> a]
    <2>1. Boot = [p EXCEPT !.moments = m, !.anchor = a]
        BY <1>4, <1>5, <1>8 DEF Boot
    <2>2. QED
        BY <1>5, <2>1
<1>10. ResumeAnchor(d["meta"].data) = a
    BY <1>6, <1>8 DEF ResumeAnchor, NoAnchor
<1>11. LoadedMoments(d) = m
    BY <1>6, <1>8 DEF LoadedMoments
<1>12. QED
    BY <1>3, <1>6, <1>7, <1>9, <1>10, <1>11
       DEF Restored, LoadedRng, LoadedPos, LoadedChain, LoadedSpike

-----------------------------------------------------------------------------
(* Frames: what an action that leaves the trail alone cannot disturb *)

LEMMA TrailFrame ==
    ASSUME TrailInv, UNCHANGED <<surface, tip, trail>>
    PROVE  TrailInv'
BY DEF TrailInv, StepsOn, GradClass

LEMMA DirsFrame ==
    ASSUME DirsInv, UNCHANGED <<surface, trail, dirs>>
    PROVE  DirsInv'
BY DEF DirsInv, CanonicalDigest, GradClass

LEMMA JournalFrame ==
    ASSUME JournalInv, UNCHANGED <<surface, tip, trail, journal>>
    PROVE  JournalInv'
BY DEF JournalInv, CanonicalDigest, GradClass

LEMMA HaltFrame ==
    ASSUME HaltInv, UNCHANGED <<surface, tip, trail, haltedAt>>
    PROVE  HaltInv'
BY DEF HaltInv, GradClass

\* An action of the job alone only has to re-establish JobInv.
LEMMA JobFrame ==
    ASSUME RunInv, UNCHANGED <<uvars, dirs>>, JobInv'
    PROVE  RunInv'
BY TrailFrame, DirsFrame, JournalFrame, HaltFrame DEF RunInv, uvars

-----------------------------------------------------------------------------
(* The invariant holds initially and is preserved by every action *)

LEMMA InitRunInv ==
    ASSUME Init
    PROVE  RunInv
<1>1. Boot.step \in Nat /\ GoodState(Boot)
    BY BootType
<1>2. TrailInv
    <2>1. tip = Boot.step /\ DOMAIN trail = {Boot.step} /\ trail[Boot.step] = Boot
        BY DEF Init, UInit
    <2>2. Boot.step..tip = {Boot.step} /\ Boot.step..(tip - 1) = {}
        BY <1>1, <2>1
    <2>3. QED
        BY <1>1, <2>1, <2>2 DEF TrailInv
<1>3. JobInv
    <2>1. Boot.consumed \in Nat /\ 0 \in 0..MaxLaunches
        BY <1>1, CheckpointAssumption DEF GoodState
    <2>2. QED
        BY <1>1, <2>1 DEF Init, JobInv, Phases, Ended, Files
<1>4. DirsInv
    BY DEF Init, DirsInv
<1>5. JournalInv
    BY <1>1 DEF Init, UInit, JournalInv
<1>6. HaltInv
    BY DEF Init, UInit, HaltInv
<1>7. QED
    BY <1>2, <1>3, <1>4, <1>5, <1>6 DEF RunInv

\* A job that enters the loop with a state of the trail is in order.
LEMMA EnterInv ==
    ASSUME RunInv, NEW st, Enter(st), st.step \in DOMAIN trail,
           st = trail[st.step], UNCHANGED trail
    PROVE  JobInv'
<1>1. GoodState(st)
    BY DEF RunInv, TrailInv
<1>2. /\ pc' = "top" /\ live' = st /\ grads' = << >> /\ clock' = st.consumed
      /\ lastCkpt' = st.consumed /\ exitDue' = FALSE /\ sigterm' = FALSE
      /\ file' = "_COMPLETE"
    BY DEF Enter
<1>3. launches' \in 0..MaxLaunches
    BY CheckpointAssumption DEF Enter, RunInv, JobInv
<1>4. AtTop'
    BY <1>2 DEF AtTop
<1>5. st.consumed \in Nat
    BY <1>1 DEF GoodState
<1>6. GoodState(live)'
    BY <1>1, <1>2 DEF GoodState, IsState
<1>7. QED
    BY <1>2, <1>3, <1>4, <1>5, <1>6 DEF JobInv, Phases, Ended, Files

LEMMA ColdStartInv ==
    ASSUME RunInv, ColdStart
    PROVE  RunInv'
<1>1. Boot = FreshState /\ UNCHANGED <<surface, tip, trail, haltedAt, dirs>>
    BY DEF ColdStart, Boot
<1>2. FreshState.step \in DOMAIN trail /\ FreshState = trail[FreshState.step]
    BY <1>1, BootType DEF RunInv, TrailInv
<1>3. JobInv'
    BY <1>1, <1>2, EnterInv DEF ColdStart
<1>4. JournalInv'
    BY <1>1 DEF RunInv, ColdStart, JournalInv, CanonicalDigest, GradClass
<1>5. QED
    BY <1>1, <1>3, <1>4, TrailFrame, DirsFrame, HaltFrame DEF RunInv

LEMMA ResumeOwnInv ==
    ASSUME Auditable, RunInv, ResumeOwn
    PROVE  RunInv'
<1>1. PICK s \in DOMAIN dirs : Resume(dirs[s])
    BY DEF ResumeOwn
<1>2. /\ s \in DOMAIN trail
      /\ \A f \in Files :
            dirs[s][f] \in {Absent, Torn,
                            Written(Content(f, trail[s], CanonicalDigest(s)))}
      /\ Missing(dirs[s], "sampler")
      /\ ~Missing(dirs[s], "global_stream") => ~Missing(dirs[s], "spike_protocol")
      /\ ~Missing(dirs[s], "meta") /\ HashEvery > 0
            => ~Missing(dirs[s], "batch_hasher")
    BY <1>1 DEF RunInv, DirsInv
<1>3. trail[s].step = s /\ GoodState(trail[s])
    BY <1>2 DEF RunInv, TrailInv
<1>4. Loadable(dirs[s]) /\ ~ResetOptimizer
    BY <1>1 DEF Resume, ResumeOwn
<1>5. Restored(dirs[s]) = trail[s]
    BY <1>2, <1>3, <1>4, RestoreExact
<1>6. Enter(trail[s]) /\ UNCHANGED <<uvars, dirs>>
    BY <1>1, <1>5 DEF Resume
<1>7. JobInv'
    BY <1>2, <1>3, <1>6, EnterInv DEF uvars
<1>8. QED
    BY <1>6, <1>7, JobFrame

LEMMA ResumeParentInv ==
    ASSUME Auditable, RunInv, ResumeParent
    PROVE  RunInv'
<1>1. Enter(Boot) /\ UNCHANGED <<uvars, dirs>>
    BY RestoreParent DEF ResumeParent, Resume
<1>2. Boot.step \in DOMAIN trail /\ Boot = trail[Boot.step]
    BY BootType DEF RunInv, TrailInv
<1>3. JobInv'
    BY <1>1, <1>2, EnterInv DEF uvars
<1>4. QED
    BY <1>1, <1>3, JobFrame

LEMMA BeginStepInv ==
    ASSUME Auditable, RunInv, BeginStep
    PROVE  RunInv'
<1> DEFINE st == trail[live.step]
<1>1. /\ live.step \in DOMAIN trail /\ live = st
      /\ grads = << >> /\ clock = st.consumed
    BY DEF BeginStep, RunInv, JobInv, AtTop
<1>2. /\ pc' = "backward" /\ st.consumed < TotalTokens /\ ~Uneven(st.consumed)
      /\ grads' = << >> \o StepBatches(st.pos, st.consumed)
      /\ live' = Begun(st, st.consumed)
      /\ clock' = st.consumed + Rounds(st.consumed) * World * MicroTokens
      /\ UNCHANGED <<uvars, exitDue, stamp, lastCkpt, file, sigterm, launches, dirs>>
    BY <1>1 DEF BeginStep
<1>3. GoodState(st)
    BY <1>1 DEF RunInv, TrailInv
<1>4. GoodState(live') /\ live'.step = live.step
    BY <1>1, <1>2, <1>3, BegunType
<1>5. grads' = StepBatches(st.pos, st.consumed)
    <2>1. Rounds(st.consumed) \in Nat
        BY RoundsType
    <2>2. StepBatches(st.pos, st.consumed) \in
             Seq({st.pos + (k - 1) * World : k \in 1..Rounds(st.consumed)})
        BY <2>1 DEF StepBatches
    <2>3. QED
        BY <1>2, <2>2
<1>6. AtBackward'
    BY <1>1, <1>2, <1>4, <1>5 DEF AtBackward, uvars
<1>7. clock' \in Nat
    <2>1. Rounds(st.consumed) * World * MicroTokens \in Nat
        BY RoundsType, TrainAssumption, BatchScheduleAssumption
    <2>2. QED
        BY <1>2, <1>3, <2>1 DEF GoodState
<1>8. GoodState(live)'
    BY <1>4 DEF GoodState, IsState
<1>9. JobInv'
    BY <1>2, <1>6, <1>7, <1>8 DEF RunInv, JobInv, Phases
<1>10. QED
    BY <1>2, <1>9, JobFrame

\* What UpdateWeights and HaltJob find: the step's class is the class of the
\* trail's state, whose halt window is the one in memory.
LEMMA BackwardFacts ==
    ASSUME Auditable, RunInv, pc = "backward", NEW st, st = trail[live.step]
    PROVE  /\ live.step \in DOMAIN trail /\ GoodState(st) /\ st.step = live.step
           /\ st.consumed < TotalTokens /\ ~Uneven(st.consumed)
           /\ live = Begun(st, st.consumed)
           /\ grads = StepBatches(st.pos, st.consumed)
           /\ clock = st.consumed + Rounds(st.consumed) * World * MicroTokens
           /\ StepClass = GradClass(st)
           /\ RaisesHalt(live.spike, StepClass, live.step)
                <=> RaisesHalt(st.spike, GradClass(st), st.step)
<1>1. /\ live.step \in DOMAIN trail
      /\ st.consumed < TotalTokens /\ ~Uneven(st.consumed)
      /\ live = Begun(st, st.consumed)
      /\ grads = StepBatches(st.pos, st.consumed)
      /\ clock = st.consumed + Rounds(st.consumed) * World * MicroTokens
    BY DEF RunInv, JobInv, AtBackward
<1>2. GoodState(st) /\ st.step = live.step
    BY <1>1 DEF RunInv, TrailInv
<1>3. StepClass = GradClass(st)
    BY <1>1, <1>2, FirstRound
<1>4. live.spike = st.spike
    BY <1>1, <1>2, BegunType
<1>5. QED
    BY <1>1, <1>2, <1>3, <1>4

LEMMA UpdateWeightsInv ==
    ASSUME Auditable, RunInv, UpdateWeights
    PROVE  RunInv'
<1> DEFINE st == trail[live.step]
<1>1. pc = "backward"
    BY DEF UpdateWeights
<1>2. /\ live.step \in DOMAIN trail /\ GoodState(st) /\ st.step = live.step
      /\ st.consumed < TotalTokens /\ ~Uneven(st.consumed)
      /\ live = Begun(st, st.consumed)
      /\ grads = StepBatches(st.pos, st.consumed)
      /\ clock = st.consumed + Rounds(st.consumed) * World * MicroTokens
      /\ StepClass = GradClass(st)
      /\ RaisesHalt(live.spike, StepClass, live.step)
           <=> RaisesHalt(st.spike, GradClass(st), st.step)
    BY <1>1, BackwardFacts
<1>3. /\ pc' = "stepped" /\ live' = BeforeHash(st, GradClass(st))
      /\ UNCHANGED <<uvars, grads, clock, exitDue, stamp, lastCkpt, file,
                     sigterm, launches, dirs>>
    BY <1>2 DEF UpdateWeights, BeforeHash
<1>4. /\ GoodState(live') /\ live'.step = live.step + 1
      /\ live'.consumed = clock
    BY <1>2, <1>3, BeforeHashType
<1>5. live.step \in Nat
    BY <1>2 DEF GoodState
<1>6. live'.step - 1 = live.step
    BY <1>4, <1>5
<1>7. StepsOn(st)
    BY <1>2 DEF StepsOn, UpdateWeights
<1>8. AtStepped'
    BY <1>2, <1>3, <1>4, <1>6, <1>7 DEF AtStepped, StepsOn, GradClass, uvars
<1>9. GoodState(live)'
    BY <1>4 DEF GoodState, IsState
<1>10. JobInv'
    BY <1>3, <1>8, <1>9 DEF RunInv, JobInv, Phases
<1>11. QED
    BY <1>3, <1>10, JobFrame

\* Only the boundary a run has reached can raise the halt: every earlier one
\* was stepped on from.
LEMMA HaltsAtTip ==
    ASSUME Auditable, RunInv, HaltJob
    PROVE  /\ live.step = tip
           /\ trail[tip].consumed < TotalTokens /\ ~Uneven(trail[tip].consumed)
           /\ RaisesHalt(trail[tip].spike, GradClass(trail[tip]), tip)
<1> DEFINE st == trail[live.step]
<1>1. pc = "backward"
    BY DEF HaltJob
<1>2. /\ live.step \in DOMAIN trail /\ GoodState(st) /\ st.step = live.step
      /\ st.consumed < TotalTokens /\ ~Uneven(st.consumed)
      /\ RaisesHalt(live.spike, StepClass, live.step)
           <=> RaisesHalt(st.spike, GradClass(st), st.step)
    BY <1>1, BackwardFacts
<1>3. RaisesHalt(st.spike, GradClass(st), st.step)
    BY <1>2 DEF HaltJob
<1>4. live.step \notin Boot.step..(tip - 1)
    BY <1>3 DEF RunInv, TrailInv, StepsOn
<1>5. live.step = tip
    BY <1>2, <1>4 DEF RunInv, TrailInv
<1>6. QED
    BY <1>2, <1>3, <1>5

LEMMA HaltJobInv ==
    ASSUME Auditable, RunInv, HaltJob
    PROVE  RunInv'
<1>1. /\ pc' = "halted" /\ haltedAt' = live.step
      /\ UNCHANGED <<surface, tip, trail, journal, jobvars, sigterm, launches, dirs>>
    BY DEF HaltJob
<1>2. JobInv'
    BY <1>1 DEF RunInv, JobInv, Phases, Ended, jobvars, GoodState, IsState
<1>3. HaltInv'
    BY <1>1, HaltsAtTip DEF HaltInv, GradClass
<1>4. QED
    BY <1>1, <1>2, <1>3, TrailFrame, DirsFrame, JournalFrame DEF RunInv

LEMMA EndingInv ==
    ASSUME RunInv, RefuseUneven \/ Finish
    PROVE  RunInv'
<1>1. /\ pc = "top" /\ pc' \in {"refused", "done"}
      /\ UNCHANGED <<uvars, jobvars, sigterm, launches, dirs>>
    BY DEF RefuseUneven, Finish
<1>2. live.step \in DOMAIN trail /\ live = trail[live.step]
    BY <1>1 DEF RunInv, JobInv, AtTop
<1>3. JobInv'
    BY <1>1, <1>2 DEF RunInv, JobInv, Phases, Ended, jobvars, uvars, GoodState,
                      IsState
<1>4. QED
    BY <1>1, <1>3, JobFrame

LEMMA PollExitInv ==
    ASSUME RunInv, PollExit
    PROVE  RunInv'
<1>1. /\ pc = "stepped" /\ pc' = "polled" /\ exitDue' = sigterm
      /\ UNCHANGED <<uvars, live, grads, clock, stamp, lastCkpt, file, sigterm,
                     launches, dirs>>
    BY DEF PollExit
<1>2. AtStepped'
    BY <1>1 DEF RunInv, JobInv, AtStepped, StepsOn, GradClass, uvars
<1>3. JobInv'
    BY <1>1, <1>2 DEF RunInv, JobInv, Phases, GoodState, IsState
<1>4. QED
    BY <1>1, <1>3, JobFrame

LEMMA SigtermInv ==
    ASSUME RunInv, Sigterm
    PROVE  RunInv'
<1>1. /\ sigterm' = TRUE
      /\ UNCHANGED <<uvars, pc, jobvars, launches, dirs>>
    BY DEF Sigterm
<1>2. /\ AtTop => AtTop'
      /\ AtBackward => AtBackward'
      /\ AtStepped => AtStepped'
      /\ AtHashed => AtHashed'
      /\ AtSaving => AtSaving'
    BY <1>1 DEF AtTop, AtBackward, AtStepped, AtHashed, AtSaving, StepsOn,
                GradClass, CanonicalDigest, uvars, jobvars
<1>3. JobInv'
    BY <1>1, <1>2 DEF RunInv, JobInv, jobvars, uvars, GoodState, IsState
<1>4. QED
    BY <1>1, <1>3, JobFrame

LEMMA EndStepInv ==
    ASSUME RunInv, EndStep
    PROVE  RunInv'
<1>1. /\ pc \in {"hashed", "saved"} /\ pc' \in {"exited", "top"}
      /\ grads' = << >>
      /\ UNCHANGED <<uvars, live, clock, exitDue, stamp, lastCkpt, file, sigterm,
                     launches, dirs>>
    BY DEF EndStep
<1>2. /\ live.step \in DOMAIN trail /\ live = trail[live.step]
      /\ clock = live.consumed
    BY <1>1 DEF RunInv, JobInv, AtHashed
<1>3. AtTop'
    BY <1>1, <1>2 DEF AtTop, uvars
<1>4. JobInv'
    BY <1>1, <1>2, <1>3 DEF RunInv, JobInv, Phases, Ended, uvars, GoodState,
                            IsState
<1>5. QED
    BY <1>1, <1>4, JobFrame

-----------------------------------------------------------------------------
(* Hashing: the step that extends the trail, or replays a part of it *)

\* What a job holds when it hashes is what the uninterrupted run reaches from
\* the trail's previous state.
LEMMA HashFacts ==
    ASSUME Auditable, RunInv, pc = "polled", NEW st, st = trail[live.step - 1]
    PROVE  /\ live.step - 1 \in DOMAIN trail /\ live.step \in Nat
           /\ live.step - 1 \in Boot.step..tip
           /\ GoodState(st) /\ st.step = live.step - 1
           /\ StepsOn(st)
           /\ Linked(live, grads) = After(st, GradClass(st))
           /\ StepDigest(live, grads) = DigestAfter(st, GradClass(st))
           /\ GoodState(Linked(live, grads))
           /\ Linked(live, grads).step = live.step
           /\ Linked(live, grads).consumed = live.consumed
           /\ clock = live.consumed
<1>1. /\ live.step - 1 \in DOMAIN trail
      /\ StepsOn(st)
      /\ live = BeforeHash(st, GradClass(st))
      /\ grads = StepBatches(st.pos, st.consumed)
      /\ clock = live.consumed
    BY DEF RunInv, JobInv, AtStepped
<1>2. GoodState(live) /\ live.step \in Nat
    BY DEF RunInv, JobInv, GoodState
<1>3. GoodState(st) /\ st.step = live.step - 1
    BY <1>1 DEF RunInv, TrailInv
<1>4. live.step - 1 \in Boot.step..tip
    BY <1>1 DEF RunInv, TrailInv
<1>5. /\ Linked(live, grads) = After(st, GradClass(st))
      /\ StepDigest(live, grads) = DigestAfter(st, GradClass(st))
    BY <1>1 DEF After, DigestAfter
<1>6. /\ GoodState(Linked(live, grads))
      /\ Linked(live, grads).step = live.step
      /\ Linked(live, grads).consumed = live.consumed
    BY <1>2, LinkedType
<1>7. QED
    BY <1>1, <1>2, <1>3, <1>4, <1>5, <1>6

\* The digest a job computes at a step is the canonical one.
LEMMA DigestIsCanonical ==
    ASSUME Auditable, RunInv, pc = "polled"
    PROVE  StepDigest(live, grads) = CanonicalDigest(live.step)
BY HashFacts DEF CanonicalDigest

\* A replayed step: the trail already holds what the job now links.
LEMMA ReplayFacts ==
    ASSUME Auditable, RunInv, HashState, ~(live.step > tip)
    PROVE  /\ live.step \in DOMAIN trail
           /\ Linked(live, grads) = trail[live.step]
           /\ UNCHANGED <<surface, tip, trail, journal, haltedAt>>
<1> DEFINE st == trail[live.step - 1]
<1>1. pc = "polled"
    BY DEF HashState
<1>2. /\ live.step - 1 \in Boot.step..tip /\ live.step \in Nat
      /\ Linked(live, grads) = After(st, GradClass(st))
      /\ StepDigest(live, grads) = CanonicalDigest(live.step)
    BY <1>1, HashFacts, DigestIsCanonical
<1>3. /\ Boot.step \in Nat /\ tip \in Nat /\ Boot.step <= tip
      /\ DOMAIN trail = Boot.step..tip
      /\ \A s \in Boot.step..(tip - 1) :
            trail[s + 1] = After(trail[s], GradClass(trail[s]))
    BY BootType DEF RunInv, TrailInv
<1>4. /\ live.step - 1 \in Boot.step..(tip - 1)
      /\ live.step \in (Boot.step + 1)..tip
      /\ (live.step - 1) + 1 = live.step
    BY <1>2, <1>3
<1>5. trail[live.step] = After(st, GradClass(st))
    BY <1>3, <1>4
<1>6. HashDue(live.step) =>
         [step |-> live.step, digest |-> StepDigest(live, grads)] \in journal
    BY <1>2, <1>4 DEF RunInv, JournalInv
<1>7. journal' = journal
    BY <1>6 DEF HashState
<1>8. UNCHANGED <<surface, tip, trail, haltedAt>>
    BY DEF HashState
<1>9. QED
    BY <1>2, <1>3, <1>4, <1>5, <1>7, <1>8

\* A new step: the trail grows by the boundary the job has reached.
LEMMA ExtendFacts ==
    ASSUME Auditable, RunInv, HashState, live.step > tip
    PROVE  /\ live.step = tip + 1 /\ tip' = tip + 1 /\ surface' = surface
           /\ StepsOn(trail[tip])
           /\ DOMAIN trail' = Boot.step..(tip + 1)
           /\ \A s \in DOMAIN trail : trail'[s] = trail[s]
           /\ trail' = Extended(trail, tip + 1,
                                After(trail[tip], GradClass(trail[tip])))
           /\ trail'[tip + 1] = Linked(live, grads)
           /\ StepDigest(live, grads) = DigestAfter(trail[tip], GradClass(trail[tip]))
           /\ UNCHANGED haltedAt /\ haltedAt = -1
<1>1. pc = "polled"
    BY DEF HashState
<1>2. /\ Boot.step \in Nat /\ tip \in Nat /\ Boot.step <= tip
      /\ DOMAIN trail = Boot.step..tip
    BY BootType DEF RunInv, TrailInv
<1>3. live.step - 1 \in Boot.step..tip /\ live.step \in Nat
    BY <1>1, HashFacts
<1>4. live.step = tip + 1 /\ live.step - 1 = tip
    BY <1>2, <1>3
<1>5. /\ StepsOn(trail[tip])
      /\ Linked(live, grads) = After(trail[tip], GradClass(trail[tip]))
      /\ StepDigest(live, grads) = DigestAfter(trail[tip], GradClass(trail[tip]))
      /\ trail[tip].step = tip
    BY <1>1, <1>4, HashFacts
<1>6. /\ tip' = tip + 1 /\ UNCHANGED <<surface, haltedAt>>
      /\ trail' = Extended(trail, tip + 1, Linked(live, grads))
    BY <1>4 DEF HashState
<1>7. /\ DOMAIN trail' = Boot.step..(tip + 1)
      /\ \A s \in DOMAIN trail : trail'[s] = trail[s]
      /\ trail'[tip + 1] = Linked(live, grads)
    <2>1. Boot.step..(tip + 1) = (Boot.step..tip) \cup {tip + 1}
        BY <1>2
    <2>2. tip + 1 \notin Boot.step..tip
        BY <1>2
    <2>3. QED
        BY <1>2, <1>6, <2>1, <2>2 DEF Extended
<1>8. haltedAt = -1
    BY <1>5 DEF RunInv, HaltInv, StepsOn
<1>9. QED
    BY <1>4, <1>5, <1>6, <1>7, <1>8

\* The canonical digest of a boundary depends on the trail before it only.
LEMMA DigestsKept ==
    ASSUME Auditable, RunInv, HashState,
           NEW s, s \in DOMAIN trail, s - 1 \in DOMAIN trail
    PROVE  CanonicalDigest(s)' = CanonicalDigest(s) /\ trail'[s] = trail[s]
<1>1. surface' = surface
    BY DEF HashState
<1>2. \A x \in DOMAIN trail : trail'[x] = trail[x]
    <2>1. CASE live.step > tip
        BY <2>1, ExtendFacts
    <2>2. CASE ~(live.step > tip)
        BY <2>2 DEF HashState
    <2>3. QED
        BY <2>1, <2>2
<1>3. QED
    BY <1>1, <1>2 DEF CanonicalDigest, GradClass

LEMMA HashStateTrail ==
    ASSUME Auditable, RunInv, HashState
    PROVE  TrailInv' /\ JournalInv' /\ HaltInv'
<1>1. CASE ~(live.step > tip)
    BY <1>1, ReplayFacts, TrailFrame, JournalFrame, HaltFrame DEF RunInv
<1>2. CASE live.step > tip
    <2>1. /\ live.step = tip + 1 /\ tip' = tip + 1 /\ surface' = surface
          /\ StepsOn(trail[tip])
          /\ DOMAIN trail' = Boot.step..(tip + 1)
          /\ \A s \in DOMAIN trail : trail'[s] = trail[s]
          /\ trail'[tip + 1] = Linked(live, grads)
          /\ StepDigest(live, grads) = DigestAfter(trail[tip], GradClass(trail[tip]))
          /\ UNCHANGED haltedAt /\ haltedAt = -1
        BY <1>2, ExtendFacts
    <2>2. /\ Boot.step \in Nat /\ tip \in Nat /\ Boot.step <= tip
          /\ DOMAIN trail = Boot.step..tip
          /\ trail[Boot.step] = Boot
          /\ \A s \in DOMAIN trail : trail[s].step = s /\ GoodState(trail[s])
          /\ \A s \in Boot.step..(tip - 1) :
                StepsOn(trail[s]) /\ trail[s + 1] = After(trail[s], GradClass(trail[s]))
        BY BootType DEF RunInv, TrailInv
    <2>3. pc = "polled"
        BY DEF HashState
    <2>4. /\ Linked(live, grads) = After(trail[tip], GradClass(trail[tip]))
          /\ GoodState(Linked(live, grads))
          /\ Linked(live, grads).step = tip + 1
        BY <2>1, <2>2, <2>3, HashFacts
    <2>5. TrailInv'
        <3>1. \A s \in DOMAIN trail' : trail'[s].step = s /\ GoodState(trail'[s])
            BY <2>1, <2>2, <2>4
        <3>2. \A s \in Boot.step..tip :
                 StepsOn(trail[s]) /\ trail'[s + 1] = After(trail[s], GradClass(trail[s]))
            BY <2>1, <2>2, <2>4
        <3>3. \A s \in Boot.step..(tip' - 1) :
                 /\ StepsOn(trail[s]) /\ trail'[s] = trail[s]
                 /\ trail'[s + 1] = After(trail[s], GradClass(trail[s]))
            <4>1. tip' - 1 = tip
                BY <2>1, <2>2
            <4>2. \A s \in Boot.step..tip : trail'[s] = trail[s]
                BY <2>1, <2>2
            <4> QED BY <3>2, <4>1, <4>2
        <3>4. \A s \in Boot.step..(tip' - 1) :
                 StepsOn(trail[s])' /\ trail'[s + 1] = After(trail[s], GradClass(trail[s]))'
            BY <2>1, <3>3 DEF StepsOn, GradClass
        <3>5. tip' \in Nat /\ Boot.step <= tip' /\ DOMAIN trail' = Boot.step..tip'
            BY <2>1, <2>2
        <3>6. trail'[Boot.step] = Boot
            BY <2>1, <2>2
        <3>7. QED
            BY <3>1, <3>4, <3>5, <3>6 DEF TrailInv
    <2>6. \A s \in (Boot.step + 1)..tip :
             CanonicalDigest(s)' = CanonicalDigest(s)
        <3>1. \A s \in (Boot.step + 1)..tip : s \in DOMAIN trail /\ s - 1 \in DOMAIN trail
            BY <2>2
        <3>2. QED
            BY <3>1, DigestsKept
    <2>7. PICK n : n = tip + 1
        OBVIOUS
    <2>8. CanonicalDigest(n)' = StepDigest(live, grads)
        <3>1. tip \in Nat /\ tip \in DOMAIN trail
            BY <2>2
        <3>2. n - 1 = tip
            BY <2>7, <3>1
        <3>3. QED
            BY <2>1, <3>1, <3>2 DEF CanonicalDigest, GradClass
    <2>9. JournalInv'
        <3>1. (Boot.step + 1)..tip' = ((Boot.step + 1)..tip) \cup {n}
            BY <2>1, <2>2, <2>7
        <3>2. journal' = IF HashDue(n)
                         THEN journal \cup {[step |-> n,
                                             digest |-> CanonicalDigest(n)']}
                         ELSE journal
            BY <2>1, <2>7, <2>8 DEF HashState
        <3>3. \A e \in journal' :
                 \/ e = InitEntry
                 \/ /\ e.step \in (Boot.step + 1)..tip' /\ HashDue(e.step)
                    /\ e = [step |-> e.step, digest |-> CanonicalDigest(e.step)']
            BY <2>6, <3>1, <3>2 DEF RunInv, JournalInv
        <3>4. \A s \in (Boot.step + 1)..tip' : HashDue(s) =>
                 [step |-> s, digest |-> CanonicalDigest(s)'] \in journal'
            BY <2>6, <3>1, <3>2 DEF RunInv, JournalInv
        <3>5. QED
            BY <3>3, <3>4 DEF JournalInv
    <2>10. HaltInv'
        BY <2>1 DEF HaltInv
    <2>11. QED
        BY <2>5, <2>9, <2>10
<1>3. QED
    BY <1>1, <1>2

LEMMA HashStateInv ==
    ASSUME Auditable, RunInv, HashState
    PROVE  RunInv'
<1>1. /\ pc = "polled" /\ pc' = "hashed" /\ live' = Linked(live, grads)
      /\ stamp' \in {NoStamp, StepDigest(live, grads)}
      /\ UNCHANGED <<surface, grads, clock, exitDue, lastCkpt, file, sigterm,
                     launches, dirs>>
    BY DEF HashState
<1>2. /\ live.step - 1 \in DOMAIN trail
      /\ live'.step = live.step /\ GoodState(live') /\ live'.consumed = live.consumed
      /\ clock = live.consumed
    BY <1>1, HashFacts
<1>3. /\ live.step \in DOMAIN trail' /\ live' = trail'[live.step]
      /\ live.step - 1 \in DOMAIN trail'
      /\ trail'[live.step - 1] = trail[live.step - 1]
    <2>1. CASE live.step > tip
        <3>1. tip \in Nat /\ Boot.step \in Nat /\ DOMAIN trail = Boot.step..tip
              /\ Boot.step <= tip
            BY BootType DEF RunInv, TrailInv
        <3>2. QED
            BY <1>1, <1>2, <2>1, <3>1, ExtendFacts
    <2>2. CASE ~(live.step > tip)
        BY <1>1, <1>2, <2>2, ReplayFacts
    <2>3. QED
        BY <2>1, <2>2
<1>4. CanonicalDigest(live.step)' = CanonicalDigest(live.step)
    <2>1. live'.step = live.step
        BY <1>2
    <2>2. QED
        BY <1>1, <1>2, <1>3 DEF CanonicalDigest, GradClass
<1>5. AtHashed'
    BY <1>1, <1>2, <1>3, <1>4, DigestIsCanonical DEF AtHashed
<1>6. JobInv'
    BY <1>1, <1>2, <1>5 DEF RunInv, JobInv, Phases, GoodState, IsState
<1>7. DirsInv'
    <2>1. ASSUME NEW s \in DOMAIN dirs
          PROVE  /\ s \in DOMAIN trail /\ s - 1 \in DOMAIN trail
                 /\ s \in DOMAIN trail' /\ s - 1 \in DOMAIN trail'
                 /\ trail'[s] = trail[s] /\ CanonicalDigest(s)' = CanonicalDigest(s)
        <3>1. s \in DOMAIN trail /\ s - 1 \in DOMAIN trail
            BY DEF RunInv, DirsInv
        <3>2. DOMAIN trail \subseteq DOMAIN trail'
            <4>1. CASE live.step > tip
                <5>1. tip \in Nat /\ Boot.step \in Nat /\ DOMAIN trail = Boot.step..tip
                    BY BootType DEF RunInv, TrailInv
                <5>2. QED
                    BY <4>1, <5>1, ExtendFacts
            <4>2. CASE ~(live.step > tip)
                BY <4>2 DEF HashState
            <4>3. QED
                BY <4>1, <4>2
        <3>3. QED
            BY <3>1, <3>2, DigestsKept
    <2>2. QED
        BY <1>1, <2>1 DEF RunInv, DirsInv
<1>8. QED
    BY <1>6, <1>7, HashStateTrail DEF RunInv

-----------------------------------------------------------------------------
(* Saving: one file at a time, over whatever the directory holds *)

\* What the job writes at its step is what the trail says belongs there, in
\* an order that never leaves the stream file without the optional ones.
LEMMA PutFile ==
    ASSUME Auditable, RunInv, pc = "saving",
           NEW c \in {Torn, Written(Content(file, live, stamp))},
           dirs' = [dirs EXCEPT ![live.step][file] = c],
           UNCHANGED <<surface, trail>>
    PROVE  DirsInv'
<1> DEFINE n == live.step
<1>1. /\ n \in DOMAIN trail /\ live = trail[n] /\ n \in DOMAIN dirs
      /\ stamp = CanonicalDigest(n)
      /\ file \in Files /\ file # "sampler"
      /\ file = "meta" /\ HashEvery > 0 => ~Missing(dirs[n], "batch_hasher")
      /\ file = "spike_protocol" => ~Missing(dirs[n], "meta")
      /\ file = "global_stream" => ~Missing(dirs[n], "spike_protocol")
    BY DEF RunInv, JobInv, AtHashed, AtSaving
<1>2. /\ DOMAIN dirs' = DOMAIN dirs
      /\ \A s \in DOMAIN dirs : s # n => dirs'[s] = dirs[s]
      /\ dirs'[n] = [dirs[n] EXCEPT ![file] = c]
    BY <1>1
<1>3. DOMAIN dirs[n] = Files
    BY <1>1 DEF RunInv, DirsInv
<1>4. /\ DOMAIN dirs'[n] = Files /\ dirs'[n][file] = c
      /\ \A f \in Files : f # file => dirs'[n][f] = dirs[n][f]
    BY <1>1, <1>2, <1>3
<1>5. c.status # "absent"
    BY DEF Torn, Written
<1>6. \A f \in Files : Missing(dirs'[n], f) => f # file /\ Missing(dirs[n], f)
    BY <1>4, <1>5 DEF Missing
<1>7. \A s \in DOMAIN dirs : CanonicalDigest(s)' = CanonicalDigest(s)
    BY DEF CanonicalDigest, GradClass
<1>8. ASSUME NEW s \in DOMAIN dirs
      PROVE  /\ s \in DOMAIN trail /\ s - 1 \in DOMAIN trail
             /\ DOMAIN dirs'[s] = Files
             /\ \A f \in Files :
                   dirs'[s][f] \in {Absent, Torn,
                             Written(Content(f, trail[s], CanonicalDigest(s)))}
             /\ Missing(dirs'[s], "sampler")
             /\ ~Missing(dirs'[s], "global_stream")
                   => ~Missing(dirs'[s], "spike_protocol")
             /\ ~Missing(dirs'[s], "spike_protocol") => ~Missing(dirs'[s], "meta")
             /\ ~Missing(dirs'[s], "meta") /\ HashEvery > 0
                   => ~Missing(dirs'[s], "batch_hasher")
    <2>1. /\ s \in DOMAIN trail /\ s - 1 \in DOMAIN trail
          /\ DOMAIN dirs[s] = Files
          /\ \A f \in Files :
                dirs[s][f] \in {Absent, Torn,
                             Written(Content(f, trail[s], CanonicalDigest(s)))}
          /\ Missing(dirs[s], "sampler")
          /\ ~Missing(dirs[s], "global_stream") => ~Missing(dirs[s], "spike_protocol")
          /\ ~Missing(dirs[s], "spike_protocol") => ~Missing(dirs[s], "meta")
          /\ ~Missing(dirs[s], "meta") /\ HashEvery > 0
                => ~Missing(dirs[s], "batch_hasher")
        BY DEF RunInv, DirsInv
    <2>2. CASE s # n
        BY <1>2, <2>1, <2>2
    <2>3. CASE s = n
        <3>1. {"sampler", "global_stream", "spike_protocol", "meta", "batch_hasher"}
                \subseteq Files
            BY DEF Files
        <3>2. \A f \in Files :
                 dirs'[n][f] \in {Absent, Torn,
                             Written(Content(f, trail[n], CanonicalDigest(n)))}
            BY <1>1, <1>4, <2>1, <2>3
        <3>3. Missing(dirs'[n], "sampler")
            BY <1>1, <1>4, <2>1, <2>3, <3>1 DEF Missing
        <3>4. /\ ~Missing(dirs'[n], "global_stream")
                    => file = "global_stream" \/ ~Missing(dirs[n], "global_stream")
              /\ ~Missing(dirs'[n], "spike_protocol")
                    => file = "spike_protocol" \/ ~Missing(dirs[n], "spike_protocol")
              /\ ~Missing(dirs'[n], "meta")
                    => file = "meta" \/ ~Missing(dirs[n], "meta")
            BY <1>4, <3>1 DEF Missing
        <3>5. QED
            BY <1>1, <1>4, <1>6, <2>1, <2>3, <3>1, <3>2, <3>3, <3>4
    <2>4. QED
        BY <2>2, <2>3
<1>9. QED
    BY <1>2, <1>7, <1>8 DEF DirsInv

LEMMA BeginSaveInv ==
    ASSUME Auditable, RunInv, BeginSave
    PROVE  RunInv'
<1>1. /\ pc = "hashed" /\ pc' = "saving" /\ stamp # NoStamp
      /\ file' = "state_hash"
      /\ dirs' = IF live.step \in DOMAIN dirs THEN dirs
                 ELSE Extended(dirs, live.step, [f \in Files |-> Absent])
      /\ UNCHANGED <<uvars, live, grads, clock, exitDue, stamp, lastCkpt,
                     sigterm, launches>>
    BY DEF BeginSave
<1>2. /\ live.step \in DOMAIN trail /\ live = trail[live.step]
      /\ live.step - 1 \in DOMAIN trail
      /\ stamp = CanonicalDigest(live.step)
      /\ clock = live.consumed
    BY <1>1 DEF RunInv, JobInv, AtHashed
<1>3. CanonicalDigest(live.step)' = CanonicalDigest(live.step)
    BY <1>1 DEF CanonicalDigest, GradClass, uvars
<1>4. live.step \in DOMAIN dirs'
    BY <1>1 DEF Extended
<1>5. AtHashed'
    BY <1>1, <1>2, <1>3 DEF AtHashed, uvars
<1>6. AtSaving'
    BY <1>1, <1>2, <1>3, <1>4 DEF AtSaving
<1>7. JobInv'
    BY <1>1, <1>5, <1>6 DEF RunInv, JobInv, Phases, Files, GoodState, IsState
<1>8. DirsInv'
    <2>1. CASE live.step \in DOMAIN dirs
        BY <1>1, <2>1, DirsFrame DEF RunInv, uvars
    <2>2. CASE live.step \notin DOMAIN dirs
        <3>1. /\ DOMAIN dirs' = DOMAIN dirs \cup {live.step}
              /\ \A s \in DOMAIN dirs : dirs'[s] = dirs[s]
              /\ dirs'[live.step] = [f \in Files |-> Absent]
            BY <1>1, <2>2 DEF Extended
        <3>2. \A f \in Files : dirs'[live.step][f] = Absent /\ Missing(dirs'[live.step], f)
            BY <3>1 DEF Missing, Absent
        <3>3. {"sampler", "global_stream", "spike_protocol", "meta"} \subseteq Files
            BY DEF Files
        <3>4. \A s \in DOMAIN dirs' : CanonicalDigest(s)' = CanonicalDigest(s)
            BY <1>1 DEF CanonicalDigest, GradClass, uvars
        <3>5. trail' = trail
            BY <1>1 DEF uvars
        <3>6. QED
            BY <1>2, <3>1, <3>2, <3>3, <3>4, <3>5 DEF RunInv, DirsInv
    <2>3. QED
        BY <2>1, <2>2
<1>9. QED
    BY <1>1, <1>7, <1>8, TrailFrame, JournalFrame, HaltFrame DEF RunInv, uvars

LEMMA WriteFileInv ==
    ASSUME Auditable, RunInv, WriteFile
    PROVE  RunInv'
<1> DEFINE c == Written(Content(file, live, stamp))
<1>1. /\ pc = "saving" /\ dirs' = [dirs EXCEPT ![live.step][file] = c]
      /\ file' = NextFile(file)
      /\ file = "_COMPLETE" => pc' = "saved" /\ lastCkpt' = live.consumed
      /\ file # "_COMPLETE" => UNCHANGED <<pc, lastCkpt>>
      /\ UNCHANGED <<uvars, live, grads, clock, exitDue, stamp, sigterm, launches>>
    BY DEF WriteFile
<1>2. DirsInv'
    BY <1>1, PutFile DEF uvars
<1>3. /\ live.step \in DOMAIN trail /\ live = trail[live.step]
      /\ live.step - 1 \in DOMAIN trail
      /\ stamp = CanonicalDigest(live.step)
      /\ clock = live.consumed
      /\ live.step \in DOMAIN dirs /\ file \in Files /\ file # "sampler"
    BY <1>1 DEF RunInv, JobInv, AtHashed, AtSaving
<1>4. CanonicalDigest(live.step)' = CanonicalDigest(live.step)
    BY <1>1 DEF CanonicalDigest, GradClass, uvars
<1>5. AtHashed'
    BY <1>1, <1>3, <1>4 DEF AtHashed, uvars
<1>6. ~Missing(dirs'[live.step], file)
    <2>1. DOMAIN dirs[live.step] = Files
        BY <1>3 DEF RunInv, DirsInv
    <2>2. dirs'[live.step][file] = c
        BY <1>1, <1>3, <2>1
    <2>3. QED
        BY <2>2 DEF Missing, Written
<1>7. /\ file' \in Files /\ file' # "sampler"
      /\ file' = "meta" /\ HashEvery > 0 => file = "batch_hasher"
      /\ file' = "spike_protocol" => file = "meta"
      /\ file' = "global_stream" => file = "spike_protocol"
    BY <1>1, <1>3 DEF NextFile, Files
<1>8. AtSaving'
    <2>1. live.step \in DOMAIN dirs'
        BY <1>1, <1>3
    <2>2. QED
        BY <1>1, <1>3, <1>4, <1>6, <1>7, <2>1 DEF AtSaving
<1>9. live.consumed \in Nat
    BY DEF RunInv, JobInv, GoodState
<1>10. JobInv'
    BY <1>1, <1>5, <1>7, <1>8, <1>9
       DEF RunInv, JobInv, Phases, GoodState, IsState
<1>11. QED
    BY <1>1, <1>2, <1>10, TrailFrame, JournalFrame, HaltFrame DEF RunInv, uvars

LEMMA CrashInv ==
    ASSUME Auditable, RunInv, Crash
    PROVE  RunInv'
<1>1. /\ \/ UNCHANGED dirs
         \/ /\ pc = "saving"
            /\ dirs' = [dirs EXCEPT ![live.step][file] = Torn]
      /\ pc' = "down" /\ live' = Boot /\ clock' = Boot.consumed
      /\ lastCkpt' = Boot.consumed /\ exitDue' = FALSE /\ sigterm' = FALSE
      /\ file' = "_COMPLETE" /\ UNCHANGED <<uvars, launches>>
    BY DEF Crash
<1>2. DirsInv'
    <2>1. CASE UNCHANGED dirs
        BY <1>1, <2>1, DirsFrame DEF RunInv, uvars
    <2>2. CASE pc = "saving" /\ dirs' = [dirs EXCEPT ![live.step][file] = Torn]
        BY <1>1, <2>2, PutFile DEF uvars
    <2>3. QED
        BY <1>1, <2>1, <2>2
<1>3. GoodState(live)'
    BY <1>1, BootType DEF GoodState, IsState
<1>4. Boot.consumed \in Nat
    BY BootType DEF GoodState
<1>5. JobInv'
    BY <1>1, <1>3, <1>4 DEF RunInv, JobInv, Phases, Ended, Files
<1>6. QED
    BY <1>1, <1>2, <1>5, TrailFrame, JournalFrame, HaltFrame DEF RunInv, uvars

LEMMA StutterInv ==
    ASSUME RunInv, UNCHANGED vars
    PROVE  RunInv'
<1>1. UNCHANGED <<uvars, pc, jobvars, sigterm, launches, dirs>>
    BY DEF vars
<1>2. /\ AtTop => AtTop'
      /\ AtBackward => AtBackward'
      /\ AtStepped => AtStepped'
      /\ AtHashed => AtHashed'
      /\ AtSaving => AtSaving'
    BY <1>1 DEF AtTop, AtBackward, AtStepped, AtHashed, AtSaving, StepsOn,
                GradClass, CanonicalDigest, uvars, jobvars
<1>3. JobInv'
    BY <1>1, <1>2 DEF RunInv, JobInv, jobvars, uvars, GoodState, IsState
<1>4. QED
    BY <1>1, <1>3, JobFrame

\* Every step of the system preserves the invariant.
LEMMA NextRunInv ==
    ASSUME Auditable, RunInv, [Next]_vars
    PROVE  RunInv'
<1>1. CASE Launch
    BY <1>1, ColdStartInv, ResumeOwnInv, ResumeParentInv DEF Launch
<1>2. CASE Job
    BY <1>2, BeginStepInv, EndingInv, UpdateWeightsInv, HaltJobInv, PollExitInv,
       HashStateInv, BeginSaveInv, WriteFileInv, EndStepInv DEF Job
<1>3. CASE Sigterm
    BY <1>3, SigtermInv
<1>4. CASE Crash
    BY <1>4, CrashInv
<1>5. CASE UNCHANGED vars
    BY <1>5, StutterInv
<1>6. QED
    BY <1>1, <1>2, <1>3, <1>4, <1>5 DEF Next

-----------------------------------------------------------------------------
(* The theorems.  All of them are about auditable runs: without the stream  *)
(* file a half-written directory loads, and resume is not exact.            *)

\* The invariant that carries every proof below: memory, disk and journal
\* agree with the trail of the uninterrupted run.
THEOREM InvariantHolds ==
    ASSUME Auditable
    PROVE  Spec => []RunInv
<1>1. Init => RunInv
    BY InitRunInv
<1>2. RunInv /\ [Next]_vars => RunInv'
    BY NextRunInv
<1>3. QED
    BY <1>1, <1>2, PTL DEF Spec

\* Every variable keeps its type: counters stay natural, the spike record
\* well-formed, every directory a complete map of the checkpoint's files.
THEOREM TypesHold ==
    ASSUME Auditable
    PROVE  Spec => []TypeOK
<1>1. RunInv => TypeOK
    <2> SUFFICES ASSUME RunInv PROVE TypeOK
        OBVIOUS
    <2>1. /\ pc \in Phases /\ file \in Files
          /\ exitDue \in BOOLEAN /\ sigterm \in BOOLEAN
          /\ launches \in 0..MaxLaunches
          /\ lastCkpt \in Nat /\ clock \in Nat /\ GoodState(live)
        BY DEF RunInv, JobInv
    <2>2. tip \in Nat /\ DOMAIN trail = Boot.step..tip
        BY DEF RunInv, TrailInv
    <2>3. haltedAt \in Nat \cup {-1}
        BY <2>2 DEF RunInv, HaltInv
    <2>4. DOMAIN dirs \subseteq Nat /\ \A s \in DOMAIN dirs : DOMAIN dirs[s] = Files
        BY <2>2, BootType DEF RunInv, DirsInv
    <2>5. QED
        BY <2>1, <2>2, <2>3, <2>4 DEF TypeOK, GoodState
<1>2. QED
    BY <1>1, InvariantHolds, PTL

\* Resume is bit-exact from any directory of the run that loads, complete or
\* torn (README.md:226).
THEOREM ResumesExactly ==
    ASSUME Auditable
    PROVE  Spec => []ResumeIsExact
<1>1. RunInv => ResumeIsExact
    BY DEF RunInv, JobInv, AtTop, AtHashed, ResumeIsExact, AtBoundary
<1>2. QED
    BY <1>1, InvariantHolds, PTL

\* Replays never publish a second digest for a step (state_hashes.jsonl is
\* only ever appended to).
THEOREM JournalStaysConsistent ==
    ASSUME Auditable
    PROVE  Spec => []JournalAgrees
<1>1. RunInv => JournalAgrees
    <2> SUFFICES ASSUME RunInv, NEW e \in journal, NEW g \in journal,
                        e.step = g.step
                 PROVE  e.digest = g.digest
        BY DEF JournalAgrees
    <2>1. InitEntry.step = 0
        BY DEF InitEntry
    <2>2. 0 \notin (Boot.step + 1)..tip
        BY BootType DEF RunInv, TrailInv
    <2>3. \A x \in journal :
             \/ x = InitEntry
             \/ x.step \in (Boot.step + 1)..tip /\ x.digest = CanonicalDigest(x.step)
        BY DEF RunInv, JournalInv
    <2>4. QED
        BY <2>1, <2>2, <2>3
<1>2. QED
    BY <1>1, InvariantHolds, PTL

\* state_hash.txt of any directory, whoever wrote it, is the published
\* digest of its step (checkpoint.py:287-298).
THEOREM StampsMatch ==
    ASSUME Auditable
    PROVE  Spec => []StampMatchesJournal
<1>1. RunInv => StampMatchesJournal
    <2> SUFFICES ASSUME RunInv, NEW s \in DOMAIN dirs, NEW e \in journal,
                        Has(dirs[s], "state_hash"), e.step = s, s > 0
                 PROVE  dirs[s]["state_hash"].data = e.digest
        BY DEF StampMatchesJournal
    <2>1. InitEntry.step = 0
        BY DEF InitEntry
    <2>2. e.digest = CanonicalDigest(s)
        BY <2>1 DEF RunInv, JournalInv
    <2>3. "state_hash" \in Files
        BY DEF Files
    <2>4. dirs[s]["state_hash"]
             = Written(Content("state_hash", trail[s], CanonicalDigest(s)))
        BY <2>3 DEF RunInv, DirsInv, Has, Absent, Torn
    <2>5. QED
        BY <2>2, <2>4 DEF Written, Content
<1>2. QED
    BY <1>1, InvariantHolds, PTL

\* A checkpoint off the hash cadence records the chain its side-link hangs
\* off; one on the cadence records its own digest as the chain.
THEOREM SideLinksHang ==
    ASSUME Auditable
    PROVE  Spec => []SideLinksHangOffTheChain
<1>1. RunInv => SideLinksHangOffTheChain
    <2> SUFFICES ASSUME RunInv, NEW s \in DOMAIN dirs,
                        Has(dirs[s], "state_hash"), Has(dirs[s], "meta")
                 PROVE  dirs[s]["meta"].data.chain =
                           IF HashDue(s) THEN dirs[s]["state_hash"].data
                           ELSE dirs[s]["state_hash"].data.prev
        BY DEF SideLinksHangOffTheChain
    <2> DEFINE st == trail[s - 1]
               class == GradClass(st)
               before == BeforeHash(st, class)
               batches == StepBatches(st.pos, st.consumed)
    <2>1. {"state_hash", "meta"} \subseteq Files
        BY DEF Files
    <2>2. /\ dirs[s]["state_hash"]
               = Written(Content("state_hash", trail[s], CanonicalDigest(s)))
          /\ dirs[s]["meta"] = Written(Content("meta", trail[s], CanonicalDigest(s)))
        BY <2>1 DEF RunInv, DirsInv, Has, Absent, Torn
    <2>3. /\ dirs[s]["state_hash"].data = CanonicalDigest(s)
          /\ dirs[s]["meta"].data.chain = trail[s].chain
        BY <2>2 DEF Written, Content
    <2>4. /\ Boot.step \in Nat /\ tip \in Nat /\ DOMAIN trail = Boot.step..tip
          /\ s \in DOMAIN trail /\ s - 1 \in DOMAIN trail
        BY BootType DEF RunInv, TrailInv, DirsInv
    <2>5. s - 1 \in Boot.step..(tip - 1) /\ (s - 1) + 1 = s
        BY <2>4
    <2>6. trail[s] = After(st, class) /\ GoodState(st) /\ st.step = s - 1
        BY <2>4, <2>5 DEF RunInv, TrailInv
    <2>7. GoodState(before) /\ before.step = s
        BY <2>5, <2>6, BeforeHashType
    <2>8. trail[s] = Linked(before, batches)
        BY <2>6 DEF After
    <2>9. CanonicalDigest(s) = StepDigest(before, batches)
        BY DEF CanonicalDigest, DigestAfter
    <2>10. CASE HashDue(s)
        <3>1. trail[s] = [before EXCEPT !.chain = StepDigest(before, batches)]
            BY <2>7, <2>8, <2>10 DEF Linked
        <3>2. trail[s].chain = StepDigest(before, batches)
            BY <2>7, <3>1 DEF GoodState, IsState
        <3>3. QED
            BY <2>3, <2>9, <2>10, <3>2
    <2>11. CASE ~HashDue(s)
        <3>1. trail[s] = before
            BY <2>7, <2>8, <2>11 DEF Linked
        <3>2. CanonicalDigest(s).prev = before.chain
            BY <2>9 DEF StepDigest
        <3>3. QED
            BY <2>3, <2>11, <3>1, <3>2
    <2>12. QED
        BY <2>10, <2>11
<1>2. QED
    BY <1>1, InvariantHolds, PTL

\* The loader's own token clock never drifts from the loop's.
THEOREM LoaderStaysInStep ==
    ASSUME Auditable
    PROVE  Spec => []LoaderInStep
<1>1. RunInv => LoaderInStep
    BY DEF RunInv, JobInv, AtTop, LoaderInStep
<1>2. QED
    BY <1>1, InvariantHolds, PTL

\* No relaunch gets past a halt.
THEOREM HaltsForGood ==
    ASSUME Auditable
    PROVE  Spec => []HaltIsFinal
<1>1. RunInv => HaltIsFinal
    <2> SUFFICES ASSUME RunInv, haltedAt >= 0
                 PROVE  /\ \A s \in DOMAIN dirs : s <= haltedAt
                        /\ \A e \in journal : e.step <= haltedAt
        BY DEF HaltIsFinal
    <2>1. /\ haltedAt = tip /\ tip \in Nat /\ Boot.step \in Nat
          /\ DOMAIN trail = Boot.step..tip
        BY BootType DEF RunInv, HaltInv, TrailInv
    <2>2. \A s \in DOMAIN dirs : s \in Boot.step..tip
        BY <2>1 DEF RunInv, DirsInv
    <2>3. \A e \in journal : e.step = 0 \/ e.step \in (Boot.step + 1)..tip
        BY DEF RunInv, JournalInv, InitEntry
    <2>4. QED
        BY <2>1, <2>2, <2>3
<1>2. QED
    BY <1>1, InvariantHolds, PTL

\* The documented reason for restoring the spike protocol (loop.py:525-529)
\* is met in auditable mode, from any directory that loads.
THEOREM CooldownsSurvive ==
    ASSUME Auditable
    PROVE  Spec => []CooldownSurvivesResume
<1>1. RunInv => CooldownSurvivesResume
    BY DEF RunInv, JobInv, AtTop, CooldownSurvivesResume
<1>2. QED
    BY <1>1, InvariantHolds, PTL

\* Saving only adds files: no directory and no file ever goes missing.
LEMMA FilesNeverVanish ==
    ASSUME RunInv, [Next]_vars, NEW s \in DOMAIN dirs, NEW f \in Files
    PROVE  /\ s \in DOMAIN dirs'
           /\ ~Missing(dirs[s], f) => ~Missing(dirs'[s], f)
<1>1. CASE UNCHANGED dirs
    BY <1>1
<1>2. CASE BeginSave
    BY <1>2 DEF BeginSave, Extended
<1>3. ASSUME NEW c, c.status # "absent",
             dirs' = [dirs EXCEPT ![live.step][file] = c]
      PROVE  /\ s \in DOMAIN dirs'
             /\ ~Missing(dirs[s], f) => ~Missing(dirs'[s], f)
    <2>1. s \in DOMAIN dirs' /\ DOMAIN dirs[s] = Files
        BY <1>3 DEF RunInv, DirsInv
    <2>2. CASE s = live.step /\ f = file
        BY <1>3, <2>1, <2>2 DEF Missing
    <2>3. CASE s # live.step
        <3>1. dirs'[s] = dirs[s]
            BY <1>3, <2>3
        <3>2. QED
            BY <2>1, <3>1
    <2>4. CASE s = live.step /\ f # file
        <3>1. dirs'[s] = [dirs[s] EXCEPT ![file] = c]
            BY <1>3, <2>4
        <3>2. dirs'[s][f] = dirs[s][f]
            BY <2>1, <2>4, <3>1
        <3>3. QED
            BY <2>1, <3>2 DEF Missing
    <2>5. QED
        BY <2>2, <2>3, <2>4
<1>4. CASE WriteFile
    <2>1. dirs' = [dirs EXCEPT ![live.step][file] =
                      Written(Content(file, live, stamp))]
        BY <1>4 DEF WriteFile
    <2>2. Written(Content(file, live, stamp)).status # "absent"
        BY DEF Written
    <2>3. QED
        BY <1>3, <2>1, <2>2
<1>5. CASE Crash /\ ~UNCHANGED dirs
    <2>1. dirs' = [dirs EXCEPT ![live.step][file] = Torn]
        BY <1>5 DEF Crash
    <2>2. Torn.status # "absent"
        BY DEF Torn
    <2>3. QED
        BY <1>3, <2>1, <2>2
<1>6. QED
    BY <1>1, <1>2, <1>4, <1>5
       DEF Next, Launch, ColdStart, ResumeOwn, ResumeParent, Resume, Job,
           BeginStep, RefuseUneven, Finish, UpdateWeights, HaltJob, PollExit,
           HashState, EndStep, Sigterm, vars

\* A digest and a state of the trail, once there, stay what they are.
LEMMA TrailIsKept ==
    ASSUME Auditable, RunInv, [Next]_vars, NEW s \in DOMAIN dirs
    PROVE  trail'[s] = trail[s] /\ CanonicalDigest(s)' = CanonicalDigest(s)
<1>1. s \in DOMAIN trail /\ s - 1 \in DOMAIN trail
    BY DEF RunInv, DirsInv
<1>2. CASE HashState
    BY <1>1, <1>2, DigestsKept
<1>3. CASE UNCHANGED <<surface, trail>>
    BY <1>3 DEF CanonicalDigest, GradClass
<1>4. QED
    BY <1>2, <1>3
       DEF Next, Launch, ColdStart, ResumeOwn, ResumeParent, Resume, Job,
           BeginStep, RefuseUneven, Finish, UpdateWeights, HaltJob, PollExit,
           BeginSave, WriteFile, EndStep, Sigterm, Crash, vars, uvars

\* Rewriting a directory in place (mkdir exist_ok, checkpoint.py:286) is
\* harmless: a later job puts the same content there, or a crash tears it.
THEOREM RewritesAreHarmless ==
    ASSUME Auditable
    PROVE  Spec => SavedFilesAreStable
<1> DEFINE Stable ==
        \A s \in DOMAIN dirs : \A f \in Files :
            Has(dirs[s], f) =>
                s \in DOMAIN dirs' /\ dirs'[s][f] \in {dirs[s][f], Torn}
<1>1. RunInv /\ RunInv' /\ [Next]_vars => Stable
    <2> SUFFICES ASSUME RunInv, RunInv', [Next]_vars, NEW s \in DOMAIN dirs,
                        NEW f \in Files, Has(dirs[s], f)
                 PROVE  s \in DOMAIN dirs' /\ dirs'[s][f] \in {dirs[s][f], Torn}
        OBVIOUS
    <2>1. dirs[s][f] = Written(Content(f, trail[s], CanonicalDigest(s)))
        BY DEF RunInv, DirsInv, Has, Absent, Torn
    <2>2. s \in DOMAIN dirs' /\ ~Missing(dirs'[s], f)
        BY FilesNeverVanish DEF Has, Missing
    <2>3. dirs'[s][f] \in {Absent, Torn,
                           Written(Content(f, trail[s], CanonicalDigest(s)))}
        BY <2>2, TrailIsKept DEF RunInv, DirsInv
    <2>4. QED
        BY <2>1, <2>2, <2>3 DEF Missing, Absent
<1>2. RunInv /\ RunInv' /\ [Next]_vars => [Stable]_vars
    BY <1>1
<1>3. QED
    BY <1>2, InvariantHolds, PTL DEF Spec, SavedFilesAreStable

\* Crashes, evictions, replays and resumes are invisible in what is reached
\* and published: training implements the run nobody interrupts.
THEOREM TrainingImplementsUninterrupted ==
    ASSUME Auditable
    PROVE  Spec => ImplementsUninterrupted
<1>1. Init => UInit
    BY DEF Init
<1>2. RunInv /\ [Next]_vars => [UNext]_uvars
    <2> SUFFICES ASSUME RunInv, [Next]_vars PROVE [UNext]_uvars
        OBVIOUS
    <2>1. CASE ColdStart
        BY <2>1 DEF ColdStart, Announce, UNext, uvars
    <2>2. CASE HaltJob
        <3>1. HaltRun
            <4>1. /\ live.step = tip
                  /\ trail[tip].consumed < TotalTokens /\ ~Uneven(trail[tip].consumed)
                  /\ RaisesHalt(trail[tip].spike, GradClass(trail[tip]), tip)
                BY <2>2, HaltsAtTip
            <4>2. trail[tip].step = tip
                BY BootType DEF RunInv, TrailInv
            <4>3. haltedAt' = tip /\ UNCHANGED <<surface, tip, trail, journal>>
                BY <2>2, <4>1 DEF HaltJob
            <4>4. QED
                BY <4>1, <4>2, <4>3 DEF HaltRun
        <3>2. QED
            BY <3>1 DEF UNext
    <2>3. CASE HashState
        <3>1. CASE live.step > tip
            <4>1. /\ live.step = tip + 1 /\ tip' = tip + 1 /\ surface' = surface
                  /\ StepsOn(trail[tip])
                  /\ trail' = Extended(trail, tip + 1,
                                       After(trail[tip], GradClass(trail[tip])))
                  /\ StepDigest(live, grads)
                       = DigestAfter(trail[tip], GradClass(trail[tip]))
                  /\ UNCHANGED haltedAt /\ haltedAt = -1
                BY <2>3, <3>1, ExtendFacts
            <4>2. journal' = IF HashDue(tip + 1)
                             THEN journal \cup
                                  {[step |-> tip + 1,
                                    digest |-> DigestAfter(trail[tip],
                                                           GradClass(trail[tip]))]}
                             ELSE journal
                BY <2>3, <4>1 DEF HashState
            <4>3. Advance
                BY <4>1, <4>2 DEF Advance, StepsOn
            <4>4. QED
                BY <4>3 DEF UNext
        <3>2. CASE ~(live.step > tip)
            BY <2>3, <3>2, ReplayFacts DEF uvars
        <3>3. QED
            BY <3>1, <3>2
    <2>4. CASE UNCHANGED uvars
        BY <2>4
    <2>5. QED
        BY <2>1, <2>2, <2>3, <2>4
           DEF Next, Launch, ResumeOwn, ResumeParent, Resume, Job,
               BeginStep, RefuseUneven, Finish, UpdateWeights, PollExit,
               BeginSave, WriteFile, EndStep, Sigterm, Crash, vars
<1>3. QED
    BY <1>1, <1>2, InvariantHolds, PTL DEF Spec, USpec, ImplementsUninterrupted


-----------------------------------------------------------------------------
(* The order of a save *)

\* The files save() writes under a configuration.
UsedFiles ==
    {f \in Files : /\ f = "sampler" => ~Auditable
                   /\ f = "batch_hasher" => HashEvery > 0
                   /\ f = "global_stream" => Auditable}

Place(f) ==
    CASE f = "state_hash" -> 1 [] f = "dcp" -> 2 [] f = "sampler" -> 3
      [] f = "rng" -> 4 [] f = "batch_hasher" -> 5 [] f = "meta" -> 6
      [] f = "spike_protocol" -> 7 [] f = "global_stream" -> 8 [] OTHER -> 9

EarlierFiles(f) == {g \in UsedFiles : Place(g) < Place(f)}
Whole(d) == \A f \in UsedFiles : Has(d, f)

\* The inductive invariant: a save has written what precedes its next file,
\* and the token clock of the last save lags behind a step's until it saves.
SaveInv ==
    /\ pc \in {"top", "backward", "saved"} => lastCkpt <= live.consumed
    /\ pc \in {"stepped", "polled", "hashed", "saving"} => lastCkpt < live.consumed
    /\ pc = "saving" => /\ file \in UsedFiles
                        /\ \A f \in EarlierFiles(file) : Has(dirs[live.step], f)
    /\ pc \in {"saved", "exited"} =>
          live.step \in DOMAIN dirs /\ Whole(dirs[live.step])
    /\ pc = "done" => live.consumed >= TotalTokens
    /\ pc \in {"top", "done"} /\ live.consumed >= TotalTokens =>
          live.step \in DOMAIN dirs /\ Loadable(dirs[live.step])

\* Writing a file of the order completes what precedes the next one.
LEMMA NextFileFollows ==
    ASSUME Auditable, NEW f \in UsedFiles, f # "_COMPLETE"
    PROVE  /\ NextFile(f) \in UsedFiles
           /\ \A g \in EarlierFiles(NextFile(f)) : g = f \/ g \in EarlierFiles(f)
<1>1. f \in {"state_hash", "dcp", "rng", "batch_hasher", "meta", "spike_protocol",
             "global_stream"}
    BY DEF UsedFiles, Files
<1>2. HashEvery \in Nat
    BY TrainAssumption
<1>3. ASSUME NEW g \in UsedFiles
      PROVE  g \in {"state_hash", "dcp", "rng", "batch_hasher", "meta",
                    "spike_protocol", "global_stream", "_COMPLETE"}
    BY <1>3 DEF UsedFiles, Files
<1>4. CASE f = "state_hash"
    BY <1>3, <1>4 DEF NextFile, UsedFiles, Files, EarlierFiles, Place
<1>5. CASE f = "dcp"
    BY <1>3, <1>5 DEF NextFile, UsedFiles, Files, EarlierFiles, Place
<1>6. CASE f = "rng"
    BY <1>2, <1>3, <1>6 DEF NextFile, UsedFiles, Files, EarlierFiles, Place
<1>7. CASE f = "batch_hasher"
    BY <1>3, <1>7 DEF NextFile, UsedFiles, Files, EarlierFiles, Place
<1>8. CASE f = "meta"
    BY <1>3, <1>8 DEF NextFile, UsedFiles, Files, EarlierFiles, Place
<1>9. CASE f = "spike_protocol"
    BY <1>3, <1>9 DEF NextFile, UsedFiles, Files, EarlierFiles, Place
<1>10. CASE f = "global_stream"
    BY <1>3, <1>10 DEF NextFile, UsedFiles, Files, EarlierFiles, Place
<1>11. QED
    BY <1>1, <1>4, <1>5, <1>6, <1>7, <1>8, <1>9, <1>10

\* The marker is the last file.
LEMMA MarkerIsLast ==
    ASSUME NEW f \in UsedFiles
    PROVE  f = "_COMPLETE" \/ f \in EarlierFiles("_COMPLETE")
BY DEF UsedFiles, Files, EarlierFiles, Place

\* The state hash is the first.
LEMMA StampIsFirst ==
    /\ "state_hash" \in UsedFiles
    /\ EarlierFiles("state_hash") = {}
BY DEF UsedFiles, Files, EarlierFiles, Place

\* load() accepts a directory a save has finished with (checkpoint.py:340-560).
LEMMA WholeLoads ==
    ASSUME Auditable, NEW d, Whole(d)
    PROVE  Loadable(d) /\ Has(d, "_COMPLETE")
<1>1. {"dcp", "rng", "meta", "spike_protocol", "global_stream", "_COMPLETE"}
        \subseteq UsedFiles
    BY DEF UsedFiles, Files
<1>2. HashEvery > 0 => "batch_hasher" \in UsedFiles
    BY DEF UsedFiles, Files
<1>3. HashEvery = 0 \/ HashEvery > 0
    BY TrainAssumption
<1>4. QED
    BY <1>1, <1>2, <1>3 DEF Whole, Loadable, Has

-----------------------------------------------------------------------------
(* The actions *)

\* A step has a positive number of tokens.
LEMMA StepHasTokens ==
    ASSUME Auditable, NEW c, ~Uneven(c)
    PROVE  Rounds(c) * World * MicroTokens \in Nat \ {0}
<1>1. /\ Rounds(c) \in Nat \ {0} /\ World \in Nat \ {0} /\ MicroTokens \in Nat \ {0}
    BY RoundsType, TrainAssumption, BatchScheduleAssumption
<1>2. ASSUME NEW a \in Nat \ {0}, NEW b \in Nat \ {0}
      PROVE  a * b \in Nat \ {0}
    BY <1>2, Z3
<1>3. QED
    BY <1>1, <1>2

LEMMA LaunchKeepsSaveInv ==
    ASSUME Auditable, Boot.consumed < TotalTokens, RunInv, Launch
    PROVE  SaveInv'
<1>1. ASSUME NEW st, Enter(st), st.consumed \in Nat, UNCHANGED dirs,
             st.consumed < TotalTokens \/ (st.step \in DOMAIN dirs /\ Loadable(dirs[st.step]))
      PROVE  SaveInv'
    <2>1. /\ pc' = "top" /\ live' = st /\ lastCkpt' = st.consumed /\ dirs' = dirs
        BY <1>1 DEF Enter
    <2>2. TotalTokens \in Nat
        BY TrainAssumption
    <2>3. ~(live'.consumed >= TotalTokens) \/
            (live'.step \in DOMAIN dirs' /\ Loadable(dirs'[live'.step]))
        BY <1>1, <2>1, <2>2
    <2>4. lastCkpt' <= live'.consumed
        BY <1>1, <2>1
    <2>5. Loadable(dirs[live.step])' = Loadable(dirs'[live'.step])
        BY DEF Loadable, Has, Missing
    <2>6. QED
        BY <2>1, <2>3, <2>4, <2>5 DEF SaveInv
<1>2. Boot.consumed \in Nat
    BY BootType DEF GoodState
<1>3. CASE ColdStart
    <2>1. Boot = FreshState /\ Enter(FreshState) /\ UNCHANGED dirs
        BY <1>3 DEF ColdStart, Boot
    <2>2. QED
        BY <1>1, <1>2, <2>1
<1>4. CASE ResumeOwn
    <2>1. PICK s \in DOMAIN dirs : Resume(dirs[s])
        BY <1>4 DEF ResumeOwn
    <2>2. /\ s \in DOMAIN trail
          /\ \A f \in Files :
                dirs[s][f] \in {Absent, Torn,
                                Written(Content(f, trail[s], CanonicalDigest(s)))}
          /\ Missing(dirs[s], "sampler")
          /\ ~Missing(dirs[s], "global_stream") => ~Missing(dirs[s], "spike_protocol")
          /\ ~Missing(dirs[s], "meta") /\ HashEvery > 0
                => ~Missing(dirs[s], "batch_hasher")
        BY <2>1 DEF RunInv, DirsInv
    <2>3. trail[s].step = s /\ GoodState(trail[s])
        BY <2>2 DEF RunInv, TrailInv
    <2>4. Loadable(dirs[s]) /\ ~ResetOptimizer
        BY <1>4, <2>1 DEF Resume, ResumeOwn
    <2>5. Restored(dirs[s]) = trail[s]
        BY <2>2, <2>3, <2>4, RestoreExact
    <2>6. Enter(trail[s]) /\ UNCHANGED dirs
        BY <2>1, <2>5 DEF Resume
    <2>7. trail[s].consumed \in Nat
        BY <2>3 DEF GoodState
    <2>8. QED
        BY <1>1, <2>1, <2>3, <2>4, <2>6, <2>7
<1>5. CASE ResumeParent
    <2>1. Enter(Boot) /\ UNCHANGED dirs
        BY <1>5, RestoreParent DEF ResumeParent, Resume
    <2>2. QED
        BY <1>1, <1>2, <2>1
<1>6. QED
    BY <1>3, <1>4, <1>5 DEF Launch

LEMMA TrainingKeepsSaveInv ==
    ASSUME Auditable, RunInv, SaveInv,
           BeginStep \/ UpdateWeights \/ PollExit \/ HashState
    PROVE  SaveInv'
<1>1. lastCkpt \in Nat /\ live.consumed \in Nat
    BY DEF RunInv, JobInv, GoodState
<1>2. CASE BeginStep
    <2>1. /\ pc = "top" /\ pc' = "backward" /\ lastCkpt' = lastCkpt
        BY <1>2 DEF BeginStep
    <2>2. live = trail[live.step] /\ GoodState(trail[live.step]) /\ clock = live.consumed
        BY <2>1 DEF RunInv, JobInv, AtTop, TrailInv
    <2>3. live'.consumed = live.consumed
        BY <1>2, <2>2, BegunType DEF BeginStep
    <2>4. QED
        BY <2>1, <2>3 DEF SaveInv
<1>3. CASE UpdateWeights
    <2> DEFINE st == trail[live.step]
    <2>1. /\ pc = "backward" /\ pc' = "stepped" /\ lastCkpt' = lastCkpt
        BY <1>3 DEF UpdateWeights
    <2>2. /\ GoodState(st) /\ ~Uneven(st.consumed)
          /\ live = Begun(st, st.consumed)
          /\ grads = StepBatches(st.pos, st.consumed)
          /\ StepClass = GradClass(st)
        BY <2>1, BackwardFacts
    <2>3. live' = BeforeHash(st, GradClass(st))
        BY <1>3, <2>2 DEF UpdateWeights, BeforeHash
    <2>4. live.consumed = st.consumed
        BY <2>2, BegunType
    <2>5. live'.consumed = st.consumed + Rounds(st.consumed) * World * MicroTokens
        BY <2>2, <2>3, BeforeHashType
    <2>6. lastCkpt <= live.consumed
        BY <2>1 DEF SaveInv
    <2>7. Rounds(st.consumed) * World * MicroTokens \in Nat \ {0}
        BY <2>2, StepHasTokens
    <2> DEFINE tokens == Rounds(st.consumed) * World * MicroTokens
    <2> HIDE DEF tokens
    <2>8. live'.consumed = live.consumed + tokens /\ tokens \in Nat \ {0}
        BY <2>4, <2>5, <2>7 DEF tokens
    <2>9. lastCkpt' < live'.consumed
        BY <1>1, <2>1, <2>6, <2>8
    <2>10. QED
        BY <2>1, <2>9 DEF SaveInv
<1>4. CASE PollExit
    BY <1>4 DEF PollExit, SaveInv
<1>5. CASE HashState
    <2>1. /\ pc = "polled" /\ pc' = "hashed" /\ lastCkpt' = lastCkpt
          /\ live' = Linked(live, grads)
        BY <1>5 DEF HashState
    <2>2. live'.consumed = live.consumed
        BY <2>1, HashFacts
    <2>3. QED
        BY <2>1, <2>2 DEF SaveInv
<1>6. QED
    BY <1>2, <1>3, <1>4, <1>5

LEMMA WriteFileKeepsSaveInv ==
    ASSUME Auditable, RunInv, SaveInv, WriteFile
    PROVE  SaveInv'
<1> DEFINE c == Written(Content(file, live, stamp))
           d == dirs[live.step]
<1>1. /\ pc = "saving" /\ dirs' = [dirs EXCEPT ![live.step][file] = c]
      /\ file' = NextFile(file) /\ live' = live
      /\ file = "_COMPLETE" => pc' = "saved"
      /\ file # "_COMPLETE" => pc' = "saving" /\ lastCkpt' = lastCkpt
    BY DEF WriteFile
<1>2. /\ live.step \in DOMAIN dirs /\ DOMAIN d = Files
      /\ file \in UsedFiles /\ lastCkpt < live.consumed
      /\ \A f \in EarlierFiles(file) : Has(d, f)
    BY <1>1 DEF RunInv, JobInv, AtSaving, DirsInv, SaveInv
<1>3. file \in Files
    BY <1>2 DEF UsedFiles
<1>4. live.step \in DOMAIN dirs' /\ dirs'[live.step] = [d EXCEPT ![file] = c]
    BY <1>1, <1>2
<1>5. \A f \in Files : f = file \/ Has(d, f) => Has(dirs'[live.step], f)
    <2>1. c.status = "written"
        BY DEF Written
    <2> HIDE DEF c
    <2>2. QED
        BY <1>2, <1>3, <1>4, <2>1 DEF Has
<1>6. CASE file = "_COMPLETE"
    <2>1. Whole(dirs'[live.step])
        <3> SUFFICES ASSUME NEW f \in UsedFiles PROVE Has(dirs'[live.step], f)
            BY DEF Whole
        <3>1. f \in Files
            BY DEF UsedFiles
        <3>2. QED
            BY <1>2, <1>5, <1>6, <3>1, MarkerIsLast
    <2>2. Whole(dirs[live.step])'
        BY <1>1, <2>1 DEF Whole, UsedFiles, Has
    <2>3. lastCkpt' <= live'.consumed
        BY <1>1, <1>6 DEF WriteFile, RunInv, JobInv, GoodState
    <2>4. QED
        BY <1>1, <1>4, <1>6, <2>2, <2>3 DEF SaveInv
<1>7. CASE file # "_COMPLETE"
    <2>1. /\ file' \in UsedFiles
          /\ \A g \in EarlierFiles(file') : g = file \/ g \in EarlierFiles(file)
        BY <1>1, <1>2, <1>7, NextFileFollows
    <2>2. \A f \in EarlierFiles(file') : Has(dirs'[live.step], f)
        BY <1>2, <1>5, <2>1 DEF EarlierFiles, UsedFiles
    <2>3. QED
        BY <1>1, <1>2, <1>7, <2>1, <2>2 DEF SaveInv, EarlierFiles, UsedFiles, Has
<1>8. QED
    BY <1>6, <1>7

LEMMA EndStepKeepsSaveInv ==
    ASSUME Auditable, RunInv, SaveInv, EndStep
    PROVE  SaveInv'
<1>1. /\ UNCHANGED <<live, lastCkpt, dirs>>
      /\ pc' = IF exitDue THEN "exited" ELSE "top"
      /\ lastCkpt \in Nat /\ live.consumed \in Nat /\ TotalTokens \in Nat
    BY TrainAssumption DEF EndStep, RunInv, JobInv, GoodState
<1>2. CASE pc = "hashed" /\ ~SaveDue
    <2>1. lastCkpt < live.consumed
        BY <1>2 DEF SaveInv
    <2>2. ~exitDue /\ ~(live.consumed >= TotalTokens)
        BY <1>1, <1>2, <2>1 DEF SaveDue, FinalStep
    <2>3. QED
        BY <1>1, <2>1, <2>2 DEF SaveInv
<1>3. CASE pc = "saved"
    <2>1. live.step \in DOMAIN dirs /\ Whole(dirs[live.step])
        BY <1>3 DEF SaveInv
    <2>2. Loadable(dirs[live.step])
        BY <2>1, WholeLoads
    <2>3. lastCkpt' <= live'.consumed
        BY <1>1, <1>3 DEF SaveInv
    <2>4. live'.step \in DOMAIN dirs' /\ Whole(dirs[live.step])'
        BY <1>1, <2>1 DEF Whole, UsedFiles, Has
    <2>5. Loadable(dirs[live.step])'
        BY <1>1, <2>2 DEF Loadable, Has, Missing
    <2>6. QED
        BY <1>1, <2>3, <2>4, <2>5 DEF SaveInv
<1>4. QED
    BY <1>2, <1>3 DEF EndStep

LEMMA BeginSaveKeepsSaveInv ==
    ASSUME Auditable, RunInv, SaveInv, BeginSave
    PROVE  SaveInv'
<1>1. /\ pc = "hashed" /\ pc' = "saving" /\ file' = "state_hash"
      /\ UNCHANGED <<live, lastCkpt>>
    BY DEF BeginSave
<1>2. lastCkpt' < live'.consumed
    BY <1>1 DEF SaveInv
<1>3. file' \in UsedFiles /\ EarlierFiles(file') = {}
    BY <1>1, StampIsFirst
<1>4. (\A f \in EarlierFiles(file) : Has(dirs[live.step], f))'
    BY <1>3 DEF EarlierFiles, UsedFiles
<1>5. QED
    BY <1>1, <1>2, <1>3, <1>4 DEF SaveInv, UsedFiles

\* The job leaves the loop, dies or is asked to leave: nothing is written but
\* the file a crash tears, in a job that no longer counts.
LEMMA EndingKeepsSaveInv ==
    ASSUME Auditable, RunInv, SaveInv,
           RefuseUneven \/ Finish \/ HaltJob \/ Crash \/ Sigterm \/ UNCHANGED vars
    PROVE  SaveInv'
<1>1. CASE RefuseUneven
    BY <1>1 DEF RefuseUneven, SaveInv
<1>2. CASE HaltJob
    BY <1>2 DEF HaltJob, SaveInv
<1>3. CASE Crash
    BY <1>3 DEF Crash, SaveInv
<1>4. CASE Finish
    <2>1. /\ pc = "top" /\ pc' = "done" /\ live.consumed >= TotalTokens
          /\ UNCHANGED <<live, lastCkpt, file, dirs>>
        BY <1>4 DEF Finish, jobvars
    <2>2. live.step \in DOMAIN dirs /\ Loadable(dirs[live.step])
        BY <2>1 DEF SaveInv
    <2>3. Loadable(dirs[live.step])'
        BY <2>1, <2>2 DEF Loadable, Has, Missing
    <2>4. QED
        BY <2>1, <2>2, <2>3 DEF SaveInv
<1>5. CASE Sigterm \/ UNCHANGED vars
    <2>1. UNCHANGED <<pc, live, lastCkpt, file, dirs>>
        BY <1>5 DEF Sigterm, vars, jobvars
    <2>2. QED
        BY <2>1 DEF SaveInv, Whole, UsedFiles, EarlierFiles, Loadable, Has, Missing
<1>6. QED
    BY <1>1, <1>2, <1>3, <1>4, <1>5

\* Every step of the system preserves the order of saves.
LEMMA NextSaveInv ==
    ASSUME Auditable, Boot.consumed < TotalTokens, RunInv, SaveInv, [Next]_vars
    PROVE  SaveInv'
<1>1. CASE Launch
    BY <1>1, LaunchKeepsSaveInv
<1>2. CASE Job
    BY <1>2, TrainingKeepsSaveInv, BeginSaveKeepsSaveInv, WriteFileKeepsSaveInv,
       EndStepKeepsSaveInv, EndingKeepsSaveInv DEF Job
<1>3. CASE Sigterm \/ Crash \/ UNCHANGED vars
    BY <1>3, EndingKeepsSaveInv
<1>4. QED
    BY <1>1, <1>2, <1>3 DEF Next

-----------------------------------------------------------------------------
(* The theorem *)

\* A job that leaves on SIGTERM has sealed a directory that rebuilds exactly
\* the state it left in, and a run that reached its token budget has a
\* directory of its last step that loads (loop.py:1103-1169).  The optimizer
\* reset loads other moments than it saved and is not covered; neither is a
\* fork of a parent that had no tokens left to train.
THEOREM DeparturesAreSaved ==
    ASSUME Auditable, ~ResetOptimizer, Boot.consumed < TotalTokens
    PROVE  Spec => []DepartureIsSaved
<1>1. Init => SaveInv
    BY DEF Init, SaveInv
<1>2. RunInv /\ SaveInv /\ [Next]_vars => SaveInv'
    BY NextSaveInv
<1>3. RunInv /\ SaveInv => DepartureIsSaved
    <2> SUFFICES ASSUME RunInv, SaveInv PROVE DepartureIsSaved
        OBVIOUS
    <2>1. ASSUME pc = "exited"
          PROVE  /\ live.step \in Sealed
                 /\ Loadable(dirs[live.step])
                 /\ Restored(dirs[live.step]) = live
        <3> DEFINE s == live.step
        <3>1. s \in DOMAIN trail /\ live = trail[s] /\ GoodState(live)
            BY <2>1 DEF RunInv, JobInv
        <3>2. s \in DOMAIN dirs /\ Whole(dirs[s])
            BY <2>1 DEF SaveInv
        <3>3. Loadable(dirs[s]) /\ Has(dirs[s], "_COMPLETE")
            BY <3>2, WholeLoads
        <3>4. /\ \A f \in Files :
                    dirs[s][f] \in {Absent, Torn,
                                    Written(Content(f, live, CanonicalDigest(s)))}
              /\ Missing(dirs[s], "sampler")
              /\ ~Missing(dirs[s], "global_stream") => ~Missing(dirs[s], "spike_protocol")
              /\ ~Missing(dirs[s], "meta") /\ HashEvery > 0
                    => ~Missing(dirs[s], "batch_hasher")
            BY <3>1, <3>2 DEF RunInv, DirsInv
        <3>5. Restored(dirs[s]) = live
            BY <3>1, <3>3, <3>4, RestoreExact
        <3>6. QED
            BY <3>2, <3>3, <3>5 DEF Sealed
    <2>2. ASSUME pc = "done"
          PROVE  live.step \in DOMAIN dirs /\ Loadable(dirs[live.step])
        BY <2>2 DEF SaveInv
    <2>3. QED
        BY <2>1, <2>2 DEF DepartureIsSaved
<1>4. QED
    BY <1>1, <1>2, <1>3, InvariantHolds, PTL DEF Spec

-----------------------------------------------------------------------------
(* A converted checkpoint is a resume point *)

\* The RNG states are written behind every file of the sidecar.
LEMMA RngIsLast ==
    ASSUME NEW n \in 0 .. Len(UnpackOrder)
    PROVE  /\ Done("rng", n) => \A f \in Files \ {"_COMPLETE"} : Done(f, n)
           /\ n = 8 => UnpackOrder[n] = "rng"
           /\ Done("rng", n) => n \in {8, 9}
<1>1. Len(UnpackOrder) = 9
    BY DEF UnpackOrder
<1>2. /\ UnpackOrder[1] = "dcp" /\ UnpackOrder[2] = "batch_hasher"
      /\ UnpackOrder[3] = "global_stream" /\ UnpackOrder[4] = "meta"
      /\ UnpackOrder[5] = "sampler" /\ UnpackOrder[6] = "spike_protocol"
      /\ UnpackOrder[7] = "state_hash" /\ UnpackOrder[8] = "rng"
      /\ UnpackOrder[9] = "_COMPLETE"
    BY DEF UnpackOrder
<1>3. ASSUME NEW i \in 1 .. n, UnpackOrder[i] = "rng"
      PROVE  i = 8
    <2>1. i \in {1, 2, 3, 4, 5, 6, 7, 8, 9}
        BY <1>1
    <2>2. QED
        BY <1>2, <1>3, <2>1
<1>4. Done("rng", n) => n \in {8, 9}
    BY <1>1, <1>3 DEF Done
<1>5. ASSUME n \in {8, 9}, NEW f \in Files \ {"_COMPLETE"}
      PROVE  Done(f, n)
    <2>1. {1, 2, 3, 4, 5, 6, 7, 8} \subseteq 1 .. n
        BY <1>5
    <2>2. QED
        BY <1>2, <2>1 DEF Done, Files
<1>6. QED
    BY <1>2, <1>4, <1>5

\* What a conversion writes under a name is what the directory held there.
LEMMA EntryIsOriginal ==
    ASSUME NEW d, DOMAIN d = Files, Packable(d), NEW st, NEW dg,
           \A f \in Files : d[f] \in {Absent, Torn, Written(Content(f, st, dg))},
           Has(d, "rng") \/ Missing(d, "rng"),
           NEW f \in Files, Carried(d) # {}
    PROVE  Entry(Packed(d, {}), f) =
               IF f = "_COMPLETE" THEN Written(<< >>) ELSE d[f]
<1> DEFINE p == Packed(d, {})
<1>1. /\ p.sidecar = [g \in Carried(d) |-> d[g]]
      /\ p.payload.model = d["dcp"].data.weights
      /\ p.payload.optim = d["dcp"].data.moments
      /\ p.skeleton.lr = d["dcp"].data.lr
    BY DEF Packed, TopLevel
<1>2. DOMAIN p.sidecar = Carried(d) /\ \A g \in Carried(d) : p.sidecar[g] = d[g]
    BY <1>1
<1>3. "dcp" \notin Carried(d) /\ "_COMPLETE" \notin Carried(d)
    BY DEF Carried, SidecarFiles
<1>4. CASE f = "dcp"
    <2>1. Entry(p, f) = Written([weights |-> p.payload.model,
                                 moments |-> p.payload.optim,
                                 lr |-> p.skeleton.lr])
        BY <1>2, <1>3, <1>4 DEF Entry
    <2>2. "dcp" \in Files /\ Has(d, "dcp")
        BY DEF Files, Packable
    <2>3. d["dcp"] = Written(Content("dcp", st, dg))
        BY <2>2 DEF Has, Absent, Torn
    <2>4. Content("dcp", st, dg) = [weights |-> st.weights, moments |-> st.moments,
                                    lr |-> st.lr]
        BY DEF Content
    <2>5. d["dcp"].data = [weights |-> st.weights, moments |-> st.moments,
                           lr |-> st.lr]
        BY <2>3, <2>4 DEF Written
    <2>6. QED
        BY <1>1, <1>4, <2>1, <2>3, <2>4, <2>5
<1>5. CASE f = "_COMPLETE"
    BY <1>2, <1>3, <1>5 DEF Entry
<1>6. CASE f \notin {"dcp", "_COMPLETE"}
    <2>1. f \in SidecarFiles \cup {"rng"}
        BY <1>6 DEF Files, SidecarFiles
    <2>2. CASE f \in Carried(d)
        BY <1>2, <1>6, <2>2 DEF Entry
    <2>3. CASE f \notin Carried(d)
        <3>1. Missing(d, f)
            BY <2>1, <2>3 DEF Carried
        <3>2. d[f] = Absent
            BY <3>1 DEF Missing, Torn, Written
        <3>3. Entry(p, f) = Absent
            BY <1>2, <1>6, <2>3 DEF Entry
        <3>4. QED
            BY <1>6, <3>2, <3>3
    <2>4. QED
        BY <2>2, <2>3
<1>7. QED
    BY <1>4, <1>5, <1>6

\* A directory that load() may accept is whole but for its marker: a kill
\* before the RNG states are written leaves one it refuses.
LEMMA LoadableOutcome ==
    ASSUME NEW d, DOMAIN d = Files, Packable(d), NEW st, NEW dg,
           \A f \in Files : d[f] \in {Absent, Torn, Written(Content(f, st, dg))},
           NEW c \in Outcomes(d), Loadable(c)
    PROVE  \A f \in Files \ {"_COMPLETE"} : c[f] = d[f]
<1> DEFINE p == Packed(d, {})
<1>1. "rng" \in Files /\ c["rng"].status = "written"
    BY DEF Files, Loadable, Has
<1>2. PICK n \in 0 .. Len(UnpackOrder) :
          c = Unpacked(p, n) \/ (n > 0 /\ n < Len(UnpackOrder) /\ c = UnpackedTorn(p, n))
    <2>1. CASE c \in {Unpacked(p, k) : k \in 0 .. Len(UnpackOrder)}
        BY <2>1
    <2>2. CASE c \in {UnpackedTorn(p, k) : k \in 1 .. Len(UnpackOrder) - 1}
        <3>1. PICK k \in 1 .. Len(UnpackOrder) - 1 : c = UnpackedTorn(p, k)
            BY <2>2
        <3>2. Len(UnpackOrder) = 9
            BY DEF UnpackOrder
        <3>3. k \in 0 .. Len(UnpackOrder) /\ k > 0 /\ k < Len(UnpackOrder)
            BY <3>2
        <3>4. QED
            BY <3>1, <3>3
    <2>3. QED
        BY <2>1, <2>2 DEF Outcomes
<1>3. \A f \in Files : Unpacked(p, n)[f] = IF Done(f, n) THEN Entry(p, f) ELSE Absent
    BY DEF Unpacked
<1>4. c["rng"] \in {Unpacked(p, n)["rng"], Torn}
    BY <1>1, <1>2 DEF UnpackedTorn, Unpacked
<1>5. Unpacked(p, n)["rng"] = c["rng"]
    BY <1>1, <1>4 DEF Torn
<1>6. Done("rng", n) /\ Entry(p, "rng") = c["rng"]
    BY <1>1, <1>3, <1>5 DEF Absent
<1>7. n \in {8, 9} /\ \A f \in Files \ {"_COMPLETE"} : Done(f, n)
    BY <1>6, RngIsLast
<1>8. c = Unpacked(p, n)
    <2>1. SUFFICES ASSUME n < Len(UnpackOrder), c = UnpackedTorn(p, n)
                   PROVE  FALSE
        BY <1>2
    <2>2. n = 8
        <3>1. Len(UnpackOrder) = 9
            BY DEF UnpackOrder
        <3>2. QED
            BY <1>7, <2>1, <3>1
    <2>3. UnpackOrder[n] = "rng"
        BY <2>2, RngIsLast
    <2>4. c["rng"] = Torn
        BY <1>1, <2>1, <2>3 DEF UnpackedTorn, Unpacked
    <2>5. QED
        BY <1>1, <2>4 DEF Torn
<1>9. Has(d, "rng") \/ Missing(d, "rng")
    BY <1>1 DEF Packable, Has, Missing, Absent, Torn, Written
<1>10. Carried(d) # {}
    <2>1. DOMAIN p.sidecar = Carried(d)
        BY DEF Packed
    <2>2. QED
        BY <1>1, <1>6, <2>1 DEF Entry, Absent
<1>11. QED
    BY <1>3, <1>7, <1>8, <1>9, <1>10, EntryIsOriginal

\* A directory that loads is carried whole, so its conversion loads as well.
LEMMA ConvertedLoads ==
    ASSUME NEW d, DOMAIN d = Files, Loadable(d), NEW st, NEW dg,
           \A f \in Files : d[f] \in {Absent, Torn, Written(Content(f, st, dg))}
    PROVE  Packable(d) => Loadable(Converted(d))
<1> SUFFICES ASSUME Packable(d)
             PROVE  Loadable(Converted(d))
    OBVIOUS
<1> DEFINE p == Packed(d, {})
           c == Converted(d)
<1>1. Has(d, "rng") /\ "rng" \in Carried(d)
    BY DEF Loadable, Carried, Has, Missing
<1>2. Len(UnpackOrder) = 9 /\ UnpackOrder[8] = "rng"
    BY DEF UnpackOrder
<1>3. Done("rng", 9)
    BY <1>2 DEF Done
<1>4. \A f \in Files \ {"_COMPLETE"} : Done(f, 9)
    BY <1>2, <1>3, RngIsLast
<1>5. \A f \in Files \ {"_COMPLETE"} : c[f] = Entry(p, f)
    BY <1>2, <1>4 DEF Converted, Unpacked
<1>6. \A f \in Files \ {"_COMPLETE"} : c[f] = d[f]
    BY <1>1, <1>5, EntryIsOriginal
<1>7. {"dcp", "rng", "meta", "batch_hasher", "spike_protocol", "global_stream",
       "sampler"} \subseteq Files \ {"_COMPLETE"}
    BY DEF Files
<1>8. QED
    BY <1>6, <1>7 DEF Loadable, Has, Missing

\* Packed with --keys there is no sidecar, and nothing but tensors comes back.
LEMMA FilteredDoesNotLoad ==
    ASSUME NEW d, NEW keys, keys # {}, NEW n
    PROVE  ~Loadable(Unpacked(Packed(d, keys), n))
<1>1. DOMAIN Packed(d, keys).sidecar = {}
    BY DEF Packed, NoSidecar
<1>2. "meta" \in Files
    BY DEF Files
<1>3. Unpacked(Packed(d, keys), n)["meta"] = Absent
    BY <1>1, <1>2 DEF Unpacked, Entry
<1>4. QED
    BY <1>3 DEF Loadable, Has, Absent

\* Whatever the run, its crashes and its relaunches have left on disk, a
\* conversion of it that load() accepts, finished or killed, is the state of
\* the uninterrupted run at that step, and nothing that loads is lost by it.
THEOREM ConversionsResumeExactly ==
    ASSUME Auditable, ~ResetOptimizer
    PROVE  Spec => []ConversionResumesExactly
<1>1. RunInv => ConversionResumesExactly
    <2> SUFFICES ASSUME RunInv, NEW s \in DOMAIN dirs, Packable(dirs[s])
                 PROVE  /\ \A c \in Outcomes(dirs[s]) :
                              Loadable(c) => Restored(c) = trail[s]
                        /\ Loadable(dirs[s]) => Loadable(Converted(dirs[s]))
                        /\ \A keys \in (SUBSET TopLevel) \ {{}} :
                              ~Loadable(Unpacked(Packed(dirs[s], keys),
                                                 Len(UnpackOrder)))
        BY DEF ConversionResumesExactly
    <2> DEFINE d == dirs[s]
               st == trail[s]
               dg == CanonicalDigest(s)
    <2>1. /\ s \in DOMAIN trail /\ DOMAIN d = Files
          /\ \A f \in Files : d[f] \in {Absent, Torn, Written(Content(f, st, dg))}
          /\ Missing(d, "sampler")
          /\ ~Missing(d, "global_stream") => ~Missing(d, "spike_protocol")
          /\ ~Missing(d, "meta") /\ HashEvery > 0 => ~Missing(d, "batch_hasher")
        BY DEF RunInv, DirsInv
    <2>2. GoodState(st)
        BY <2>1 DEF RunInv, TrailInv
    <2>3. ASSUME NEW c \in Outcomes(d), Loadable(c)
          PROVE  Restored(c) = st
        <3>1. \A f \in Files \ {"_COMPLETE"} : c[f] = d[f]
            BY <2>1, <2>3, LoadableOutcome
        <3>2. Restored(c) = Restored(d) /\ (Loadable(c) <=> Loadable(d))
            <4>1. {"dcp", "rng", "meta", "batch_hasher", "spike_protocol",
                   "global_stream", "sampler"} \subseteq Files \ {"_COMPLETE"}
                BY DEF Files
            <4>2. QED
                BY <3>1, <4>1 DEF Restored, LoadedMoments, LoadedRng, LoadedChain,
                    LoadedHasher, LoadedSpike, LoadedPos, Loadable, Has, Missing
        <3>3. Restored(d) = st
            BY <2>1, <2>2, <2>3, <3>2, RestoreExact
        <3>4. QED
            BY <3>2, <3>3
    <2>4. Loadable(d) => Loadable(Converted(d))
        BY <2>1, ConvertedLoads
    <2>5. ASSUME NEW keys \in (SUBSET TopLevel) \ {{}}
          PROVE  ~Loadable(Unpacked(Packed(d, keys), Len(UnpackOrder)))
        <3>1. keys # {}
            OBVIOUS
        <3>2. QED
            BY <3>1, FilteredDoesNotLoad
    <2>6. QED
        BY <2>3, <2>4, <2>5
<1>2. QED
    BY <1>1, InvariantHolds, PTL
=============================================================================
