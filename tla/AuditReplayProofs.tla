-------------------------- MODULE AuditReplayProofs --------------------------
(***************************************************************************)
(* Proofs about AuditReplay, for every run, schedule, loss surface, world  *)
(* size, spill choice and number of audits, kills and lost bytes.  Spilled *)
(* tensors are taken to be verified when they are loaded, as               *)
(* PRETRAIN_AUDIT_SPILL_VERIFY is by default.                              *)
(***************************************************************************)
EXTENDS AuditReplayMC, TrainStepProofs

-----------------------------------------------------------------------------
(* The run under audit *)

\* What a step of the run is a function of: none of it depends on the
\* learning rate or the optimizer, so a fork retraces its parent's.
SameCourse(a, b) ==
    /\ a.step = b.step /\ a.consumed = b.consumed /\ a.pos = b.pos
    /\ a.rng = b.rng /\ a.spike = b.spike /\ a.data = b.data

\* One segment, against the first one.
GoodSegment(seg, course, tip) ==
    /\ seg = [kind |-> seg.kind, first |-> seg.first, tip |-> seg.tip,
              trail |-> seg.trail]
    /\ seg.first \in Nat /\ seg.tip \in Nat /\ seg.first <= seg.tip /\ seg.tip <= tip
    /\ seg.trail = [s \in seg.first .. seg.tip |-> seg.trail[s]]
    /\ \A s \in seg.first .. seg.tip :
          /\ GoodBoundary(seg.trail[s], s)
          /\ SameCourse(seg.trail[s], course[s])
          /\ seg.trail[s].anchor = seg.trail[seg.first].anchor
    /\ \A s \in (seg.first + 1) .. seg.tip :
          /\ Trains(seg.trail[s - 1])
          /\ seg.trail[s] = After(seg.trail[s - 1], GradClass(seg.trail[s - 1]))

Course == segments[1].trail
Tip == segments[1].tip

GoodRun(segs) ==
    /\ Len(segs) \in Nat \ {0}
    /\ segs = [g \in 1 .. Len(segs) |-> segs[g]]
    /\ segs[1].first = 0 /\ segs[1].kind = "init"
    /\ segs[1].trail[0] = FreshState
    /\ \A g \in 1 .. Len(segs) : GoodSegment(segs[g], segs[1].trail, segs[1].tip)
    /\ Len(segs) > 1 => ~Trains(segs[1].trail[segs[1].tip])
    /\ \A s, t \in 0 .. segs[1].tip :
          s < t => Len(segs[1].trail[s].data) < Len(segs[1].trail[t].data)
ClusterInv == GoodRun(segments)

-----------------------------------------------------------------------------
(* The audit *)

Active == {"top", "ranks", "gate", "hash", "counters", "done", "judged", "staged"}

\* The position, clock, spike record and batch chains of a replay that stands
\* before step s + 1 are the run's; past the run's end the chains are longer.
OnCourse(s, consumed, pos, rng, spike, perRank) ==
    IF s <= Tip
    THEN /\ consumed = Course[s].consumed /\ pos = Course[s].pos
         /\ rng = Course[s].rng /\ spike = Course[s].spike
         /\ perRank = [r \in Ranks |-> RankShare(Course[s].data, r)]
    ELSE Len(perRank[0]) > Len(Course[Tip].data)

\* The keys of meta.json that belong to a segment.
DescribedBy(g, anchor, reset) ==
    /\ g \in 1 .. Len(segments)
    /\ anchor = segments[g].trail[segments[g].first].anchor
    /\ reset = (segments[g].kind = "reset")

\* A digest of these tensors, these chains and these gradients, whatever it
\* is chained to, at a step whose running chain is this one.
DigestOf(d, weights, moments, lr, g, perRank) ==
    d = [link |-> "digest", prev |-> d.prev, weights |-> weights,
         moments |-> moments, lr |-> lr, grads |-> g, data |-> RoundsOf(perRank)]
ChainsTo(d, chain, s) == chain = IF HashDue(s) THEN d ELSE d.prev

GoodFiles(files, s, g) ==
    /\ files = [state |-> files.state, reset |-> files.reset, hashers |-> files.hashers,
                stamp |-> files.stamp, grads |-> files.grads]
    /\ IsState(files.state) /\ files.state.step = s /\ s \in Nat
    /\ files.state.consumed \in Nat /\ files.state.pos \in Nat
    /\ files.state.data = << >>
    /\ files.hashers \in [Ranks -> Seq(Nat)]
    /\ OnCourse(s, files.state.consumed, files.state.pos, files.state.rng,
                files.state.spike, files.hashers)
    /\ DescribedBy(g, files.state.anchor, files.reset)
    /\ DigestOf(files.stamp, files.state.weights, files.state.moments,
                files.state.lr, files.grads, files.hashers)
    /\ ChainsTo(files.stamp, files.state.chain, s)

HandoffsInv ==
    \A s \in DOMAIN handoffs : GoodFiles(handoffs[s].files, s, handoffs[s].segment)

\* Audits start when the run is over: it no longer moves.
LeftInv ==
    /\ left \in [audits : 0 .. MaxAudits, faults : 0 .. MaxFaults]
    /\ left.audits = MaxAudits => phase = "idle" /\ DOMAIN handoffs = {}

TypeInv ==
    phase \in Active =>
    /\ IsState(live) /\ live.step \in Nat /\ live.consumed \in Nat
    /\ views \in [Ranks -> [pos : Nat, clock : Nat]]
    /\ hashers \in [Ranks -> Seq(Nat)]
    /\ rank \in 0 .. World

ArgsInv ==
    phase \in Active =>
    /\ args = [origin |-> args.origin, segment |-> args.segment, step |-> args.step,
               desc |-> args.desc, until |-> args.until, spills |-> args.spills,
               reset |-> args.reset, expect |-> args.expect]
    /\ args.step \in Nat /\ args.until \in Nat
    /\ args.step <= live.step /\ args.step < args.until
    /\ DescribedBy(Audited, live.anchor, args.reset)

\* Every file has the sidecar of the value it was written with; the moments
\* have theirs from the start of the audit until they are taken back.
GoodStore(files) ==
    \A f \in DOMAIN files :
        \E v \in files[f].sidecar :
            files[f] = [payload |-> files[f].payload, sidecar |-> {v}]
StoreInv ==
    phase \in Active =>
    /\ GoodStore(store)
    /\ Len(stack) \in Nat /\ stack = [i \in 1 .. Len(stack) |-> stack[i]]
    /\ \A i \in 1 .. Len(stack) : stack[i].file # Moments
    /\ Spills("moments") /\ phase \notin {"judged", "staged"} => Moments \in DOMAIN store

Replaying == {"ranks", "gate", "hash", "counters"}
StepInv ==
    phase \in Replaying => ~Uneven(live.consumed) /\ live.step < args.until

\* The boundary the replayed step starts from, and a rank before and after
\* its share of that step.
Here == Course[live.step]
Waiting(r) ==
    /\ views[r] = [pos |-> Here.pos, clock |-> Here.consumed]
    /\ hashers[r] = RankShare(Here.data, r)
Moved(r) ==
    /\ views[r] = [pos |-> Here.pos + Rounds(Here.consumed) * World,
                   clock |-> Here.consumed + Rounds(Here.consumed) * World * MicroTokens]
    /\ hashers[r] = RankShare(Here.data \o StepBatches(Here.pos, Here.consumed), r)
Stands(r) ==
    IF phase = "top" \/ (phase = "ranks" /\ r >= rank) THEN Waiting(r)
    ELSE IF phase \in Replaying THEN Moved(r)
    ELSE views[r].pos = Here.pos /\ hashers[r] = RankShare(Here.data, r)

CourseInv ==
    phase \in Active /\ live.step <= Tip =>
    /\ live.consumed = Here.consumed
    /\ phase \notin {"hash", "counters"} =>
          live.spike = Here.spike /\ live.rng = Here.rng
    /\ phase \in {"hash", "counters"} =>
          /\ live.spike = AfterGate(Here.spike, GradClass(Here), live.step)
          /\ live.rng = Here.rng + 1
          /\ halted = RaisesHalt(Here.spike, GradClass(Here), live.step)
    /\ \A r \in Ranks : Stands(r)

\* A replay that went on past the run's end took more than the run did.
BeyondInv ==
    phase \in Active /\ live.step > Tip => Len(hashers[0]) > Len(Course[Tip].data)

\* What the target digest was taken of: the state and chains the audit stands
\* at, the moments it will take back from disk, the gradients it holds.
AtStep == IF phase = "counters" THEN live.step + 1 ELSE live.step
Resident ==
    IF phase \in {"counters", "done"} /\ Spills("moments") THEN target.moments
                                                          ELSE live.moments
Held == IF phase = "staged" THEN staged.grads ELSE held
TargetInv ==
    phase \in Active =>
    /\ phase \in {"top", "ranks", "gate", "hash"} => target = NoDigest
    /\ phase = "counters" /\ Reached(live.step + 1) => target # NoDigest
    /\ phase \in {"done", "judged"} /\ target = NoDigest => halted
    /\ phase = "staged" => target # NoDigest
    /\ target # NoDigest =>
          /\ DigestOf(target, live.weights, Resident, live.lr, Held, hashers)
          /\ ChainsTo(target, live.chain, AtStep)
          /\ AtStep = args.until
          /\ phase \in {"counters", "done"} /\ Spills("moments") =>
                store[Moments].sidecar = {target.moments}

StagedInv ==
    phase = "staged" =>
        IF "stamp" \in DOMAIN staged THEN GoodFiles(staged, live.step, Audited)
        ELSE staged = [grads |-> staged.grads]

VerdictInv ==
    phase = "judged" /\ verdict = "match" /\ target # NoDigest =>
        args.expect = target /\ target \in Published

AuditInv ==
    /\ TypeInv /\ ArgsInv /\ StoreInv /\ StepInv /\ CourseInv /\ BeyondInv
    /\ TargetInv /\ StagedInv /\ VerdictInv
Inv == ClusterInv /\ HandoffsInv /\ LeftInv /\ AuditInv

-----------------------------------------------------------------------------
LEMMA HashesOn == HashEvery > 0
BY AuditReplayAssumption

\* Two states on the same course train or end alike and stay on it.
LEMMA CourseStep ==
    ASSUME NEW a, NEW b, NEW s \in Nat, GoodBoundary(a, s), GoodBoundary(b, s),
           SameCourse(a, b)
    PROVE  /\ Trains(a) = Trains(b)
           /\ GradClass(a) = GradClass(b)
           /\ SameCourse(After(a, GradClass(a)), After(b, GradClass(b)))
<1>1. GradClass(a) = GradClass(b)
    BY DEF SameCourse, GradClass
<1>2. Trains(a) = Trains(b)
    BY <1>1 DEF SameCourse, Trains
<1>3. SameCourse(After(a, GradClass(a)), After(b, GradClass(a)))
    <2> DEFINE class == GradClass(a)
    <2>1. /\ After(a, class).step = s + 1
          /\ After(a, class).consumed = a.consumed + Tokens(a.consumed)
          /\ After(a, class).pos = a.pos + Span(a.consumed)
          /\ After(a, class).rng = a.rng + 1
          /\ After(a, class).spike = AfterGate(a.spike, class, s)
          /\ After(a, class).data = a.data \o StepBatches(a.pos, a.consumed)
        BY AfterCourse, HashesOn
    <2>2. /\ After(b, class).step = s + 1
          /\ After(b, class).consumed = b.consumed + Tokens(b.consumed)
          /\ After(b, class).pos = b.pos + Span(b.consumed)
          /\ After(b, class).rng = b.rng + 1
          /\ After(b, class).spike = AfterGate(b.spike, class, s)
          /\ After(b, class).data = b.data \o StepBatches(b.pos, b.consumed)
        BY AfterCourse, HashesOn
    <2> HIDE DEF class
    <2>3. SameCourse(After(a, class), After(b, class))
        BY <2>1, <2>2 DEF SameCourse
    <2> QED BY <2>3 DEF class
<1> QED BY <1>1, <1>2, <1>3

-----------------------------------------------------------------------------
(* The run keeps its segments on one course *)

LEMMA SegmentOnLongerCourse ==
    ASSUME NEW seg, NEW c, NEW t \in Nat, GoodSegment(seg, c, t),
           NEW c2, NEW t2 \in Nat, t <= t2, \A s \in 0 .. t : c2[s] = c[s]
    PROVE  GoodSegment(seg, c2, t2)
<1>1. seg.tip \in Nat /\ seg.first \in Nat /\ seg.tip <= t
    BY DEF GoodSegment
<1>2. \A s \in seg.first .. seg.tip : s \in 0 .. t
    BY <1>1
<1>3. \A s \in seg.first .. seg.tip : SameCourse(seg.trail[s], c2[s])
    BY <1>2 DEF GoodSegment
<1>4. seg.tip <= t2
    BY <1>1
<1> QED BY <1>3, <1>4 DEF GoodSegment

LEMMA SegmentGrows ==
    ASSUME NEW seg, NEW c, NEW t \in Nat, GoodSegment(seg, c, t), seg.tip + 1 <= t,
           Trains(seg.trail[seg.tip]),
           NEW x, x = After(seg.trail[seg.tip], GradClass(seg.trail[seg.tip])),
           SameCourse(x, c[seg.tip + 1]),
           NEW new, new = [kind |-> seg.kind, first |-> seg.first, tip |-> seg.tip + 1,
                           trail |-> [s \in seg.first .. seg.tip + 1 |->
                                         IF s <= seg.tip THEN seg.trail[s] ELSE x]]
    PROVE  GoodSegment(new, c, t)
<1> DEFINE st == seg.trail[seg.tip]
<1>1. /\ seg.first \in Nat /\ seg.tip \in Nat /\ seg.first <= seg.tip
      /\ \A s \in seg.first .. seg.tip :
            /\ GoodBoundary(seg.trail[s], s) /\ SameCourse(seg.trail[s], c[s])
            /\ seg.trail[s].anchor = seg.trail[seg.first].anchor
      /\ \A s \in (seg.first + 1) .. seg.tip :
            /\ Trains(seg.trail[s - 1])
            /\ seg.trail[s] = After(seg.trail[s - 1], GradClass(seg.trail[s - 1]))
    BY DEF GoodSegment
<1>2. GoodBoundary(st, seg.tip) /\ seg.tip \in seg.first .. seg.tip
    BY <1>1
<1>3. GoodBoundary(x, seg.tip + 1)
    BY <1>1, <1>2, AfterGood, HashesOn DEF Trains
<1>4. x.anchor = st.anchor
    BY <1>1, <1>2, AfterCourse, HashesOn
<1>5. /\ new.kind = seg.kind /\ new.first = seg.first /\ new.tip = seg.tip + 1
      /\ new.trail = [s \in seg.first .. seg.tip + 1 |->
                         IF s <= seg.tip THEN seg.trail[s] ELSE x]
    OBVIOUS
<1> HIDE DEF st
<1>6. /\ \A s \in seg.first .. seg.tip : new.trail[s] = seg.trail[s]
      /\ new.trail[seg.tip + 1] = x
    BY <1>1, <1>5
<1>7. \A s \in seg.first .. seg.tip + 1 : s \in seg.first .. seg.tip \/ s = seg.tip + 1
    BY <1>1
<1>8. new.trail[new.first] = seg.trail[seg.first]
    BY <1>1, <1>5, <1>6
<1>9. \A s \in new.first .. new.tip :
         /\ GoodBoundary(new.trail[s], s) /\ SameCourse(new.trail[s], c[s])
         /\ new.trail[s].anchor = new.trail[new.first].anchor
    <2> SUFFICES ASSUME NEW s \in new.first .. new.tip
                 PROVE  /\ GoodBoundary(new.trail[s], s) /\ SameCourse(new.trail[s], c[s])
                        /\ new.trail[s].anchor = new.trail[new.first].anchor
        OBVIOUS
    <2>1. s \in seg.first .. seg.tip \/ s = seg.tip + 1
        BY <1>5, <1>7
    <2>2. CASE s \in seg.first .. seg.tip
        BY <1>1, <1>6, <1>8, <2>2
    <2>3. CASE s = seg.tip + 1
        BY <1>1, <1>2, <1>3, <1>4, <1>6, <1>8, <2>3 DEF st
    <2> QED BY <2>1, <2>2, <2>3
<1>10. \A s \in (new.first + 1) .. new.tip :
          /\ Trains(new.trail[s - 1])
          /\ new.trail[s] = After(new.trail[s - 1], GradClass(new.trail[s - 1]))
    <2> SUFFICES ASSUME NEW s \in (new.first + 1) .. new.tip
                 PROVE  /\ Trains(new.trail[s - 1])
                        /\ new.trail[s] = After(new.trail[s - 1],
                                                GradClass(new.trail[s - 1]))
        OBVIOUS
    <2>1. CASE s = seg.tip + 1
        <3>1. s - 1 = seg.tip /\ new.trail[s - 1] = seg.trail[seg.tip]
            BY <1>1, <1>2, <1>6, <2>1
        <3> QED BY <1>6, <2>1, <3>1
    <2>2. CASE s # seg.tip + 1
        <3>1. s \in (seg.first + 1) .. seg.tip /\ s - 1 \in seg.first .. seg.tip
              /\ s \in seg.first .. seg.tip
            BY <1>1, <1>5, <2>2
        <3>2. new.trail[s - 1] = seg.trail[s - 1] /\ new.trail[s] = seg.trail[s]
            BY <1>6, <3>1
        <3> QED BY <1>1, <3>1, <3>2
    <2> QED BY <2>1, <2>2
<1>11. new = [kind |-> new.kind, first |-> new.first, tip |-> new.tip,
              trail |-> new.trail]
       /\ new.trail = [s \in new.first .. new.tip |-> new.trail[s]]
       /\ new.first \in Nat /\ new.tip \in Nat /\ new.first <= new.tip /\ new.tip <= t
    BY <1>1, <1>5
<1> QED BY <1>9, <1>10, <1>11 DEF GoodSegment

LEMMA BootSegment ==
    ASSUME NEW st, NEW s \in Nat, GoodBoundary(st, s), NEW kind, NEW c,
           SameCourse(st, c[s]), NEW t \in Nat, s <= t
    PROVE  /\ GoodSegment(Segment(kind, st), c, t)
           /\ Segment(kind, st).first = s /\ Segment(kind, st).tip = s
           /\ Segment(kind, st).kind = kind /\ Segment(kind, st).trail[s] = st
<1> DEFINE seg == Segment(kind, st)
<1>1. seg = [kind |-> kind, first |-> s, tip |-> s, trail |-> [x \in {s} |-> st]]
    BY DEF Segment, GoodBoundary
<1>2. s .. s = {s} /\ (s + 1) .. s = {}
    OBVIOUS
<1> HIDE DEF seg
<1>3. /\ seg.kind = kind /\ seg.first = s /\ seg.tip = s
      /\ seg.trail = [x \in {s} |-> st] /\ seg.trail[s] = st
    BY <1>1
<1>4. seg = [kind |-> seg.kind, first |-> seg.first, tip |-> seg.tip, trail |-> seg.trail]
      /\ seg.trail = [x \in seg.first .. seg.tip |-> seg.trail[x]]
    BY <1>1, <1>2, <1>3
<1>5. GoodSegment(seg, c, t)
    BY <1>2, <1>3, <1>4 DEF GoodSegment
<1> QED BY <1>3, <1>5 DEF seg

LEMMA FreshBoundary == GoodBoundary(FreshState, 0)
<1>1. FreshState = [step |-> 0, consumed |-> 0, weights |-> << >>, moments |-> << >>,
         lr |-> LR(0, NoAnchor), rng |-> 0, pos |-> 0, data |-> << >>,
         chain |-> NoLink, spike |-> SpikeInit, anchor |-> NoAnchor]
    BY DEF FreshState
<1> QED BY <1>1 DEF GoodBoundary, IsState

LEMMA ClusterInitInv == ClusterInit => ClusterInv
<1> SUFFICES ASSUME ClusterInit PROVE GoodRun(segments)
    BY DEF ClusterInv
<1> DEFINE seg == Segment("init", FreshState)
           c == [x \in {0} |-> FreshState]
<1>1. SameCourse(FreshState, FreshState)
    BY DEF SameCourse
<1>2. seg.trail = c
    BY DEF Segment, FreshState
<1>3. c[0] = FreshState
    OBVIOUS
<1> HIDE DEF c
<1>4. /\ GoodSegment(seg, c, 0) /\ seg.first = 0 /\ seg.tip = 0 /\ seg.kind = "init"
      /\ seg.trail[0] = FreshState
    BY <1>1, <1>3, FreshBoundary, BootSegment
<1> HIDE DEF seg
<1>5. segments = <<seg>>
    BY DEF ClusterInit, seg
<1>6. Len(segments) = 1 /\ segments[1] = seg /\ segments = [g \in 1 .. 1 |-> segments[g]]
    BY <1>5
<1>7. \A s, t \in 0 .. 0 : ~(s < t)
    OBVIOUS
<1> QED BY <1>2, <1>4, <1>6, <1>7 DEF GoodRun

\* What is known of a hand-off's files reads the segments alone.
LEMMA FilesKept ==
    ASSUME segments' = segments
    PROVE  \A files, s, g : GoodFiles(files, s, g)' <=> GoodFiles(files, s, g)
<1>1. Course' = Course /\ Tip' = Tip
    BY DEF Course, Tip
<1>2. \A s, consumed, pos, rng, spike, perRank :
         OnCourse(s, consumed, pos, rng, spike, perRank)'
            <=> OnCourse(s, consumed, pos, rng, spike, perRank)
    BY <1>1 DEF OnCourse
<1>3. \A g, anchor, reset : DescribedBy(g, anchor, reset)' <=> DescribedBy(g, anchor, reset)
    BY DEF DescribedBy
<1> QED BY <1>2, <1>3 DEF GoodFiles

\* The surface is all of the run's state that a course is measured by.
LEMMA CourseKept ==
    ASSUME surface' = surface
    PROVE  /\ \A st : GradClass(st)' = GradClass(st)
           /\ \A st : Trains(st)' <=> Trains(st)
<1>1. \A st : GradClass(st)' = GradClass(st)
    BY DEF GradClass
<1>2. \A st : Trains(st)' <=> Trains(st)
    BY <1>1 DEF Trains
<1> QED BY <1>1, <1>2

LEMMA RunKept ==
    ASSUME surface' = surface, NEW segs, GoodRun(segs), segments' = segs
    PROVE  ClusterInv'
<1>1. \A seg, course, tip : GoodSegment(seg, course, tip) => GoodSegment(seg, course, tip)'
    BY CourseKept DEF GoodSegment
<1>2. GoodRun(segs)'
    BY <1>1, CourseKept DEF GoodRun
<1> QED BY <1>2 DEF ClusterInv

LEMMA RunFacts ==
    ASSUME NEW segs, GoodRun(segs), NEW g \in 1 .. Len(segs)
    PROVE  /\ GoodSegment(segs[g], segs[1].trail, segs[1].tip)
           /\ GoodSegment(segs[1], segs[1].trail, segs[1].tip)
           /\ segs[1].tip \in Nat /\ segs[g].tip \in Nat /\ segs[g].first \in Nat
           /\ segs[g].first <= segs[g].tip /\ segs[g].tip <= segs[1].tip
           /\ \A s \in segs[g].first .. segs[g].tip :
                 /\ GoodBoundary(segs[g].trail[s], s)
                 /\ GoodBoundary(segs[1].trail[s], s)
                 /\ SameCourse(segs[g].trail[s], segs[1].trail[s])
                 /\ s \in 0 .. segs[1].tip
<1>1. 1 \in 1 .. Len(segs)
    BY DEF GoodRun
<1>2. /\ GoodSegment(segs[g], segs[1].trail, segs[1].tip)
      /\ GoodSegment(segs[1], segs[1].trail, segs[1].tip) /\ segs[1].first = 0
    BY <1>1 DEF GoodRun
<1>3. /\ segs[1].tip \in Nat /\ segs[g].tip \in Nat /\ segs[g].first \in Nat
      /\ segs[g].first <= segs[g].tip /\ segs[g].tip <= segs[1].tip
    BY <1>2 DEF GoodSegment
<1>4. \A s \in segs[g].first .. segs[g].tip : s \in 0 .. segs[1].tip
    BY <1>3
<1>5. \A s \in 0 .. segs[1].tip : GoodBoundary(segs[1].trail[s], s)
    BY <1>2 DEF GoodSegment
<1>6. \A s \in segs[g].first .. segs[g].tip :
         GoodBoundary(segs[g].trail[s], s) /\ SameCourse(segs[g].trail[s], segs[1].trail[s])
    BY <1>2 DEF GoodSegment
<1> QED BY <1>2, <1>3, <1>4, <1>5, <1>6

LEMMA GrownFields ==
    ASSUME NEW seg, NEW c, NEW t, GoodSegment(seg, c, t)
    PROVE  Grown(seg) =
              [kind |-> seg.kind, first |-> seg.first, tip |-> seg.tip + 1,
               trail |-> [s \in seg.first .. seg.tip + 1 |->
                             IF s <= seg.tip THEN seg.trail[s]
                             ELSE After(seg.trail[seg.tip],
                                        GradClass(seg.trail[seg.tip]))]]
<1> DEFINE tr == [s \in seg.first .. seg.tip + 1 |->
                     IF s <= seg.tip THEN seg.trail[s]
                     ELSE After(seg.trail[seg.tip], GradClass(seg.trail[seg.tip]))]
<1>1. seg = [kind |-> seg.kind, first |-> seg.first, tip |-> seg.tip, trail |-> seg.trail]
    BY DEF GoodSegment
<1>2. Grown(seg) = [seg EXCEPT !.tip = seg.tip + 1, !.trail = tr]
    BY DEF Grown
<1> HIDE DEF tr
<1>3. Grown(seg) = [kind |-> seg.kind, first |-> seg.first, tip |-> seg.tip + 1,
                    trail |-> tr]
    BY <1>1, <1>2
<1> QED BY <1>3 DEF tr

LEMMA AdvanceKeepsRun ==
    ASSUME ClusterInv, Advance
    PROVE  ClusterInv'
<1> DEFINE n == Len(segments)
           seg == segments[n]
           c == segments[1].trail
           t == segments[1].tip
           st == seg.trail[seg.tip]
           x == After(st, GradClass(st))
           new == Grown(seg)
           segs == [segments EXCEPT ![n] = new]
<1>0. /\ seg = segments[n] /\ c = segments[1].trail /\ t = segments[1].tip
      /\ st = seg.trail[seg.tip] /\ x = After(st, GradClass(st))
    OBVIOUS
<1>1. n \in Nat \ {0} /\ n \in 1 .. n /\ 1 \in 1 .. n
    BY DEF ClusterInv, GoodRun
<1>2. /\ GoodSegment(seg, c, t) /\ GoodSegment(segments[1], c, t) /\ t \in Nat
      /\ seg.tip \in Nat /\ seg.first \in Nat /\ seg.first <= seg.tip /\ seg.tip <= t
      /\ seg.tip \in seg.first .. seg.tip
      /\ GoodBoundary(st, seg.tip) /\ GoodBoundary(c[seg.tip], seg.tip)
      /\ SameCourse(st, c[seg.tip]) /\ seg.tip \in 0 .. t
    BY <1>1, RunFacts DEF ClusterInv
<1>3. Trains(st)
    BY DEF Advance, Ended, Current
<1>4. segments' = segs /\ surface' = surface
    BY DEF Advance
<1>5. GoodBoundary(x, seg.tip + 1) /\ Len(x.data) > Len(st.data)
    BY <1>2, <1>3, AfterGood, HashesOn DEF Trains
<1>6. /\ segments = [g \in 1 .. n |-> segments[g]]
      /\ segments[1].first = 0 /\ segments[1].kind = "init"
      /\ c[0] = FreshState
      /\ \A g \in 1 .. n : GoodSegment(segments[g], c, t)
      /\ n > 1 => ~Trains(c[t])
      /\ \A i, j \in 0 .. t : i < j => Len(c[i].data) < Len(c[j].data)
    BY DEF ClusterInv, GoodRun
<1>7. new = [kind |-> seg.kind, first |-> seg.first, tip |-> seg.tip + 1,
             trail |-> [s \in seg.first .. seg.tip + 1 |->
                           IF s <= seg.tip THEN seg.trail[s] ELSE x]]
    BY <1>2, GrownFields
<1>8. segs = [segments EXCEPT ![n] = new]
    OBVIOUS
<1> HIDE DEF n, seg, c, t, st, x, new, segs
<1>9. /\ new.kind = seg.kind /\ new.first = seg.first /\ new.tip = seg.tip + 1
      /\ new.trail = [s \in seg.first .. seg.tip + 1 |->
                         IF s <= seg.tip THEN seg.trail[s] ELSE x]
    BY <1>7
<1>10. /\ segs = [g \in 1 .. n |-> segs[g]] /\ segs[n] = new
       /\ \A g \in 1 .. n : g # n => segs[g] = segments[g]
       /\ Len(segs) = n
    <2>1. segs = [g \in 1 .. n |-> IF g = n THEN new ELSE segments[g]]
        BY <1>1, <1>6, <1>8
    <2>2. Len(segs) = n
        BY <1>1, <2>1
    <2> QED BY <1>1, <2>1, <2>2
<1> SUFFICES GoodRun(segs)
    BY <1>4, RunKept
<1>11. CASE n = 1
    <2>1. seg = segments[1] /\ seg.first = 0 /\ seg.tip = t /\ seg.trail = c
        BY <1>0, <1>6, <1>11
    <2>2. segs[1] = new /\ segs[1].first = 0 /\ segs[1].kind = "init"
          /\ segs[1].tip = t + 1 /\ t + 1 \in Nat
        BY <1>2, <1>6, <1>9, <1>10, <1>11, <2>1
    <2>3. \A i \in 0 .. t : new.trail[i] = c[i]
        BY <1>2, <1>9, <2>1
    <2>4. new.trail[t + 1] = x
        BY <1>2, <1>9, <2>1
    <2>5. GoodSegment(seg, new.trail, t + 1)
        BY <1>2, <2>2, <2>3, SegmentOnLongerCourse
    <2>6. SameCourse(x, new.trail[seg.tip + 1])
        BY <2>1, <2>4 DEF SameCourse
    <2>7. GoodSegment(new, new.trail, t + 1)
        <3>1. /\ Trains(seg.trail[seg.tip])
              /\ x = After(seg.trail[seg.tip], GradClass(seg.trail[seg.tip]))
              /\ seg.tip + 1 <= t + 1
            BY <1>0, <1>2, <1>3, <2>1
        <3> QED BY <1>7, <2>2, <2>5, <2>6, <3>1, SegmentGrows
    <2>8. \A i, j \in 0 .. t + 1 :
             i < j => Len(new.trail[i].data) < Len(new.trail[j].data)
        <3> SUFFICES ASSUME NEW i \in 0 .. t + 1, NEW j \in 0 .. t + 1, i < j
                     PROVE  Len(new.trail[i].data) < Len(new.trail[j].data)
            OBVIOUS
        <3>1. i \in 0 .. t /\ new.trail[i] = c[i]
            BY <1>2, <2>3
        <3>2. CASE j = t + 1
            <4>1. new.trail[j] = x /\ Len(x.data) > Len(c[t].data)
                BY <1>0, <1>5, <2>1, <2>4, <3>2
            <4>2. i = t \/ Len(c[i].data) < Len(c[t].data)
                BY <1>2, <1>6, <3>1
            <4>3. \A k \in 0 .. t : GoodBoundary(c[k], k)
                BY <1>2, <2>1 DEF GoodSegment
            <4>4. x.data \in Seq(Nat) /\ c[t].data \in Seq(Nat) /\ c[i].data \in Seq(Nat)
                BY <1>2, <1>5, <3>1, <4>3 DEF GoodBoundary
            <4>5. Len(x.data) \in Nat /\ Len(c[t].data) \in Nat /\ Len(c[i].data) \in Nat
                BY <4>4
            <4> QED BY <3>1, <4>1, <4>2, <4>5
        <3>3. CASE j # t + 1
            <4>1. j \in 0 .. t /\ new.trail[j] = c[j]
                BY <1>2, <2>3, <3>3
            <4> QED BY <1>6, <3>1, <4>1
        <3> QED BY <3>2, <3>3
    <2>9. new.trail[0] = FreshState
        BY <1>2, <1>6, <2>3
    <2>10. \A g \in 1 .. n : segs[g] = new
        BY <1>10, <1>11
    <2> QED BY <1>10, <1>11, <2>2, <2>7, <2>8, <2>9, <2>10 DEF GoodRun
<1>12. CASE n # 1
    <2>1. n > 1 /\ segs[1] = segments[1]
        BY <1>1, <1>10, <1>12
    <2>2. GradClass(st) = GradClass(c[seg.tip])
          /\ SameCourse(x, After(c[seg.tip], GradClass(c[seg.tip])))
          /\ Trains(c[seg.tip])
        BY <1>0, <1>2, <1>3, CourseStep
    <2>3. seg.tip # t /\ seg.tip + 1 <= t /\ seg.tip + 1 \in 1 .. t
        BY <1>2, <1>6, <2>1, <2>2
    <2>4. c[seg.tip + 1] = After(c[seg.tip], GradClass(c[seg.tip]))
        <3>1. (seg.tip + 1) - 1 = seg.tip
            BY <1>2
        <3>2. \A s \in (0 + 1) .. t : c[s] = After(c[s - 1], GradClass(c[s - 1]))
            BY <1>0, <1>2, <1>6 DEF GoodSegment
        <3> QED BY <2>3, <3>1, <3>2
    <2>5. GoodSegment(new, c, t)
        <3>1. /\ Trains(seg.trail[seg.tip])
              /\ x = After(seg.trail[seg.tip], GradClass(seg.trail[seg.tip]))
            BY <1>0, <1>3
        <3>2. SameCourse(x, c[seg.tip + 1])
            BY <2>2, <2>4
        <3> QED BY <1>2, <1>7, <2>3, <3>1, <3>2, SegmentGrows
    <2>6. \A g \in 1 .. n : GoodSegment(segs[g], c, t)
        BY <1>6, <1>10, <2>5
    <2> QED BY <1>0, <1>1, <1>6, <1>10, <2>1, <2>6 DEF GoodRun
<1> QED BY <1>11, <1>12

LEMMA ForkKeepsRun ==
    ASSUME ClusterInv, ForkRun
    PROVE  ClusterInv'
<1> DEFINE n == Len(segments)
           seg == segments[n]
           c == segments[1].trail
           t == segments[1].tip
<1>1. n \in Nat \ {0} /\ n \in 1 .. n /\ 1 \in 1 .. n
    BY DEF ClusterInv, GoodRun
<1>2. /\ segments = [g \in 1 .. n |-> segments[g]]
      /\ segments[1].first = 0 /\ segments[1].kind = "init"
      /\ c[0] = FreshState
      /\ \A g \in 1 .. n : GoodSegment(segments[g], c, t)
      /\ n > 1 => ~Trains(c[t])
      /\ \A i, j \in 0 .. t : i < j => Len(c[i].data) < Len(c[j].data)
    BY DEF ClusterInv, GoodRun
<1>3. PICK kind \in ForkKinds, s \in (seg.first + 1) .. seg.tip :
         segments' = Append(segments, Segment(kind, Forked(kind, seg.trail[s])))
    BY DEF ForkRun, Current
<1>4. /\ t \in Nat /\ seg.tip \in Nat /\ seg.first \in Nat /\ seg.tip <= t
      /\ s \in seg.first .. seg.tip /\ s \in Nat /\ s <= t
    BY <1>1, RunFacts DEF ClusterInv
<1>5. GoodBoundary(seg.trail[s], s) /\ SameCourse(seg.trail[s], c[s])
    BY <1>1, <1>4, RunFacts DEF ClusterInv
<1> DEFINE boot == Forked(kind, seg.trail[s])
           new == Segment(kind, boot)
<1>6. GoodBoundary(boot, s) /\ SameCourse(boot, c[s])
    <2> DEFINE st == seg.trail[s]
    <2>1. PICK m, a : boot = [st EXCEPT !.moments = m, !.anchor = a]
        BY DEF Forked
    <2>2. IsState(st)
        BY <1>5 DEF GoodBoundary
    <2> HIDE DEF st, boot
    <2>3. boot = [step |-> st.step, consumed |-> st.consumed, weights |-> st.weights,
                  moments |-> m, lr |-> st.lr, rng |-> st.rng, pos |-> st.pos,
                  data |-> st.data, chain |-> st.chain, spike |-> st.spike,
                  anchor |-> a]
        BY <2>1, <2>2 DEF IsState
    <2> QED BY <1>5, <2>3 DEF GoodBoundary, SameCourse, IsState, st
<1> HIDE DEF boot
<1>7. GoodSegment(new, c, t)
    BY <1>4, <1>6, BootSegment
<1>8. ~Trains(c[t])
    <2>1. ~Trains(seg.trail[seg.tip])
        BY DEF ForkRun, Ended, Current
    <2> QED BY <1>1, <1>2, <2>1
<1>9. surface' = surface
    BY DEF ForkRun
<1> DEFINE segs == Append(segments, new)
<1>10. segments' = segs
    BY <1>3 DEF boot
<1> HIDE DEF new
<1>11. /\ Len(segs) = n + 1 /\ segs[n + 1] = new
       /\ segs = [g \in 1 .. n + 1 |-> IF g = n + 1 THEN new ELSE segments[g]]
       /\ \A g \in 1 .. n : segs[g] = segments[g]
    BY <1>1, <1>2, AppendFacts
<1> HIDE DEF segs
<1>12. \A g \in 1 .. n + 1 : GoodSegment(segs[g], c, t)
    BY <1>1, <1>2, <1>7, <1>11
<1>13. segs[1] = segments[1]
    BY <1>1, <1>11
<1>14. segs = [g \in 1 .. n + 1 |-> segs[g]] /\ n + 1 \in Nat \ {0}
    BY <1>1, <1>11
<1>15. GoodRun(segs)
    <2>1. /\ Len(segs) = n + 1 /\ n + 1 \in Nat \ {0} /\ segs[1] = segments[1]
          /\ segs = [g \in 1 .. n + 1 |-> segs[g]]
        BY <1>11, <1>13, <1>14
    <2>2. /\ segments[1].first = 0 /\ segments[1].kind = "init"
          /\ segments[1].trail = c /\ segments[1].tip = t /\ c[0] = FreshState
          /\ \A i, j \in 0 .. t : i < j => Len(c[i].data) < Len(c[j].data)
        BY <1>2
    <2> QED BY <1>8, <1>12, <2>1, <2>2 DEF GoodRun
<1> QED BY <1>9, <1>10, <1>15, RunKept

-----------------------------------------------------------------------------
(* Between audits *)

LEMMA RunStays ==
    ASSUME ClusterInv, HandoffsInv, UNCHANGED <<cluster, handoffs>>
    PROVE  ClusterInv' /\ HandoffsInv'
<1>1. surface' = surface /\ segments' = segments /\ handoffs' = handoffs
    BY DEF cluster
<1>2. ClusterInv'
    BY <1>1, RunKept DEF ClusterInv
<1>3. HandoffsInv'
    BY <1>1 DEF HandoffsInv, GoodFiles, OnCourse, DescribedBy, Course, Tip
<1> QED BY <1>2, <1>3

LEMMA RestKeepsInv ==
    ASSUME Inv, UNCHANGED <<cluster, handoffs>>, LeftInv', phase' \in {"idle", "ended"}
    PROVE  Inv'
<1>1. ClusterInv' /\ HandoffsInv'
    BY RunStays DEF Inv
<1>2. ~(phase' \in Active) /\ ~(phase' \in Replaying) /\ phase' # "staged"
      /\ phase' # "judged" /\ phase' # "counters" /\ phase' # "ranks"
    BY DEF Active, Replaying
<1>3. Active' = Active /\ Replaying' = Replaying
    BY DEF Active, Replaying
<1>4. AuditInv'
    BY <1>2, <1>3 DEF AuditInv, TypeInv, ArgsInv, StoreInv, StepInv, CourseInv,
                     BeyondInv, TargetInv, StagedInv, VerdictInv
<1> QED BY <1>1, <1>4 DEF Inv

\* An audit stops, refuses, raises, is killed or leaves.
LEMMA EndingKeepsInv ==
    ASSUME Inv,
           \/ VerifyInit \/ RefuseUneven \/ RaiseCorruption \/ EndUnsaved
           \/ RefuseSave \/ Leave \/ Kill
    PROVE  Inv'
<1>1. LeftInv /\ MaxAudits \in Nat /\ MaxFaults \in Nat
    BY AuditReplayAssumption DEF Inv
<1>2. left \in [audits : 0 .. MaxAudits, faults : 0 .. MaxFaults]
    BY <1>1 DEF LeftInv
<1>3. UNCHANGED <<cluster, handoffs>> /\ phase' \in {"idle", "ended"}
    BY DEF VerifyInit, RefuseUneven, RaiseCorruption, EndUnsaved, RefuseSave, Leave,
           Kill, Idle
<1>4. CASE VerifyInit
    <2>1. left' = [left EXCEPT !.audits = left.audits - 1] /\ left.audits > 0
        BY <1>4 DEF VerifyInit
    <2>2. /\ left' \in [audits : 0 .. MaxAudits, faults : 0 .. MaxFaults]
          /\ left'.audits # MaxAudits
        BY <1>1, <1>2, <2>1
    <2>3. LeftInv'
        BY <2>2 DEF LeftInv
    <2> QED BY <1>3, <2>3, RestKeepsInv
<1>5. CASE Kill
    <2>1. /\ left' = [left EXCEPT !.faults = left.faults - 1] /\ left.faults > 0
          /\ phase # "idle"
        BY <1>5 DEF Kill
    <2>2. /\ left' \in [audits : 0 .. MaxAudits, faults : 0 .. MaxFaults]
          /\ left'.audits = left.audits
        BY <1>1, <1>2, <2>1
    <2>3. LeftInv'
        BY <1>1, <2>1, <2>2 DEF LeftInv
    <2> QED BY <1>3, <2>3, RestKeepsInv
<1>6. CASE ~VerifyInit /\ ~Kill
    <2>0. left' = left /\ phase \notin {"idle"}
        BY <1>6 DEF RefuseUneven, RaiseCorruption, EndUnsaved, RefuseSave, Leave,
                    ReadsIntact, NextReads, PushesNext
    <2>1. LeftInv'
        BY <1>1, <1>2, <2>0 DEF LeftInv
    <2> QED BY <1>3, <2>1, RestKeepsInv
<1> QED BY <1>4, <1>5, <1>6

LEMMA TrainKeepsInv ==
    ASSUME Inv, Train
    PROVE  Inv'
<1>1. ClusterInv'
    BY AdvanceKeepsRun, ForkKeepsRun DEF Inv, Train
<1>2. phase = "idle" /\ left.audits = MaxAudits /\ UNCHANGED <<phase, left, handoffs>>
    BY DEF Train, audit
<1>3. DOMAIN handoffs = {} /\ LeftInv
    BY <1>2 DEF Inv, LeftInv
<1>4. HandoffsInv' /\ LeftInv'
    BY <1>2, <1>3 DEF HandoffsInv, LeftInv
<1>5. ~(phase' \in Active) /\ ~(phase' \in Replaying) /\ phase' # "staged"
      /\ phase' # "judged"
    BY <1>2 DEF Active, Replaying
<1>6. AuditInv'
    BY <1>5 DEF AuditInv, TypeInv, ArgsInv, StoreInv, StepInv, CourseInv,
                BeyondInv, TargetInv, StagedInv, VerdictInv, Active, Replaying
<1> QED BY <1>1, <1>4, <1>6 DEF Inv

\* Nothing the invariants speak of moves.
LEMMA StutterKeepsInv ==
    ASSUME Inv, UNCHANGED vars
    PROVE  Inv'
<1>1. UNCHANGED <<cluster, handoffs>>
    BY DEF vars, audit
<1>2. ClusterInv' /\ HandoffsInv'
    BY <1>1, RunStays DEF Inv
<1>3. UNCHANGED <<phase, args, live, views, hashers, rank, inner, stack, slot, store,
                  grads, halted, target, held, staged, verdict, left, surface, segments,
                  handoffs>>
    BY DEF vars, audit, memory, cluster
<1>4. LeftInv' /\ AuditInv'
    <2>1. LeftInv' /\ TypeInv' /\ StepInv'
        BY <1>3 DEF Inv, AuditInv, LeftInv, TypeInv, StepInv
    <2>2. ArgsInv' /\ StoreInv'
        BY <1>3 DEF Inv, AuditInv, ArgsInv, StoreInv, DescribedBy, Audited, Spills
    <2>3. CourseInv' /\ BeyondInv'
        BY <1>3 DEF Inv, AuditInv, CourseInv, BeyondInv, Stands, Moved, Waiting, Here,
                    Course, Tip, GradClass
    <2>4. TargetInv' /\ VerdictInv'
        BY <1>3 DEF Inv, AuditInv, TargetInv, VerdictInv, Resident, Held, AtStep,
                    Reached, Spills, Published, Canonical, Steps, GradClass
    <2>5. StagedInv'
        BY <1>3 DEF Inv, AuditInv, StagedInv, GoodFiles, OnCourse, DescribedBy, Audited,
                    Course, Tip
    <2> QED BY <2>1, <2>2, <2>3, <2>4, <2>5 DEF AuditInv
<1> QED BY <1>2, <1>4 DEF Inv

-----------------------------------------------------------------------------
(* The spill store *)

LEMMA SavedFacts ==
    ASSUME SpillVerify, NEW files, NEW name, NEW value
    PROVE  /\ DOMAIN Saved(files, name, value) = DOMAIN files \cup {name}
           /\ Saved(files, name, value)[name] = [payload |-> value, sidecar |-> {value}]
           /\ \A f \in DOMAIN files : f # name => Saved(files, name, value)[f] = files[f]
           /\ GoodStore(files) => GoodStore(Saved(files, name, value))
<1>1. Saved(files, name, value) =
         [f \in DOMAIN files \cup {name} |->
             IF f = name THEN [payload |-> value, sidecar |-> {value}] ELSE files[f]]
    BY DEF Saved
<1> DEFINE new == Saved(files, name, value)
           entry == [payload |-> value, sidecar |-> {value}]
<1>2. /\ DOMAIN new = DOMAIN files \cup {name} /\ new[name] = entry
      /\ \A f \in DOMAIN files : f # name => new[f] = files[f]
    BY <1>1
<1>3. entry.payload = value /\ entry.sidecar = {value}
    OBVIOUS
<1>4. ASSUME GoodStore(files) PROVE GoodStore(new)
    <2> SUFFICES ASSUME NEW f \in DOMAIN new
                 PROVE  \E v \in new[f].sidecar :
                           new[f] = [payload |-> new[f].payload, sidecar |-> {v}]
        BY DEF GoodStore
    <2>1. CASE f = name
        <3>1. value \in new[f].sidecar
              /\ new[f] = [payload |-> new[f].payload, sidecar |-> {value}]
            BY <1>2, <1>3, <2>1
        <3> QED BY <3>1
    <2>2. CASE f # name
        <3>1. f \in DOMAIN files /\ new[f] = files[f]
            BY <1>2, <2>2
        <3> QED BY <1>4, <3>1 DEF GoodStore
    <2> QED BY <2>1, <2>2
<1> HIDE DEF new, entry
<1>5. QED
    BY <1>2, <1>4 DEF new, entry

LEMMA UnlinkedFacts ==
    ASSUME NEW files, NEW names
    PROVE  /\ DOMAIN Unlinked(files, names) = DOMAIN files \ names
           /\ \A f \in DOMAIN files \ names : Unlinked(files, names)[f] = files[f]
           /\ GoodStore(files) => GoodStore(Unlinked(files, names))
BY DEF Unlinked, GoodStore

LEMMA RottedFacts ==
    ASSUME NEW files, GoodStore(files), NEW name \in DOMAIN files, NEW value
    PROVE  /\ DOMAIN Rotted(files, name, value) = DOMAIN files
           /\ \A f \in DOMAIN files : Rotted(files, name, value)[f].sidecar = files[f].sidecar
           /\ GoodStore(Rotted(files, name, value))
<1>1. PICK v \in files[name].sidecar :
         files[name] = [payload |-> files[name].payload, sidecar |-> {v}]
    BY DEF GoodStore
<1>2. Rotted(files, name, value) =
         [files EXCEPT ![name] = [payload |-> value, sidecar |-> {v}]]
    <2>1. [files[name] EXCEPT !.payload = value] = [payload |-> value, sidecar |-> {v}]
        BY <1>1
    <2>2. Rotted(files, name, value) =
             [files EXCEPT ![name] = [files[name] EXCEPT !.payload = value]]
        BY DEF Rotted
    <2> QED BY <2>1, <2>2
<1>3. /\ DOMAIN Rotted(files, name, value) = DOMAIN files
      /\ Rotted(files, name, value)[name] = [payload |-> value, sidecar |-> {v}]
      /\ \A f \in DOMAIN files : f # name => Rotted(files, name, value)[f] = files[f]
    BY <1>2
<1>4. files[name].sidecar = {v}
    BY <1>1
<1> QED BY <1>3, <1>4 DEF GoodStore

\* A verified load returns what was written.
LEMMA IntactLoad ==
    ASSUME SpillVerify, NEW files, GoodStore(files), NEW name \in DOMAIN files,
           Intact(files, name)
    PROVE  files[name].sidecar = {Loaded(files, name)}
<1>1. PICK v \in files[name].sidecar :
         files[name] = [payload |-> files[name].payload, sidecar |-> {v}]
    BY DEF GoodStore
<1>2. files[name].sidecar = {v}
    BY <1>1
<1>3. files[name].payload = v
    BY <1>2 DEF Intact
<1> QED BY <1>2, <1>3 DEF Loaded

-----------------------------------------------------------------------------
(* The replay of one step *)

\* An audit that is under way keeps the run where it is.
LEMMA StepFrame ==
    ASSUME Inv, phase \in Active, phase' \in Active, UNCHANGED <<cluster, handoffs, left>>
    PROVE  ClusterInv' /\ HandoffsInv' /\ LeftInv'
<1>1. ClusterInv' /\ HandoffsInv'
    BY RunStays DEF Inv
<1>2. left.audits # MaxAudits
    BY DEF Inv, LeftInv, Active
<1> QED BY <1>1, <1>2 DEF Inv, LeftInv

LEMMA BeginStepKeepsInv ==
    ASSUME SpillVerify, Inv, BeginStep
    PROVE  Inv'
<1>1. /\ phase = "top" /\ phase' = "ranks" /\ phase \in Active /\ phase' \in Active
      /\ phase' \in Replaying /\ ~Uneven(live.consumed) /\ ~Reached(live.step)
      /\ UNCHANGED <<surface, segments, handoffs, left, args, views, hashers, target>>
      /\ rank' = 0 /\ stack' = << >>
    BY DEF BeginStep, Active, Replaying, cluster
<1>2. ClusterInv' /\ HandoffsInv' /\ LeftInv'
    BY <1>1, StepFrame DEF BeginStep
<1>3. TypeInv /\ ArgsInv /\ StoreInv /\ CourseInv /\ BeyondInv /\ TargetInv
    BY DEF Inv, AuditInv
<1>4. PICK lr, w : live' = [live EXCEPT !.lr = lr, !.weights = w]
    BY DEF BeginStep
<1>5. /\ live' = [step |-> live.step, consumed |-> live.consumed, weights |-> w,
                  moments |-> live.moments, lr |-> lr, rng |-> live.rng,
                  pos |-> live.pos, data |-> live.data, chain |-> live.chain,
                  spike |-> live.spike, anchor |-> live.anchor]
    BY <1>1, <1>3, <1>4 DEF TypeInv, IsState
<1>6. /\ IsState(live') /\ live'.step = live.step /\ live'.consumed = live.consumed
      /\ live'.spike = live.spike /\ live'.rng = live.rng /\ live'.anchor = live.anchor
    BY <1>5 DEF IsState
<1>7. TypeInv'
    BY <1>1, <1>3, <1>6, RanksFacts DEF TypeInv
<1>8. ArgsInv'
    BY <1>1, <1>3, <1>6 DEF ArgsInv, DescribedBy, Audited
<1>9. StoreInv'
    <2>1. GoodStore(store') /\ (Moments \in DOMAIN store => Moments \in DOMAIN store')
        <3>1. store' = Saved(store, Master, live.weights) \/ store' = store
            BY DEF BeginStep
        <3>2. GoodStore(store)
            BY <1>1, <1>3 DEF StoreInv
        <3>3. GoodStore(Saved(store, Master, live.weights))
              /\ DOMAIN Saved(store, Master, live.weights) = DOMAIN store \cup {Master}
            BY <3>2, SavedFacts
        <3> QED BY <3>1, <3>2, <3>3
    <2>2. Spills("moments")' = Spills("moments")
        BY <1>1 DEF Spills
    <2>3. Len(stack') \in Nat /\ stack' = [i \in 1 .. Len(stack') |-> stack'[i]]
          /\ \A i \in 1 .. Len(stack') : stack'[i].file # Moments'
        BY <1>1
    <2> QED BY <1>1, <1>3, <2>1, <2>2, <2>3 DEF StoreInv, Moments
<1>10. StepInv'
    BY <1>1, <1>3, <1>6 DEF StepInv, ArgsInv, TypeInv, Reached
<1>11. CourseInv' /\ BeyondInv'
    <2>1. Here' = Here /\ Tip' = Tip /\ Course' = Course
        BY <1>1, <1>6 DEF Here, Tip, Course
    <2>2. ASSUME live.step <= Tip, NEW r \in Ranks PROVE Stands(r)'
        BY <1>1, <1>3, <2>1, <2>2, RanksFacts DEF CourseInv, Stands, Waiting
    <2> QED BY <1>1, <1>3, <1>6, <2>1, <2>2 DEF CourseInv, BeyondInv
<1>12. TargetInv'
    BY <1>1, <1>3 DEF TargetInv
<1>13. StagedInv' /\ VerdictInv'
    BY <1>1 DEF StagedInv, VerdictInv
<1> QED BY <1>2, <1>7, <1>8, <1>9, <1>10, <1>11, <1>12, <1>13 DEF Inv, AuditInv

LEMMA RankBatchesFacts ==
    ASSUME TypeInv, phase = "ranks", NEW r \in Ranks
    PROVE  /\ RankBatches(r) = RankShare(StepBatches(views[r].pos, views[r].clock), r)
           /\ RankBatches(r) \in Seq(Nat)
<1>1. views[r].pos \in Nat /\ r \in Nat
    BY RanksFacts DEF TypeInv, Active
<1>2. StepBatches(views[r].pos, views[r].clock) \in Seq(Nat)
    BY <1>1, BatchesType
<1>3. RankBatches(r) = RankShare(StepBatches(views[r].pos, views[r].clock), r)
    <2>1. DOMAIN StepBatches(views[r].pos, views[r].clock) = 1 .. Rounds(views[r].clock)
        BY DEF StepBatches
    <2>2. \A k \in 1 .. Rounds(views[r].clock) :
             StepBatches(views[r].pos, views[r].clock)[k]
                = views[r].pos + (k - 1) * World
        BY DEF StepBatches
    <2> QED BY <2>1, <2>2 DEF RankBatches, RankShare
<1> QED BY <1>1, <1>2, <1>3, ShareFacts

\* _DiskTreeFold.push never pops more than the stack holds.
LEMMA CarryLengthType ==
    ASSUME NEW levels, Len(levels) \in Nat
    PROVE  CarryLength(levels) \in 0 .. Len(levels)
<1> DEFINE Stops == {k \in 0 .. Len(levels) :
                        k = Len(levels) \/ levels[Len(levels) - k] # k}
<1>1. Stops \in SUBSET Nat /\ Stops # {}
    <2>1. Len(levels) \in Stops
        OBVIOUS
    <2> QED BY <2>1
<1>2. PICK m \in Stops : \A k \in Stops : m <= k
    <2> HIDE DEF Stops
    <2> QED BY <1>1, LeastNat
<1>3. /\ m \in 0 .. Len(levels)
      /\ m = Len(levels) \/ levels[Len(levels) - m] # m
    OBVIOUS
<1>4. \A i \in 0 .. m - 1 : levels[Len(levels) - i] = i
    <2> SUFFICES ASSUME NEW i \in 0 .. m - 1
                 PROVE  levels[Len(levels) - i] = i
        OBVIOUS
    <2>1. i \in 0 .. Len(levels) /\ ~(m <= i)
        BY <1>3
    <2>2. i \notin Stops
        BY <1>2, <2>1
    <2> QED BY <2>1, <2>2
<1>5. \E k \in 0 .. Len(levels) :
         /\ \A i \in 0 .. k - 1 : levels[Len(levels) - i] = i
         /\ k = Len(levels) \/ levels[Len(levels) - k] # k
    BY <1>3, <1>4
<1> HIDE DEF Stops
<1> QED BY <1>5 DEF CarryLength

LEMMA LevelsFacts ==
    ASSUME NEW s, Len(s) \in Nat, s = [i \in 1 .. Len(s) |-> s[i]]
    PROVE  /\ Levels(s) = [i \in 1 .. Len(s) |-> s[i].level]
           /\ Len(Levels(s)) = Len(s)
<1>1. DOMAIN s = 1 .. Len(s)
    OBVIOUS
<1>2. Levels(s) = [i \in 1 .. Len(s) |-> s[i].level]
    BY <1>1 DEF Levels
<1> QED BY <1>2

LEMMA CarriesType ==
    ASSUME Len(stack) \in Nat, stack = [i \in 1 .. Len(stack) |-> stack[i]]
    PROVE  Carries \in 0 .. Len(stack)
BY LevelsFacts, CarryLengthType DEF Carries

\* The stack below what a push carries.
LEMMA PrefixFacts ==
    ASSUME NEW s, Len(s) \in Nat, s = [i \in 1 .. Len(s) |-> s[i]], NEW m \in 0 .. Len(s)
    PROVE  /\ Len(SubSeq(s, 1, m)) = m
           /\ SubSeq(s, 1, m) = [i \in 1 .. m |-> s[i]]
<1> DEFINE S == {s[i] : i \in 1 .. Len(s)}
<1>1. s \in [1 .. Len(s) -> S]
    OBVIOUS
<1>2. s \in Seq(S)
    BY <1>1
<1> HIDE DEF S
<1>3. Len(SubSeq(s, 1, m)) = m /\ SubSeq(s, 1, m) \in Seq(S)
    BY <1>2
<1>4. \A i \in 1 .. m : SubSeq(s, 1, m)[i] = s[i]
    BY <1>2
<1>5. SubSeq(s, 1, m) = [i \in 1 .. Len(SubSeq(s, 1, m)) |-> SubSeq(s, 1, m)[i]]
    <2>1. \A q \in Seq(S) : q = [i \in 1 .. Len(q) |-> q[i]]
        OBVIOUS
    <2> QED BY <1>3, <2>1
<1> QED BY <1>3, <1>4, <1>5

\* A push keeps the spill store sound and the moments in it.
LEMMA PushKeepsStore ==
    ASSUME SpillVerify, TypeInv, StoreInv, RunRank
    PROVE  /\ GoodStore(store')
           /\ Len(stack') \in Nat /\ stack' = [i \in 1 .. Len(stack') |-> stack'[i]]
           /\ \A i \in 1 .. Len(stack') : stack'[i].file # Moments
           /\ Moments \in DOMAIN store => Moments \in DOMAIN store'
<1>1. /\ GoodStore(store) /\ Len(stack) \in Nat
      /\ stack = [i \in 1 .. Len(stack) |-> stack[i]]
      /\ \A i \in 1 .. Len(stack) : stack[i].file # Moments
    BY DEF RunRank, StoreInv, Active
<1>2. CASE ~PushesNext
    BY <1>1, <1>2 DEF RunRank
<1>3. CASE PushesNext
    <2>1. PICK top :
             /\ store' = Saved(Unlinked(store, Carried), Fold(slot), top.sum)
             /\ stack' = Append(SubSeq(stack, 1, Len(stack) - Carries),
                                [level |-> top.level, file |-> Fold(slot)])
        BY <1>3, Zenon DEF RunRank
    <2>2. Carries \in 0 .. Len(stack)
        BY <1>1, CarriesType
    <2> DEFINE below == SubSeq(stack, 1, Len(stack) - Carries)
               entry == [level |-> top.level, file |-> Fold(slot)]
    <2>3. Len(stack) - Carries \in 0 .. Len(stack)
        BY <1>1, <2>2
    <2>4. /\ Len(below) = Len(stack) - Carries
          /\ below = [i \in 1 .. Len(stack) - Carries |-> stack[i]]
        BY <1>1, <2>3, PrefixFacts
    <2>5. entry.file = Fold(slot) /\ Fold(slot) # Moments
        BY DEF Fold, Moments
    <2>6. \A i \in 1 .. Len(below) : below[i].file # Moments
        BY <1>1, <2>3, <2>4
    <2>7. below = [i \in 1 .. Len(below) |-> below[i]] /\ Len(below) \in Nat
        BY <2>3, <2>4
    <2>8. stack' = Append(below, entry)
        BY <2>1
    <2> HIDE DEF below, entry
    <2>9. /\ Len(stack') = Len(below) + 1
          /\ stack' = [i \in 1 .. Len(below) + 1 |->
                          IF i = Len(below) + 1 THEN entry ELSE below[i]]
        BY <2>7, <2>8, AppendFacts
    <2>10. \A i \in 1 .. Len(stack') : stack'[i].file # Moments
        BY <2>5, <2>6, <2>7, <2>9
    <2>11. GoodStore(store')
           /\ DOMAIN store' = (DOMAIN store \ Carried) \cup {Fold(slot)}
        <3>1. GoodStore(Unlinked(store, Carried))
              /\ DOMAIN Unlinked(store, Carried) = DOMAIN store \ Carried
            BY <1>1, UnlinkedFacts
        <3>2. /\ GoodStore(Saved(Unlinked(store, Carried), Fold(slot), top.sum))
              /\ DOMAIN Saved(Unlinked(store, Carried), Fold(slot), top.sum)
                    = (DOMAIN Unlinked(store, Carried)) \cup {Fold(slot)}
            BY <3>1, SavedFacts
        <3> QED BY <2>1, <3>1, <3>2
    <2>12. Moments \notin Carried
        BY <1>1, <2>2 DEF Carried
    <2> QED BY <2>7, <2>9, <2>10, <2>11, <2>12
<1> QED BY <1>2, <1>3

\* What one virtual rank's share of the step does to its view and its chain.
LEMMA RunRankMoves ==
    ASSUME TypeInv, RunRank
    PROVE  /\ rank \in Ranks /\ rank + 1 \in 0 .. World
           /\ hashers' \in [Ranks -> Seq(Nat)] /\ views' \in [Ranks -> [pos : Nat, clock : Nat]]
           /\ \A r \in Ranks : r # rank => hashers'[r] = hashers[r] /\ views'[r] = views[r]
           /\ hashers'[rank] = hashers[rank] \o RankBatches(rank)
           /\ views'[rank] = [pos |-> views[rank].pos + Span(views[rank].clock),
                              clock |-> views[rank].clock + Tokens(views[rank].clock)]
           /\ Len(hashers'[0]) >= Len(hashers[0])
<1>1. /\ phase = "ranks" /\ phase \in Active /\ rank < World
      /\ views \in [Ranks -> [pos : Nat, clock : Nat]]
      /\ hashers \in [Ranks -> Seq(Nat)] /\ rank \in 0 .. World
    BY DEF RunRank, TypeInv, Active
<1>2. rank \in Ranks /\ rank + 1 \in 0 .. World
    BY <1>1, RanksFacts DEF Ranks
<1>3. hashers' = [hashers EXCEPT ![rank] = hashers[rank] \o RankBatches(rank)]
    BY DEF RunRank
<1>4. views' = [views EXCEPT ![rank] =
                   [pos |-> views[rank].pos + Span(views[rank].clock),
                    clock |-> views[rank].clock + Tokens(views[rank].clock)]]
    BY DEF RunRank, Span, Tokens
<1>5. /\ hashers[rank] \in Seq(Nat) /\ RankBatches(rank) \in Seq(Nat)
      /\ views[rank].pos \in Nat /\ views[rank].clock \in Nat
    BY <1>1, <1>2, RankBatchesFacts
<1>6. /\ hashers[rank] \o RankBatches(rank) \in Seq(Nat)
      /\ Len(hashers[rank] \o RankBatches(rank)) >= Len(hashers[rank])
    <2>1. \A m, n \in Nat : m + n >= m
        OBVIOUS
    <2>2. Len(hashers[rank]) \in Nat /\ Len(RankBatches(rank)) \in Nat
        BY <1>5
    <2> QED BY <1>5, <2>1, <2>2, ConcatTail
<1> DEFINE chain == hashers[rank] \o RankBatches(rank)
           view == [pos |-> views[rank].pos + Span(views[rank].clock),
                    clock |-> views[rank].clock + Tokens(views[rank].clock)]
<1>7. view \in [pos : Nat, clock : Nat]
    BY <1>5, TokensOfAStep
<1>8. chain \in Seq(Nat) /\ Len(chain) >= Len(hashers[rank])
      /\ hashers' = [hashers EXCEPT ![rank] = chain]
      /\ views' = [views EXCEPT ![rank] = view]
    BY <1>3, <1>4, <1>6
<1> HIDE DEF chain, view
<1>9. /\ hashers' \in [Ranks -> Seq(Nat)] /\ hashers'[rank] = chain
      /\ \A r \in Ranks : r # rank => hashers'[r] = hashers[r]
    BY <1>1, <1>2, <1>8
<1>10. /\ views' \in [Ranks -> [pos : Nat, clock : Nat]] /\ views'[rank] = view
       /\ \A r \in Ranks : r # rank => views'[r] = views[r]
    BY <1>1, <1>2, <1>7, <1>8
<1>11. Len(hashers'[0]) >= Len(hashers[0])
    <2>1. hashers[0] \in Seq(Nat)
        BY <1>1, RanksFacts
    <2>2. Len(hashers[0]) \in Nat
        BY <2>1
    <2>3. CASE rank = 0
        BY <1>8, <1>9, <2>3
    <2>4. CASE rank # 0
        BY <1>9, <2>2, <2>4, RanksFacts
    <2> QED BY <2>3, <2>4
<1> QED BY <1>2, <1>9, <1>10, <1>11 DEF chain, view

\* The boundary an audit on course starts its step from.
LEMMA HereIsGood ==
    ASSUME Inv, phase \in Active, live.step <= Tip
    PROVE  /\ live.step \in 0 .. Tip /\ Tip \in Nat
           /\ GoodBoundary(Here, live.step)
           /\ Here.consumed \in Nat /\ Here.pos \in Nat /\ Here.data \in Seq(Nat)
           /\ live.consumed = Here.consumed
<1>1. GoodRun(segments) /\ 1 \in 1 .. Len(segments) /\ segments[1].first = 0
    BY DEF Inv, ClusterInv, GoodRun
<1>2. Tip \in Nat /\ \A s \in 0 .. Tip : GoodBoundary(Course[s], s)
    BY <1>1, RunFacts DEF Tip, Course
<1>3. live.step \in 0 .. Tip
    BY <1>2 DEF Inv, AuditInv, TypeInv
<1>4. GoodBoundary(Here, live.step)
    BY <1>2, <1>3 DEF Here
<1> QED BY <1>2, <1>3, <1>4 DEF GoodBoundary, Inv, AuditInv, CourseInv

LEMMA RunRankKeepsInv ==
    ASSUME SpillVerify, Inv, RunRank
    PROVE  Inv'
<1>1. /\ phase = "ranks" /\ phase' = "ranks" /\ phase \in Active /\ phase' \in Active
      /\ phase \in Replaying /\ phase' \in Replaying
      /\ UNCHANGED <<surface, segments, handoffs, left, args, live, target>>
      /\ rank' = rank + 1
    BY DEF RunRank, Active, Replaying, cluster
<1>2. ClusterInv' /\ HandoffsInv' /\ LeftInv'
    BY <1>1, StepFrame DEF RunRank
<1>3. TypeInv /\ ArgsInv /\ StoreInv /\ StepInv /\ CourseInv /\ BeyondInv /\ TargetInv
    BY DEF Inv, AuditInv
<1>4. /\ rank \in Ranks /\ rank + 1 \in 0 .. World
      /\ hashers' \in [Ranks -> Seq(Nat)] /\ views' \in [Ranks -> [pos : Nat, clock : Nat]]
      /\ \A r \in Ranks : r # rank => hashers'[r] = hashers[r] /\ views'[r] = views[r]
      /\ hashers'[rank] = hashers[rank] \o RankBatches(rank)
      /\ views'[rank] = [pos |-> views[rank].pos + Span(views[rank].clock),
                         clock |-> views[rank].clock + Tokens(views[rank].clock)]
      /\ Len(hashers'[0]) >= Len(hashers[0])
    BY <1>3, RunRankMoves
<1>5. TypeInv'
    BY <1>1, <1>3, <1>4 DEF TypeInv, IsState
<1>6. ArgsInv'
    BY <1>1, <1>3 DEF ArgsInv, DescribedBy, Audited
<1>7. StoreInv'
    <2>1. /\ GoodStore(store')
          /\ Len(stack') \in Nat /\ stack' = [i \in 1 .. Len(stack') |-> stack'[i]]
          /\ \A i \in 1 .. Len(stack') : stack'[i].file # Moments
          /\ Moments \in DOMAIN store => Moments \in DOMAIN store'
        BY <1>3, PushKeepsStore
    <2>2. Spills("moments")' = Spills("moments") /\ Moments' = Moments
        BY <1>1 DEF Spills, Moments
    <2> QED BY <1>1, <1>3, <2>1, <2>2 DEF StoreInv
<1>8. StepInv'
    BY <1>1, <1>3 DEF StepInv
<1>9. Here' = Here /\ Tip' = Tip /\ Course' = Course
    BY <1>1 DEF Here, Tip, Course
<1>10. CourseInv'
    <2>1. ASSUME live.step <= Tip, NEW r \in Ranks PROVE Stands(r)'
        <3>1. Stands(r) /\ Stands(rank)
            BY <1>1, <1>3, <1>4, <2>1 DEF CourseInv
        <3>2. rank \in Nat /\ r \in Nat
            BY <1>4, RanksFacts
        <3>3. CASE r < rank
            <4>1. Moved(r) /\ ~(r >= rank) /\ r # rank
                BY <1>1, <3>1, <3>2, <3>3 DEF Stands
            <4>2. Moved(r)'
                BY <1>4, <1>9, <4>1 DEF Moved
            <4> QED BY <1>1, <3>2, <4>1, <4>2 DEF Stands
        <3>4. CASE r = rank
            <4>1. Waiting(rank)
                BY <1>1, <3>1, <3>2 DEF Stands
            <4>2. /\ Here.consumed \in Nat /\ Here.pos \in Nat /\ Here.data \in Seq(Nat)
                BY <1>1, <2>1, HereIsGood
            <4>3. /\ views[rank].pos = Here.pos /\ views[rank].clock = Here.consumed
                  /\ hashers[rank] = RankShare(Here.data, rank)
                BY <4>1 DEF Waiting
            <4>4. RankBatches(rank) = RankShare(StepBatches(Here.pos, Here.consumed), rank)
                BY <1>1, <1>3, <1>4, <4>3, RankBatchesFacts
            <4>5. StepBatches(Here.pos, Here.consumed) \in Seq(Nat)
                BY <4>2, BatchesType
            <4>6. hashers'[rank] = RankShare(Here.data \o StepBatches(Here.pos, Here.consumed),
                                             rank)
                <5> DEFINE old == Here.data
                           new == StepBatches(Here.pos, Here.consumed)
                <5>1. old \in Seq(Nat) /\ new \in Seq(Nat) /\ rank \in Nat
                    BY <3>2, <4>2, <4>5
                <5> HIDE DEF old, new
                <5>2. RankShare(old \o new, rank)
                         = RankShare(old, rank) \o RankShare(new, rank)
                    BY <5>1, ShareFacts
                <5> QED BY <1>4, <4>3, <4>4, <5>2 DEF old, new
            <4>7. Moved(r)'
                BY <1>4, <1>9, <3>4, <4>3, <4>6 DEF Moved, Span, Tokens
            <4> QED BY <1>1, <3>2, <3>4, <4>7 DEF Stands
        <3>5. CASE r > rank
            <4>1. Waiting(r) /\ r # rank /\ r >= rank + 1
                BY <1>1, <3>1, <3>2, <3>5 DEF Stands
            <4>2. Waiting(r)'
                BY <1>4, <1>9, <4>1 DEF Waiting
            <4> QED BY <1>1, <4>1, <4>2 DEF Stands
        <3> QED BY <3>2, <3>3, <3>4, <3>5
    <2>2. GradClass(Here)' = GradClass(Here)
        BY <1>1, <1>9 DEF GradClass
    <2> QED BY <1>1, <1>3, <1>9, <2>1, <2>2 DEF CourseInv
<1>11. BeyondInv'
    <2>1. hashers[0] \in Seq(Nat) /\ hashers'[0] \in Seq(Nat)
        BY <1>1, <1>3, <1>4, RanksFacts DEF TypeInv
    <2>2. Len(hashers[0]) \in Nat /\ Len(hashers'[0]) \in Nat
        BY <2>1
    <2>3. ASSUME live.step > Tip PROVE Len(Course[Tip].data) \in Nat
        <3>1. GoodRun(segments) /\ 1 \in 1 .. Len(segments) /\ segments[1].first = 0
            BY DEF Inv, ClusterInv, GoodRun
        <3>2. Tip \in 0 .. Tip /\ \A s \in 0 .. Tip : GoodBoundary(Course[s], s)
            BY <3>1, RunFacts DEF Tip, Course
        <3>3. Course[Tip].data \in Seq(Nat)
            BY <3>2 DEF GoodBoundary
        <3> QED BY <3>3
    <2> QED BY <1>1, <1>3, <1>4, <1>9, <2>2, <2>3 DEF BeyondInv
<1>12. TargetInv'
    BY <1>1, <1>3 DEF TargetInv
<1>13. StagedInv' /\ VerdictInv'
    BY <1>1 DEF StagedInv, VerdictInv
<1> QED BY <1>2, <1>5, <1>6, <1>7, <1>8, <1>10, <1>11, <1>12, <1>13 DEF Inv, AuditInv

LEMMA FoldKeepsInv ==
    ASSUME SpillVerify, Inv, FoldGradients
    PROVE  Inv'
<1>1. /\ phase = "ranks" /\ phase' = "gate" /\ phase \in Active /\ phase' \in Active
      /\ phase \in Replaying /\ phase' \in Replaying /\ rank = World
      /\ UNCHANGED <<surface, segments, handoffs, left, args, views, hashers, rank, target>>
      /\ stack' = << >> /\ store' = Unlinked(store, FoldFiles)
    BY DEF FoldGradients, Active, Replaying, cluster
<1>2. ClusterInv' /\ HandoffsInv' /\ LeftInv'
    BY <1>1, StepFrame DEF FoldGradients
<1>3. TypeInv /\ ArgsInv /\ StoreInv /\ StepInv /\ CourseInv /\ BeyondInv /\ TargetInv
    BY DEF Inv, AuditInv
<1>4. PICK w : live' = [live EXCEPT !.weights = w] \/ live' = live
    BY DEF FoldGradients
<1>5. /\ IsState(live') /\ live'.step = live.step /\ live'.consumed = live.consumed
      /\ live'.spike = live.spike /\ live'.rng = live.rng /\ live'.anchor = live.anchor
    <2>1. IsState(live)
        BY <1>1, <1>3 DEF TypeInv
    <2>2. CASE live' = [live EXCEPT !.weights = w]
        <3>1. live' = [step |-> live.step, consumed |-> live.consumed, weights |-> w,
                       moments |-> live.moments, lr |-> live.lr, rng |-> live.rng,
                       pos |-> live.pos, data |-> live.data, chain |-> live.chain,
                       spike |-> live.spike, anchor |-> live.anchor]
            BY <2>1, <2>2 DEF IsState
        <3> QED BY <3>1 DEF IsState
    <2>3. CASE live' = live
        BY <2>1, <2>3
    <2> QED BY <1>4, <2>2, <2>3
<1>6. TypeInv'
    BY <1>1, <1>3, <1>5 DEF TypeInv
<1>7. ArgsInv'
    BY <1>1, <1>3, <1>5 DEF ArgsInv, DescribedBy, Audited
<1>8. StoreInv'
    <2>1. GoodStore(store) /\ DOMAIN stack = 1 .. Len(stack)
          /\ \A i \in 1 .. Len(stack) : stack[i].file # Moments
        BY <1>1, <1>3 DEF StoreInv
    <2>2. Moments \notin FoldFiles
        BY <2>1 DEF FoldFiles
    <2>3. GoodStore(store') /\ DOMAIN store' = DOMAIN store \ FoldFiles
        BY <1>1, <2>1, UnlinkedFacts
    <2>4. Spills("moments")' = Spills("moments") /\ Moments' = Moments
        BY <1>1 DEF Spills, Moments
    <2>5. Len(stack') \in Nat /\ stack' = [i \in 1 .. Len(stack') |-> stack'[i]]
          /\ \A i \in 1 .. Len(stack') : stack'[i].file # Moments
        BY <1>1
    <2>6. Spills("moments") => Moments \in DOMAIN store'
        BY <1>1, <1>3, <2>2, <2>3 DEF StoreInv
    <2> QED BY <2>3, <2>4, <2>5, <2>6 DEF StoreInv
<1>9. StepInv'
    BY <1>1, <1>3, <1>5 DEF StepInv
<1>10. Here' = Here /\ Tip' = Tip /\ Course' = Course
    BY <1>1, <1>5 DEF Here, Tip, Course
<1>11. CourseInv' /\ BeyondInv'
    <2>1. ASSUME live.step <= Tip, NEW r \in Ranks PROVE Stands(r)'
        <3>1. Stands(r) /\ ~(r >= rank)
            BY <1>1, <1>3, <2>1, TrainAssumption DEF CourseInv, Ranks
        <3>2. Moved(r)
            BY <1>1, <3>1 DEF Stands
        <3>3. Moved(r)'
            BY <1>1, <1>10, <3>2 DEF Moved
        <3> QED BY <1>1, <3>3 DEF Stands
    <2>2. GradClass(Here)' = GradClass(Here)
        BY <1>1, <1>10 DEF GradClass
    <2>3. CourseInv'
        BY <1>1, <1>3, <1>5, <1>10, <2>1, <2>2 DEF CourseInv
    <2>4. BeyondInv'
        BY <1>1, <1>3, <1>5, <1>10 DEF BeyondInv
    <2> QED BY <2>3, <2>4
<1>12. TargetInv'
    BY <1>1, <1>3 DEF TargetInv
<1>13. StagedInv' /\ VerdictInv'
    BY <1>1 DEF StagedInv, VerdictInv
<1> QED BY <1>2, <1>6, <1>7, <1>8, <1>9, <1>11, <1>12, <1>13 DEF Inv, AuditInv

\* On course, the rounds rank 0 took in this step are the run's ...
LEMMA RoundsOnCourse ==
    ASSUME Inv, phase = "gate" \/ (phase = "ranks" /\ rank = World), live.step <= Tip
    PROVE  /\ StepRounds = StepBatches(Here.pos, Here.consumed)
           /\ StepRounds \in Seq(Nat) /\ StepRounds[1] = Here.pos
<1>1. phase \in Active /\ phase \in Replaying /\ phase # "top"
    BY DEF Active, Replaying
<1>2. Moved(0)
    <2>1. ~(phase = "ranks" /\ 0 >= rank)
        BY TrainAssumption
    <2> QED BY <1>1, <2>1, RanksFacts DEF Inv, AuditInv, CourseInv, Stands
<1>3. /\ Here.pos \in Nat /\ Here.data \in Seq(Nat) /\ live.consumed = Here.consumed
    BY <1>1, HereIsGood
<1> DEFINE old == Here.data
           new == StepBatches(Here.pos, Here.consumed)
<1>4. /\ new \in Seq(Nat) /\ Len(new) = Rounds(live.consumed) /\ new[1] = Here.pos
      /\ old \in Seq(Nat)
    BY <1>1, <1>3, BatchesType DEF Inv, AuditInv, StepInv
<1>5. hashers[0] = RankShare(old \o new, 0)
    BY <1>2 DEF Moved
<1> HIDE DEF old, new
<1>6. hashers[0] = old \o new
    BY <1>4, <1>5, ConcatTail, ShareFacts
<1>7. /\ Len(hashers[0]) = Len(old) + Len(new)
      /\ SubSeq(old \o new, Len(old) + 1, Len(old) + Len(new)) = new
    BY <1>4, <1>6, ConcatTail
<1>8. Len(old) \in Nat /\ Len(new) \in Nat
    BY <1>4
<1>9. Len(hashers[0]) - Rounds(live.consumed) + 1 = Len(old) + 1
    BY <1>4, <1>7, <1>8
<1>10. StepRounds = new
    BY <1>6, <1>7, <1>9 DEF StepRounds
<1> QED BY <1>4, <1>10 DEF new

\* ... and the gradient is of the class the run's was.
LEMMA ClassOnCourse ==
    ASSUME Inv, phase = "gate", live.step <= Tip
    PROVE  StepClass = GradClass(Here)
BY RoundsOnCourse DEF StepClass, GradClass

\* The optimizer step leaves the counters to the end of the loop.
LEMMA UpdateFields ==
    ASSUME TypeInv, UpdateWeights
    PROVE  /\ IsState(live') /\ live'.step = live.step /\ live'.consumed = live.consumed
           /\ live'.spike = AfterGate(live.spike, StepClass, live.step)
           /\ live'.rng = live.rng + 1 /\ live'.anchor = live.anchor
<1>1. IsState(live)
    BY DEF UpdateWeights, TypeInv, Active
<1> DEFINE st == IF Spills("moments") /\ ~Skips
                 THEN [live EXCEPT !.moments = Loaded(store, Moments)] ELSE live
<1>2. PICK m : st = [step |-> live.step, consumed |-> live.consumed,
                     weights |-> live.weights, moments |-> m, lr |-> live.lr,
                     rng |-> live.rng, pos |-> live.pos, data |-> live.data,
                     chain |-> live.chain, spike |-> live.spike, anchor |-> live.anchor]
    BY <1>1 DEF IsState
<1>3. PICK m2 : live' = [Stepped(st, grads, StepClass) EXCEPT
                            !.step = live.step, !.consumed = live.consumed,
                            !.moments = m2]
    BY DEF UpdateWeights
<1> HIDE DEF st
<1>4. /\ IsState(st) /\ st.lr = live.lr /\ st.rng = live.rng /\ st.pos = live.pos
      /\ st.data = live.data /\ st.chain = live.chain /\ st.spike = live.spike
      /\ st.anchor = live.anchor /\ st.step = live.step
    BY <1>2 DEF IsState
<1> DEFINE next == Stepped(st, grads, StepClass)
<1>5. /\ IsState(next) /\ next.lr = st.lr /\ next.rng = st.rng + 1 /\ next.pos = st.pos
      /\ next.data = st.data /\ next.chain = st.chain /\ next.anchor = st.anchor
      /\ next.spike = AfterGate(st.spike, StepClass, st.step)
    <2> DEFINE class == StepClass
               wNew == IF ShouldSkip(st.spike, class, st.step) THEN st.weights
                       ELSE Append(st.weights, [grads |-> grads, lr |-> st.lr, rng |-> st.rng,
                                                moments |-> Len(st.moments)])
               mNew == IF ShouldSkip(st.spike, class, st.step) THEN st.moments
                       ELSE Append(st.moments, grads)
    <2> HIDE DEF class
    <2>1. Stepped(st, grads, class) =
             [step |-> st.step + 1, consumed |-> st.consumed + Tokens(st.consumed),
              weights |-> wNew, moments |-> mNew, lr |-> st.lr, rng |-> st.rng + 1,
              pos |-> st.pos, data |-> st.data, chain |-> st.chain,
              spike |-> AfterGate(st.spike, class, st.step), anchor |-> st.anchor]
        BY <1>4, SteppedRecord
    <2> HIDE DEF wNew, mNew, next
    <2>2. next = Stepped(st, grads, class)
        BY DEF next, class
    <2>3. /\ IsState(next) /\ next.lr = st.lr /\ next.rng = st.rng + 1 /\ next.pos = st.pos
          /\ next.data = st.data /\ next.chain = st.chain /\ next.anchor = st.anchor
          /\ next.spike = AfterGate(st.spike, class, st.step)
        BY <2>1, <2>2 DEF IsState
    <2> QED BY <2>3 DEF class
<1> HIDE DEF next
<1>6. live' = [next EXCEPT !.step = live.step, !.consumed = live.consumed, !.moments = m2]
    BY <1>3 DEF next
<1>7. live' = [step |-> live.step, consumed |-> live.consumed, weights |-> next.weights,
               moments |-> m2, lr |-> next.lr, rng |-> next.rng, pos |-> next.pos,
               data |-> next.data, chain |-> next.chain, spike |-> next.spike,
               anchor |-> next.anchor]
    BY <1>5, <1>6 DEF IsState
<1>8. /\ IsState(live') /\ live'.step = live.step /\ live'.consumed = live.consumed
      /\ live'.spike = next.spike /\ live'.rng = next.rng /\ live'.anchor = next.anchor
    BY <1>7 DEF IsState
<1> QED BY <1>4, <1>5, <1>8

LEMMA UpdateKeepsInv ==
    ASSUME SpillVerify, Inv, UpdateWeights
    PROVE  Inv'
<1>1. /\ phase = "gate" /\ phase' = "hash" /\ phase \in Active /\ phase' \in Active
      /\ phase \in Replaying /\ phase' \in Replaying
      /\ UNCHANGED <<surface, segments, handoffs, left, args, views, hashers, rank,
                     stack, target>>
      /\ halted' = RaisesHalt(live.spike, StepClass, live.step)
    BY DEF UpdateWeights, Active, Replaying, cluster
<1>2. ClusterInv' /\ HandoffsInv' /\ LeftInv'
    BY <1>1, StepFrame DEF UpdateWeights
<1>3. TypeInv /\ ArgsInv /\ StoreInv /\ StepInv /\ CourseInv /\ BeyondInv /\ TargetInv
    BY DEF Inv, AuditInv
<1>4. /\ IsState(live') /\ live'.step = live.step /\ live'.consumed = live.consumed
      /\ live'.spike = AfterGate(live.spike, StepClass, live.step)
      /\ live'.rng = live.rng + 1 /\ live'.anchor = live.anchor
    BY <1>3, UpdateFields
<1>5. TypeInv'
    BY <1>1, <1>3, <1>4 DEF TypeInv
<1>6. ArgsInv'
    BY <1>1, <1>3, <1>4 DEF ArgsInv, DescribedBy, Audited
<1>7. StoreInv'
    <2>1. GoodStore(store)
        BY <1>1, <1>3 DEF StoreInv
    <2>2. PICK v : store' = Saved(store, Moments, v) \/ store' = store
        BY DEF UpdateWeights
    <2>3. GoodStore(Saved(store, Moments, v))
          /\ DOMAIN Saved(store, Moments, v) = DOMAIN store \cup {Moments}
        BY <2>1, SavedFacts
    <2>4. GoodStore(store') /\ (Moments \in DOMAIN store => Moments \in DOMAIN store')
        BY <2>1, <2>2, <2>3
    <2>5. Spills("moments")' = Spills("moments") /\ Moments' = Moments
        BY <1>1 DEF Spills, Moments
    <2> QED BY <1>1, <1>3, <2>4, <2>5 DEF StoreInv
<1>8. StepInv'
    BY <1>1, <1>3, <1>4 DEF StepInv
<1>9. Here' = Here /\ Tip' = Tip /\ Course' = Course
    BY <1>1, <1>4 DEF Here, Tip, Course
<1>10. CourseInv'
    <2>1. ASSUME live.step <= Tip, NEW r \in Ranks PROVE Stands(r)'
        <3>1. Moved(r)
            BY <1>1, <1>3, <2>1 DEF CourseInv, Stands
        <3>2. Moved(r)'
            BY <1>1, <1>9, <3>1 DEF Moved
        <3> QED BY <1>1, <3>2 DEF Stands
    <2>2. GradClass(Here)' = GradClass(Here)
        BY <1>1, <1>9 DEF GradClass
    <2>3. ASSUME live.step <= Tip
          PROVE  /\ live'.spike = AfterGate(Here.spike, GradClass(Here), live.step)
                 /\ live'.rng = Here.rng + 1
                 /\ halted' = RaisesHalt(Here.spike, GradClass(Here), live.step)
        <3>1. StepClass = GradClass(Here) /\ live.spike = Here.spike /\ live.rng = Here.rng
            BY <1>1, <1>3, <2>3, ClassOnCourse DEF CourseInv
        <3> QED BY <1>1, <1>4, <3>1
    <2> QED BY <1>1, <1>3, <1>4, <1>9, <2>1, <2>2, <2>3 DEF CourseInv
<1>11. BeyondInv'
    BY <1>1, <1>3, <1>4, <1>9 DEF BeyondInv
<1>12. TargetInv'
    BY <1>1, <1>3 DEF TargetInv
<1>13. StagedInv' /\ VerdictInv'
    BY <1>1 DEF StagedInv, VerdictInv
<1> QED BY <1>2, <1>5, <1>6, <1>7, <1>8, <1>10, <1>11, <1>12, <1>13 DEF Inv, AuditInv

\* The digest of the step just replayed, moments and all.
LEMMA ReplayDigestIs ==
    ASSUME IsState(live)
    PROVE  ReplayDigest =
              [link |-> "digest", prev |-> live.chain, weights |-> live.weights,
               moments |-> IF Spills("moments") THEN Loaded(store, Moments)
                                                ELSE live.moments,
               lr |-> live.lr, grads |-> grads, data |-> RoundsOf(hashers)]
<1> DEFINE m == IF Spills("moments") THEN Loaded(store, Moments) ELSE live.moments
           d == RoundsOf(hashers)
<1>1. WithMoments = [step |-> live.step, consumed |-> live.consumed,
                     weights |-> live.weights, moments |-> m, lr |-> live.lr,
                     rng |-> live.rng, pos |-> live.pos, data |-> live.data,
                     chain |-> live.chain, spike |-> live.spike, anchor |-> live.anchor]
    BY DEF WithMoments, IsState
<1> HIDE DEF m, d
<1>2. ReplayDigest = StepDigest([WithMoments EXCEPT !.data = d], grads)
    BY DEF ReplayDigest, d
<1>3. [WithMoments EXCEPT !.data = d] =
         [step |-> live.step, consumed |-> live.consumed, weights |-> live.weights,
          moments |-> m, lr |-> live.lr, rng |-> live.rng, pos |-> live.pos,
          data |-> d, chain |-> live.chain, spike |-> live.spike, anchor |-> live.anchor]
    BY <1>1
<1>4. ReplayDigest = [link |-> "digest", prev |-> live.chain, weights |-> live.weights,
                      moments |-> m, lr |-> live.lr, grads |-> grads, data |-> d]
    BY <1>2, <1>3 DEF StepDigest
<1> QED BY <1>4 DEF m, d

LEMMA HashStepKeepsInv ==
    ASSUME SpillVerify, Inv, HashStep
    PROVE  Inv'
<1>1. /\ phase = "hash" /\ phase' = "counters" /\ phase \in Active /\ phase' \in Active
      /\ phase \in Replaying /\ phase' \in Replaying
      /\ UNCHANGED <<surface, segments, handoffs, left, args, views, hashers, rank,
                     stack, store, halted>>
    BY DEF HashStep, Active, Replaying, cluster
<1>2. ClusterInv' /\ HandoffsInv' /\ LeftInv'
    BY <1>1, StepFrame DEF HashStep
<1>3. TypeInv /\ ArgsInv /\ StoreInv /\ StepInv /\ CourseInv /\ BeyondInv /\ TargetInv
    BY DEF Inv, AuditInv
<1>4. IsState(live) /\ target = NoDigest /\ live.step \in Nat
    BY <1>1, <1>3 DEF TypeInv, TargetInv
<1>5. /\ live' = [live EXCEPT !.chain = IF HashDue(live.step + 1) THEN ReplayDigest
                                                                 ELSE live.chain]
      /\ target' = IF Reached(live.step + 1) THEN ReplayDigest ELSE NoDigest
      /\ Reached(live.step + 1) => held' = grads
    <2>1. CASE Hashes
        BY <1>4, <2>1 DEF HashStep, IsState
    <2>2. CASE ~Hashes
        <3>1. ~HashDue(live.step + 1) /\ ~Reached(live.step + 1)
              /\ live' = live /\ target' = target
            BY <2>2 DEF HashStep, Hashes
        <3> QED BY <1>4, <3>1 DEF IsState
    <2> QED BY <2>1, <2>2
<1> DEFINE chain == IF HashDue(live.step + 1) THEN ReplayDigest ELSE live.chain
<1>6. live' = [step |-> live.step, consumed |-> live.consumed, weights |-> live.weights,
               moments |-> live.moments, lr |-> live.lr, rng |-> live.rng,
               pos |-> live.pos, data |-> live.data, chain |-> chain,
               spike |-> live.spike, anchor |-> live.anchor]
    <2> HIDE DEF chain
    <2>1. live' = [live EXCEPT !.chain = chain]
        BY <1>5 DEF chain
    <2> QED BY <1>4, <2>1 DEF IsState
<1> HIDE DEF chain
<1>7. /\ IsState(live') /\ live'.step = live.step /\ live'.consumed = live.consumed
      /\ live'.spike = live.spike /\ live'.rng = live.rng /\ live'.anchor = live.anchor
      /\ live'.weights = live.weights /\ live'.moments = live.moments
      /\ live'.lr = live.lr /\ live'.chain = chain
    BY <1>6 DEF IsState
<1>8. TypeInv'
    BY <1>1, <1>3, <1>7 DEF TypeInv
<1>9. ArgsInv'
    BY <1>1, <1>3, <1>7 DEF ArgsInv, DescribedBy, Audited
<1>10. StoreInv'
    <2>1. Spills("moments")' = Spills("moments") /\ Moments' = Moments
        BY <1>1 DEF Spills, Moments
    <2> QED BY <1>1, <1>3, <2>1 DEF StoreInv
<1>11. StepInv'
    BY <1>1, <1>3, <1>7 DEF StepInv
<1>12. Here' = Here /\ Tip' = Tip /\ Course' = Course
    BY <1>1, <1>7 DEF Here, Tip, Course
<1>13. CourseInv' /\ BeyondInv'
    <2>1. ASSUME live.step <= Tip, NEW r \in Ranks PROVE Stands(r)'
        <3>1. Moved(r)
            BY <1>1, <1>3, <2>1 DEF CourseInv, Stands
        <3>2. Moved(r)'
            BY <1>1, <1>12, <3>1 DEF Moved
        <3> QED BY <1>1, <3>2 DEF Stands
    <2>2. GradClass(Here)' = GradClass(Here)
        BY <1>1, <1>12 DEF GradClass
    <2>3. CourseInv'
        BY <1>1, <1>3, <1>7, <1>12, <2>1, <2>2 DEF CourseInv
    <2>4. BeyondInv'
        BY <1>1, <1>3, <1>7, <1>12 DEF BeyondInv
    <2> QED BY <2>3, <2>4
<1>14. TargetInv'
    <2>1. Spills("moments")' = Spills("moments") /\ Moments' = Moments
          /\ \A s : Reached(s)' = Reached(s)
        BY <1>1 DEF Spills, Moments, Reached
    <2>2. CASE ~Reached(live.step + 1)
        <3>1. target' = NoDigest /\ ~Reached(live'.step + 1)
            BY <1>5, <1>7, <2>2
        <3> QED BY <1>1, <2>1, <3>1 DEF TargetInv
    <2>3. CASE Reached(live.step + 1)
        <3> DEFINE m == IF Spills("moments") THEN Loaded(store, Moments)
                                             ELSE live.moments
        <3>1. ReplayDigest = [link |-> "digest", prev |-> live.chain,
                              weights |-> live.weights, moments |-> m, lr |-> live.lr,
                              grads |-> grads, data |-> RoundsOf(hashers)]
            BY <1>4, ReplayDigestIs
        <3>2. target' = ReplayDigest /\ held' = grads
            BY <1>5, <2>3
        <3>3. target' # NoDigest
            BY <3>1, <3>2 DEF NoDigest
        <3>4. Spills("moments") =>
                 Moments \in DOMAIN store /\ store[Moments].sidecar = {m}
            <4> SUFFICES ASSUME Spills("moments")
                         PROVE  Moments \in DOMAIN store /\ store[Moments].sidecar = {m}
                OBVIOUS
            <4>1. Moments \in DOMAIN store /\ GoodStore(store)
                BY <1>1, <1>3 DEF StoreInv
            <4>2. Intact(store, Moments)
                <5>1. Hashes
                    BY <2>3 DEF Hashes
                <5>2. Moments \in NextReads
                    BY <1>1, <5>1 DEF NextReads, PushesNext
                <5> QED BY <5>2 DEF HashStep, ReadsIntact
            <4> QED BY <4>1, <4>2, IntactLoad
        <3> HIDE DEF m
        <3>5. target'.moments = m /\ target'.prev = live.chain
            BY <3>1, <3>2
        <3>6. Resident' = m
            BY <1>1, <1>7, <2>1, <3>5 DEF Resident, m
        <3>7. Held' = grads /\ AtStep' = live.step + 1
            BY <1>1, <1>7, <3>2 DEF Held, AtStep
        <3>8. DigestOf(target, live.weights, Resident, live.lr, Held, hashers)'
            BY <1>1, <1>7, <3>1, <3>2, <3>5, <3>6, <3>7 DEF DigestOf, RoundsOf
        <3>9. ChainsTo(target, live.chain, AtStep)'
            BY <1>7, <3>2, <3>5, <3>7 DEF ChainsTo, chain
        <3>10. AtStep' = args.until
            BY <1>1, <1>3, <1>4, <2>3, <3>7 DEF StepInv, Reached, ArgsInv
        <3>11. Spills("moments") => store[Moments].sidecar = {target'.moments}
            BY <3>4, <3>5
        <3> QED BY <1>1, <2>1, <3>3, <3>8, <3>9, <3>10, <3>11 DEF TargetInv
    <2> QED BY <2>2, <2>3
<1>15. StagedInv' /\ VerdictInv'
    BY <1>1 DEF StagedInv, VerdictInv
<1> QED BY <1>2, <1>8, <1>9, <1>10, <1>11, <1>13, <1>14, <1>15 DEF Inv, AuditInv

\* The run's next boundary, and what lies past its last.
LEMMA NextOnCourse ==
    ASSUME Inv, phase = "counters", live.step <= Tip
    PROVE  /\ live.step + 1 <= Tip =>
                /\ ~halted
                /\ Course[live.step + 1].consumed = Here.consumed + Tokens(Here.consumed)
                /\ Course[live.step + 1].pos = Here.pos + Span(Here.consumed)
                /\ Course[live.step + 1].rng = live.rng
                /\ Course[live.step + 1].spike = live.spike
                /\ Course[live.step + 1].data
                      = Here.data \o StepBatches(Here.pos, Here.consumed)
           /\ live.step + 1 > Tip => Len(hashers[0]) > Len(Course[Tip].data)
<1>1. phase \in Active /\ phase \in Replaying /\ phase # "top" /\ phase # "ranks"
    BY DEF Active, Replaying
<1>2. /\ live.step \in 0 .. Tip /\ Tip \in Nat /\ GoodBoundary(Here, live.step)
      /\ Here.consumed \in Nat /\ Here.pos \in Nat /\ Here.data \in Seq(Nat)
      /\ live.consumed = Here.consumed
    BY <1>1, HereIsGood
<1>3. CourseInv /\ StepInv
    BY DEF Inv, AuditInv
<1>4. ASSUME live.step + 1 <= Tip
      PROVE  /\ ~halted
             /\ Course[live.step + 1].consumed = Here.consumed + Tokens(Here.consumed)
             /\ Course[live.step + 1].pos = Here.pos + Span(Here.consumed)
             /\ Course[live.step + 1].rng = live.rng
             /\ Course[live.step + 1].spike = live.spike
             /\ Course[live.step + 1].data
                   = Here.data \o StepBatches(Here.pos, Here.consumed)
    <2>1. GoodRun(segments) /\ 1 \in 1 .. Len(segments) /\ segments[1].first = 0
        BY DEF Inv, ClusterInv, GoodRun
    <2>2. GoodSegment(segments[1], Course, Tip)
        BY <2>1, RunFacts DEF Course, Tip
    <2>3. \A s \in (0 + 1) .. Tip : /\ Trains(Course[s - 1])
                                   /\ Course[s] = After(Course[s - 1], GradClass(Course[s - 1]))
        BY <2>1, <2>2 DEF GoodSegment, Course, Tip
    <2>4. live.step + 1 \in (0 + 1) .. Tip /\ (live.step + 1) - 1 = live.step
        BY <1>2, <1>4
    <2>5. Trains(Here) /\ Course[live.step + 1] = After(Here, GradClass(Here))
        BY <2>3, <2>4 DEF Here
    <2>6. halted = RaisesHalt(Here.spike, GradClass(Here), live.step)
          /\ live.spike = AfterGate(Here.spike, GradClass(Here), live.step)
          /\ live.rng = Here.rng + 1
        BY <1>1, <1>3 DEF CourseInv
    <2>7. Here.step = live.step
        BY <1>2 DEF GoodBoundary
    <2>8. ~halted
        BY <2>5, <2>6, <2>7 DEF Trains
    <2> DEFINE next == After(Here, GradClass(Here))
    <2>9. /\ next.consumed = Here.consumed + Tokens(Here.consumed)
          /\ next.pos = Here.pos + Span(Here.consumed)
          /\ next.rng = Here.rng + 1
          /\ next.spike = AfterGate(Here.spike, GradClass(Here), live.step)
          /\ next.data = Here.data \o StepBatches(Here.pos, Here.consumed)
        <3>1. GoodBoundary(Here, live.step) /\ live.step \in Nat
            BY <1>2
        <3> DEFINE h == Here
                   class == GradClass(Here)
        <3>2. GoodBoundary(h, live.step)
            BY <3>1
        <3> HIDE DEF h, class
        <3>3. /\ After(h, class).consumed = h.consumed + Tokens(h.consumed)
              /\ After(h, class).pos = h.pos + Span(h.consumed)
              /\ After(h, class).rng = h.rng + 1
              /\ After(h, class).spike = AfterGate(h.spike, class, live.step)
              /\ After(h, class).data = h.data \o StepBatches(h.pos, h.consumed)
            <4> DEFINE a == After(h, class)
                       k == live.step
            <4>1. GoodBoundary(h, k) /\ k \in Nat /\ HashEvery > 0
                BY <3>1, <3>2, HashesOn
            <4> HIDE DEF k
            <4>2. /\ a.consumed = h.consumed + Tokens(h.consumed)
                  /\ a.pos = h.pos + Span(h.consumed) /\ a.rng = h.rng + 1
                  /\ a.spike = AfterGate(h.spike, class, k)
                  /\ a.data = h.data \o StepBatches(h.pos, h.consumed)
                BY <4>1, AfterCourse
            <4> QED BY <4>2 DEF a, k
        <3> QED BY <3>3 DEF h, class
    <2> HIDE DEF next
    <2>10. Course[live.step + 1] = next
        BY <2>5 DEF next
    <2> QED BY <2>6, <2>8, <2>9, <2>10
<1>5. ASSUME live.step + 1 > Tip PROVE Len(hashers[0]) > Len(Course[Tip].data)
    <2>1. live.step = Tip
        BY <1>2, <1>5
    <2>2. Moved(0)
        BY <1>1, <1>3, RanksFacts DEF CourseInv, Stands
    <2> DEFINE old == Here.data
               new == StepBatches(Here.pos, Here.consumed)
    <2>3. /\ old \in Seq(Nat) /\ new \in Seq(Nat) /\ Len(new) >= 1
        BY <1>1, <1>2, <1>3, BatchesType DEF StepInv
    <2>4. hashers[0] = RankShare(old \o new, 0)
        BY <2>2 DEF Moved
    <2>5. Course[Tip].data = old
        BY <2>1 DEF Here
    <2> HIDE DEF old, new
    <2>6. hashers[0] = old \o new
        BY <2>3, <2>4, ConcatTail, ShareFacts
    <2>7. Len(hashers[0]) = Len(old) + Len(new)
        BY <2>3, <2>6, ConcatTail
    <2>8. Len(old) \in Nat /\ Len(new) \in Nat
        BY <2>3
    <2> QED BY <2>3, <2>5, <2>7, <2>8
<1> QED BY <1>4, <1>5

LEMMA EndStepKeepsInv ==
    ASSUME SpillVerify, Inv, EndStep
    PROVE  Inv'
<1>1. /\ phase = "counters" /\ phase \in Active /\ phase' \in Active /\ phase \in Replaying
      /\ phase' \in {"top", "done"} /\ phase' \notin Replaying
      /\ phase' = IF halted \/ Reached(live.step + 1) THEN "done" ELSE "top"
      /\ UNCHANGED <<surface, segments, handoffs, left, args, views, hashers, rank,
                     stack, store, halted, target, held>>
    BY DEF EndStep, Active, Replaying, cluster
<1>2. ClusterInv' /\ HandoffsInv' /\ LeftInv'
    BY <1>1, StepFrame DEF EndStep
<1>3. TypeInv /\ ArgsInv /\ StoreInv /\ StepInv /\ CourseInv /\ BeyondInv /\ TargetInv
    BY DEF Inv, AuditInv
<1>4. live' = [live EXCEPT !.step = live.step + 1,
                           !.consumed = IF halted THEN live.consumed
                                        ELSE live.consumed + Tokens(live.consumed)]
    BY DEF EndStep, Tokens
<1>5. /\ IsState(live') /\ live'.step = live.step + 1
      /\ live'.consumed = (IF halted THEN live.consumed
                           ELSE live.consumed + Tokens(live.consumed))
      /\ live'.spike = live.spike /\ live'.rng = live.rng /\ live'.anchor = live.anchor
      /\ live'.weights = live.weights /\ live'.moments = live.moments
      /\ live'.lr = live.lr /\ live'.chain = live.chain
    <2> DEFINE c == IF halted THEN live.consumed ELSE live.consumed + Tokens(live.consumed)
    <2>1. IsState(live)
        BY <1>1, <1>3 DEF TypeInv
    <2>2. live' = [live EXCEPT !.step = live.step + 1, !.consumed = c]
        BY <1>4
    <2> HIDE DEF c
    <2>3. live' = [step |-> live.step + 1, consumed |-> c, weights |-> live.weights,
                   moments |-> live.moments, lr |-> live.lr, rng |-> live.rng,
                   pos |-> live.pos, data |-> live.data, chain |-> live.chain,
                   spike |-> live.spike, anchor |-> live.anchor]
        BY <2>1, <2>2 DEF IsState
    <2> QED BY <2>3 DEF IsState, c
<1>6. live.step \in Nat /\ live.consumed \in Nat
    BY <1>1, <1>3 DEF TypeInv
<1>7. TypeInv'
    BY <1>1, <1>3, <1>5, <1>6, TokensOfAStep DEF TypeInv
<1>8. ArgsInv'
    BY <1>1, <1>3, <1>5, <1>6 DEF ArgsInv, DescribedBy, Audited
<1>9. StoreInv'
    <2>1. Spills("moments")' = Spills("moments") /\ Moments' = Moments
        BY <1>1 DEF Spills, Moments
    <2> QED BY <1>1, <1>3, <2>1 DEF StoreInv
<1>10. StepInv'
    BY <1>1 DEF StepInv, Replaying
<1>11. Tip' = Tip /\ Course' = Course /\ Here' = Course[live.step + 1]
    BY <1>1, <1>5 DEF Here, Tip, Course
<1>12. Tip \in Nat
    <2>1. GoodRun(segments) /\ 1 \in 1 .. Len(segments)
        BY DEF Inv, ClusterInv, GoodRun
    <2> QED BY <2>1, RunFacts DEF Tip
<1>13. CourseInv'
    <2>1. SUFFICES ASSUME live.step + 1 <= Tip
                   PROVE  /\ live'.consumed = Here'.consumed
                          /\ live'.spike = Here'.spike /\ live'.rng = Here'.rng
                          /\ \A r \in Ranks : Stands(r)'
        BY <1>1, <1>5, <1>11 DEF CourseInv
    <2>2. live.step <= Tip
        BY <1>6, <1>12, <2>1
    <2>3. /\ ~halted
          /\ Here'.consumed = Here.consumed + Tokens(Here.consumed)
          /\ Here'.pos = Here.pos + Span(Here.consumed)
          /\ Here'.rng = live.rng /\ Here'.spike = live.spike
          /\ Here'.data = Here.data \o StepBatches(Here.pos, Here.consumed)
        BY <1>1, <1>11, <2>1, <2>2, NextOnCourse
    <2>4. live.consumed = Here.consumed
        BY <1>1, <1>3, <2>2 DEF CourseInv
    <2>5. ASSUME NEW r \in Ranks PROVE Stands(r)'
        <3>1. Moved(r)
            BY <1>1, <1>3, <2>2 DEF CourseInv, Stands
        <3>2. /\ views'[r] = [pos |-> Here'.pos, clock |-> Here'.consumed]
              /\ hashers'[r] = RankShare(Here'.data, r)
            BY <1>1, <2>3, <3>1 DEF Moved, Span, Tokens
        <3>3. views'[r].pos = Here'.pos
            BY <3>2
        <3> QED BY <1>1, <3>2, <3>3 DEF Stands, Waiting
    <2> QED BY <1>5, <2>3, <2>4, <2>5
<1>14. BeyondInv'
    <2>1. SUFFICES ASSUME live.step + 1 > Tip
                   PROVE  Len(hashers[0]) > Len(Course[Tip].data)
        BY <1>1, <1>5, <1>11 DEF BeyondInv
    <2>2. CASE live.step <= Tip
        BY <1>1, <2>1, <2>2, NextOnCourse
    <2>3. CASE live.step > Tip
        BY <1>1, <1>3, <2>3 DEF BeyondInv
    <2> QED BY <1>6, <1>12, <2>2, <2>3
<1>15. TargetInv'
    <2>1. Spills("moments")' = Spills("moments") /\ Moments' = Moments
          /\ \A s : Reached(s)' = Reached(s)
        BY <1>1 DEF Spills, Moments, Reached
    <2>2. CASE target = NoDigest
        <3>1. ~Reached(live.step + 1)
            BY <1>1, <1>3, <2>2 DEF TargetInv
        <3> QED BY <1>1, <2>2, <3>1 DEF TargetInv
    <2>3. CASE target # NoDigest
        <3>1. /\ DigestOf(target, live.weights, Resident, live.lr, Held, hashers)
              /\ ChainsTo(target, live.chain, AtStep) /\ AtStep = args.until
              /\ Spills("moments") => store[Moments].sidecar = {target.moments}
            BY <1>1, <1>3, <2>3 DEF TargetInv
        <3>2. AtStep = live.step + 1 /\ live.step + 1 = args.until
            BY <1>1, <3>1 DEF AtStep
        <3>3. phase' = "done"
            BY <1>1, <1>6, <3>2 DEF Reached
        <3>4. AtStep' = AtStep /\ Held' = Held /\ Resident' = Resident
            BY <1>1, <1>5, <2>1, <3>2, <3>3 DEF AtStep, Held, Resident
        <3>5. DigestOf(target, live.weights, Resident, live.lr, Held, hashers)'
            BY <1>1, <1>5, <3>1, <3>4 DEF DigestOf, RoundsOf
        <3>6. ChainsTo(target, live.chain, AtStep)'
            BY <1>1, <1>5, <3>1, <3>4 DEF ChainsTo
        <3> QED BY <1>1, <2>1, <2>3, <3>1, <3>3, <3>4, <3>5, <3>6 DEF TargetInv
    <2> QED BY <2>2, <2>3
<1>16. StagedInv' /\ VerdictInv'
    BY <1>1 DEF StagedInv, VerdictInv
<1> QED BY <1>2, <1>7, <1>8, <1>9, <1>10, <1>13, <1>14, <1>15, <1>16 DEF Inv, AuditInv

-----------------------------------------------------------------------------
(* The verdict and the hand-off *)

\* The moments taken back from disk are those the target digest was taken of.
LEMMA JudgedMoments ==
    ASSUME SpillVerify, Inv, phase = "done", ReadsIntact
    PROVE  /\ IsState(WithMoments)
           /\ WithMoments.step = live.step /\ WithMoments.consumed = live.consumed
           /\ WithMoments.spike = live.spike /\ WithMoments.rng = live.rng
           /\ WithMoments.anchor = live.anchor /\ WithMoments.weights = live.weights
           /\ WithMoments.lr = live.lr /\ WithMoments.chain = live.chain
           /\ target # NoDigest => WithMoments.moments = Resident
<1>1. IsState(live) /\ StoreInv /\ TargetInv /\ phase \in Active
    BY DEF Inv, AuditInv, TypeInv, Active
<1>2. CASE Spills("moments")
    <2>1. NextReads = {Moments}
        BY <1>2 DEF NextReads, PushesNext
    <2>2. Intact(store, Moments) /\ Moments \in DOMAIN store /\ GoodStore(store)
        BY <1>1, <1>2, <2>1 DEF ReadsIntact, StoreInv, Active
    <2>3. store[Moments].sidecar = {Loaded(store, Moments)}
        BY <2>2, IntactLoad
    <2> DEFINE m == Loaded(store, Moments)
    <2>4. WithMoments = [live EXCEPT !.moments = m]
        BY <1>2 DEF WithMoments
    <2>5. target # NoDigest => m = Resident
        <3>1. target # NoDigest => store[Moments].sidecar = {target.moments}
            BY <1>1, <1>2 DEF TargetInv
        <3>2. Resident = target.moments
            BY <1>2 DEF Resident
        <3>3. target # NoDigest => {m} = {target.moments}
            BY <2>3, <3>1
        <3> QED BY <3>2, <3>3
    <2> HIDE DEF m
    <2>6. WithMoments = [step |-> live.step, consumed |-> live.consumed,
                         weights |-> live.weights, moments |-> m, lr |-> live.lr,
                         rng |-> live.rng, pos |-> live.pos, data |-> live.data,
                         chain |-> live.chain, spike |-> live.spike,
                         anchor |-> live.anchor]
        BY <1>1, <2>4 DEF IsState
    <2> QED BY <2>5, <2>6 DEF IsState
<1>3. CASE ~Spills("moments")
    BY <1>1, <1>3 DEF WithMoments, Resident
<1> QED BY <1>2, <1>3

LEMMA JudgeKeepsInv ==
    ASSUME SpillVerify, Inv, Judge
    PROVE  Inv'
<1>1. /\ phase = "done" /\ phase' = "judged" /\ phase \in Active /\ phase' \in Active
      /\ phase \notin Replaying /\ phase' \notin Replaying /\ ReadsIntact
      /\ live' = WithMoments /\ store' = EmptyStore
      /\ UNCHANGED <<surface, segments, handoffs, left, views, hashers, rank,
                     stack, halted, target, held>>
    BY DEF Judge, Active, Replaying, cluster
<1>2. ClusterInv' /\ HandoffsInv' /\ LeftInv'
    BY <1>1, StepFrame DEF Judge
<1>3. TypeInv /\ ArgsInv /\ StoreInv /\ CourseInv /\ BeyondInv /\ TargetInv
    BY DEF Inv, AuditInv
<1>4. /\ IsState(live') /\ live'.step = live.step /\ live'.consumed = live.consumed
      /\ live'.spike = live.spike /\ live'.rng = live.rng
      /\ live'.anchor = live.anchor /\ live'.weights = live.weights
      /\ live'.lr = live.lr /\ live'.chain = live.chain
      /\ target # NoDigest => live'.moments = Resident
    BY <1>1, JudgedMoments
<1>5. PICK expect \in {NoDigest} \cup Published :
         /\ args' = [args EXCEPT !.expect = expect]
         /\ verdict' = IF expect = NoDigest THEN "unchecked"
                       ELSE IF expect = Reported THEN "match" ELSE "mismatch"
    BY DEF Judge
<1>6. args' = [origin |-> args.origin, segment |-> args.segment, step |-> args.step,
               desc |-> args.desc, until |-> args.until, spills |-> args.spills,
               reset |-> args.reset, expect |-> expect]
    BY <1>1, <1>3, <1>5 DEF ArgsInv
<1>7. TypeInv'
    BY <1>1, <1>3, <1>4 DEF TypeInv
<1>8. ArgsInv'
    <2>1. Audited' = Audited
        BY <1>6 DEF Audited
    <2>2. DescribedBy(Audited, live.anchor, args.reset)'
        BY <1>1, <1>3, <1>4, <1>6, <2>1 DEF ArgsInv, DescribedBy
    <2> QED BY <1>1, <1>3, <1>4, <1>6, <2>2 DEF ArgsInv
<1>9. StoreInv'
    BY <1>1, <1>3 DEF StoreInv, EmptyStore, GoodStore
<1>10. StepInv' /\ StagedInv'
    BY <1>1 DEF StepInv, StagedInv
<1>11. Tip' = Tip /\ Course' = Course /\ Here' = Here
    BY <1>1, <1>4 DEF Here, Tip, Course
<1>12. CourseInv'
    BY <1>1, <1>3, <1>4, <1>11 DEF CourseInv, Stands
<1>13. BeyondInv'
    BY <1>1, <1>3, <1>4, <1>11 DEF BeyondInv
<1>14. TargetInv'
    <2>1. CASE target = NoDigest
        BY <1>1, <1>3, <2>1 DEF TargetInv
    <2>2. CASE target # NoDigest
        <3>1. /\ DigestOf(target, live.weights, Resident, live.lr, Held, hashers)
              /\ ChainsTo(target, live.chain, AtStep) /\ AtStep = args.until
            BY <1>1, <1>3, <2>2 DEF TargetInv
        <3>2. AtStep' = AtStep /\ Held' = Held /\ Resident' = Resident
            BY <1>1, <1>4, <2>2 DEF AtStep, Held, Resident
        <3>3. DigestOf(target, live.weights, Resident, live.lr, Held, hashers)'
            BY <1>1, <1>4, <3>1, <3>2 DEF DigestOf, RoundsOf
        <3>4. ChainsTo(target, live.chain, AtStep)'
            BY <1>1, <1>4, <3>1, <3>2 DEF ChainsTo
        <3>5. args'.until = args.until
            BY <1>6
        <3> QED BY <1>1, <2>2, <3>1, <3>2, <3>3, <3>4, <3>5 DEF TargetInv
    <2> QED BY <2>1, <2>2
<1>15. VerdictInv'
    <2>1. SUFFICES ASSUME verdict' = "match", target # NoDigest
                   PROVE  args'.expect = target /\ target \in Published'
        BY <1>1 DEF VerdictInv
    <2>2. expect # NoDigest /\ expect = Reported
        BY <1>5, <2>1
    <2>3. Published' = Published
        BY <1>1 DEF Published, Canonical, Steps, GradClass
    <2> QED BY <1>5, <1>6, <2>1, <2>2, <2>3 DEF Reported
<1> QED BY <1>2, <1>7, <1>8, <1>9, <1>10, <1>12, <1>13, <1>14, <1>15 DEF Inv, AuditInv

LEMMA StageSidecarKeepsInv ==
    ASSUME Inv, StageSidecar
    PROVE  Inv'
<1>1. /\ phase = "judged" /\ phase' = "staged" /\ phase \in Active /\ phase' \in Active
      /\ phase \notin Replaying /\ phase' \notin Replaying
      /\ staged' = [grads |-> held] /\ target # NoDigest
      /\ UNCHANGED <<surface, segments, handoffs, left, args, live, views, hashers, rank,
                     stack, halted, target, store>>
    BY DEF StageSidecar, Saves, Active, Replaying, cluster
<1>2. ClusterInv' /\ HandoffsInv' /\ LeftInv'
    BY <1>1, StepFrame DEF StageSidecar
<1>3. TypeInv /\ ArgsInv /\ StoreInv /\ CourseInv /\ BeyondInv /\ TargetInv
    BY DEF Inv, AuditInv
<1>4. TypeInv' /\ ArgsInv' /\ StoreInv'
    BY <1>1, <1>3 DEF TypeInv, ArgsInv, DescribedBy, Audited, StoreInv, Spills
<1>5. Tip' = Tip /\ Course' = Course /\ Here' = Here
    BY <1>1 DEF Here, Tip, Course
<1>6. CourseInv' /\ BeyondInv'
    BY <1>1, <1>3, <1>5 DEF CourseInv, BeyondInv, Stands
<1>7. StepInv' /\ VerdictInv'
    BY <1>1 DEF StepInv, VerdictInv
<1>8. StagedInv'
    BY <1>1 DEF StagedInv
<1>9. TargetInv'
    <2>1. /\ DigestOf(target, live.weights, Resident, live.lr, Held, hashers)
          /\ ChainsTo(target, live.chain, AtStep) /\ AtStep = args.until
        BY <1>1, <1>3 DEF TargetInv
    <2>2. AtStep' = AtStep /\ Held' = Held /\ Resident' = Resident
        BY <1>1 DEF AtStep, Held, Resident
    <2>3. DigestOf(target, live.weights, Resident, live.lr, Held, hashers)'
        BY <1>1, <2>1, <2>2 DEF DigestOf, RoundsOf
    <2>4. ChainsTo(target, live.chain, AtStep)'
        BY <1>1, <2>1, <2>2 DEF ChainsTo
    <2> QED BY <1>1, <2>1, <2>2, <2>3, <2>4 DEF TargetInv
<1> QED BY <1>2, <1>4, <1>6, <1>7, <1>8, <1>9 DEF Inv, AuditInv

\* The checkpoint the audit is about to publish.
LEMMA StagedFilesAreGood ==
    ASSUME Inv, StageCheckpoint
    PROVE  GoodFiles(staged', live.step, Audited)
<1>1. phase = "staged" /\ phase \in Active /\ phase \notin Replaying
    BY DEF StageCheckpoint, Active, Replaying
<1>2. TypeInv /\ ArgsInv /\ CourseInv /\ BeyondInv /\ TargetInv /\ StagedInv
    BY DEF Inv, AuditInv
<1>3. /\ IsState(live) /\ live.step \in Nat /\ live.consumed \in Nat
      /\ hashers \in [Ranks -> Seq(Nat)] /\ views[0].pos \in Nat
    BY <1>1, <1>2, RanksFacts DEF TypeInv
<1> DEFINE st == HandoffState
<1>4. st = [step |-> live.step, consumed |-> live.consumed, weights |-> live.weights,
            moments |-> live.moments, lr |-> live.lr, rng |-> live.rng,
            pos |-> views[0].pos, data |-> << >>, chain |-> live.chain,
            spike |-> live.spike, anchor |-> live.anchor]
    <2> DEFINE p == views[0].pos
    <2>1. st = [live EXCEPT !.pos = p, !.data = << >>]
        BY DEF HandoffState
    <2> HIDE DEF p, st
    <2>2. st = [step |-> live.step, consumed |-> live.consumed, weights |-> live.weights,
                moments |-> live.moments, lr |-> live.lr, rng |-> live.rng,
                pos |-> p, data |-> << >>, chain |-> live.chain,
                spike |-> live.spike, anchor |-> live.anchor]
        BY <1>3, <2>1 DEF IsState
    <2> QED BY <2>2 DEF p
<1>5. staged' = [state |-> st, reset |-> args.reset, hashers |-> hashers,
                 stamp |-> target, grads |-> staged.grads]
    BY DEF StageCheckpoint
<1> HIDE DEF st
<1>6. /\ IsState(st) /\ st.step = live.step /\ st.consumed = live.consumed
      /\ st.weights = live.weights /\ st.moments = live.moments /\ st.lr = live.lr
      /\ st.rng = live.rng /\ st.pos = views[0].pos /\ st.data = << >>
      /\ st.chain = live.chain /\ st.spike = live.spike /\ st.anchor = live.anchor
    BY <1>4 DEF IsState
<1>7. OnCourse(live.step, live.consumed, views[0].pos, live.rng, live.spike, hashers)
    <2>1. CASE live.step <= Tip
        <3>1. /\ live.consumed = Here.consumed /\ live.spike = Here.spike
              /\ live.rng = Here.rng /\ \A r \in Ranks : Stands(r)
            BY <1>1, <1>2, <2>1 DEF CourseInv
        <3>2. \A r \in Ranks :
                 views[r].pos = Here.pos /\ hashers[r] = RankShare(Here.data, r)
            BY <1>1, <3>1 DEF Stands
        <3>3. hashers = [r \in Ranks |-> hashers[r]]
            BY <1>3
        <3>4. hashers = [r \in Ranks |-> RankShare(Here.data, r)]
            BY <3>2, <3>3
        <3> QED BY <2>1, <3>1, <3>2, <3>4, RanksFacts DEF OnCourse, Here
    <2>2. CASE ~(live.step <= Tip)
        <3>1. Tip \in Nat
            <4>1. GoodRun(segments) /\ 1 \in 1 .. Len(segments)
                BY DEF Inv, ClusterInv, GoodRun
            <4> QED BY <4>1, RunFacts DEF Tip
        <3>2. live.step > Tip
            BY <1>3, <2>2, <3>1
        <3> QED BY <1>1, <1>2, <2>2, <3>2 DEF BeyondInv, OnCourse
    <2> QED BY <2>1, <2>2
<1>8. DescribedBy(Audited, live.anchor, args.reset)
    BY <1>1, <1>2 DEF ArgsInv
<1>9. /\ DigestOf(target, live.weights, live.moments, live.lr, staged.grads, hashers)
      /\ ChainsTo(target, live.chain, live.step)
    BY <1>1, <1>2 DEF TargetInv, Resident, Held, AtStep
<1>10. /\ staged'.state = st /\ staged'.reset = args.reset /\ staged'.hashers = hashers
       /\ staged'.stamp = target /\ staged'.grads = staged.grads
    BY <1>5
<1> QED BY <1>3, <1>5, <1>6, <1>7, <1>8, <1>9, <1>10 DEF GoodFiles

LEMMA StageCheckpointKeepsInv ==
    ASSUME Inv, StageCheckpoint
    PROVE  Inv'
<1>1. /\ phase = "staged" /\ phase' = "staged" /\ phase \in Active /\ phase' \in Active
      /\ phase \notin Replaying /\ phase' \notin Replaying
      /\ staged'.grads = staged.grads /\ "stamp" \in DOMAIN staged'
      /\ UNCHANGED <<surface, segments, handoffs, left, args, live, views, hashers, rank,
                     stack, halted, target, store>>
    BY DEF StageCheckpoint, Active, Replaying, cluster
<1>2. ClusterInv' /\ HandoffsInv' /\ LeftInv'
    BY <1>1, StepFrame DEF StageCheckpoint
<1>3. TypeInv /\ ArgsInv /\ StoreInv /\ CourseInv /\ BeyondInv /\ TargetInv
    BY DEF Inv, AuditInv
<1>4. TypeInv' /\ ArgsInv' /\ StoreInv'
    BY <1>1, <1>3 DEF TypeInv, ArgsInv, DescribedBy, Audited, StoreInv, Spills
<1>5. Tip' = Tip /\ Course' = Course /\ Here' = Here
    BY <1>1 DEF Here, Tip, Course
<1>6. CourseInv' /\ BeyondInv'
    BY <1>1, <1>3, <1>5 DEF CourseInv, BeyondInv, Stands
<1>7. StepInv' /\ VerdictInv'
    BY <1>1 DEF StepInv, VerdictInv
<1>8. StagedInv'
    <2>1. GoodFiles(staged', live.step, Audited)
        BY StagedFilesAreGood
    <2>2. GoodFiles(staged, live.step, Audited)'
        BY <1>1, <1>5, <2>1 DEF GoodFiles, OnCourse, DescribedBy, Audited
    <2> QED BY <1>1, <2>2 DEF StagedInv
<1>9. TargetInv'
    <2>1. /\ DigestOf(target, live.weights, Resident, live.lr, Held, hashers)
          /\ ChainsTo(target, live.chain, AtStep) /\ AtStep = args.until
          /\ target # NoDigest
        BY <1>1, <1>3 DEF TargetInv
    <2>2. AtStep' = AtStep /\ Held' = Held /\ Resident' = Resident
        BY <1>1 DEF AtStep, Held, Resident
    <2>3. DigestOf(target, live.weights, Resident, live.lr, Held, hashers)'
        BY <1>1, <2>1, <2>2 DEF DigestOf, RoundsOf
    <2>4. ChainsTo(target, live.chain, AtStep)'
        BY <1>1, <2>1, <2>2 DEF ChainsTo
    <2> QED BY <1>1, <2>1, <2>2, <2>3, <2>4 DEF TargetInv
<1> QED BY <1>2, <1>4, <1>6, <1>7, <1>8, <1>9 DEF Inv, AuditInv

LEMMA PublishKeepsInv ==
    ASSUME Inv, Publish
    PROVE  Inv'
<1>1. /\ phase = "staged" /\ phase' = "ended" /\ "stamp" \in DOMAIN staged
      /\ UNCHANGED <<cluster, surface, segments, left>>
    BY DEF Publish, cluster
<1> DEFINE new == [files |-> staged, segment |-> Audited, matched |-> verdict = "match"]
<1>2. handoffs' = [s \in DOMAIN handoffs \cup {live.step} |->
                      IF s = live.step THEN new ELSE handoffs[s]]
    BY DEF Publish
<1>3. GoodFiles(staged, live.step, Audited) /\ new.files = staged /\ new.segment = Audited
    BY <1>1 DEF Inv, AuditInv, StagedInv
<1> HIDE DEF new
<1>4. \A s \in DOMAIN handoffs' : GoodFiles(handoffs'[s].files, s, handoffs'[s].segment)
    <2> SUFFICES ASSUME NEW s \in DOMAIN handoffs'
                 PROVE  GoodFiles(handoffs'[s].files, s, handoffs'[s].segment)
        OBVIOUS
    <2>1. CASE s = live.step
        <3>1. handoffs'[s] = new
            BY <1>2, <2>1
        <3> QED BY <1>3, <2>1, <3>1
    <2>2. CASE s # live.step
        <3>1. s \in DOMAIN handoffs /\ handoffs'[s] = handoffs[s]
            BY <1>2, <2>2
        <3>2. GoodFiles(handoffs[s].files, s, handoffs[s].segment)
            BY <3>1 DEF Inv, HandoffsInv
        <3> QED BY <3>1, <3>2
    <2> QED BY <2>1, <2>2
<1>5. HandoffsInv'
    <2>1. \A s, files, g : GoodFiles(files, s, g)' <=> GoodFiles(files, s, g)
        BY <1>1, FilesKept
    <2> QED BY <1>4, <2>1 DEF HandoffsInv
<1>6. LeftInv'
    BY <1>1 DEF Inv, LeftInv
<1>7. ClusterInv'
    BY <1>1, RunKept DEF Inv, ClusterInv
<1>8. ~(phase' \in Active) /\ ~(phase' \in Replaying) /\ phase' # "staged"
      /\ phase' # "judged"
    BY <1>1 DEF Active, Replaying
<1>9. AuditInv'
    BY <1>8 DEF AuditInv, TypeInv, ArgsInv, StoreInv, StepInv, CourseInv,
                BeyondInv, TargetInv, StagedInv, VerdictInv, Active, Replaying
<1> QED BY <1>5, <1>6, <1>7, <1>9 DEF Inv

\* A lost byte leaves every sidecar as it was.
LEMMA BytesLostKeepsInv ==
    ASSUME Inv, BytesLost
    PROVE  Inv'
<1>1. /\ UNCHANGED <<cluster, surface, segments, handoffs, phase, args, live, views,
                     hashers, rank, stack, halted, target, held, staged, verdict>>
      /\ left.faults > 0 /\ left' = [left EXCEPT !.faults = left.faults - 1]
    BY DEF BytesLost, cluster, memory
<1>2. PICK f \in OnDisk : store' = Rotted(store, f, Rot(f))
    BY DEF BytesLost
<1>3. f \in DOMAIN store
    BY <1>2 DEF OnDisk
<1>4. ClusterInv' /\ HandoffsInv'
    BY <1>1, RunStays DEF Inv
<1>5. LeftInv'
    <2>1. left \in [audits : 0 .. MaxAudits, faults : 0 .. MaxFaults]
          /\ MaxAudits \in Nat /\ MaxFaults \in Nat
        BY AuditReplayAssumption DEF Inv, LeftInv
    <2>2. /\ left' \in [audits : 0 .. MaxAudits, faults : 0 .. MaxFaults]
          /\ left'.audits = left.audits
        BY <1>1, <2>1
    <2> QED BY <1>1, <2>2 DEF Inv, LeftInv
<1>6. TypeInv' /\ ArgsInv' /\ StepInv' /\ CourseInv' /\ BeyondInv'
    BY <1>1 DEF Inv, AuditInv, TypeInv, ArgsInv, DescribedBy, Audited, StepInv,
                CourseInv, BeyondInv, Stands, Moved, Waiting, Here, Course, Tip,
                GradClass
<1>7. VerdictInv'
    BY <1>1 DEF Inv, AuditInv, VerdictInv, Published, Canonical, Steps, GradClass
<1>8. StagedInv'
    BY <1>1 DEF Inv, AuditInv, StagedInv, GoodFiles, OnCourse, DescribedBy, Audited,
                Course, Tip
<1>9. phase \in Active =>
         /\ GoodStore(store') /\ DOMAIN store' = DOMAIN store
         /\ \A k \in DOMAIN store : store'[k].sidecar = store[k].sidecar
    BY <1>2, <1>3, RottedFacts DEF Inv, AuditInv, StoreInv
<1>10. StoreInv'
    BY <1>1, <1>9 DEF Inv, AuditInv, StoreInv, Spills
<1>11. TargetInv'
    <2>1. SUFFICES ASSUME phase \in Active PROVE TargetInv'
        BY <1>1 DEF TargetInv
    <2>2. phase \in {"counters", "done"} /\ Spills("moments") =>
             store'[Moments].sidecar = store[Moments].sidecar
        BY <1>9, <2>1 DEF Inv, AuditInv, StoreInv
    <2>3. AtStep' = AtStep /\ Held' = Held /\ Resident' = Resident
          /\ Spills("moments")' = Spills("moments") /\ Moments' = Moments
          /\ \A s : Reached(s)' = Reached(s)
        BY <1>1 DEF AtStep, Held, Resident, Spills, Moments, Reached
    <2>4. DigestOf(target, live.weights, Resident, live.lr, Held, hashers)'
             = DigestOf(target, live.weights, Resident, live.lr, Held, hashers)
        BY <1>1, <2>3 DEF DigestOf, RoundsOf
    <2>5. ChainsTo(target, live.chain, AtStep)' = ChainsTo(target, live.chain, AtStep)
        BY <1>1, <2>3 DEF ChainsTo
    <2>6. TargetInv
        BY DEF Inv, AuditInv
    <2> QED BY <1>1, <2>1, <2>2, <2>3, <2>4, <2>5, <2>6 DEF TargetInv
<1> QED BY <1>4, <1>5, <1>6, <1>7, <1>8, <1>10, <1>11 DEF Inv, AuditInv

-----------------------------------------------------------------------------
(* Starting an audit *)

\* What an audit of segment g loads at step s.
GoodLoad(ckpt, s, g) ==
    /\ ckpt = [state |-> ckpt.state, reset |-> ckpt.reset, hashers |-> ckpt.hashers,
               stamp |-> ckpt.stamp, grads |-> ckpt.grads]
    /\ IsState(ckpt.state) /\ ckpt.state.step = s /\ s \in Nat
    /\ ckpt.state.consumed \in Nat /\ ckpt.state.pos \in Nat
    /\ ckpt.hashers \in [Ranks -> Seq(Nat)]
    /\ OnCourse(s, ckpt.state.consumed, ckpt.state.pos, ckpt.state.rng,
                ckpt.state.spike, ckpt.hashers)
    /\ DescribedBy(g, ckpt.state.anchor, ckpt.reset)

LEMMA CheckpointFields ==
    ASSUME ClusterInv, NEW g \in 1 .. Len(segments),
           NEW s \in segments[g].first .. segments[g].tip
    PROVE  /\ Checkpoint(g, s).reset = (segments[g].kind = "reset")
           /\ Checkpoint(g, s).hashers =
                 [r \in Ranks |-> RankShare(segments[g].trail[s].data, r)]
           /\ Checkpoint(g, s).stamp = Canonical(g, s)
           /\ Checkpoint(g, s).grads = NoSidecar
           /\ Checkpoint(g, s) =
                 [state |-> Checkpoint(g, s).state, reset |-> Checkpoint(g, s).reset,
                  hashers |-> Checkpoint(g, s).hashers,
                  stamp |-> Checkpoint(g, s).stamp, grads |-> Checkpoint(g, s).grads]
           /\ IsState(Checkpoint(g, s).state) /\ Checkpoint(g, s).state.data = << >>
           /\ SameCourse([Checkpoint(g, s).state EXCEPT
                             !.data = segments[g].trail[s].data], Course[s])
           /\ Checkpoint(g, s).state.step = s
           /\ Checkpoint(g, s).state.consumed = Course[s].consumed
           /\ Checkpoint(g, s).state.pos = Course[s].pos
           /\ Checkpoint(g, s).state.rng = Course[s].rng
           /\ Checkpoint(g, s).state.spike = Course[s].spike
           /\ segments[g].trail[s].data = Course[s].data
           /\ Checkpoint(g, s).state.weights = segments[g].trail[s].weights
           /\ Checkpoint(g, s).state.moments = segments[g].trail[s].moments
           /\ Checkpoint(g, s).state.lr = segments[g].trail[s].lr
           /\ Checkpoint(g, s).state.chain = segments[g].trail[s].chain
           /\ Checkpoint(g, s).state.anchor =
                 segments[g].trail[segments[g].first].anchor
<1> DEFINE st == segments[g].trail[s]
<1>1. /\ GoodBoundary(st, s) /\ SameCourse(st, Course[s])
      /\ st.anchor = segments[g].trail[segments[g].first].anchor
    BY DEF ClusterInv, GoodRun, GoodSegment, Course
<1>2. IsState(st) /\ st.step = s
    BY <1>1 DEF GoodBoundary
<1> DEFINE bare == [st EXCEPT !.data = << >>]
           hs == [r \in Ranks |-> RankShare(st.data, r)]
           reset == segments[g].kind = "reset"
<1>3. Checkpoint(g, s) = [state |-> bare, reset |-> reset, hashers |-> hs,
                          stamp |-> Canonical(g, s), grads |-> NoSidecar]
    BY DEF Checkpoint
<1> HIDE DEF st, hs, reset
<1>4. bare = [step |-> st.step, consumed |-> st.consumed, weights |-> st.weights,
              moments |-> st.moments, lr |-> st.lr, rng |-> st.rng, pos |-> st.pos,
              data |-> << >>, chain |-> st.chain, spike |-> st.spike,
              anchor |-> st.anchor]
    BY <1>2 DEF IsState
<1> HIDE DEF bare
<1>5. /\ IsState(bare) /\ bare.step = st.step /\ bare.consumed = st.consumed
      /\ bare.weights = st.weights /\ bare.moments = st.moments /\ bare.lr = st.lr
      /\ bare.rng = st.rng /\ bare.pos = st.pos /\ bare.data = << >>
      /\ bare.chain = st.chain /\ bare.spike = st.spike /\ bare.anchor = st.anchor
    BY <1>4 DEF IsState
<1>6. /\ st.consumed = Course[s].consumed /\ st.pos = Course[s].pos
      /\ st.rng = Course[s].rng /\ st.spike = Course[s].spike
      /\ st.data = Course[s].data /\ Course[s].step = s
    BY <1>1, <1>2 DEF SameCourse
<1>7. SameCourse([bare EXCEPT !.data = st.data], Course[s])
    <2> DEFINE full == [bare EXCEPT !.data = st.data]
    <2>1. /\ full.step = s /\ full.consumed = st.consumed /\ full.pos = st.pos
          /\ full.rng = st.rng /\ full.spike = st.spike /\ full.data = st.data
        BY <1>2, <1>4
    <2> HIDE DEF full
    <2>2. SameCourse(full, Course[s])
        BY <1>6, <2>1 DEF SameCourse
    <2> QED BY <2>2 DEF full
<1> DEFINE c == Checkpoint(g, s)
<1>8. c.state = bare /\ c.reset = reset /\ c.hashers = hs /\ c.stamp = Canonical(g, s)
      /\ c.grads = NoSidecar
      /\ c = [state |-> c.state, reset |-> c.reset, hashers |-> c.hashers,
              stamp |-> c.stamp, grads |-> c.grads]
    BY <1>3
<1> HIDE DEF c
<1>9. /\ c.reset = reset /\ c.hashers = hs /\ c.stamp = Canonical(g, s)
      /\ c.grads = NoSidecar
      /\ c = [state |-> c.state, reset |-> c.reset, hashers |-> c.hashers,
              stamp |-> c.stamp, grads |-> c.grads]
      /\ IsState(c.state) /\ c.state.data = << >>
      /\ SameCourse([c.state EXCEPT !.data = st.data], Course[s])
      /\ c.state.step = s /\ c.state.consumed = Course[s].consumed
      /\ c.state.pos = Course[s].pos /\ c.state.rng = Course[s].rng
      /\ c.state.spike = Course[s].spike /\ st.data = Course[s].data
      /\ c.state.weights = st.weights /\ c.state.moments = st.moments
      /\ c.state.lr = st.lr /\ c.state.chain = st.chain /\ c.state.anchor = st.anchor
    BY <1>2, <1>5, <1>6, <1>7, <1>8
<1> QED BY <1>1, <1>9 DEF c, hs, reset, st

LEMMA RunDomain ==
    ASSUME ClusterInv
    PROVE  /\ DOMAIN segments = 1 .. Len(segments) /\ 1 \in 1 .. Len(segments)
           /\ Len(segments) \in Nat \ {0} /\ Tip \in Nat
<1>1. GoodRun(segments) /\ 1 \in 1 .. Len(segments)
    BY DEF ClusterInv, GoodRun
<1>2. Tip \in Nat
    BY <1>1, RunFacts DEF Tip
<1> QED BY <1>1, <1>2 DEF GoodRun

LEMMA LoadedIsGood ==
    ASSUME Inv, NEW o \in Origins
    PROVE  GoodLoad(LoadedFrom(o), o.step, o.segment)
<1>1. ClusterInv /\ HandoffsInv
    BY DEF Inv
<1>2. DOMAIN segments = 1 .. Len(segments) /\ 1 \in 1 .. Len(segments) /\ Tip \in Nat
    BY <1>1, RunDomain
<1>3. CASE o \in [origin : {"init"}, segment : {1}, step : {0}]
    <2>1. o.origin = "init" /\ o.segment = 1 /\ o.step = 0
        BY <1>3
    <2> DEFINE none == [r \in Ranks |-> << >>]
               l == LoadedFrom(o)
    <2>2. l = [state |-> FreshState, reset |-> FALSE, hashers |-> none,
               stamp |-> NoDigest, grads |-> NoSidecar]
        BY <2>1 DEF LoadedFrom
    <2>3. GoodBoundary(FreshState, 0) /\ FreshState.data = << >>
        BY FreshBoundary DEF FreshState
    <2>4. /\ segments[1].first = 0 /\ segments[1].kind = "init"
          /\ segments[1].trail[0] = FreshState /\ 0 <= Tip
        BY <1>1, <1>2 DEF ClusterInv, GoodRun
    <2>5. none = [r \in Ranks |-> RankShare(FreshState.data, r)]
        <3>1. \A r \in Ranks : RankShare(<< >>, r) = << >>
            BY DEF RankShare
        <3> QED BY <2>3, <3>1
    <2>6. none \in [Ranks -> Seq(Nat)]
        OBVIOUS
    <2>7. Course[0] = FreshState
        BY <2>4 DEF Course
    <2> HIDE DEF none, l
    <2>8. /\ l.state = FreshState /\ l.reset = FALSE /\ l.hashers = none
          /\ l = [state |-> l.state, reset |-> l.reset, hashers |-> l.hashers,
                  stamp |-> l.stamp, grads |-> l.grads]
        BY <2>2
    <2>9. OnCourse(0, l.state.consumed, l.state.pos, l.state.rng, l.state.spike, l.hashers)
        BY <2>4, <2>5, <2>7, <2>8 DEF OnCourse
    <2>10. DescribedBy(1, l.state.anchor, l.reset)
        BY <1>2, <2>4, <2>8 DEF DescribedBy
    <2>11. GoodLoad(l, 0, 1)
        BY <2>3, <2>6, <2>8, <2>9, <2>10 DEF GoodLoad, GoodBoundary
    <2> QED BY <2>1, <2>11 DEF l
<1>4. CASE \E g \in DOMAIN segments :
              o \in [origin : {"cluster"}, segment : {g}, step : Steps(g)]
    <2>1. PICK g \in 1 .. Len(segments) :
             o.origin = "cluster" /\ o.segment = g /\ o.step \in Steps(g)
        BY <1>2, <1>4
    <2> DEFINE s == o.step
               c == Checkpoint(g, s)
    <2>2. /\ segments[g].first \in Nat /\ segments[g].tip \in Nat
          /\ \A k \in segments[g].first .. segments[g].tip :
                GoodBoundary(segments[1].trail[k], k) /\ k \in 0 .. segments[1].tip
        BY <1>1, RunFacts DEF ClusterInv
    <2>3. s \in segments[g].first .. segments[g].tip /\ s \in Nat
        BY <2>1, <2>2 DEF Steps
    <2>4. GoodBoundary(Course[s], s) /\ s <= Tip
        BY <2>2, <2>3 DEF Course, Tip
    <2> DEFINE own == segments[g]
    <2>5. /\ c.reset = (own.kind = "reset")
          /\ c.hashers = [r \in Ranks |-> RankShare(Course[s].data, r)]
          /\ c = [state |-> c.state, reset |-> c.reset, hashers |-> c.hashers,
                  stamp |-> c.stamp, grads |-> c.grads]
          /\ IsState(c.state) /\ c.state.step = s
          /\ c.state.consumed = Course[s].consumed /\ c.state.pos = Course[s].pos
          /\ c.state.rng = Course[s].rng /\ c.state.spike = Course[s].spike
          /\ c.state.anchor = own.trail[own.first].anchor
        <3>1. /\ c.reset = (own.kind = "reset")
              /\ c.hashers = [r \in Ranks |-> RankShare(own.trail[s].data, r)]
              /\ c = [state |-> c.state, reset |-> c.reset, hashers |-> c.hashers,
                      stamp |-> c.stamp, grads |-> c.grads]
            BY <1>1, <2>3, CheckpointFields
        <3>2. /\ IsState(c.state) /\ c.state.step = s
              /\ c.state.consumed = Course[s].consumed /\ c.state.pos = Course[s].pos
              /\ c.state.rng = Course[s].rng /\ c.state.spike = Course[s].spike
              /\ own.trail[s].data = Course[s].data
              /\ c.state.anchor = own.trail[own.first].anchor
            BY <1>1, <2>3, CheckpointFields
        <3> HIDE DEF c, s, own
        <3> QED BY <3>1, <3>2
    <2>6. LoadedFrom(o) = c
        BY <2>1 DEF LoadedFrom
    <2> HIDE DEF c, s
    <2>7. \A r \in Ranks : RankShare(Course[s].data, r) \in Seq(Nat)
        BY <2>4, RanksFacts, ShareFacts DEF GoodBoundary
    <2>8. c.hashers \in [Ranks -> Seq(Nat)]
        BY <2>5, <2>7
    <2>9. OnCourse(s, c.state.consumed, c.state.pos, c.state.rng, c.state.spike, c.hashers)
        BY <2>4, <2>5 DEF OnCourse
    <2>10. DescribedBy(g, c.state.anchor, c.reset)
        BY <2>5 DEF DescribedBy
    <2>11. GoodLoad(c, s, g)
        BY <2>3, <2>4, <2>5, <2>8, <2>9, <2>10 DEF GoodLoad, GoodBoundary
    <2> QED BY <2>1, <2>6, <2>11 DEF s
<1>5. CASE \E s \in DOMAIN handoffs :
              o = [origin |-> "handoff", segment |-> handoffs[s].segment, step |-> s]
    <2>1. PICK s \in DOMAIN handoffs :
             o.origin = "handoff" /\ o.segment = handoffs[s].segment /\ o.step = s
        BY <1>5
    <2>2. GoodFiles(handoffs[s].files, s, handoffs[s].segment)
        BY <1>1 DEF HandoffsInv
    <2>3. LoadedFrom(o) = handoffs[s].files
        BY <2>1 DEF LoadedFrom
    <2> QED BY <2>1, <2>2, <2>3 DEF GoodFiles, GoodLoad
<1> QED BY <1>3, <1>4, <1>5 DEF Origins

\* The overlay replaces the segment's keys and nothing else.
LEMMA OverlaidIsGood ==
    ASSUME Inv, NEW o \in Origins, NEW d \in Descriptors(o)
    PROVE  GoodLoad(Overlaid(LoadedFrom(o), d), o.step, IF d = 0 THEN o.segment ELSE d)
<1> DEFINE l == LoadedFrom(o)
           over == Overlaid(l, d)
<1>1. GoodLoad(l, o.step, o.segment)
    BY LoadedIsGood
<1>2. CASE d = 0
    BY <1>1, <1>2 DEF Overlaid
<1>3. CASE d # 0
    <2>1. ClusterInv /\ d \in 1 .. Len(segments)
        BY <1>3, RunDomain DEF Inv, Descriptors
    <2>2. segments[d].tip \in segments[d].first .. segments[d].tip
        BY <2>1, RunFacts DEF ClusterInv
    <2> DEFINE c == Checkpoint(d, segments[d].tip)
               own == segments[d]
               a == c.state.anchor
               reset == c.reset
    <2>3. a = own.trail[own.first].anchor /\ reset = (own.kind = "reset")
        BY <2>1, <2>2, CheckpointFields
    <2>4. over = [l EXCEPT !.state.anchor = a, !.reset = reset]
        BY <1>3 DEF Overlaid, DescriptorOf
    <2> HIDE DEF l, over, a, reset, c
    <2> DEFINE st == [l.state EXCEPT !.anchor = a]
    <2>5. over = [state |-> st, reset |-> reset, hashers |-> l.hashers,
                  stamp |-> l.stamp, grads |-> l.grads]
        <3>1. l = [state |-> l.state, reset |-> l.reset, hashers |-> l.hashers,
                   stamp |-> l.stamp, grads |-> l.grads]
            BY <1>1 DEF GoodLoad
        <3> QED BY <2>4, <3>1
    <2>6. st = [step |-> l.state.step, consumed |-> l.state.consumed,
                weights |-> l.state.weights, moments |-> l.state.moments,
                lr |-> l.state.lr, rng |-> l.state.rng, pos |-> l.state.pos,
                data |-> l.state.data, chain |-> l.state.chain,
                spike |-> l.state.spike, anchor |-> a]
        BY <1>1 DEF GoodLoad, IsState
    <2> HIDE DEF st
    <2>7. /\ IsState(st) /\ st.step = l.state.step /\ st.consumed = l.state.consumed
          /\ st.pos = l.state.pos /\ st.rng = l.state.rng /\ st.spike = l.state.spike
          /\ st.anchor = a
        BY <2>6 DEF IsState
    <2>8. over.state = st /\ over.reset = reset /\ over.hashers = l.hashers
          /\ over = [state |-> over.state, reset |-> over.reset,
                     hashers |-> over.hashers, stamp |-> over.stamp,
                     grads |-> over.grads]
        BY <2>5
    <2>9. DescribedBy(d, over.state.anchor, over.reset)
        BY <2>1, <2>3, <2>7, <2>8 DEF DescribedBy
    <2>10. GoodLoad(over, o.step, d)
        BY <1>1, <2>7, <2>8, <2>9 DEF GoodLoad
    <2> QED BY <1>3, <2>10 DEF over, l
<1> QED BY <1>2, <1>3

\* The state an audit replays from.
LoadedAs(o, d) == Overlaid(LoadedFrom(o), d)
StartLive(ckpt) == [StartState(ckpt) EXCEPT !.chain = StartChain(ckpt)]

LEMMA StartLiveFields ==
    ASSUME NEW ckpt, NEW s, NEW g, GoodLoad(ckpt, s, g),
           NEW st \in {StartLive(ckpt), [StartLive(ckpt) EXCEPT !.moments = << >>]}
    PROVE  /\ IsState(st) /\ st.step = s /\ st.consumed = ckpt.state.consumed
           /\ st.pos = ckpt.state.pos /\ st.rng = ckpt.state.rng
           /\ st.spike = ckpt.state.spike /\ st.anchor = ckpt.state.anchor
<1> DEFINE f == ckpt.state
           warm == IF ckpt.reset THEN << >> ELSE f.moments
           x == StartLive(ckpt)
<1>1. IsState(f) /\ f.step = s
    BY DEF GoodLoad
<1>2. StartState(ckpt) = [f EXCEPT !.moments = warm] /\ StartChain(ckpt) = f.chain
    BY DEF StartState, StartChain
<1>3. x = [[f EXCEPT !.moments = warm] EXCEPT !.chain = f.chain]
    BY <1>2 DEF StartLive
<1>4. st = x \/ st = [x EXCEPT !.moments = << >>]
    OBVIOUS
<1> HIDE DEF warm, f, x
<1>5. x = [step |-> f.step, consumed |-> f.consumed, weights |-> f.weights,
           moments |-> warm, lr |-> f.lr, rng |-> f.rng, pos |-> f.pos,
           data |-> f.data, chain |-> f.chain, spike |-> f.spike, anchor |-> f.anchor]
    BY <1>1, <1>3 DEF IsState
<1>6. [x EXCEPT !.moments = << >>] =
          [step |-> f.step, consumed |-> f.consumed, weights |-> f.weights,
           moments |-> << >>, lr |-> f.lr, rng |-> f.rng, pos |-> f.pos,
           data |-> f.data, chain |-> f.chain, spike |-> f.spike, anchor |-> f.anchor]
    BY <1>5
<1>7. PICK n : st =
         [step |-> f.step, consumed |-> f.consumed, weights |-> f.weights,
          moments |-> n, lr |-> f.lr, rng |-> f.rng, pos |-> f.pos, data |-> f.data,
          chain |-> f.chain, spike |-> f.spike, anchor |-> f.anchor]
    <2>1. CASE st = x
        BY <1>5, <2>1
    <2>2. CASE st = [x EXCEPT !.moments = << >>]
        <3>1. st = [step |-> f.step, consumed |-> f.consumed, weights |-> f.weights,
                    moments |-> << >>, lr |-> f.lr, rng |-> f.rng, pos |-> f.pos,
                    data |-> f.data, chain |-> f.chain, spike |-> f.spike,
                    anchor |-> f.anchor]
            BY <1>6, <2>2
        <3> QED BY <3>1
    <2> QED BY <1>4, <2>1, <2>2
<1>8. IsState(st) /\ st.step = f.step /\ st.consumed = f.consumed
      /\ st.pos = f.pos /\ st.rng = f.rng /\ st.spike = f.spike /\ st.anchor = f.anchor
    BY <1>7 DEF IsState
<1> QED BY <1>1, <1>8 DEF f

LEMMA StartKeepsInv ==
    ASSUME SpillVerify, Inv, Start
    PROVE  Inv'
<1>1. /\ phase = "idle" /\ left.audits > 0
      /\ left' = [left EXCEPT !.audits = left.audits - 1]
      /\ phase' = (IF args'.until > live'.step THEN "top" ELSE "done")
      /\ UNCHANGED <<cluster, surface, segments, handoffs>>
    BY DEF Start, cluster
<1>2. PICK o \in Origins, spills \in SpillChoices :
         \E d \in Descriptors(o), until \in {0} \cup (1 .. Current.tip + BeyondTheEnd) :
            StartWith(o, d, spills, until)
    BY DEF Start
<1>3. PICK d \in Descriptors(o), until \in {0} \cup (1 .. Current.tip + BeyondTheEnd) :
         StartWith(o, d, spills, until)
    BY <1>2
<1>4. /\ Advances(until, StartLive(LoadedAs(o, d)).step)
      /\ args' = [origin |-> o.origin, segment |-> o.segment, step |-> o.step,
                  desc |-> d, until |-> Target(until, StartLive(LoadedAs(o, d)).step),
                  spills |-> spills, reset |-> LoadedAs(o, d).reset,
                  expect |-> NoDigest]
      /\ hashers' = LoadedAs(o, d).hashers
      /\ live' = (IF "moments" \in spills
                  THEN [StartLive(LoadedAs(o, d)) EXCEPT !.moments = << >>]
                  ELSE StartLive(LoadedAs(o, d)))
      /\ store' = (IF "moments" \in spills
                   THEN Saved(EmptyStore, Moments, StartLive(LoadedAs(o, d)).moments)
                   ELSE EmptyStore)
      /\ Fresh(StartLive(LoadedAs(o, d)), spills)
    BY <1>3 DEF StartWith, LoadedAs, StartLive
<1> DEFINE ckpt == LoadedAs(o, d)
           st == StartLive(ckpt)
           g == IF d = 0 THEN o.segment ELSE d
           goal == Target(until, o.step)
<1>5. GoodLoad(ckpt, o.step, g)
    BY OverlaidIsGood DEF LoadedAs
<1>6. /\ IsState(live') /\ live'.step = o.step /\ live'.consumed = ckpt.state.consumed
      /\ live'.pos = ckpt.state.pos /\ live'.rng = ckpt.state.rng
      /\ live'.spike = ckpt.state.spike /\ live'.anchor = ckpt.state.anchor
    <2>1. live' \in {StartLive(ckpt), [StartLive(ckpt) EXCEPT !.moments = << >>]}
        BY <1>4
    <2> HIDE DEF ckpt
    <2> QED BY <1>5, <2>1, StartLiveFields
<1>7. /\ st.step = o.step /\ st.consumed = ckpt.state.consumed
      /\ st.pos = ckpt.state.pos
    <2>1. st \in {StartLive(ckpt), [StartLive(ckpt) EXCEPT !.moments = << >>]}
        OBVIOUS
    <2> HIDE DEF st, ckpt
    <2> QED BY <1>5, <2>1, StartLiveFields
<1>8. /\ o.step \in Nat /\ ckpt.state.consumed \in Nat /\ ckpt.state.pos \in Nat
      /\ ckpt.hashers \in [Ranks -> Seq(Nat)]
      /\ OnCourse(o.step, ckpt.state.consumed, ckpt.state.pos, ckpt.state.rng,
                  ckpt.state.spike, ckpt.hashers)
      /\ DescribedBy(g, ckpt.state.anchor, ckpt.reset)
    BY <1>5 DEF GoodLoad
<1>9. /\ args' = [origin |-> o.origin, segment |-> o.segment, step |-> o.step,
                  desc |-> d, until |-> goal, spills |-> spills,
                  reset |-> ckpt.reset, expect |-> NoDigest]
      /\ goal > o.step /\ hashers' = ckpt.hashers
      /\ views' = [r \in Ranks |-> [pos |-> ckpt.state.pos,
                                    clock |-> ckpt.state.consumed]]
      /\ rank' = 0 /\ stack' = << >> /\ target' = NoDigest
    BY <1>4, <1>7 DEF Advances, Fresh
<1>10. store' = (IF "moments" \in spills THEN Saved(EmptyStore, Moments, st.moments)
                                       ELSE EmptyStore)
    BY <1>4
<1>11. goal \in Nat
    <2>1. Current.tip \in Nat
        <3>1. GoodRun(segments) /\ Len(segments) \in 1 .. Len(segments)
            BY DEF Inv, ClusterInv, GoodRun
        <3> QED BY <3>1, RunFacts DEF Current
    <2>2. until \in Nat
        BY <1>4, <2>1 DEF BeyondTheEnd
    <2> QED BY <1>8, <2>2, AuditReplayAssumption DEF Target
<1> HIDE DEF ckpt, st, g, goal
<1>12. /\ args'.until = goal /\ args'.step = o.step /\ args'.reset = ckpt.reset
       /\ args'.spills = spills /\ args'.desc = d /\ args'.segment = o.segment
    BY <1>9
<1>13. phase' = "top"
    BY <1>1, <1>6, <1>9, <1>12
<1>14. phase' \in Active /\ phase' \notin Replaying
    BY <1>13 DEF Active, Replaying
<1>15. ClusterInv' /\ HandoffsInv'
    BY <1>1, RunStays DEF Inv
<1>16. LeftInv'
    <2>1. left \in [audits : 0 .. MaxAudits, faults : 0 .. MaxFaults]
          /\ MaxAudits \in Nat /\ MaxFaults \in Nat
        BY AuditReplayAssumption DEF Inv, LeftInv
    <2>2. /\ left' \in [audits : 0 .. MaxAudits, faults : 0 .. MaxFaults]
          /\ left'.audits # MaxAudits
        BY <1>1, <2>1
    <2> QED BY <2>2 DEF LeftInv
<1>17. TypeInv'
    <2>1. rank' \in 0 .. World
        BY <1>9, RanksFacts
    <2>2. views' \in [Ranks -> [pos : Nat, clock : Nat]]
        BY <1>8, <1>9
    <2> QED BY <1>6, <1>8, <1>9, <2>1, <2>2 DEF TypeInv
<1>18. ArgsInv'
    <2>1. Audited' = g
        BY <1>12 DEF Audited, g
    <2>2. DescribedBy(Audited, live.anchor, args.reset)'
        BY <1>1, <1>6, <1>8, <1>12, <2>1 DEF DescribedBy
    <2>3. args' = [origin |-> args'.origin, segment |-> args'.segment,
                   step |-> args'.step, desc |-> args'.desc, until |-> args'.until,
                   spills |-> args'.spills, reset |-> args'.reset,
                   expect |-> args'.expect]
        BY <1>9
    <2> QED BY <1>6, <1>8, <1>9, <1>11, <1>12, <2>2, <2>3 DEF ArgsInv
<1>19. StoreInv'
    <2>1. GoodStore(EmptyStore) /\ DOMAIN EmptyStore = {}
        BY DEF GoodStore, EmptyStore
    <2>2. GoodStore(store') /\ ("moments" \in spills => Moments \in DOMAIN store')
        <3> DEFINE new == Saved(EmptyStore, Moments, st.moments)
        <3>1. GoodStore(new) /\ DOMAIN new = DOMAIN EmptyStore \cup {Moments}
            BY <2>1, SavedFacts
        <3>2. store' = IF "moments" \in spills THEN new ELSE EmptyStore
            BY <1>10
        <3> HIDE DEF new
        <3> QED BY <2>1, <3>1, <3>2
    <2>3. /\ Len(stack') \in Nat /\ stack' = [i \in 1 .. Len(stack') |-> stack'[i]]
          /\ \A i \in 1 .. Len(stack') : stack'[i].file # Moments
        BY <1>9
    <2>4. Spills("moments")' = ("moments" \in spills) /\ Moments' = Moments
        BY <1>12 DEF Spills, Moments
    <2> QED BY <2>2, <2>3, <2>4 DEF StoreInv
<1>20. StepInv' /\ StagedInv' /\ VerdictInv'
    BY <1>13, <1>14 DEF StepInv, StagedInv, VerdictInv, Replaying
<1>21. Tip' = Tip /\ Course' = Course /\ Here' = Course[o.step] /\ Tip \in Nat
    BY <1>1, <1>6, RunDomain DEF Here, Tip, Course, Inv
<1>22. CourseInv'
    <2>1. SUFFICES ASSUME o.step <= Tip
                   PROVE  /\ live'.consumed = Here'.consumed /\ live'.spike = Here'.spike
                          /\ live'.rng = Here'.rng
                          /\ \A r \in Ranks : Waiting(r)'
        BY <1>6, <1>13, <1>21 DEF CourseInv, Stands
    <2>2. /\ ckpt.state.consumed = Course[o.step].consumed
          /\ ckpt.state.pos = Course[o.step].pos
          /\ ckpt.state.rng = Course[o.step].rng
          /\ ckpt.state.spike = Course[o.step].spike
          /\ ckpt.hashers = [r \in Ranks |-> RankShare(Course[o.step].data, r)]
        BY <1>8, <2>1 DEF OnCourse
    <2>3. \A r \in Ranks : Waiting(r)'
        BY <1>9, <1>21, <2>2 DEF Waiting
    <2> QED BY <1>6, <1>21, <2>2, <2>3
<1>23. BeyondInv'
    <2>1. SUFFICES ASSUME o.step > Tip PROVE Len(hashers'[0]) > Len(Course[Tip].data)
        BY <1>6, <1>21 DEF BeyondInv
    <2>2. ~(o.step <= Tip)
        BY <1>8, <1>21, <2>1
    <2> QED BY <1>8, <1>9, <2>2 DEF OnCourse
<1>24. TargetInv'
    BY <1>9, <1>13 DEF TargetInv
<1> QED BY <1>15, <1>16, <1>17, <1>18, <1>19, <1>20, <1>22, <1>23, <1>24
       DEF Inv, AuditInv

-----------------------------------------------------------------------------
LEMMA InitIsInv == Init => Inv
<1> SUFFICES ASSUME Init PROVE Inv
    OBVIOUS
<1>1. ClusterInv
    BY ClusterInitInv DEF Init
<1>2. phase = "idle" /\ DOMAIN handoffs = {}
      /\ left = [audits |-> MaxAudits, faults |-> MaxFaults]
    BY DEF Init
<1>3. LeftInv /\ HandoffsInv
    BY <1>2, AuditReplayAssumption DEF LeftInv, HandoffsInv
<1>4. AuditInv
    BY <1>2 DEF AuditInv, TypeInv, ArgsInv, StoreInv, StepInv, CourseInv, BeyondInv,
                TargetInv, StagedInv, VerdictInv, Active, Replaying
<1> QED BY <1>1, <1>3, <1>4 DEF Inv

LEMMA NextKeepsInv ==
    ASSUME SpillVerify, Inv, [Next]_vars
    PROVE  Inv'
<1>1. CASE Next
    BY <1>1, TrainKeepsInv, StartKeepsInv, EndingKeepsInv, BeginStepKeepsInv,
       RunRankKeepsInv, FoldKeepsInv, UpdateKeepsInv, HashStepKeepsInv,
       EndStepKeepsInv, JudgeKeepsInv, StageSidecarKeepsInv,
       StageCheckpointKeepsInv, PublishKeepsInv, BytesLostKeepsInv
       DEF Next, Replay, HandOff
<1>2. CASE UNCHANGED vars
    BY <1>2, StutterKeepsInv
<1> QED BY <1>1, <1>2

\* Every state an audit can reach, whatever was spilled, lost or killed on the
\* way, satisfies the invariant: hand-offs are loadable and on the run's
\* course, the target digest is of the state the audit stands at.
THEOREM InvHolds == ASSUME SpillVerify PROVE Spec => []Inv
<1>1. Init => Inv
    BY InitIsInv
<1>2. Inv /\ [Next]_vars => Inv'
    BY NextKeepsInv
<1> QED BY <1>1, <1>2, PTL DEF Spec

-----------------------------------------------------------------------------
(* What the properties need of a published digest *)

LEMMA CanonicalIs ==
    ASSUME ClusterInv, NEW g \in DOMAIN segments, NEW s \in Steps(g)
    PROVE  /\ Canonical(g, s) =
                 [link |-> "digest", prev |-> segments[g].trail[s - 1].chain,
                  weights |-> segments[g].trail[s].weights,
                  moments |-> segments[g].trail[s].moments,
                  lr |-> segments[g].trail[s].lr, grads |-> StepGrads(g, s),
                  data |-> segments[g].trail[s].data]
           /\ segments[g].trail[s].chain =
                 IF HashDue(s) THEN Canonical(g, s) ELSE segments[g].trail[s - 1].chain
           /\ StepGrads(g, s) # NoSidecar
           /\ g \in 1 .. Len(segments) /\ s \in segments[g].first .. segments[g].tip
           /\ s \in 0 .. Tip /\ Tip \in Nat
           /\ segments[g].trail[s].data = Course[s].data
           /\ Course[s].data \in Seq(Nat)
           /\ \/ segments[g].trail[s - 1].chain = NoLink
              \/ segments[g].trail[s - 1].chain.link = "digest"
<1>1. g \in 1 .. Len(segments) /\ Tip \in Nat
    BY RunDomain
<1>2. GoodRun(segments)
    BY DEF ClusterInv
<1> DEFINE seg == segments[g]
<1>3. /\ seg.first \in Nat /\ seg.tip \in Nat
      /\ \A k \in seg.first .. seg.tip :
            /\ GoodBoundary(seg.trail[k], k) /\ SameCourse(seg.trail[k], Course[k])
            /\ k \in 0 .. Tip
    BY <1>1, <1>2, RunFacts DEF Course, Tip
<1>4. /\ s \in seg.first .. seg.tip /\ s - 1 \in seg.first .. seg.tip
      /\ s \in (seg.first + 1) .. seg.tip /\ s - 1 \in Nat /\ (s - 1) + 1 = s
    BY <1>3 DEF Steps
<1> DEFINE st == seg.trail[s - 1]
           class == GradClass(st)
           b == BeforeHash(st, class)
           new == StepBatches(st.pos, st.consumed)
           t == seg.trail[s]
           d == DigestAfter(st, class)
<1>5. GoodBoundary(st, s - 1) /\ Trains(st) /\ t = After(st, class)
    BY <1>1, <1>2, <1>3, <1>4 DEF GoodRun, GoodSegment
<1>6. Canonical(g, s) = d /\ StepGrads(g, s) = new
    BY DEF Canonical, StepGrads
<1>7. st.pos \in Nat /\ (st.chain = NoLink \/ st.chain.link = "digest")
    BY <1>5 DEF GoodBoundary
<1>8. new # << >>
    BY <1>5, <1>7, BatchesType DEF Trains
<1>9. d = [link |-> "digest", prev |-> b.chain, weights |-> b.weights,
           moments |-> b.moments, lr |-> b.lr, grads |-> new, data |-> b.data]
    BY DEF DigestAfter, StepDigest
<1>10. b.chain = st.chain
    BY <1>4, <1>5, BeforeHashFields, HashesOn
<1>11. /\ t.weights = b.weights /\ t.moments = b.moments /\ t.lr = b.lr
       /\ t.data = b.data /\ t.chain = IF HashDue(s) THEN d ELSE st.chain
    <2> HIDE DEF b, st, class, d
    <2>1. /\ After(st, class).weights = BeforeHash(st, class).weights
          /\ After(st, class).moments = BeforeHash(st, class).moments
          /\ After(st, class).lr = BeforeHash(st, class).lr
          /\ After(st, class).data = BeforeHash(st, class).data
          /\ After(st, class).chain = IF HashDue((s - 1) + 1) THEN DigestAfter(st, class)
                                                              ELSE st.chain
        BY <1>4, <1>5, AfterFields, HashesOn
    <2> QED BY <1>4, <1>5, <2>1 DEF b, d
<1>12. t.data = Course[s].data /\ t.data \in Seq(Nat) /\ s \in 0 .. Tip
    BY <1>3, <1>4 DEF SameCourse, GoodBoundary
<1> HIDE DEF st, class, b, new, t, d
<1>13. d = [link |-> "digest", prev |-> st.chain, weights |-> t.weights,
            moments |-> t.moments, lr |-> t.lr, grads |-> new, data |-> t.data]
    BY <1>9, <1>10, <1>11
<1> QED BY <1>1, <1>4, <1>6, <1>7, <1>8, <1>11, <1>12, <1>13 DEF st, t, NoSidecar

\* Chains that combine to rounds of the run are each rank's share of them.
LEMMA RoundsAreShared ==
    ASSUME NEW perRank, NEW data \in Seq(Nat), RoundsOf(perRank) = data
    PROVE  perRank[0] = data /\ \A r \in Ranks : perRank[r] = RankShare(data, r)
<1>1. Scrambled \notin Seq(Nat)
    <2>1. Len(Scrambled) = 1 /\ Scrambled[1] = -1 /\ -1 \notin Nat
        BY DEF Scrambled
    <2>2. \A q \in Seq(Nat) : \A i \in 1 .. Len(q) : q[i] \in Nat
        OBVIOUS
    <2>3. ASSUME Scrambled \in Seq(Nat) PROVE Scrambled[1] \in Nat
        <3>1. 1 \in 1 .. Len(Scrambled)
            BY <2>1
        <3> QED BY <2>2, <2>3, <3>1
    <2> QED BY <2>1, <2>3
<1> QED BY <1>1 DEF RoundsOf

\* A matched hand-off, part by part.
LEMMA MatchedParts ==
    ASSUME Inv, NEW s \in DOMAIN handoffs, NEW g \in DOMAIN segments, s \in Steps(g),
           handoffs[s].files.stamp = Canonical(g, s)
    PROVE  /\ handoffs[s].files.state.weights = segments[g].trail[s].weights
           /\ handoffs[s].files.state.moments = segments[g].trail[s].moments
           /\ handoffs[s].files.state.lr = segments[g].trail[s].lr
           /\ handoffs[s].files.state.chain = segments[g].trail[s].chain
           /\ handoffs[s].files.grads = StepGrads(g, s)
           /\ RoundsOf(handoffs[s].files.hashers) = segments[g].trail[s].data
           /\ handoffs[s].files.stamp.prev = segments[g].trail[s - 1].chain
<1> DEFINE files == handoffs[s].files
           st == files.state
           d == files.stamp
           own == segments[g].trail[s]
           before == segments[g].trail[s - 1]
           new == StepGrads(g, s)
           canon == Canonical(g, s)
<1>1. GoodFiles(files, s, handoffs[s].segment) /\ ClusterInv
    BY DEF Inv, HandoffsInv
<1>2. d = [link |-> "digest", prev |-> d.prev, weights |-> st.weights,
           moments |-> st.moments, lr |-> st.lr, grads |-> files.grads,
           data |-> RoundsOf(files.hashers)]
    BY <1>1 DEF GoodFiles, DigestOf
<1>3. st.chain = IF HashDue(s) THEN d ELSE d.prev
    BY <1>1 DEF GoodFiles, ChainsTo
<1>4. /\ canon = [link |-> "digest", prev |-> before.chain, weights |-> own.weights,
                  moments |-> own.moments, lr |-> own.lr, grads |-> new,
                  data |-> own.data]
      /\ own.chain = IF HashDue(s) THEN canon ELSE before.chain
    BY <1>1, CanonicalIs
<1>5. d = canon
    OBVIOUS
<1> HIDE DEF d, st, own, before, new, canon, files
<1>6. d.prev = before.chain /\ st.weights = own.weights /\ st.moments = own.moments
      /\ st.lr = own.lr /\ files.grads = new /\ RoundsOf(files.hashers) = own.data
    BY <1>2, <1>4, <1>5
<1>7. st.chain = own.chain
    BY <1>3, <1>4, <1>5, <1>6
<1> QED BY <1>6, <1>7 DEF d, st, own, before, new, files

LEMMA InvHandoffVerifies == Inv => HandoffVerifies
<1> SUFFICES ASSUME Inv, NEW s \in DOMAIN handoffs, NEW g \in DOMAIN segments,
                    s \in Steps(g)
             PROVE  LET files == handoffs[s].files
                        prev == segments[g].trail[s - 1].chain
                        result == Gate(files, Canonical(g, s), prev)
                    IN  /\ result = "verified" =>
                              /\ HashedParts(files) = HashedParts(Checkpoint(g, s))
                              /\ files.grads = StepGrads(g, s)
                        /\ Matched(s) /\ g = handoffs[s].segment /\ HashDue(s)
                              /\ prev # NoLink => result = "verified"
    BY DEF HandoffVerifies
<1> DEFINE files == handoffs[s].files
           st == files.state
           prev == segments[g].trail[s - 1].chain
           canon == Canonical(g, s)
           own == segments[g].trail[s]
           new == StepGrads(g, s)
           c == Checkpoint(g, s)
           rebuilt == Reconstructed(files, prev)
<1>1. GoodFiles(files, s, handoffs[s].segment) /\ ClusterInv
    BY DEF Inv, HandoffsInv
<1>2. /\ canon = [link |-> "digest", prev |-> prev, weights |-> own.weights,
                  moments |-> own.moments, lr |-> own.lr, grads |-> new,
                  data |-> own.data]
      /\ new # NoSidecar /\ s \in 0 .. Tip
      /\ g \in 1 .. Len(segments) /\ s \in segments[g].first .. segments[g].tip
      /\ own.data = Course[s].data
      /\ (prev = NoLink \/ prev.link = "digest")
    BY <1>1, CanonicalIs
<1>3. /\ c.hashers = [r \in Ranks |-> RankShare(own.data, r)]
      /\ c.state.weights = own.weights /\ c.state.moments = own.moments
      /\ c.state.lr = own.lr
    BY <1>1, <1>2, CheckpointFields
<1>4. /\ IsState(st) /\ st.step = s
      /\ files.hashers = [r \in Ranks |-> RankShare(Course[s].data, r)]
      /\ ChainsTo(files.stamp, st.chain, s)
    BY <1>1, <1>2 DEF GoodFiles, OnCourse
<1>5. rebuilt = [link |-> "digest", prev |-> prev, weights |-> st.weights,
                 moments |-> st.moments, lr |-> st.lr, grads |-> files.grads,
                 data |-> RoundsOf(files.hashers)]
    <2> DEFINE chained == [st EXCEPT !.chain = prev, !.data = RoundsOf(files.hashers)]
    <2>1. rebuilt = StepDigest(chained, files.grads)
        BY DEF Reconstructed
    <2> HIDE DEF rebuilt, prev, st
    <2>2. /\ chained.chain = prev /\ chained.weights = st.weights
          /\ chained.moments = st.moments /\ chained.lr = st.lr
          /\ chained.data = RoundsOf(files.hashers)
        BY <1>4 DEF IsState
    <2> HIDE DEF chained, files
    <2> QED BY <2>1, <2>2 DEF StepDigest
<1>6. ASSUME Gate(files, canon, prev) = "verified"
      PROVE  HashedParts(files) = HashedParts(c) /\ files.grads = new
    <2>1. rebuilt = canon
        BY <1>6 DEF Gate
    <2> HIDE DEF rebuilt, canon, files, own, new, c, st, prev
    <2>2. st.weights = own.weights /\ st.moments = own.moments /\ st.lr = own.lr
          /\ files.grads = new
        BY <1>2, <1>5, <2>1
    <2>3. files.hashers = c.hashers
        BY <1>2, <1>3, <1>4
    <2> QED BY <1>3, <2>2, <2>3 DEF HashedParts, st
<1>7. ASSUME Matched(s), g = handoffs[s].segment, HashDue(s), prev # NoLink
      PROVE  Gate(files, canon, prev) = "verified"
    <2>1. files.stamp = canon
        BY <1>7 DEF Matched
    <2>2. /\ st.weights = own.weights /\ st.moments = own.moments /\ st.lr = own.lr
          /\ files.grads = new /\ RoundsOf(files.hashers) = own.data
        BY <2>1, MatchedParts
    <2> HIDE DEF rebuilt, canon, files, own, new, c, prev
    <2>3. rebuilt = canon
        BY <1>2, <1>5, <2>2
    <2>4. st.chain = canon
        BY <1>4, <1>7, <2>1 DEF ChainsTo
    <2>5. Plain(files, canon)
        BY <1>4, <1>7, <2>1, <2>4 DEF Plain
    <2>6. Literal(canon) /\ Literal(prev)
        BY <1>2, <1>7 DEF Literal
    <2> QED BY <1>2, <2>2, <2>3, <2>5, <2>6 DEF Gate, rebuilt
<1> QED BY <1>6, <1>7

LEMMA InvMatchedHandoff == Inv => MatchedHandoffIsTheCheckpoint
<1> SUFFICES ASSUME Inv, NEW s \in DOMAIN handoffs, Matched(s)
             PROVE  handoffs[s].files =
                       [Checkpoint(handoffs[s].segment, s) EXCEPT
                           !.grads = StepGrads(handoffs[s].segment, s)]
    BY DEF MatchedHandoffIsTheCheckpoint
<1> DEFINE files == handoffs[s].files
           g == handoffs[s].segment
           st == files.state
           c == Checkpoint(g, s)
           cs == c.state
           own == segments[g].trail[s]
           new == StepGrads(g, s)
<1>1. GoodFiles(files, s, g) /\ ClusterInv
    BY DEF Inv, HandoffsInv
<1>2. g \in DOMAIN segments /\ s \in Steps(g) /\ files.stamp = Canonical(g, s)
    BY <1>1, RunDomain DEF Matched, GoodFiles, DescribedBy
<1>3. /\ g \in 1 .. Len(segments) /\ s \in segments[g].first .. segments[g].tip
      /\ s \in 0 .. Tip /\ own.data = Course[s].data
    BY <1>1, <1>2, CanonicalIs
<1>4. /\ st.weights = own.weights /\ st.moments = own.moments /\ st.lr = own.lr
      /\ st.chain = own.chain /\ files.grads = new
    BY <1>2, MatchedParts
<1> DEFINE seg == segments[g]
           canon == Canonical(g, s)
<1>5. /\ c.reset = (seg.kind = "reset")
      /\ c.hashers = [r \in Ranks |-> RankShare(own.data, r)]
      /\ c.stamp = canon
      /\ c = [state |-> cs, reset |-> c.reset, hashers |-> c.hashers,
              stamp |-> c.stamp, grads |-> c.grads]
    BY <1>1, <1>3, CheckpointFields
<1>6. /\ IsState(cs) /\ cs.data = << >> /\ cs.step = s
      /\ cs.consumed = Course[s].consumed /\ cs.pos = Course[s].pos
      /\ cs.rng = Course[s].rng /\ cs.spike = Course[s].spike
      /\ cs.weights = own.weights /\ cs.moments = own.moments /\ cs.lr = own.lr
      /\ cs.chain = own.chain /\ cs.anchor = seg.trail[seg.first].anchor
    BY <1>1, <1>3, CheckpointFields
<1>7. /\ files = [state |-> st, reset |-> files.reset, hashers |-> files.hashers,
                  stamp |-> files.stamp, grads |-> files.grads]
      /\ IsState(st) /\ st.step = s /\ st.data = << >>
      /\ st.consumed = Course[s].consumed /\ st.pos = Course[s].pos
      /\ st.rng = Course[s].rng /\ st.spike = Course[s].spike
      /\ files.hashers = [r \in Ranks |-> RankShare(Course[s].data, r)]
      /\ st.anchor = seg.trail[seg.first].anchor
      /\ files.reset = (seg.kind = "reset")
    BY <1>1, <1>3 DEF GoodFiles, OnCourse, DescribedBy
<1> HIDE DEF files, g, st, c, cs, own, new, seg, canon
<1>8. st = cs
    BY <1>4, <1>6, <1>7 DEF IsState
<1>9. files.hashers = c.hashers /\ files.reset = c.reset /\ files.stamp = c.stamp
    BY <1>2, <1>3, <1>5, <1>7 DEF canon
<1>10. [c EXCEPT !.grads = new] = [state |-> cs, reset |-> c.reset,
                                   hashers |-> c.hashers, stamp |-> c.stamp,
                                   grads |-> new]
    BY <1>5
<1>11. files = [c EXCEPT !.grads = new]
    BY <1>4, <1>7, <1>8, <1>9, <1>10
<1> QED BY <1>11 DEF files, c, g, new

LEMMA InvMatchIsEarned == Inv => MatchIsEarned
<1> SUFFICES ASSUME Inv, phase = "judged", verdict = "match"
             PROVE  IF target = NoDigest THEN halted
                    ELSE /\ live.step = args.until /\ live.step > args.step
                         /\ \E g \in DOMAIN segments :
                               /\ live.step \in Steps(g)
                               /\ args.expect = Canonical(g, live.step)
                               /\ segments[g].trail[live.step].weights = live.weights
                               /\ segments[g].trail[live.step].moments = live.moments
                               /\ segments[g].trail[live.step].data = RoundsOf(hashers)
    BY DEF MatchIsEarned
<1>1. phase \in Active /\ phase \notin Replaying /\ ClusterInv
      /\ TypeInv /\ ArgsInv /\ CourseInv /\ BeyondInv /\ TargetInv /\ VerdictInv
    BY DEF Active, Replaying, Inv, AuditInv
<1>2. CASE target = NoDigest
    BY <1>1, <1>2 DEF TargetInv
<1>3. CASE target # NoDigest
    <2>1. /\ DigestOf(target, live.weights, live.moments, live.lr, Held, hashers)
          /\ live.step = args.until
        BY <1>1, <1>3 DEF TargetInv, Resident, AtStep
    <2>2. /\ args.step \in Nat /\ args.until \in Nat /\ args.step < args.until
          /\ live.step \in Nat
        BY <1>1 DEF ArgsInv, TypeInv
    <2>3. live.step > args.step
        BY <2>1, <2>2
    <2>4. args.expect = target /\ target \in Published
        BY <1>1, <1>3 DEF VerdictInv
    <2>0. PICK g \in DOMAIN segments : target \in {Canonical(g, s) : s \in Steps(g)}
        BY <2>4 DEF Published
    <2>5. PICK s \in Steps(g) : target = Canonical(g, s)
        BY <2>0
    <2> DEFINE own == segments[g].trail[s]
               canon == Canonical(g, s)
               data == Course[s].data
    <2>6. /\ canon = [link |-> "digest", prev |-> segments[g].trail[s - 1].chain,
                      weights |-> own.weights, moments |-> own.moments,
                      lr |-> own.lr, grads |-> StepGrads(g, s), data |-> own.data]
          /\ s \in 0 .. Tip /\ Tip \in Nat
          /\ own.data = data /\ data \in Seq(Nat)
        BY <1>1, CanonicalIs
    <2>7. /\ own.weights = live.weights /\ own.moments = live.moments
          /\ own.data = RoundsOf(hashers)
        <3>1. target = canon
            BY <2>5
        <3> HIDE DEF canon, own, data
        <3> QED BY <2>1, <2>6, <3>1 DEF DigestOf
    <2>8. hashers[0] = data
        BY <2>6, <2>7, RoundsAreShared
    <2>9. \A k, m \in 0 .. Tip : k < m => Len(Course[k].data) < Len(Course[m].data)
        BY <1>1 DEF ClusterInv, GoodRun, Course, Tip
    <2>10. \A k \in 0 .. Tip : Len(Course[k].data) \in Nat
        <3>1. \A k \in 0 .. Tip : Course[k].data \in Seq(Nat)
            <4>1. GoodRun(segments) /\ 1 \in 1 .. Len(segments) /\ segments[1].first = 0
                BY <1>1, RunDomain DEF ClusterInv, GoodRun
            <4>2. \A k \in 0 .. Tip : GoodBoundary(Course[k], k)
                BY <4>1, RunFacts DEF Course, Tip
            <4> QED BY <4>2 DEF GoodBoundary
        <3> QED BY <3>1
    <2>11. live.step <= Tip
        <3> SUFFICES ASSUME live.step > Tip PROVE FALSE
            BY <2>2, <2>6
        <3>1. Len(hashers[0]) > Len(Course[Tip].data)
            BY <1>1 DEF BeyondInv
        <3>2. Tip \in 0 .. Tip /\ s <= Tip
            BY <2>6
        <3>3. Len(Course[s].data) <= Len(Course[Tip].data)
            BY <2>6, <2>9, <2>10, <3>2
        <3> QED BY <2>6, <2>8, <2>10, <3>1, <3>2, <3>3
    <2>12. hashers[0] = Course[live.step].data
        <3>1. Stands(0)
            BY <1>1, <2>11, RanksFacts DEF CourseInv
        <3>2. hashers[0] = RankShare(Here.data, 0)
            BY <1>1, <3>1 DEF Stands
        <3>3. Here.data \in Seq(Nat)
            BY <1>1, <2>11, HereIsGood
        <3> QED BY <3>2, <3>3, ShareFacts DEF Here
    <2>13. live.step = s
        <3>1. live.step \in 0 .. Tip
            BY <2>2, <2>6, <2>11
        <3>2. Course[live.step].data = Course[s].data
            BY <2>8, <2>12
        <3> DEFINE L(k) == Len(Course[k].data)
        <3>3. /\ \A k, m \in 0 .. Tip : k < m => L(k) < L(m)
              /\ \A k \in 0 .. Tip : L(k) \in Nat
              /\ L(live.step) = L(s)
            BY <2>9, <2>10, <3>2
        <3> HIDE DEF L
        <3>4. ~(live.step < s) /\ ~(s < live.step)
            BY <2>6, <3>1, <3>3
        <3> QED BY <2>6, <3>1, <3>4
    <2> QED BY <1>3, <2>1, <2>3, <2>4, <2>5, <2>7, <2>13
<1> QED BY <1>2, <1>3

-----------------------------------------------------------------------------
\* The gate passes no hand-off whose weights, moments, learning rate, batch
\* chains or gradients differ from the cluster's, and refuses none of the
\* matched ones it can check.
THEOREM GateIsExact == ASSUME SpillVerify PROVE Spec => []HandoffVerifies
BY InvHolds, InvHandoffVerifies, PTL

\* A hand-off with the published digest is the cluster's checkpoint of its
\* step in every file a later audit loads, those no digest covers included:
\* phase-two audits start from either alike.
THEOREM HandoffsAreCheckpoints ==
    ASSUME SpillVerify PROVE Spec => []MatchedHandoffIsTheCheckpoint
BY InvHolds, InvMatchedHandoff, PTL

\* No audit reports a match it did not replay: it stands at the step whose
\* digest it was given, past its start, with that step's weights, moments and
\* batch chains; or the spike protocol stopped it first.
THEOREM MatchesAreEarned == ASSUME SpillVerify PROVE Spec => []MatchIsEarned
BY InvHolds, InvMatchIsEarned, PTL

=============================================================================
