----------------------------- MODULE RankViewsMC -----------------------------
(***************************************************************************)
(* Properties of RankViews and a small corpus to stream with TLC: two      *)
(* sources, one of which starts over several times.                        *)
(***************************************************************************)
EXTENDS RankViews, FiniteSets

MCShards(s) == IF s = "a" THEN <<<<1, 4>>, <<2>>>> ELSE <<<<3>>>>
MCShardOrder(s, e) == IF s = "b" THEN <<1>> ELSE IF e % 2 = 0 THEN <<2, 1>> ELSE <<1, 2>>
MCDocOrder(s, e, k) ==
    IF s = "a" /\ k = 1 THEN (IF e = 1 THEN <<1, 2>> ELSE <<2, 1>>) ELSE <<1>>
MCDraw(n) == IF n % 3 = 0 THEN "b" ELSE "a"

\* Windows in MaxSteps steps at most, and the refills they can need.
Windows == MaxSteps * (LateBatch \div SeqLen)
Draws == (Windows * Target) \div 2

-----------------------------------------------------------------------------
\* The stream written down without walkers: the n-th draw takes the next
\* document of its source's epochs laid end to end.
Drawn == [n \in 1 .. Draws |-> Draw(n)]
Before == [n \in 1 .. Draws |-> Cardinality({k \in 1 .. n - 1 : Drawn[k] = Drawn[n]})]
Document(n) ==
    LET size == Len(GlobalPerm(Drawn[n], 0))
    IN  GlobalPerm(Drawn[n], Before[n] \div size)[(Before[n] % size) + 1]
AllTokens == FlattenSeq([n \in 1 .. Draws |->
                TokensOf(Document(n), 0, Length(Document(n))) \o <<Eos>>])
CanonicalWindow == [i \in 0 .. Windows |->
                        SubSeq(AllTokens, i * Target + 1, (i + 1) * Target)]

\* "Any topology slices this one stream deterministically": whatever the world
\* sizes, checkpoints and restarts, the micro-batches trained so far are, in
\* order, the windows of the one stream.
TrainedIsTheStream ==
    LET windows == FlattenSeq(FlattenSeq(trained))
    IN  \A i \in DOMAIN windows : windows[i] = CanonicalWindow[i - 1]

\* "The single global window stream is identical to GlobalStream": rank 0's
\* view takes the steps of that class, whoever owns the windows.
Canonical == INSTANCE GlobalStream WITH
    walkers <- view[0].walkers, drawn <- view[0].drawn, buf <- Buffer(view[0]),
    emitted <- view[0].emitted, window <- last[0], saved <- saved.stream
ImplementsGlobalStream == Canonical!Spec
=============================================================================
