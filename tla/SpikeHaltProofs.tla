--------------------------- MODULE SpikeHaltProofs ---------------------------
(***************************************************************************)
(* Proofs about SpikeHalt, for every halt count, window, cooldown length   *)
(* and warm-up, and every sequence of gradients.                           *)
(***************************************************************************)
EXTENDS SpikeHalt, FiniteSetTheorems, TLAPS

\* SpikeProtocol.__init__ leaves no cooldown shorter than one step.
LEMMA SkipStepsType == SkipSteps \in Nat \ {0}
BY SpikeConfigAssumption DEF SkipSteps

LEMMA InitCooldownInv ==
    ASSUME Init
    PROVE  CooldownInv
BY DEF Init, SpikeInit, CooldownInv, CooldownIsServed, FreshEventsAreSpaced

\* A step whose gradient reaches the weights.
LEMMA UpdateKeepsCooldownInv ==
    ASSUME CooldownInv, NEW class, TakeStep(class), ~ShouldSkip(spike, class, step)
    PROVE  CooldownInv'
<1>1. /\ ~spike.halted /\ spike' = spike /\ fresh' = fresh
      /\ updated' = updated \cup {step} /\ step' = step + 1
    BY DEF TakeStep, AfterGate, RaisesHalt
<1>2. spike.cooldown = 0
    BY DEF ShouldSkip, CooldownInv
<1>3. SkipSteps \in Nat
    BY SpikeConfigAssumption, SkipStepsType
<1>4. \A e \in fresh : e + SkipSteps <= step
    BY <1>1, <1>2 DEF CooldownInv
<1>5. CooldownIsServed'
    BY <1>1, <1>3, <1>4 DEF CooldownInv, CooldownIsServed
<1>6. QED
    BY <1>1, <1>2, <1>3, <1>4, <1>5 DEF CooldownInv, FreshEventsAreSpaced

\* A skip inside the cooldown.
LEMMA CooldownSkipKeepsInv ==
    ASSUME CooldownInv, NEW class, TakeStep(class), ShouldSkip(spike, class, step),
           spike.cooldown > 0
    PROVE  CooldownInv'
<1>1. /\ ~spike.halted /\ fresh' = fresh /\ updated' = updated
      /\ step' = step + 1
      /\ spike' = [spike EXCEPT !.cooldown = @ - 1, !.skipped = @ + 1, !.last = step]
    BY DEF TakeStep, AfterGate, RecordSkip, RaisesHalt, CooldownInv
<1>2. /\ spike'.cooldown = spike.cooldown - 1 /\ spike'.halted = spike.halted
      /\ DOMAIN spike' = DOMAIN spike
    BY <1>1 DEF CooldownInv
<1>3. SkipSteps \in Nat
    BY SpikeConfigAssumption, SkipStepsType
<1>4. QED
    BY <1>1, <1>2, <1>3
       DEF CooldownInv, CooldownIsServed, FreshEventsAreSpaced

\* A fresh event, which may halt the run.
LEMMA FreshEventKeepsInv ==
    ASSUME CooldownInv, NEW class, TakeStep(class), ShouldSkip(spike, class, step),
           ~(spike.cooldown > 0)
    PROVE  CooldownInv'
<1> DEFINE stop == Cardinality(EventsAfter(spike, step)) >= HaltCount
<1>1. spike.cooldown = 0
    BY DEF CooldownInv
<1>2. /\ ~spike.halted /\ fresh' = fresh \cup {step} /\ updated' = updated
      /\ step' = IF stop THEN step ELSE step + 1
      /\ spike' = [recent |-> EventsAfter(spike, step), cooldown |-> SkipSteps - 1,
                   skipped |-> spike.skipped + 1, last |-> step,
                   halted |-> spike.halted \/ stop]
    BY <1>1 DEF TakeStep, AfterGate, RecordSkip, RaisesHalt
<1>3. SkipSteps \in Nat \ {0}
    BY SpikeConfigAssumption, SkipStepsType
<1>4. /\ spike'.cooldown = SkipSteps - 1 /\ spike'.halted \in BOOLEAN
      /\ DOMAIN spike' = {"recent", "cooldown", "skipped", "last", "halted"}
      /\ ~spike'.halted => ~stop
    BY <1>2
<1>5. step \in Nat /\ step' \in Nat /\ step <= step'
    BY <1>2 DEF CooldownInv
<1>6. \A e \in fresh : e + SkipSteps <= step
    BY <1>1, <1>2 DEF CooldownInv
<1>7. CooldownIsServed'
    BY <1>2, <1>3, <1>5 DEF CooldownInv, CooldownIsServed
<1>8. FreshEventsAreSpaced'
    BY <1>2, <1>3, <1>5, <1>6 DEF CooldownInv, FreshEventsAreSpaced
<1>9. ~spike'.halted => \A e \in fresh' : e + SkipSteps <= step' + spike'.cooldown
    <2> SUFFICES ASSUME ~spike'.halted, NEW e \in fresh'
                 PROVE  e + SkipSteps <= step' + spike'.cooldown
        OBVIOUS
    <2>1. step' = step + 1 /\ spike'.cooldown = SkipSteps - 1
        BY <1>2, <1>4
    <2>2. e \in Nat /\ e <= step
        BY <1>2, <1>3, <1>5, <1>6 DEF CooldownInv
    <2>3. QED
        BY <1>3, <1>5, <2>1, <2>2
<1>10. /\ fresh' \subseteq Nat /\ updated' \subseteq Nat
       /\ \A s \in updated' : s < step'
    BY <1>2, <1>5 DEF CooldownInv
<1>11. spike'.cooldown \in Nat
    BY <1>3, <1>4
<1>12. QED
    BY <1>4, <1>5, <1>7, <1>8, <1>9, <1>10, <1>11 DEF CooldownInv

\* The inductive invariant of the protocol.
THEOREM CooldownInvariant == Spec => []CooldownInv
<1>1. Init => CooldownInv
    BY InitCooldownInv
<1>2. CooldownInv /\ [Next]_vars => CooldownInv'
    <2> SUFFICES ASSUME CooldownInv, [Next]_vars PROVE CooldownInv'
        OBVIOUS
    <2>1. ASSUME NEW class \in GradClasses, TakeStep(class)
          PROVE  CooldownInv'
        BY <2>1, UpdateKeepsCooldownInv, CooldownSkipKeepsInv, FreshEventKeepsInv
    <2>2. CASE UNCHANGED vars
        BY <2>2 DEF vars, CooldownInv, CooldownIsServed, FreshEventsAreSpaced
    <2>3. QED
        BY <2>1, <2>2 DEF Next
<1>3. QED
    BY <1>1, <1>2, PTL DEF Spec

\* No gradient reaches the weights while a cooldown is being served, for any
\* cooldown length (spike_protocol.py:62-75).
THEOREM CooldownAlwaysServed == Spec => []CooldownIsServed
<1>1. CooldownInv => CooldownIsServed
    BY DEF CooldownInv
<1>2. QED
    BY <1>1, CooldownInvariant, PTL

\* Fresh events stand at least a cooldown apart, the premise of the check in
\* SpikeConfig._validate (config/schema.py:318-333).
THEOREM EventsAlwaysSpaced == Spec => []FreshEventsAreSpaced
<1>1. CooldownInv => FreshEventsAreSpaced
    BY DEF CooldownInv
<1>2. QED
    BY <1>1, CooldownInvariant, PTL

-----------------------------------------------------------------------------
(* The halt *)

LEMMA InitDequeInv ==
    ASSUME Init
    PROVE  DequeInv
BY InitCooldownInv, FS_EmptySet
   DEF Init, SpikeInit, DequeInv, HaltsExactlyOnAFullWindow

\* A step that is no fresh event leaves the deque exact.
LEMMA QuietStepKeepsDeque ==
    ASSUME DequeInv, CooldownInv', fresh' = fresh,
           spike'.recent = spike.recent, spike'.halted = spike.halted,
           step' \in Nat, step <= step'
    PROVE  DequeInv'
<1>1. step \in Nat /\ HaltWindow \in Nat /\ fresh \subseteq Nat
    BY SpikeConfigAssumption DEF DequeInv, CooldownInv
<1>2. HaltsExactlyOnAFullWindow'
    BY DEF DequeInv, HaltsExactlyOnAFullWindow, EventsBetween
<1>3. ~spike'.halted => \A e \in fresh' : e < step'
    BY <1>1 DEF DequeInv
<1>4. \A e \in fresh' \ spike'.recent : e + HaltWindow < step'
    BY <1>1 DEF DequeInv
<1>5. QED
    BY <1>2, <1>3, <1>4 DEF DequeInv

\* A fresh event counts the window it closes.
LEMMA FreshEventKeepsDeque ==
    ASSUME DequeInv, CooldownInv', NEW class, TakeStep(class),
           ShouldSkip(spike, class, step), ~(spike.cooldown > 0)
    PROVE  DequeInv'
<1> DEFINE window == EventsAfter(spike, step)
           stop == Cardinality(window) >= HaltCount
           Seen(S, e) == {d \in S : e - HaltWindow <= d /\ d <= e}
<1>1. /\ step \in Nat /\ HaltWindow \in Nat /\ fresh \subseteq Nat
      /\ HaltCount \in Nat \ {0} /\ spike.cooldown = 0
    BY SpikeConfigAssumption DEF DequeInv, CooldownInv
<1>2. /\ ~spike.halted /\ fresh' = fresh \cup {step}
      /\ step' = IF stop THEN step ELSE step + 1
      /\ spike' = [recent |-> window, cooldown |-> SkipSteps - 1,
                   skipped |-> spike.skipped + 1, last |-> step,
                   halted |-> spike.halted \/ stop]
    BY <1>1 DEF TakeStep, AfterGate, RecordSkip, RaisesHalt
<1>3. /\ spike'.recent = window
      /\ spike'.halted <=> stop
    BY <1>2
<1>4. \A e \in fresh : e < step
    BY <1>2 DEF DequeInv
<1>5. window = Seen(fresh', step)
    <2>1. \A e \in fresh \ spike.recent : e + HaltWindow < step
        BY DEF DequeInv
    <2>2. spike.recent \subseteq fresh
        BY DEF DequeInv
    <2>3. ASSUME NEW e \in window PROVE e \in Seen(fresh', step)
        <3>1. e \in spike.recent \cup {step} /\ e >= step - HaltWindow
            BY DEF EventsAfter
        <3>2. e \in fresh \cup {step}
            BY <2>2, <3>1
        <3>3. e \in Nat /\ e <= step
            BY <1>1, <1>4, <3>2
        <3>4. step - HaltWindow <= e
            BY <1>1, <3>1, <3>3
        <3>5. QED
            BY <1>2, <3>2, <3>3, <3>4
    <2>4. ASSUME NEW e \in Seen(fresh', step) PROVE e \in window
        <3>1. e \in fresh \cup {step} /\ step - HaltWindow <= e
            BY <1>2
        <3>2. e \in Nat
            BY <1>1, <3>1
        <3>3. e \in spike.recent \cup {step}
            BY <1>1, <2>1, <3>1, <3>2
        <3>4. e >= step - HaltWindow
            BY <1>1, <3>1, <3>2
        <3>5. QED
            BY <3>3, <3>4 DEF EventsAfter
    <2>5. QED
        BY <2>3, <2>4
<1>6. \A e \in fresh : Seen(fresh', e) = Seen(fresh, e)
    BY <1>1, <1>2, <1>4
<1>7. \A e \in fresh : ~(Cardinality(Seen(fresh, e)) >= HaltCount)
    BY <1>2 DEF DequeInv, HaltsExactlyOnAFullWindow, EventsBetween
<1>8. stop <=> \E e \in fresh' : Cardinality(Seen(fresh', e)) >= HaltCount
    <2> HIDE DEF Seen, window
    <2>1. \A e \in fresh' : e \in fresh \/ e = step
        BY <1>2
    <2>2. step \in fresh'
        BY <1>2
    <2>3. QED
        BY <1>5, <1>6, <1>7, <2>1, <2>2
<1>9. HaltsExactlyOnAFullWindow'
    BY <1>3, <1>8 DEF HaltsExactlyOnAFullWindow, EventsBetween
<1>10. IsFiniteSet(fresh') /\ spike'.recent \subseteq fresh'
    <2>1. IsFiniteSet(fresh')
        BY <1>2, FS_AddElement DEF DequeInv
    <2>2. QED
        BY <1>3, <1>5, <2>1
<1>11. ~spike'.halted => \A e \in fresh' : e < step'
    BY <1>1, <1>2, <1>3, <1>4
<1>12. \A e \in fresh' \ spike'.recent : e + HaltWindow < step'
    <2> SUFFICES ASSUME NEW e \in fresh' \ spike'.recent
                 PROVE  e + HaltWindow < step'
        OBVIOUS
    <2>1. e \in Nat /\ e <= step /\ e \notin Seen(fresh', step)
        BY <1>1, <1>2, <1>3, <1>4, <1>5
    <2>2. QED
        BY <1>1, <1>2, <2>1
<1>13. QED
    BY <1>9, <1>10, <1>11, <1>12 DEF DequeInv

\* No step of the protocol lets the deque lose an event that counts.
LEMMA StepKeepsDequeInv ==
    ASSUME DequeInv, [Next]_vars
    PROVE  DequeInv'
<1>1. CooldownInv
    BY DEF DequeInv
<1>2. ASSUME NEW class \in GradClasses, TakeStep(class)
      PROVE  DequeInv'
    <2>1. CooldownInv'
        BY <1>1, <1>2, UpdateKeepsCooldownInv, CooldownSkipKeepsInv, FreshEventKeepsInv
    <2>2. CASE ~ShouldSkip(spike, class, step)
        <3>1. /\ spike' = spike /\ fresh' = fresh /\ step' = step + 1
            BY <1>2, <2>2 DEF TakeStep, AfterGate, RaisesHalt
        <3>2. QED
            BY <1>1, <2>1, <3>1, QuietStepKeepsDeque DEF CooldownInv
    <2>3. CASE ShouldSkip(spike, class, step) /\ spike.cooldown > 0
        <3>1. /\ fresh' = fresh /\ step' = step + 1
              /\ spike' = [spike EXCEPT !.cooldown = @ - 1, !.skipped = @ + 1, !.last = step]
            BY <1>1, <1>2, <2>3 DEF TakeStep, AfterGate, RecordSkip, RaisesHalt, CooldownInv
        <3>2. spike'.recent = spike.recent /\ spike'.halted = spike.halted
            BY <1>1, <3>1 DEF CooldownInv
        <3>3. QED
            BY <1>1, <2>1, <3>1, <3>2, QuietStepKeepsDeque DEF CooldownInv
    <2>4. CASE ShouldSkip(spike, class, step) /\ ~(spike.cooldown > 0)
        BY <1>2, <2>1, <2>4, FreshEventKeepsDeque
    <2>5. QED
        BY <2>2, <2>3, <2>4
<1>3. CASE UNCHANGED vars
    BY <1>3 DEF vars, DequeInv, CooldownInv, CooldownIsServed, FreshEventsAreSpaced,
                HaltsExactlyOnAFullWindow, EventsBetween
<1>4. QED
    BY <1>2, <1>3 DEF Next

\* The inductive invariant of the halt deque.
THEOREM DequeInvariant == Spec => []DequeInv
<1>1. Init => DequeInv
    BY InitDequeInv
<1>2. DequeInv /\ [Next]_vars => DequeInv'
    BY StepKeepsDequeInv
<1>3. QED
    BY <1>1, <1>2, PTL DEF Spec

\* The run halts exactly when some window ever held HaltCount fresh events:
\* the left prune of the deque (spike_protocol.py:90-93) forgets nothing the
\* rule needs, for every window and count.
THEOREM HaltsOnFullWindows == Spec => []HaltsExactlyOnAFullWindow
<1>1. DequeInv => HaltsExactlyOnAFullWindow
    BY DEF DequeInv
<1>2. QED
    BY <1>1, DequeInvariant, PTL

-----------------------------------------------------------------------------
(* Endless skipping *)

\* A step that is no fresh event and serves one step of the cooldown.
LEMMA QuietStepKeepsStreak ==
    ASSUME StreakInv, DequeInv', fresh' = fresh, spike'.halted = spike.halted,
           step' \in Nat, spike'.cooldown \in Nat, unstable' \in Nat,
           step' + spike'.cooldown = step + spike.cooldown,
           unstable' + spike'.cooldown <= unstable + spike.cooldown
    PROVE  StreakInv'
<1>1. CASE spike.halted
    BY <1>1 DEF StreakInv
<1>2. CASE ~spike.halted
    <2>1. PICK k \in 0 .. HaltCount - 1 : Spaced(k)
        BY <1>2 DEF StreakInv
    <2>2. k * SkipSteps \in Nat
        BY SpikeConfigAssumption, SkipStepsType, Z3
    <2>3. unstable \in Nat /\ spike.cooldown \in Nat
        BY DEF StreakInv, DequeInv, CooldownInv
    <2>4. Spaced(k)'
        <3> DEFINE span == k * SkipSteps
        <3>1. span \in Nat
            BY <2>2
        <3>2. unstable + spike.cooldown <= span
            BY <2>1 DEF Spaced
        <3>3. Cardinality({e \in fresh : e + span >= step + spike.cooldown}) >= k
            BY <2>1 DEF Spaced
        <3> HIDE DEF span
        <3>4. unstable' + spike'.cooldown <= span
            BY <2>3, <3>1, <3>2
        <3>5. Cardinality({e \in fresh' : e + span >= step' + spike'.cooldown}) >= k
            BY <3>3
        <3>6. QED
            BY <3>4, <3>5 DEF Spaced, span
    <2>5. QED
        BY <2>4 DEF StreakInv
<1>3. QED
    BY <1>1, <1>2

\* A fresh event of an unstable run adds one to the train of events, which the
\* halt window of a haltable protocol holds.
LEMMA FreshEventKeepsStreak ==
    ASSUME Haltable, StreakInv, DequeInv', NEW class, TakeStep(class),
           ShouldSkip(spike, class, step), ~(spike.cooldown > 0)
    PROVE  StreakInv'
<1> DEFINE stop == Cardinality(EventsAfter(spike, step)) >= HaltCount
<1>1. /\ step \in Nat /\ HaltWindow \in Nat /\ fresh \subseteq Nat
      /\ HaltCount \in Nat \ {0} /\ SkipSteps \in Nat \ {0}
      /\ (HaltCount - 1) * SkipSteps <= HaltWindow
      /\ spike.cooldown = 0 /\ unstable \in Nat
    BY SpikeConfigAssumption, SkipStepsType
       DEF Haltable, StreakInv, DequeInv, CooldownInv
<1>2. /\ ~spike.halted /\ fresh' = fresh \cup {step}
      /\ step' = IF stop THEN step ELSE step + 1
      /\ spike' = [recent |-> EventsAfter(spike, step), cooldown |-> SkipSteps - 1,
                   skipped |-> spike.skipped + 1, last |-> step,
                   halted |-> spike.halted \/ stop]
    BY <1>1 DEF TakeStep, AfterGate, RecordSkip, RaisesHalt
<1>3. spike'.cooldown = SkipSteps - 1 /\ (~spike'.halted => step' = step + 1)
    BY <1>2
<1>4. unstable' \in Nat /\ unstable' <= unstable + 1
    BY <1>1 DEF TakeStep, Instability
<1>5. ASSUME ~spike'.halted
      PROVE  \E k \in 0 .. HaltCount - 1 : Spaced(k)'
    <2>1. PICK k \in 0 .. HaltCount - 1 : Spaced(k)
        BY <1>2 DEF StreakInv
    <2> DEFINE span == k * SkipSteps
               train == {e \in fresh : e + span >= step}
               longer == {e \in fresh' : e + span >= step}
    <2>2. k \in Nat /\ span \in Nat /\ (k + 1) * SkipSteps = span + SkipSteps
        BY <1>1, Z3
    <2>3. unstable <= span /\ Cardinality(train) >= k
        BY <1>1, <2>1, <2>2 DEF Spaced
    <2> HIDE DEF span
    <2>4. /\ IsFiniteSet(fresh') /\ IsFiniteSet(fresh)
          /\ \A e \in fresh : e < step
        BY <1>2 DEF StreakInv, DequeInv
    <2>5. IsFiniteSet(train) /\ step \notin train
        BY <1>1, <2>4, FS_Subset
    <2>6. longer = train \cup {step}
        BY <1>1, <1>2, <2>2
    <2>7. Cardinality(longer) = Cardinality(train) + 1
        BY <2>5, <2>6, FS_AddElement
    <2>8. Cardinality(longer) >= k + 1
        BY <2>2, <2>3, <2>5, <2>7, FS_CardinalityType
    <2>9. k + 1 <= HaltCount - 1
        <3>1. CASE k = HaltCount - 1
            <4>1. span <= HaltWindow
                BY <1>1, <3>1 DEF span
            <4> DEFINE window == {e \in fresh' : step - HaltWindow <= e /\ e <= step}
            <4>2. longer \subseteq window
                <5> SUFFICES ASSUME NEW e \in fresh', e + span >= step
                             PROVE  step - HaltWindow <= e /\ e <= step
                    OBVIOUS
                <5>1. e \in Nat /\ e <= step
                    BY <1>1, <1>2, <2>4
                <5>2. step \in Nat /\ HaltWindow \in Nat /\ span \in Nat
                    BY <1>1, <2>2
                <5>3. QED
                    BY <4>1, <5>1, <5>2
            <4>3. IsFiniteSet(window) /\ IsFiniteSet(longer)
                BY <2>4, FS_Subset
            <4>4. Cardinality(longer) <= Cardinality(window)
                BY <4>2, <4>3, FS_Subset
            <4>5. Cardinality(window) \in Nat /\ Cardinality(longer) \in Nat
                BY <4>3, FS_CardinalityType
            <4>6. Cardinality(window) >= HaltCount
                BY <1>1, <2>8, <3>1, <4>4, <4>5
            <4>7. ~(Cardinality(window) >= HaltCount)
                <5> HIDE DEF window
                <5>1. HaltsExactlyOnAFullWindow'
                    BY DEF DequeInv
                <5>2. step \in fresh'
                    BY <1>2
                <5>3. QED
                    BY <1>5, <5>1, <5>2 DEF HaltsExactlyOnAFullWindow, EventsBetween, window
            <4>8. QED
                BY <4>6, <4>7
        <3>2. QED
            BY <1>1, <3>1
    <2>10. Spaced(k + 1)'
        <3>1. unstable' + spike'.cooldown <= span + SkipSteps
            <4>1. /\ SkipSteps \in Nat \ {0} /\ span \in Nat /\ unstable \in Nat
                  /\ unstable <= span
                BY <1>1, <2>2, <2>3
            <4>2. spike'.cooldown = SkipSteps - 1
                BY <1>3
            <4>3. unstable' <= span + 1
                BY <1>4, <4>1, Z3
            <4>4. unstable' + (SkipSteps - 1) <= span + SkipSteps
                <5>1. ASSUME NEW a \in Nat, NEW b \in Nat, NEW c \in Nat, a <= b + 1
                      PROVE  a + (c - 1) <= b + c
                    BY <5>1
                <5>2. SkipSteps \in Nat
                    BY <4>1
                <5>3. QED
                    BY <1>4, <4>1, <4>3, <5>1, <5>2
            <4>5. QED
                BY <4>2, <4>4
        <3>2. {e \in fresh' : e + (span + SkipSteps) >= step' + spike'.cooldown} = longer
            <4>1. step' + spike'.cooldown = step + SkipSteps
                BY <1>1, <1>3, <1>5
            <4>2. ASSUME NEW e \in fresh'
                  PROVE  e + (span + SkipSteps) >= step + SkipSteps <=> e + span >= step
                <5>1. e \in Nat
                    BY <1>1, <1>2
                <5>2. SkipSteps \in Nat /\ span \in Nat /\ step \in Nat
                    BY <1>1, <2>2
                <5>3. QED
                    BY <5>1, <5>2
            <4>3. QED
                BY <4>1, <4>2
        <3> HIDE DEF longer
        <3>3. QED
            BY <2>2, <2>8, <3>1, <3>2 DEF Spaced
    <2>11. QED
        BY <2>2, <2>9, <2>10
<1>6. QED
    BY <1>4, <1>5 DEF StreakInv

\* A calm step outside a cooldown ends the streak.
LEMMA CalmStepKeepsStreak ==
    ASSUME StreakInv, DequeInv', NEW class, TakeStep(class),
           ~ShouldSkip(spike, class, step)
    PROVE  StreakInv'
<1>1. spike' = spike /\ spike.cooldown = 0 /\ unstable' = 0 /\ fresh' = fresh
    BY DEF StreakInv, DequeInv, CooldownInv, TakeStep, AfterGate, ShouldSkip,
           Instability, SpikeInit
<1>2. 0 * SkipSteps = 0 /\ 0 \in 0 .. HaltCount - 1
    BY SpikeConfigAssumption, SkipStepsType
<1>3. IsFiniteSet({e \in fresh' : e + 0 * SkipSteps >= step' + spike'.cooldown})
    BY FS_Subset DEF DequeInv
<1>4. Spaced(0)'
    BY <1>1, <1>2, <1>3, FS_CardinalityType DEF Spaced
<1>5. QED
    BY <1>1, <1>2, <1>4 DEF StreakInv

LEMMA StepKeepsStreakInv ==
    ASSUME Haltable, StreakInv, [Next]_vars
    PROVE  StreakInv'
<1>1. DequeInv /\ CooldownInv /\ DequeInv' /\ CooldownInv'
    BY StepKeepsDequeInv DEF StreakInv, DequeInv
<1>2. ASSUME NEW class \in GradClasses, TakeStep(class)
      PROVE  StreakInv'
    <2>1. CASE ~ShouldSkip(spike, class, step)
        BY <1>1, <1>2, <2>1, CalmStepKeepsStreak
    <2>2. CASE ShouldSkip(spike, class, step) /\ spike.cooldown > 0
        <3>1. /\ fresh' = fresh /\ step' = step + 1
              /\ spike' = [spike EXCEPT !.cooldown = @ - 1, !.skipped = @ + 1, !.last = step]
            BY <1>1, <1>2, <2>2 DEF TakeStep, AfterGate, RecordSkip, RaisesHalt, CooldownInv
        <3>2. spike'.cooldown = spike.cooldown - 1 /\ spike'.halted = spike.halted
            BY <1>1, <3>1 DEF CooldownInv
        <3>3. unstable \in Nat /\ unstable' \in Nat /\ unstable' <= unstable + 1
            BY <1>2 DEF StreakInv, TakeStep, Instability
        <3>4. step \in Nat /\ spike.cooldown \in Nat
            BY <1>1 DEF CooldownInv
        <3>5. QED
            BY <1>1, <2>2, <3>1, <3>2, <3>3, <3>4, QuietStepKeepsStreak
    <2>3. CASE ShouldSkip(spike, class, step) /\ ~(spike.cooldown > 0)
        BY <1>1, <1>2, <2>3, FreshEventKeepsStreak
    <2>4. QED
        BY <2>1, <2>2, <2>3
<1>3. CASE UNCHANGED vars
    <2>1. \A k : Spaced(k)' = Spaced(k)
        BY <1>3 DEF vars, Spaced
    <2>2. QED
        BY <1>1, <1>3, <2>1 DEF vars, StreakInv
<1>4. QED
    BY <1>2, <1>3 DEF Next

\* The validator computes with the configured cooldown, the protocol with at
\* least one step of it: what config/schema.py:316-317 admits is haltable
\* when the configured cooldown is at least one.
THEOREM ValidatedIsHaltable ==
    ASSUME SkipStepsOnSpike >= 1
    PROVE  Haltable
BY SpikeConfigAssumption DEF Haltable, SkipSteps

\* An unstable run of a haltable protocol halts within a bounded number of
\* steps instead of skipping forever: what the arithmetic of
\* SpikeConfig._validate (config/schema.py:303-333) is for, at its boundary
\* value and beyond.
THEOREM EndlessSkippingEnds == Haltable => (Spec => []EndlessSkippingHalts)
<1> SUFFICES ASSUME Haltable PROVE Spec => []EndlessSkippingHalts
    OBVIOUS
<1>1. Init => StreakInv
    <2> SUFFICES ASSUME Init PROVE StreakInv
        OBVIOUS
    <2>1. DequeInv /\ unstable = 0 /\ spike.cooldown = 0
        BY InitDequeInv DEF Init, SpikeInit
    <2>2. 0 * SkipSteps = 0 /\ 0 \in 0 .. HaltCount - 1
        BY SpikeConfigAssumption, SkipStepsType
    <2>3. IsFiniteSet({e \in fresh : e + 0 * SkipSteps >= step + spike.cooldown})
        BY <2>1, FS_Subset DEF DequeInv
    <2>4. Spaced(0)
        BY <2>1, <2>2, <2>3, FS_CardinalityType DEF Spaced
    <2>5. QED
        BY <2>1, <2>2, <2>4 DEF StreakInv
<1>2. StreakInv /\ [Next]_vars => StreakInv'
    BY StepKeepsStreakInv
<1>3. StreakInv => EndlessSkippingHalts
    <2> SUFFICES ASSUME StreakInv, ~spike.halted
                 PROVE  ~(unstable > (HaltCount - 1) * SkipSteps)
        BY DEF EndlessSkippingHalts
    <2>1. PICK k \in 0 .. HaltCount - 1 : Spaced(k)
        BY DEF StreakInv
    <2>2. /\ k * SkipSteps \in Nat /\ (HaltCount - 1) * SkipSteps \in Nat
          /\ k * SkipSteps <= (HaltCount - 1) * SkipSteps
        BY SpikeConfigAssumption, SkipStepsType, Z3
    <2>3. unstable \in Nat /\ spike.cooldown \in Nat
        BY DEF StreakInv, DequeInv, CooldownInv
    <2>4. unstable + spike.cooldown <= k * SkipSteps
        BY <2>1 DEF Spaced
    <2>5. QED
        BY <2>2, <2>3, <2>4
<1>4. QED
    BY <1>1, <1>2, <1>3, PTL DEF Spec

\* Events a cooldown apart, in a window that cannot hold HaltCount of them.
LEMMA SpacedEventsAreFew ==
    ASSUME DequeInv, ~Haltable, NEW e \in fresh
    PROVE  ~(Cardinality(EventsBetween(e - HaltWindow, e)) >= HaltCount)
<1> DEFINE window == EventsBetween(e - HaltWindow, e)
           room == 0 .. HaltCount - 2
           slot == [d \in window |-> (e - d) \div SkipSteps]
<1>1. /\ HaltCount \in Nat \ {0} /\ HaltWindow \in Nat /\ SkipSteps \in Nat \ {0}
      /\ fresh \subseteq Nat /\ IsFiniteSet(fresh) /\ FreshEventsAreSpaced
    BY SpikeConfigAssumption, SkipStepsType DEF DequeInv, CooldownInv
<1>2. HaltWindow < (HaltCount - 1) * SkipSteps
    BY <1>1 DEF Haltable
<1>3. ASSUME NEW d \in window
      PROVE  /\ d \in fresh /\ e - d \in Nat /\ e - d <= HaltWindow
    BY <1>1 DEF EventsBetween
<1>4. ASSUME NEW d \in window
      PROVE  /\ slot[d] \in Nat /\ SkipSteps * slot[d] <= e - d
             /\ e - d < SkipSteps * slot[d] + SkipSteps
    <2>1. e - d \in Nat
        BY <1>3
    <2>2. ASSUME NEW a \in Nat, NEW s \in Nat \ {0}
          PROVE  a \div s \in Nat /\ s * (a \div s) <= a /\ a < s * (a \div s) + s
        OBVIOUS
    <2>3. QED
        BY <1>1, <2>1, <2>2
<1> HIDE DEF slot, window
<1>5. ASSUME NEW d \in window
      PROVE  slot[d] \in room
    <2>1. ASSUME NEW q \in Nat, NEW s \in Nat \ {0}, NEW k \in Nat, s * q < k * s
          PROVE  q < k
        BY <2>1, Z3
    <2>2. SkipSteps * slot[d] < (HaltCount - 1) * SkipSteps
        BY <1>1, <1>2, <1>3, <1>4, Z3
    <2>3. slot[d] < HaltCount - 1
        BY <1>1, <1>4, <2>1, <2>2
    <2>4. QED
        BY <1>1, <1>4, <2>3
<1>6. ASSUME NEW c \in window, NEW d \in window, slot[c] = slot[d]
      PROVE  ~(c < d)
    <2>1. SUFFICES ASSUME c < d PROVE FALSE
        OBVIOUS
    <2>2. c \in Nat /\ d \in Nat /\ e \in Nat /\ d - c >= SkipSteps
        BY <1>1, <1>3, <2>1 DEF FreshEventsAreSpaced
    <2> DEFINE base == SkipSteps * slot[d]
    <2>3. base \in Nat /\ base <= e - d /\ e - c < base + SkipSteps
        BY <1>1, <1>4, <1>6, Z3
    <2> HIDE DEF base
    <2>4. QED
        BY <1>1, <2>2, <2>3
<1>7. SUFFICES ASSUME Cardinality(window) >= HaltCount PROVE FALSE
    BY DEF window
<1>8. IsFiniteSet(window)
    BY <1>1, FS_Subset DEF window, EventsBetween
<1>9. IsFiniteSet(room) /\ Cardinality(room) < HaltCount
    <2>1. 0 \in Int /\ HaltCount - 2 \in Int
        BY <1>1
    <2>2. /\ IsFiniteSet(room)
          /\ Cardinality(room) = IF 0 > HaltCount - 2 THEN 0 ELSE (HaltCount - 2) - 0 + 1
        BY <2>1, FS_Interval
    <2>3. QED
        BY <1>1, <2>2
<1>10. Cardinality(room) < Cardinality(window)
    <2>1. Cardinality(room) \in Nat /\ Cardinality(window) \in Nat
        BY <1>8, <1>9, FS_CardinalityType
    <2>2. QED
        BY <1>1, <1>7, <1>9, <2>1
<1>11. slot \in [window -> room]
    BY <1>5 DEF slot
<1>12. PICK c, d \in window : c # d /\ slot[c] = slot[d]
    <2> HIDE DEF room
    <2>1. QED
        BY <1>8, <1>9, <1>10, <1>11, FS_PigeonHole
<1>13. ~(c < d) /\ ~(d < c)
    BY <1>6, <1>12
<1>14. c \in Nat /\ d \in Nat
    BY <1>1, <1>3
<1>15. QED
    BY <1>12, <1>13, <1>14

\* The inequality is also needed: a protocol that fails it never halts,
\* whatever its gradients.  _validate admits such a configuration when
\* skip_steps_on_spike is below one (0, five skips, a window of 3), because
\* it computes before the clamp of spike_protocol.py:52.
THEOREM UnhaltableNeverHalts == ~Haltable => (Spec => []~spike.halted)
<1> SUFFICES ASSUME ~Haltable PROVE Spec => []~spike.halted
    OBVIOUS
<1>1. DequeInv => ~spike.halted
    BY SpacedEventsAreFew DEF DequeInv, HaltsExactlyOnAFullWindow
<1>2. QED
    BY <1>1, DequeInvariant, PTL
=============================================================================
