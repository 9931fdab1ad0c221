------------------------------ MODULE SpikeHalt ------------------------------
(***************************************************************************)
(* The spike protocol over a sequence of optimizer steps with arbitrary    *)
(* gradients: each step passes the gate of the training loop               *)
(* (src/src/pretrain/train/loop.py:992-996), which either updates the      *)
(* weights or records a skip, until record_skip raises Halt.               *)
(***************************************************************************)
EXTENDS SpikeProtocol

CONSTANT LastStep    \* bound: steps 0..LastStep-1 are taken

VARIABLES
    step,       \* LoopState.optimizer_step
    spike,      \* the SpikeProtocol object's record
    fresh,      \* history: every step that ever was a fresh event
    updated,    \* history: every step whose gradient reached optimizer.step()
    unstable    \* history: length of the current run of spiking gradients

vars == <<step, spike, fresh, updated, unstable>>

Init ==
    /\ step = 0
    /\ spike = SpikeInit
    /\ fresh = {}
    /\ updated = {}
    /\ unstable = 0

Instability(class) ==
    unstable' = IF ShouldSkip(SpikeInit, class, step) THEN unstable + 1 ELSE 0

\* One step whose gradient has this class.
TakeStep(class) ==
    /\ ~spike.halted
    /\ step < LastStep
    /\ Instability(class)
    /\ spike' = AfterGate(spike, class, step)
    /\ IF ShouldSkip(spike, class, step)
       THEN /\ fresh' = IF spike.cooldown = 0 THEN fresh \cup {step} ELSE fresh
            /\ UNCHANGED updated
       ELSE /\ updated' = updated \cup {step}
            /\ UNCHANGED fresh
    \* Halt leaves record_skip before the loop advances the counter.
    /\ step' = IF RaisesHalt(spike, class, step) THEN step ELSE step + 1

Next == \E class \in GradClasses : TakeStep(class)

Spec == Init /\ [][Next]_vars

-----------------------------------------------------------------------------
EventsBetween(lo, hi) == {e \in fresh : lo <= e /\ e <= hi}

\* The pruned deque loses nothing the halt rule needs: the run has halted
\* exactly when some HaltWindow + 1 consecutive steps hold HaltCount of the
\* fresh events that ever happened (record_skip's cutoff and comparison).
HaltsExactlyOnAFullWindow ==
    spike.halted <=>
        \E e \in fresh : Cardinality(EventsBetween(e - HaltWindow, e)) >= HaltCount

\* No weight update happens from a fresh event until its cooldown has been
\* served, whatever the gradients of those steps were (module docstring,
\* item 2; should_skip's cooldown branch).
CooldownIsServed ==
    \A e \in fresh : \A s \in updated : ~(e <= s /\ s < e + SkipSteps)

\* Fresh events are forced SkipSteps apart, the premise of the arithmetic
\* in SpikeConfig._validate.
FreshEventsAreSpaced ==
    \A d, e \in fresh : d < e => e - d >= SkipSteps

\* The oldest of HaltCount events, forced a cooldown apart, is still inside
\* the halt window: SpikeConfig._validate's inequality, for the cooldown the
\* protocol takes and not for the configured one.
Haltable == (HaltCount - 1) * SkipSteps <= HaltWindow

\* A run whose gradients never calm down is paged within a bounded number of
\* steps instead of skipping forever: the hazard SpikeConfig._validate
\* exists to rule out.
EndlessSkippingHalts ==
    unstable > (HaltCount - 1) * SkipSteps => spike.halted

-----------------------------------------------------------------------------
(* The inductive invariant behind the theorems of SpikeHaltProofs: while the *)
(* run is not halted, what is left of the cooldown is exactly what is left  *)
(* of the skips the last fresh event asked for.                             *)
CooldownInv ==
    /\ step \in Nat /\ spike.cooldown \in Nat /\ spike.halted \in BOOLEAN
    /\ DOMAIN spike = {"recent", "cooldown", "skipped", "last", "halted"}
    /\ fresh \subseteq Nat /\ updated \subseteq Nat
    /\ \A s \in updated : s < step
    /\ ~spike.halted => \A e \in fresh : e + SkipSteps <= step + spike.cooldown
    /\ CooldownIsServed
    /\ FreshEventsAreSpaced

\* The deque holds every fresh event but those the halt rule can no longer
\* reach, so what it counts is what really happened.
DequeInv ==
    /\ CooldownInv
    /\ IsFiniteSet(fresh) /\ spike.recent \subseteq fresh
    /\ ~spike.halted => \A e \in fresh : e < step
    /\ \A e \in fresh \ spike.recent : e + HaltWindow < step
    /\ HaltsExactlyOnAFullWindow

\* A run of spiking gradients this long leaves k fresh events behind it, each
\* a cooldown after the one before.
Spaced(k) ==
    /\ unstable + spike.cooldown <= k * SkipSteps
    /\ Cardinality({e \in fresh : e + k * SkipSteps >= step + spike.cooldown}) >= k
StreakInv ==
    /\ DequeInv
    /\ unstable \in Nat
    /\ ~spike.halted => \E k \in 0 .. HaltCount - 1 : Spaced(k)
=============================================================================
