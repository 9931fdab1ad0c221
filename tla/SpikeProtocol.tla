---------------------------- MODULE SpikeProtocol ----------------------------
(***************************************************************************)
(* The loss-spike detect / skip / halt protocol of                         *)
(* src/src/pretrain/train/spike_protocol.py: the mutable record of one     *)
(* SpikeProtocol object, the gate should_skip and the transition           *)
(* record_skip, as operators on that record.                               *)
(*                                                                         *)
(* A gradient is abstracted to its class: "calm" (finite, norm at or below *)
(* the threshold), "spike" (finite, norm above it) or "nan" (the norm or   *)
(* the loss is NaN or infinite).                                           *)
(***************************************************************************)
EXTENDS Integers, FiniteSets

CONSTANTS
    HaltCount,           \* skips_in_window_to_halt
    HaltWindow,          \* halt_window_steps
    SkipStepsOnSpike,    \* skip_steps_on_spike, as configured
    StartStep            \* start_step: below it only a NaN/Inf triggers

\* SpikeConfig._validate refuses a configuration whose K-th forced-apart
\* event can no longer be inside the window.  It computes with the configured
\* cooldown, which nothing keeps positive.
ASSUME SpikeConfigAssumption ==
    /\ HaltCount \in Nat \ {0}
    /\ HaltWindow \in Nat
    /\ SkipStepsOnSpike \in Int
    /\ StartStep \in Nat
    /\ (HaltCount - 1) * SkipStepsOnSpike <= HaltWindow

\* SpikeProtocol.__init__ takes at least one step for a cooldown.
SkipSteps == IF SkipStepsOnSpike >= 1 THEN SkipStepsOnSpike ELSE 1

GradClasses == {"calm", "spike", "nan"}

SpikeStates ==
    [recent : SUBSET Nat, cooldown : Nat, skipped : Nat,
     last : Nat \cup {-1}, halted : BOOLEAN]

\* A freshly constructed SpikeProtocol.  The deque of fresh event steps is
\* strictly ascending, so the set of its members determines it.
SpikeInit ==
    [recent |-> {}, cooldown |-> 0, skipped |-> 0, last |-> -1,
     halted |-> FALSE]

\* Fault variants stand before the definition they would replace.
SkipOnlyTriggers(sp, class, step) ==
    class = "nan" \/ (step >= StartStep /\ class = "spike")

\* The gate: NaN/Inf always, then the cooldown, then the warm-up exemption,
\* then the threshold.
ShouldSkip(sp, class, step) ==
    \/ class = "nan"
    \/ sp.cooldown > 0
    \/ step >= StartStep /\ class = "spike"

\* The halt deque after a fresh event at this step, pruned on the left.
EventsAfterStrictCutoff(sp, step) ==
    {e \in sp.recent \cup {step} : e > step - HaltWindow}
EventsAfter(sp, step) ==
    {e \in sp.recent \cup {step} : e >= step - HaltWindow}

CooldownTooLong(sp, step) ==
    IF sp.cooldown > 0
    THEN [sp EXCEPT !.cooldown = @ - 1, !.skipped = @ + 1, !.last = step]
    ELSE [recent   |-> EventsAfter(sp, step),
          cooldown |-> SkipSteps,
          skipped  |-> sp.skipped + 1,
          last     |-> step,
          halted   |-> sp.halted \/ Cardinality(EventsAfter(sp, step)) >= HaltCount]
CooldownNeverRearmed(sp, step) ==
    [sp EXCEPT !.cooldown = @ - 1, !.skipped = @ + 1, !.last = step]

\* record_skip: inside a cooldown only the counters move; a fresh event is
\* registered, re-arms the cooldown and may halt the run.
RecordSkip(sp, step) ==
    IF sp.cooldown > 0
    THEN [sp EXCEPT !.cooldown = @ - 1, !.skipped = @ + 1, !.last = step]
    ELSE [recent   |-> EventsAfter(sp, step),
          cooldown |-> SkipSteps - 1,
          skipped  |-> sp.skipped + 1,
          last     |-> step,
          halted   |-> sp.halted \/ Cardinality(EventsAfter(sp, step)) >= HaltCount]

\* record_skip raises Halt at this step.
RaisesHalt(sp, class, step) ==
    /\ ShouldSkip(sp, class, step)
    /\ sp.cooldown = 0
    /\ Cardinality(EventsAfter(sp, step)) >= HaltCount

\* What the gate of one training step does to the protocol's record.
AfterGate(sp, class, step) ==
    IF ShouldSkip(sp, class, step) THEN RecordSkip(sp, step) ELSE sp
=============================================================================
