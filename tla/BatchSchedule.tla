---------------------------- MODULE BatchSchedule ----------------------------
(***************************************************************************)
(* The batch-size schedule of src/src/pretrain/train/batch_schedule.py:    *)
(* how many micro-batches an optimizer step takes at a token count, under  *)
(* the legacy world-size-dependent rule and the canonical one.             *)
(***************************************************************************)
EXTENDS Integers

CONSTANTS
    WarmupBatch, MainBatch, LateBatch,   \* global_batch_tokens.{warmup,main,late}
    WarmupTo, MainTo,                    \* phase boundaries, in consumed tokens
    MicroTokens                          \* micro_batch_size * seq_len

ASSUME BatchScheduleAssumption ==
    /\ {WarmupBatch, MainBatch, LateBatch, MicroTokens} \subseteq Nat \ {0}
    /\ {WarmupTo, MainTo} \subseteq Nat

\* current_global_batch_tokens
TargetTokens(consumed) ==
    IF consumed < WarmupTo THEN WarmupBatch
    ELSE IF consumed < MainTo THEN MainBatch ELSE LateBatch

\* max(1, n // d), plus one when that undershoots: the ceiling of n / d.
RoundedUp(n, d) ==
    LET whole == IF n \div d >= 1 THEN n \div d ELSE 1
    IN  IF whole * d < n THEN whole + 1 ELSE whole

\* microbatches_per_step: the canonical count, with no world-size term.
MicrobatchesPerStep(consumed) == RoundedUp(TargetTokens(consumed), MicroTokens)

\* grad_accum_steps: the legacy per-rank count.
GradAccumSteps(consumed, world) ==
    RoundedUp(TargetTokens(consumed), MicroTokens * world)
=============================================================================
