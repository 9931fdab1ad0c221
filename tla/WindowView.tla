----------------------------- MODULE WindowView -----------------------------
(***************************************************************************)
(* The operations of ShardedWindowView (src/src/pretrain/data/             *)
(* global_stream.py) on the state of one view: the length-walk, which      *)
(* moves the whole stream on and reads only document lengths.              *)
(*                                                                         *)
(* A view is a record: walkers and drawn as in GlobalStream, the buffer    *)
(* segs of segments with the offset off into its first, windows emitted,   *)
(* and the step plan: step, clock (its consumed tokens) and walked (the    *)
(* windows of the step already taken).                                     *)
(***************************************************************************)
EXTENDS SourceWalk, BatchSchedule

CONSTANT MicroBatch   \* micro_batch_size

ASSUME WindowViewAssumption == MicroBatch \in Nat \ {0} /\ MicroTokens = MicroBatch * SeqLen

\* Segments: a document, a separator, or the carry-over of a checkpoint.
DocSeg(doc) == [kind |-> "doc", doc |-> doc, tokens |-> << >>, len |-> Length(doc)]
EosSeg == [kind |-> "eos", doc |-> << >>, tokens |-> << >>, len |-> 1]
LitSeg(tokens) == [kind |-> "lit", doc |-> << >>, tokens |-> tokens, len |-> Len(tokens)]

\* A view of a fresh stream, or resumed from a GlobalStreamState.
ViewFrom(state, step, clock) ==
    [walkers |-> state.walkers, drawn |-> state.drawn, emitted |-> state.emitted,
     segs |-> IF state.carry = << >> THEN << >> ELSE <<LitSeg(state.carry)>>,
     off |-> 0, step |-> step, clock |-> clock, walked |-> 0]
FreshState ==
    [walkers |-> [s \in Names |-> NewWalker], drawn |-> 0, carry |-> << >>, emitted |-> 0]
FreshView == ViewFrom(FreshState, 0, 0)

HasCarryOver(view) == \E i \in DOMAIN view.segs : view.segs[i].kind = "lit"

\* What the first i segments hold from the offset on, and the whole buffer.
Held(view, i) == FoldLeft(LAMBDA n, seg : n + seg.len, 0, SubSeq(view.segs, 1, i)) - view.off
BufLen(view) == Held(view, Len(view.segs))

NextDoc(view) ==
    LET name == Draw(view.drawn + 1) IN NextRef(view.walkers[name], name, 0, 1)
Refilled(view) ==
    LET name == Draw(view.drawn + 1) IN
    [view EXCEPT !.walkers[name] = Advanced(@, name, 0, 1),
                 !.drawn = @ + 1,
                 !.segs = @ \o <<DocSeg(NextDoc(view)), EosSeg>>]

\* _take: the segments that reach the target, and what each one gives.
Reached(view) ==
    CHOOSE i \in DOMAIN view.segs :
        /\ Held(view, i) >= Target
        /\ \A j \in 1 .. i - 1 : Held(view, j) < Target
Fragments(view) ==
    LET last == Reached(view) IN
    [i \in 1 .. last |->
        [seg  |-> view.segs[i],
         from |-> IF i = 1 THEN view.off ELSE 0,
         to   |-> IF i = last THEN view.segs[i].len - (Held(view, i) - Target)
                  ELSE view.segs[i].len]]
Payload(seg, from, to) ==
    CASE seg.kind = "doc" -> TokensOf(seg.doc, from, to - from)
      [] seg.kind = "eos" -> [i \in 1 .. to - from |-> Eos]
      [] seg.kind = "lit" -> SubSeq(seg.tokens, from + 1, to)
Window(view) ==
    LET cut == Fragments(view)
    IN  FlattenSeq([i \in DOMAIN cut |-> Payload(cut[i].seg, cut[i].from, cut[i].to)])

\* A segment leaves when its last token is taken.
TakenKeepingOffset(view) ==
    LET last == Reached(view)
        popped == IF Held(view, last) = Target THEN last ELSE last - 1
    IN  [view EXCEPT !.segs = SubSeq(@, popped + 1, Len(@)),
                     !.emitted = @ + 1, !.walked = @ + 1]
Taken(view) ==
    LET last == Reached(view)
        whole == Held(view, last) = Target
        popped == IF whole THEN last ELSE last - 1
    IN  [view EXCEPT !.segs = SubSeq(@, popped + 1, Len(@)),
                     !.off = IF whole THEN 0
                             ELSE view.segs[last].len - (Held(view, last) - Target),
                     !.emitted = @ + 1, !.walked = @ + 1]

\* _materialize_buffer, and the state a checkpoint stores once for all ranks.
Buffer(view) ==
    FlattenSeq([i \in DOMAIN view.segs |->
        Payload(view.segs[i], IF i = 1 THEN view.off ELSE 0, view.segs[i].len)])
StateOf(view) ==
    [walkers |-> view.walkers, drawn |-> view.drawn, carry |-> Buffer(view),
     emitted |-> view.emitted]

-----------------------------------------------------------------------------
(* Step plans (iter_step_plans) and who trains which micro-batch *)

StepWindows(clock) == MicrobatchesPerStep(clock) * MicroBatch
StepTokens(clock) == StepWindows(clock) * SeqLen
NextPlan(view) ==
    [view EXCEPT !.step = @ + 1, !.clock = @ + StepTokens(view.clock), !.walked = 0]

OwnerRankDescending(m, world) == (world - 1) - (m % world)
OwnerRank(m, world) == m % world
AccumForRank(total, world, rank) ==
    IF rank < total THEN (total - rank + world - 1) \div world ELSE 0
Owns(view, rank, world) == OwnerRank(view.walked \div MicroBatch, world) = rank
=============================================================================
