---------------------------- MODULE RunSegments ----------------------------
(***************************************************************************)
(* What an auditable run publishes for its auditors: a segment trained     *)
(* from init and, behind it, segments forked from a checkpoint of the      *)
(* segment before, each with its own descriptor in meta.json.  A segment   *)
(* is taken as the uninterrupted run that TrainRun is shown to implement,  *)
(* so any step a job reached may carry a checkpoint: cadence, final and    *)
(* emergency saves all stamp the step's canonical digest.                  *)
(***************************************************************************)
EXTENDS RankShares

CONSTANTS
    Surfaces,    \* the loss surfaces considered: gradient class by position
    ForkKinds,   \* how a fork resumes: "rewarm", "reset"
    MaxForks     \* bound: forks of the run

ASSUME RunSegmentsAssumption ==
    /\ Auditable /\ ForkKinds \subseteq {"rewarm", "reset"} /\ MaxForks \in Nat

VARIABLES
    surface,    \* class of the gradient of the batch starting at a position
    segments    \* the segments, with the state at every step boundary

cluster == <<surface, segments>>

Current == segments[Len(segments)]
GradClass(st) == surface[st.pos]

Segment(kind, boot) ==
    [kind |-> kind, first |-> boot.step, tip |-> boot.step,
     trail |-> [s \in {boot.step} |-> boot]]

ClusterInit ==
    /\ surface \in Surfaces
    /\ segments = <<Segment("init", FreshState)>>

\* The loop goes on: budget left and no halt.
Trains(st) ==
    /\ st.consumed < TotalTokens /\ ~Uneven(st.consumed)
    /\ ~RaisesHalt(st.spike, GradClass(st), st.step)
Ended == ~Trains(Current.trail[Current.tip])

Grown(seg) ==
    LET st == seg.trail[seg.tip] IN
    [seg EXCEPT !.tip = @ + 1,
                !.trail = [s \in seg.first .. seg.tip + 1 |->
                              IF s <= seg.tip THEN @[s] ELSE After(st, GradClass(st))]]
Advance ==
    /\ ~Ended
    /\ segments' = [segments EXCEPT ![Len(segments)] = Grown(@)]
    /\ UNCHANGED surface

\* The resume block: a reset anchors at the boundary it loads, a moments-kept
\* fork inherits a recorded anchor.
Forked(kind, st) ==
    [st EXCEPT
        !.moments = IF kind = "reset" THEN << >> ELSE @,
        !.anchor  = IF kind = "reset" THEN st.consumed
                    ELSE IF RewarmTokens = 0 THEN NoAnchor
                    ELSE IF @ >= 0 THEN @ ELSE st.consumed]

ForkRun ==
    /\ Ended /\ Len(segments) <= MaxForks
    /\ \E kind \in ForkKinds, s \in (Current.first + 1) .. Current.tip :
          segments' = Append(segments, Segment(kind, Forked(kind, Current.trail[s])))
    /\ UNCHANGED surface

-----------------------------------------------------------------------------
(* Checkpoints and published digests *)

Steps(g) == (segments[g].first + 1) .. segments[g].tip

\* The digest of a step: state_hash.txt of a checkpoint taken there and, on
\* the cadence, the state_hashes.jsonl entry.
Canonical(g, s) ==
    LET st == segments[g].trail[s - 1] IN DigestAfter(st, GradClass(st))

StepGrads(g, s) ==
    LET st == segments[g].trail[s - 1] IN StepBatches(st.pos, st.consumed)

\* A checkpoint: the loaded state, the descriptor keys of meta.json, the
\* batch-hasher file of every rank, state_hash.txt and the gradient sidecar
\* that only a hand-off carries.
NoSidecar == << >>
Checkpoint(g, s) ==
    LET st == segments[g].trail[s] IN
    [state   |-> [st EXCEPT !.data = << >>],
     reset   |-> segments[g].kind = "reset",
     hashers |-> [r \in Ranks |-> RankShare(st.data, r)],
     stamp   |-> Canonical(g, s),
     grads   |-> NoSidecar]
=============================================================================
