----------------------------- MODULE TrainRunMC -----------------------------
(***************************************************************************)
(* Bounded instances of TrainRun.  A loss surface is given by the stream   *)
(* positions at which a step's gradient spikes.                            *)
(***************************************************************************)
EXTENDS Conversion

MaxPos == 16
Surface(spikes, nans) ==
    [p \in 0..MaxPos |-> IF p \in spikes THEN "spike"
                         ELSE IF p \in nans THEN "nan" ELSE "calm"]

\* Steps start at positions 0, 1, 2, 4 and 6 in the resume run; at 5, 7 and 11
\* in the fork, where spikes at 5 and 11 are a full halt window.  The fork's
\* next step, at 15, has three micro-batches, which two ranks refuse.
SpikySurfaces == {Surface(S, {}) : S \in SUBSET {1, 2, 4, 6}}
ForkSurfaces == {Surface({}, {}), Surface({7}, {}), Surface({}, {5}),
                 Surface({5, 11}, {}), Surface({7}, {11})}
=============================================================================
