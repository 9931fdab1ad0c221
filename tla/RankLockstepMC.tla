--------------------------- MODULE RankLockstepMC ---------------------------
(***************************************************************************)
(* Bounded instances of RankLockstep and what the ranks of a job owe each  *)
(* other.  The steps' micro-batches start at positions 0, 4, 8 and 16.     *)
(***************************************************************************)
EXTENDS RankLockstep

LastPos == 23
Surface(spikes, nans) ==
    [p \in 0..LastPos |-> IF p \in spikes THEN "spike"
                          ELSE IF p \in nans THEN "nan" ELSE "calm"]

\* A NaN loss on the last rank only, without and with a spike before it.
Losses == {Surface({}, {7}), Surface({2}, {7})}

\* No checkpoint; one that only rank 0, or only the last rank, sees.
Sights == {[r \in Ranks |-> r \in R] : R \in {{}, {0}, {World - 1}}}

StepClass(surf, st) ==
    Worst({surf[p] : p \in st.pos .. st.pos + Rounds(st.consumed) * World - 1})

\* The run TrainStep describes.
LockstepRun[k \in Nat] ==
    IF k = 0 THEN FreshState
    ELSE LET st == LockstepRun[k - 1] IN After(st, StepClass(surface, st))
LockstepAt(s) == LockstepRun[s]
Canonical(s) ==
    LET st == LockstepAt(s - 1) IN DigestAfter(st, StepClass(surface, st))

ShareOf(st, r) == [st EXCEPT !.data = RankShare(@, r)]

\* Ranks answer each other's calls and nothing else, and at every step
\* boundary each holds its share of the one state TrainStep computes: no rank
\* skips, halts, hashes or saves a step its peers do not, although the gate
\* reads the rank's own loss and the signal reaches ranks one by one
\* (loop.py:992-996, 1097-1105).
RanksStayInStep ==
    /\ \A r \in Ranks, comm \in Comms : \A p \in Peers(comm, r) :
          \A n \in DOMAIN calls[r][comm] \cap DOMAIN calls[p][comm] :
             calls[r][comm][n].kind = calls[p][comm][n].kind
    /\ \A r \in Ranks :
          LET st == rank[r].st IN
          /\ rank[r].at \in {"top", "done", "exited"} =>
                st = ShareOf(LockstepAt(st.step), r)
          /\ rank[r].at = "halted" =>
                LET last == LockstepAt(st.step) IN
                RaisesHalt(last.spike, StepClass(surface, last), st.step)

\* A directory with the marker holds the step's canonical digest, every shard
\* and every rank's files of that same step, whichever rank died meanwhile
\* (checkpoint.py:271-326, 687-741).
SealedMeansWhole ==
    \A s \in DOMAIN dirs :
        dirs[s].sealed =>
            LET st == LockstepAt(s) IN
            /\ dirs[s].stamp = Canonical(s)
            /\ dirs[s].shards = [p \in 0 .. Shards - 1 |->
                                    [weights |-> st.weights, moments |-> st.moments]]
            /\ dirs[s].files = [r \in Ranks |-> [step |-> s, rng |-> st.rng,
                                                 data |-> RankShare(st.data, r)]]

\* Every rank leaves in the end; unless one was killed all leave the same
\* way, at the same step (the cold-start guard's broadcast, the all-reduced
\* exit flag and the global norm: loop.py:431-452, 1097-1105).
EveryRankLeaves ==
    <>[](/\ \A r \in Ranks : rank[r].at \in Gone
         /\ (\A r \in Ranks : rank[r].at # "dead") =>
               \A r, p \in Ranks : /\ rank[r].at = rank[p].at
                                   /\ rank[r].st.step = rank[p].st.step)
=============================================================================
