----------------------------- MODULE RankShares -----------------------------
(***************************************************************************)
(* How the ranks of a job share a step's micro-batches and how what they   *)
(* took is put together again (src/src/pretrain/train/state_hash.py).      *)
(***************************************************************************)
EXTENDS TrainStep

Ranks == 0 .. World - 1

\* Rank r's micro-batches of these rounds.
RankShare(rounds, r) == [k \in DOMAIN rounds |-> rounds[k] + r]

\* The rounds all ranks' micro-batches make up when every rank took its own:
\* anything else hashes to a value of its own.
Scrambled == <<-1>>
RoundsOf(perRank) ==
    IF \A r \in Ranks : perRank[r] = RankShare(perRank[0], r) THEN perRank[0]
                                                              ELSE Scrambled
=============================================================================
