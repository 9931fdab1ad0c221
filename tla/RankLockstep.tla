---------------------------- MODULE RankLockstep ----------------------------
(***************************************************************************)
(* The ranks of one cold-started job, each running train() of              *)
(* src/src/pretrain/train/loop.py in a process of its own.  They meet only *)
(* in collectives: the n-th call of a rank on a communicator completes     *)
(* when every member has made its n-th call there.  A rank that takes      *)
(* another branch than its peers leaves them waiting, or is answered with  *)
(* what belongs to another call.                                           *)
(*                                                                         *)
(* TrainStep and TrainRun keep one state for all ranks; this module is     *)
(* where that is justified.  An action carries a rank from one completed   *)
(* collective to the next.                                                 *)
(***************************************************************************)
EXTENDS RankShares

CONSTANTS
    Shards,            \* parallel.dp_shard; World = dp_replicate * Shards
    LossSurfaces,      \* the loss surfaces considered: class by micro-batch
    Views,             \* what the ranks may see of the volume
    CkptEverySteps,    \* train.ckpt_every_steps, 0 for the token cadence
    CkptEveryTokens,   \* train.ckpt_every_tokens
    MaxSignals,        \* bound: ranks that receive SIGTERM
    MaxDeaths          \* bound: ranks that are killed

ASSUME LockstepAssumption ==
    /\ Auditable /\ HashEvery > 0 /\ ~Fork
    /\ Views \subseteq [Ranks -> BOOLEAN]
    /\ Shards \in 1..World /\ World % Shards = 0
    /\ {CkptEverySteps, CkptEveryTokens, MaxSignals, MaxDeaths} \subseteq Nat
    \* TrainRun has the run a schedule refuses half-way.
    /\ \A c \in 0..TotalTokens : ~Uneven(c)

VARIABLES
    surface,   \* class of the gradient of the micro-batch at a position
    seen,      \* whether a rank's view of the volume shows a checkpoint
    rank,      \* the process of each rank
    calls,     \* what each rank has passed to each communicator, in order
    dirs       \* durable: the step_* directories

vars == <<surface, seen, rank, calls, dirs>>

-----------------------------------------------------------------------------
(* Collectives *)

Comms == {"fsdp", "dp_replicate", "world", "dp_gloo", "ckpt"}
CommOf(kind) ==
    CASE kind \in {"init", "scatter", "norm"}       -> "fsdp"
      [] kind = "replicate"                         -> "dp_replicate"
      [] kind \in {"guard", "loss", "exit"}         -> "world"
      [] kind \in {"state", "batch", "saveBatch"}   -> "dp_gloo"
      [] OTHER                                      -> "ckpt"

\* The mesh ("dp_replicate", "fsdp") in row-major order of the ranks.
Peers(comm, r) ==
    CASE comm = "fsdp"         -> {p \in Ranks : p \div Shards = r \div Shards}
      [] comm = "dp_replicate" -> {p \in Ranks : p % Shards = r % Shards}
      [] OTHER                 -> Ranks

\* Rank r enters a collective.
Calls(r, kind, gives) ==
    calls' = [calls EXCEPT ![r][CommOf(kind)] = Append(@, [kind |-> kind, gives |-> gives])]

Completed(r, kind) ==
    LET comm == CommOf(kind) IN
    /\ rank[r].at = kind
    /\ \A p \in Peers(comm, r) : Len(calls[p][comm]) >= Len(calls[r][comm])

\* What the members have passed to the call rank r is in.
Gathered(r, kind) ==
    LET comm == CommOf(kind)
        n == Len(calls[r][comm])
    IN  [p \in {q \in Peers(comm, r) : Len(calls[q][comm]) >= n} |-> calls[p][comm][n].gives]

Gone == {"refused", "done", "exited", "halted", "dead", "aborted"}
Moves(r, at) == rank' = [rank EXCEPT ![r].at = at]

-----------------------------------------------------------------------------
(* Starting *)

Worst(classes) ==
    IF "nan" \in classes THEN "nan" ELSE IF "spike" \in classes THEN "spike" ELSE "calm"
ClassOf(positions) == Worst({surface[p] : p \in positions})

Process ==
    [at |-> "start", st |-> FreshState, grads |-> << >>, loss |-> "calm",
     due |-> FALSE, shardState |-> << >>, stamp |-> << >>, lastCkpt |-> 0, sigterm |-> FALSE]

Init ==
    /\ surface \in LossSurfaces
    /\ seen \in Views
    /\ rank = [r \in Ranks |-> Process]
    /\ calls = [r \in Ranks |-> [c \in Comms |-> << >>]]
    /\ dirs = [s \in {} |-> << >>]

AskGuard(r) ==
    /\ rank[r].at = "start"
    /\ Calls(r, "guard", seen[r])
    /\ Moves(r, "guard")
    /\ UNCHANGED <<surface, seen, dirs>>

\* The cold-start guard: rank 0's view of the volume decides for everyone.
OwnView(r) == seen[r]
FoundCheckpoints(r) == Gathered(r, "guard")[0]

Refuse(r) ==
    /\ Completed(r, "guard") /\ FoundCheckpoints(r)
    /\ Moves(r, "refused")
    /\ UNCHANGED <<surface, seen, calls, dirs>>

\* The init artifact: full_tensor() of every parameter.
HashInit(r) ==
    /\ Completed(r, "guard") /\ ~FoundCheckpoints(r)
    /\ Calls(r, "init", << >>)
    /\ Moves(r, "init")
    /\ UNCHANGED <<surface, seen, dirs>>

EnterLoop(r) ==
    /\ Completed(r, "init")
    /\ Moves(r, "top")
    /\ UNCHANGED <<surface, seen, calls, dirs>>

-----------------------------------------------------------------------------
(* One iteration of the loop *)

Finish(r) ==
    /\ rank[r].at = "top" /\ rank[r].st.consumed >= TotalTokens
    /\ Moves(r, "done")
    /\ UNCHANGED <<surface, seen, calls, dirs>>

\* The micro-batch loop over the rank's share; the last backward
\* reduce-scatters the gradients.
Backward(r) ==
    LET st == rank[r].st
        share == RankShare(StepBatches(st.pos, st.consumed), r)
        loss == ClassOf({share[k] : k \in DOMAIN share})
    IN  /\ rank[r].at = "top" /\ st.consumed < TotalTokens
        /\ rank' = [rank EXCEPT ![r].at = "scatter", ![r].loss = loss,
                        ![r].st = [Begun(st, st.consumed) EXCEPT !.data = st.data \o share]]
        /\ Calls(r, "scatter", [rounds |-> share, class |-> loss])
        /\ UNCHANGED <<surface, seen, dirs>>

\* flush() of the cross-replica reduction.
Flush(r) ==
    /\ Completed(r, "scatter")
    /\ Calls(r, "replicate", Gathered(r, "scatter"))
    /\ Moves(r, "replicate")
    /\ UNCHANGED <<surface, seen, dirs>>

\* A rank's reduced shard of the gradient.  What is wrong with a gradient may
\* show in one shard alone.
ShardClass(r, parts) ==
    IF r % Shards = 0 THEN Worst({parts[p].class : p \in Ranks}) ELSE "calm"

FoldNorm(r) ==
    /\ Completed(r, "replicate")
    /\ LET rows == Gathered(r, "replicate")
           RowOf(p) == CHOOSE row \in {rows[q] : q \in DOMAIN rows} : p \in DOMAIN row
           whole == [p \in Ranks |-> RowOf(p)[p]]
       IN  /\ Calls(r, "norm", ShardClass(r, whole))
           /\ rank' = [rank EXCEPT ![r].at = "norm",
                           ![r].grads = RoundsOf([p \in Ranks |-> whole[p].rounds])]
    /\ UNCHANGED <<surface, seen, dirs>>

\* The gate sees the global norm and the rank's own loss.
NormOfOwnShard(r) == calls[r]["fsdp"][Len(calls[r]["fsdp"])].gives
GlobalNorm(r) == Worst({Gathered(r, "norm")[p] : p \in Peers("fsdp", r)})
GateClass(r) == IF rank[r].loss = "nan" THEN "nan" ELSE GlobalNorm(r)

HaltRank(r) ==
    /\ Completed(r, "norm")
    /\ RaisesHalt(rank[r].st.spike, GateClass(r), rank[r].st.step)
    /\ Moves(r, "halted")
    /\ UNCHANGED <<surface, seen, calls, dirs>>

\* optimizer.step() or the skip; then the global-batch loss for the metrics.
UpdateWeights(r) ==
    /\ Completed(r, "norm")
    /\ ~RaisesHalt(rank[r].st.spike, GateClass(r), rank[r].st.step)
    /\ rank' = [rank EXCEPT ![r].at = "loss",
                    ![r].st = Stepped(rank[r].st, rank[r].grads, GateClass(r))]
    /\ Calls(r, "loss", rank[r].loss)
    /\ UNCHANGED <<surface, seen, dirs>>

AskExit(r) ==
    /\ Completed(r, "loss")
    /\ Calls(r, "exit", rank[r].sigterm)
    /\ Moves(r, "exit")
    /\ UNCHANGED <<surface, seen, dirs>>

ExitDue(r) == \E p \in Ranks : Gathered(r, "exit")[p]

CkptDue(me) ==
    IF CkptEverySteps > 0 THEN me.st.step % CkptEverySteps = 0
                          ELSE me.st.consumed - me.lastCkpt >= CkptEveryTokens
FinalStep(me) == me.st.consumed >= TotalTokens
HashNeeded(me, due) == HashDue(me.st.step) \/ CkptDue(me) \/ due \/ FinalStep(me)
SaveDue(me) == CkptDue(me) \/ me.due \/ (FinalStep(me) /\ me.st.consumed > me.lastCkpt)

\* The exit flag is all-reduced; then the local shard's digest is gathered,
\* or the iteration ends.
HashShard(r) ==
    /\ Completed(r, "exit") /\ HashNeeded(rank[r], ExitDue(r))
    /\ rank' = [rank EXCEPT ![r].at = "state", ![r].due = ExitDue(r)]
    /\ Calls(r, "state", [weights |-> rank[r].st.weights,
                          moments |-> rank[r].st.moments, grads |-> rank[r].grads])
    /\ UNCHANGED <<surface, seen, dirs>>

NextStep(r) ==
    /\ Completed(r, "exit") /\ ~HashNeeded(rank[r], ExitDue(r))
    /\ rank' = [rank EXCEPT ![r].at = "top", ![r].grads = << >>, ![r].loss = "calm"]
    /\ UNCHANGED <<surface, seen, calls, dirs>>

HashBatches(r) ==
    /\ Completed(r, "state")
    /\ rank' = [rank EXCEPT ![r].at = "batch",
                    ![r].shardState = Gathered(r, "state")]
    /\ Calls(r, "batch", rank[r].st.data)
    /\ UNCHANGED <<surface, seen, dirs>>

\* The digest of every rank's shard and batches, chained to the last one.
Digest(r) ==
    LET me == rank[r]
        shardState == me.shardState[0]
    IN  [StepDigest(me.st, me.grads) EXCEPT
            !.data = RoundsOf(Gathered(r, "batch")),
            !.grads = IF \A p \in Ranks : me.shardState[p] = shardState
                      THEN shardState.grads ELSE Scrambled]

Ended(me) ==
    [me EXCEPT !.at = IF me.due THEN "exited" ELSE "top", !.grads = << >>,
               !.loss = "calm", !.shardState = << >>, !.stamp = << >>]

Hashed(r) ==
    [rank[r] EXCEPT !.st.chain = IF HashDue(rank[r].st.step) THEN Digest(r) ELSE @,
                    !.stamp = Digest(r)]

EndStep(r) ==
    /\ Completed(r, "batch") /\ ~SaveDue(rank[r])
    /\ rank' = [rank EXCEPT ![r] = Ended(Hashed(r))]
    /\ UNCHANGED <<surface, seen, calls, dirs>>

-----------------------------------------------------------------------------
(* Saving *)

BeginSave(r) ==
    /\ Completed(r, "batch") /\ SaveDue(rank[r])
    /\ rank' = [rank EXCEPT ![r] = [Hashed(r) EXCEPT !.at = "saveBatch"]]
    /\ Calls(r, "saveBatch", rank[r].st.data)
    /\ UNCHANGED <<surface, seen, dirs>>

EmptyDir == [stamp |-> << >>, shards |-> << >>, files |-> << >>, sealed |-> FALSE]
Dir(s) == IF s \in DOMAIN dirs THEN dirs[s] ELSE EmptyDir
Stores(s, d) == dirs' = [t \in DOMAIN dirs \cup {s} |-> IF t = s THEN d ELSE dirs[t]]

\* dedup_save_to_lowest_rank: the first replica writes every chunk.
Writes(r) == r < Shards

\* Rank 0 writes state_hash.txt, then dcp.save: each writer puts its shard
\* down, and nobody returns before all have.
SaveShard(r) ==
    LET st == rank[r].st
        old == Dir(st.step)
    IN  /\ Completed(r, "saveBatch")
        /\ Stores(st.step,
                  [old EXCEPT
                      !.stamp = IF r = 0 THEN rank[r].stamp ELSE @,
                      !.shards = IF Writes(r)
                                 THEN [p \in DOMAIN @ \cup {r} |->
                                          IF p = r THEN [weights |-> st.weights,
                                                         moments |-> st.moments]
                                          ELSE @[p]]
                                 ELSE @])
        /\ Calls(r, "shards", << >>)
        /\ Moves(r, "shards")
        /\ UNCHANGED <<surface, seen>>

\* gather_object to rank 0: the others are done once they have sent theirs.
SendFiles(r) ==
    /\ Completed(r, "shards")
    /\ Calls(r, "files", [step |-> rank[r].st.step, rng |-> rank[r].st.rng,
                          data |-> rank[r].st.data])
    /\ rank' = [rank EXCEPT ![r] =
                   IF r = 0 THEN [@ EXCEPT !.at = "files"]
                   ELSE Ended([@ EXCEPT !.lastCkpt = rank[r].st.consumed])]
    /\ UNCHANGED <<surface, seen, dirs>>

\* Rank 0 writes every rank's files, then the marker.
GatherWithoutWaiting == rank[0].at = "files"
GatherReturns == Completed(0, "files")

WriteFiles ==
    /\ GatherReturns
    /\ Stores(rank[0].st.step, [Dir(rank[0].st.step) EXCEPT !.files = Gathered(0, "files")])
    /\ Moves(0, "seal")
    /\ UNCHANGED <<surface, seen, calls>>

Seal ==
    /\ rank[0].at = "seal"
    /\ Stores(rank[0].st.step, [Dir(rank[0].st.step) EXCEPT !.sealed = TRUE])
    /\ rank' = [rank EXCEPT ![0] = Ended([@ EXCEPT !.lastCkpt = rank[0].st.consumed])]
    /\ UNCHANGED <<surface, seen, calls>>

-----------------------------------------------------------------------------
(* The world around the ranks *)

Sigterm(r) ==
    /\ rank[r].at \notin Gone
    /\ Cardinality({p \in Ranks : rank[p].sigterm}) < MaxSignals
    /\ ~rank[r].sigterm
    /\ rank' = [rank EXCEPT ![r].sigterm = TRUE]
    /\ UNCHANGED <<surface, seen, calls, dirs>>

Die(r) ==
    /\ rank[r].at \notin Gone
    /\ Cardinality({p \in Ranks : rank[p].at = "dead"}) < MaxDeaths
    /\ Moves(r, "dead")
    /\ UNCHANGED <<surface, seen, calls, dirs>>

\* A collective a member will never enter times out, and the rank with it.
Abort(r) ==
    /\ rank[r].at \notin Gone \cup {"start", "top", "seal"}
    /\ LET comm == CommOf(rank[r].at) IN
       \E p \in Peers(comm, r) : /\ rank[p].at \in Gone
                               /\ Len(calls[p][comm]) < Len(calls[r][comm])
    /\ Moves(r, "aborted")
    /\ UNCHANGED <<surface, seen, calls, dirs>>

Train(r) ==
    \/ AskGuard(r) \/ Refuse(r) \/ HashInit(r) \/ EnterLoop(r) \/ Finish(r)
    \/ Backward(r) \/ Flush(r) \/ FoldNorm(r) \/ HaltRank(r) \/ UpdateWeights(r)
    \/ AskExit(r) \/ HashShard(r) \/ NextStep(r) \/ HashBatches(r) \/ EndStep(r)
    \/ BeginSave(r) \/ SaveShard(r) \/ SendFiles(r)

Work == (\E r \in Ranks : Train(r) \/ Abort(r)) \/ WriteFiles \/ Seal
Fault == \E r \in Ranks : Sigterm(r) \/ Die(r)
Next == Work \/ Fault

Spec == Init /\ [][Next]_vars

\* Every live process keeps executing; nothing makes faults happen.
FairSpec == Spec /\ WF_vars(Work)
=============================================================================
