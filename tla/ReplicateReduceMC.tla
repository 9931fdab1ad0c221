------------------------- MODULE ReplicateReduceMC -------------------------
(***************************************************************************)
(* Properties of ReplicateReduce and small instances of it for TLC.        *)
(***************************************************************************)
EXTENDS ReplicateReduce

Group(n, bucketed, modules, steps, capacity) ==
    [world |-> n, bucketed |-> bucketed, modules |-> modules, steps |-> steps,
     capacity |-> capacity]

\* One and two binary blocks with all that may overlap; two and three blocks
\* over the transport most prone to deadlock.
Small == {Group(n, b, {0, 1}, 2, 4) : n \in 1 .. 4, b \in BOOLEAN}
Wide == {Group(n, TRUE, {0}, 1, 0) : n \in 5 .. 7}
SmallAndWide == Small \cup Wide

-----------------------------------------------------------------------------
LeavesOf(v) == UNION BagToSet(v)

\* Every buffered element is a sum of contributions, and a replica outside a
\* reduction holds no buffer and owes no operation.
TypeOK ==
    /\ group \in Groups
    /\ pc \in [Replicas -> {"backward", "reduce", "update"}]
    /\ step \in [Replicas -> 1 .. group.steps + 1]
    /\ \A r \in Replicas :
        /\ Fired(r) \subseteq group.modules
        /\ \A i \in DOMAIN pending[r] : pending[r][i] \in Fired(r)
        /\ DOMAIN flat[r] = DOMAIN layout[r]
        /\ pc[r] # "reduce" => layout[r] = << >> /\ todo[r] = Idle
        /\ pc[r] = "reduce" => batch[r] < Len(Plan(r))
        /\ Len(applied[r]) = step[r] - 1

\* The point-to-point operations carry no tag: a replica about to receive
\* must find at the head of the queue a buffer of the reduction it is in,
\* coalesced in its own order (deterministic_reduce._p2p_full, flush).
ReceivesItsOwnReduction ==
    \A s, d \in Replicas :
        s \in todo[d].from /\ channel[s, d] # << >> =>
            LET message == Head(channel[s, d]) IN
            /\ DOMAIN message = DOMAIN layout[d]
            /\ \A i \in DOMAIN message : \A leaf \in LeavesOf(message[i]) :
                leaf[2] = layout[d][i] /\ leaf[3] = step[d]

\* Each element is reduced from exactly one gradient of every replica before
\* the optimizer reads it, in the grouping the single-device audit replays,
\* and no replica updates before all have finished their backward
\* (DeterministicReplicateAllReduce.flush, called before the clip).
Promise == INSTANCE ReplicatedUpdate WITH
    world <- group.world, modules <- group.modules,
    ready <- [r \in Replicas |->
                Len(applied[r]) + (IF Fired(r) = group.modules THEN 1 ELSE 0)]
ImplementsPromise == Promise!RSpec

\* No group size and no order of hooks makes the replicas wait on each other
\* for ever, even when the transport buffers nothing.
EveryReplicaFinishes == <>Finished
=============================================================================
