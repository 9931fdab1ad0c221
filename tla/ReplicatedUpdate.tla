-------------------------- MODULE ReplicatedUpdate --------------------------
(***************************************************************************)
(* What the cross-replica reduction promises: an update is applied only    *)
(* after every replica has finished its backward, and it is the one the    *)
(* single-device audit folds from the replicas' gradients, so the replicas *)
(* stay identical and at most one step apart.                              *)
(***************************************************************************)
EXTENDS ReduceTree

VARIABLES
    world,    \* replicas of the group
    modules,  \* install indices of the wrapped modules
    ready,    \* per replica, the backward passes finished
    applied   \* per replica, the updates applied

rvars == <<world, modules, ready, applied>>

Replicas == 0 .. world - 1

\* The shard a replica contributes to a module's gradient at a step.
Contribution(r, m, s) == Leaf(<<r, m, s>>)

\* What the audit computes: fold the replicas in ascending order, average.
AuditedUpdate(s) ==
    [m \in modules |->
        Averaged(AuditFold([i \in 1 .. world |-> Contribution(i - 1, m, s)]), world)]

RInit ==
    /\ world \in Nat \ {0} /\ modules \subseteq Nat
    /\ ready = [r \in Replicas |-> 0]
    /\ applied = [r \in Replicas |-> << >>]

Finish(r) ==
    /\ ready[r] = Len(applied[r])
    /\ ready' = [ready EXCEPT ![r] = @ + 1]
    /\ UNCHANGED <<world, modules, applied>>

Apply(r) ==
    /\ ready[r] > Len(applied[r])
    /\ \A q \in Replicas : ready[q] >= ready[r]
    /\ applied' = [applied EXCEPT ![r] = Append(@, AuditedUpdate(ready[r]))]
    /\ UNCHANGED <<world, modules, ready>>

RNext == \E r \in Replicas : Finish(r) \/ Apply(r)

RSpec == RInit /\ [][RNext]_rvars

-----------------------------------------------------------------------------
\* Two replicas apply the same updates, those the audit computes, and neither
\* is more than one update ahead of the other.
ReplicasAgree ==
    \A q, r \in Replicas :
        /\ Len(applied[r]) <= Len(applied[q]) + 1
        /\ \A s \in DOMAIN applied[r] \cap DOMAIN applied[q] :
                applied[r][s] = applied[q][s]
=============================================================================
