----------------------- MODULE ReplicatedUpdateProofs -----------------------
(***************************************************************************)
(* The promise of the cross-replica reduction keeps the replicas identical *)
(* and in step, for every group size and set of modules.                   *)
(***************************************************************************)
EXTENDS ReplicatedUpdate, TLAPS

\* The values an update may take.
Updates == {AuditedUpdate(s) : s \in Nat}

\* Every log is the audit's list up to its length, and nobody has applied an
\* update before everybody finished its backward.
UpdateInv ==
    /\ world \in Nat \ {0}
    /\ ready \in [Replicas -> Nat]
    /\ applied \in [Replicas -> Seq(Updates)]
    /\ \A r \in Replicas :
        /\ Len(applied[r]) \in {ready[r], ready[r] - 1}
        /\ \A s \in 1 .. Len(applied[r]) : applied[r][s] = AuditedUpdate(s)
    /\ \A q, r \in Replicas : Len(applied[r]) <= ready[q]

LEMMA UpdateInit == RInit => UpdateInv
<1> SUFFICES ASSUME RInit PROVE UpdateInv
    OBVIOUS
<1>1. << >> \in Seq(Updates) /\ Len(<< >>) = 0
    OBVIOUS
<1> QED BY <1>1 DEF RInit, UpdateInv, Replicas

LEMMA FinishInv ==
    ASSUME UpdateInv, NEW r \in Replicas, Finish(r)
    PROVE  UpdateInv'
<1>1. /\ ready' \in [Replicas -> Nat]
      /\ \A q \in Replicas : ready'[q] = (IF q = r THEN ready[q] + 1 ELSE ready[q])
    BY DEF UpdateInv, Finish
<1>2. \A q \in Replicas : Len(applied[q]) \in Nat
    BY DEF UpdateInv
<1>3. Replicas' = Replicas /\ world' = world /\ modules' = modules /\ applied' = applied
    BY DEF Finish, Replicas
<1>4. \A s : AuditedUpdate(s)' = AuditedUpdate(s)
    BY <1>3 DEF AuditedUpdate, Contribution
<1> QED BY <1>1, <1>2, <1>3, <1>4 DEF UpdateInv, Finish, Updates

LEMMA ApplyInv ==
    ASSUME UpdateInv, NEW r \in Replicas, Apply(r)
    PROVE  UpdateInv'
<1> DEFINE n == Len(applied[r])
           u == AuditedUpdate(ready[r])
<1>1. Replicas' = Replicas /\ world' = world /\ modules' = modules /\ ready' = ready
    BY DEF Apply, Replicas
<1>2. n \in Nat /\ ready[r] = n + 1 /\ ready[r] \in Nat
    BY DEF UpdateInv, Apply
<1>3. u \in Updates /\ Append(applied[r], u) \in Seq(Updates)
    <2>1. u \in Updates
        BY <1>2 DEF Updates
    <2>2. applied[r] \in Seq(Updates)
        BY DEF UpdateInv
    <2> HIDE DEF u
    <2> QED BY <2>1, <2>2
<1>4. /\ Len(Append(applied[r], u)) = n + 1
      /\ Append(applied[r], u)[n + 1] = u
      /\ \A s \in 1 .. n : Append(applied[r], u)[s] = applied[r][s]
    BY <1>2, <1>3 DEF UpdateInv
<1>5. /\ applied' \in [Replicas -> Seq(Updates)]
      /\ \A q \in Replicas :
            applied'[q] = (IF q = r THEN Append(applied[r], u) ELSE applied[q])
    BY <1>3 DEF UpdateInv, Apply
<1>6. Updates' = Updates /\ \A s : AuditedUpdate(s)' = AuditedUpdate(s)
    BY <1>1 DEF Updates, AuditedUpdate, Contribution
<1>7. ASSUME NEW q \in Replicas
      PROVE  /\ Len(applied'[q]) \in {ready[q], ready[q] - 1}
             /\ \A s \in 1 .. Len(applied'[q]) : applied'[q][s] = AuditedUpdate(s)
             /\ \A p \in Replicas : Len(applied'[q]) <= ready[p]
    <2>1. CASE q = r
        BY <1>2, <1>4, <1>5, <2>1 DEF UpdateInv, Apply
    <2>2. CASE q # r
        BY <1>5, <2>2 DEF UpdateInv
    <2> QED BY <2>1, <2>2
<1> QED BY <1>1, <1>5, <1>6, <1>7 DEF UpdateInv

LEMMA UpdateNext == UpdateInv /\ [RNext]_rvars => UpdateInv'
<1> SUFFICES ASSUME UpdateInv, [RNext]_rvars PROVE UpdateInv'
    OBVIOUS
<1>1. ASSUME NEW r \in Replicas, Finish(r) PROVE UpdateInv'
    BY <1>1, FinishInv
<1>2. ASSUME NEW r \in Replicas, Apply(r) PROVE UpdateInv'
    BY <1>2, ApplyInv
<1>3. CASE UNCHANGED rvars
    <2>1. world' = world /\ modules' = modules /\ ready' = ready /\ applied' = applied
        BY <1>3 DEF rvars
    <2>2. Replicas' = Replicas /\ Updates' = Updates
        BY <2>1 DEF Replicas, Updates, AuditedUpdate, Contribution
    <2>3. \A s : AuditedUpdate(s)' = AuditedUpdate(s)
        BY <2>1 DEF AuditedUpdate, Contribution
    <2> QED BY <2>1, <2>2, <2>3 DEF UpdateInv
<1> QED BY <1>1, <1>2, <1>3 DEF RNext

LEMMA UpdateAgrees == UpdateInv => ReplicasAgree
<1> SUFFICES ASSUME UpdateInv, NEW q \in Replicas, NEW r \in Replicas
             PROVE  /\ Len(applied[r]) <= Len(applied[q]) + 1
                    /\ \A s \in DOMAIN applied[r] \cap DOMAIN applied[q] :
                            applied[r][s] = applied[q][s]
    BY DEF ReplicasAgree
<1>1. applied[q] \in Seq(Updates) /\ applied[r] \in Seq(Updates)
    BY DEF UpdateInv
<1>2. Len(applied[r]) <= ready[q] /\ ready[q] <= Len(applied[q]) + 1
    BY <1>1 DEF UpdateInv
<1> QED BY <1>1, <1>2 DEF UpdateInv

\* The replicas of a group apply one and the same list of updates, and no
\* replica gets two updates ahead (deterministic_reduce.flush, called by every
\* replica between its backward and its optimizer step).
THEOREM ReplicasStayIdentical == RSpec => []ReplicasAgree
<1>1. RSpec => []UpdateInv
    BY UpdateInit, UpdateNext, PTL DEF RSpec
<1> QED BY <1>1, UpdateAgrees, PTL
=============================================================================
