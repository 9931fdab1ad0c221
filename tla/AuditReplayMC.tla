---------------------------- MODULE AuditReplayMC ----------------------------
(***************************************************************************)
(* Properties of AuditReplay and its bounded instances.                    *)
(***************************************************************************)
EXTENDS AuditReplay, HandoffGate

\* Steps start at positions 0, 6, 18, 30: calm, one skipped step, and spikes
\* that halt the run at its fourth step.
Spikes(P) == [p \in 0 .. 60 |-> IF p \in P THEN "spike" ELSE "calm"]
AuditSurfaces == {Spikes({}), Spikes({6}), Spikes({6, 30})}

\* Everything resident, or everything on disk.
AllOrNothing == {{}, {"fold", "moments", "master"}}

-----------------------------------------------------------------------------
AuditTypeOK ==
    /\ phase \in {"idle", "top", "ranks", "gate", "hash", "counters", "done",
                  "judged", "staged", "ended"}
    /\ verdict \in {NotYet, "init", "unchecked", "match", "mismatch", "raised"}
    /\ rank \in 0 .. World /\ slot \in 0 .. DpReplicate
    /\ Len(inner) < DpShard
    /\ \A i \in DOMAIN stack : stack[i].file \in DOMAIN store
    /\ \A f \in DOMAIN store : f[1] \in {"fold", "moments", "master"}
    /\ DOMAIN handoffs \subseteq 1 .. Current.tip + 1
    /\ left \in [audits : 0 .. MaxAudits, faults : 0 .. MaxFaults]

\* A hand-off whose audit matched the digest its segment published.
Matched(s) ==
    LET g == handoffs[s].segment IN
    handoffs[s].matched /\ s \in Steps(g) /\ handoffs[s].files.stamp = Canonical(g, s)

\* The start the operator's instructions describe: a checkpoint of the segment
\* under audit, or the one it forked from together with its descriptor; a
\* hand-off only when its audit matched.
HonestStart ==
    /\ args.origin = "handoff" => Matched(args.step)
    /\ args.desc # 0 =>
          args.desc = args.segment + 1 /\ args.step = segments[args.desc].first

Honest ==
    HonestStart /\ args.until \in Steps(Audited) /\ args.until > args.step

\* "Resuming mid-run needs nothing but the checkpoint": an audit with honest
\* arguments that gets as far as comparing the target's published digest
\* matches it, from every start, over every combination of spilled tensors,
\* and even when spilled bytes were lost on the way.
HonestIntervalMatches ==
    phase = "judged" /\ Honest /\ args.expect = Canonical(Audited, args.until)
        => verdict = "match"

\* A match that reached its target replayed at least one step, compared with
\* a digest published for the very step it stands at, and hashed the tensors,
\* moments and batch chains that the cluster's checkpoint of that step holds.
\* One that did not reach it was stopped by the spike protocol.
MatchIsEarned ==
    phase = "judged" /\ verdict = "match" =>
        IF target = NoDigest THEN halted
        ELSE /\ live.step = args.until /\ live.step > args.step
             /\ \E g \in DOMAIN segments :
                   /\ live.step \in Steps(g) /\ args.expect = Canonical(g, live.step)
                   /\ segments[g].trail[live.step].weights = live.weights
                   /\ segments[g].trail[live.step].moments = live.moments
                   /\ segments[g].trail[live.step].data = RoundsOf(hashers)

HashedParts(files) ==
    [weights |-> files.state.weights, moments |-> files.state.moments,
     lr |-> files.state.lr, hashers |-> files.hashers]

\* "A fresh, fully-loadable checkpoint": the hand-off of a matched audit equals
\* the cluster's checkpoint of that step in every part a later audit loads,
\* the spike record, stream position and re-warm anchor that no digest covers
\* among them, and carries the gradients of that step.
MatchedHandoffIsTheCheckpoint ==
    \A s \in DOMAIN handoffs :
        Matched(s) =>
            LET g == handoffs[s].segment IN
            handoffs[s].files = [Checkpoint(g, s) EXCEPT !.grads = StepGrads(g, s)]

\* The gate lets no hand-off through whose hashed parts are not the cluster's,
\* and every matched hand-off of a hashed step but the first passes it.
HandoffVerifies ==
    \A s \in DOMAIN handoffs, g \in DOMAIN segments :
        s \in Steps(g) =>
            LET files == handoffs[s].files
                prev == segments[g].trail[s - 1].chain
                result == Gate(files, Canonical(g, s), prev)
            IN  /\ result = "verified" =>
                      /\ HashedParts(files) = HashedParts(Checkpoint(g, s))
                      /\ files.grads = StepGrads(g, s)
                /\ Matched(s) /\ g = handoffs[s].segment /\ HashDue(s) /\ prev # NoLink
                      => result = "verified"

\* "phase-2 intervals after the boundary need no flag (their checkpoints
\* already carry the phase-2 optimizer state)".
LaterIntervalsNeedNoFlag ==
    phase = "judged" /\ args.origin = "cluster" /\ args.desc = 0
        /\ segments[args.segment].kind = "reset"
        /\ args.until \in Steps(args.segment)
        /\ args.expect = Canonical(args.segment, args.until)
        => verdict = "match"
=============================================================================
