----------------------------- MODULE HandoffGate -----------------------------
(***************************************************************************)
(* src/src/pretrain/cli/verify_handoff.py: what a receiver of a hand-off   *)
(* checks before it spends a replay on it.  The gate rebuilds the digest   *)
(* of the hand-off's step from the files alone and compares it with the    *)
(* published one; the published digest of the previous hashed step is the  *)
(* only link it takes from outside.                                        *)
(***************************************************************************)
EXTENDS RunSegments

\* A commitment is a literal digest; the first hashed step has no link.
Literal(digest) == digest.link = "digest"

\* Refusals that need no model: off the cadence, a stamp that is not the
\* chain in meta.json, a stamp that is not the published digest.
Plain(files, expect) ==
    /\ HashDue(files.state.step)
    /\ files.stamp = files.state.chain
    /\ files.stamp = expect

\* The sidecar's gradients reattached, the batch digest combined from every
\* rank's chain, the weights and moments as loaded.
ReconstructedFromMeta(files, prev) ==
    StepDigest([files.state EXCEPT !.data = RoundsOf(files.hashers)], files.grads)
Reconstructed(files, prev) ==
    StepDigest([files.state EXCEPT !.chain = prev, !.data = RoundsOf(files.hashers)],
               files.grads)

Gate(files, expect, prev) ==
    IF ~Literal(expect) \/ ~Literal(prev) \/ ~Plain(files, expect)
           \/ files.grads = NoSidecar
    THEN "refused"
    ELSE IF Reconstructed(files, prev) = expect THEN "verified" ELSE "differs"
=============================================================================
