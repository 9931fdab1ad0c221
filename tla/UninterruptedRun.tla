-------------------------- MODULE UninterruptedRun --------------------------
(***************************************************************************)
(* What training promises: the run nobody interrupts.  It walks from one   *)
(* step boundary to the next, publishes one digest per hashed step, and    *)
(* stops at the token budget or at its first halt.  TrainRun implements it *)
(* through any number of crashes, evictions and resumes.                   *)
(***************************************************************************)
EXTENDS TrainStep

CONSTANT Surfaces   \* the loss surfaces considered: gradient class by position

VARIABLES
    surface,   \* class of the gradient of the batch starting at a position
    tip,       \* the furthest step boundary reached
    trail,     \* the state at every boundary up to tip
    journal,   \* published (step, digest) pairs
    haltedAt   \* the step at which the run halted, or -1

uvars == <<surface, tip, trail, journal, haltedAt>>

\* The state at the first loop top: a fresh start, or the parent checkpoint
\* after the optimizer reset and the re-warm anchoring of the resume block.
Boot ==
    IF ~Fork THEN FreshState
    ELSE [ParentState EXCEPT
             !.moments = IF ResetOptimizer THEN << >> ELSE @,
             !.anchor  = IF ResetOptimizer \/ (RewarmOnResume /\ RewarmTokens > 0)
                         THEN ForkTokens ELSE NoAnchor]

GradClass(st) == surface[st.pos]

UInit ==
    /\ surface \in Surfaces
    /\ tip = Boot.step
    /\ trail = [s \in {Boot.step} |-> Boot]
    /\ journal = {}
    /\ haltedAt = -1

Extended(f, s, st) == [x \in DOMAIN f \cup {s} |-> IF x = s THEN st ELSE f[x]]

\* The init digest of a cold start.
Announce ==
    /\ ~Fork
    /\ journal' = journal \cup {InitEntry}
    /\ UNCHANGED <<surface, tip, trail, haltedAt>>

Advance ==
    LET st == trail[tip] IN
    /\ haltedAt = -1
    /\ st.consumed < TotalTokens /\ ~Uneven(st.consumed)
    /\ ~RaisesHalt(st.spike, GradClass(st), st.step)
    /\ tip' = tip + 1
    /\ trail' = Extended(trail, tip + 1, After(st, GradClass(st)))
    /\ journal' = IF HashDue(tip + 1)
                  THEN journal \cup {[step |-> tip + 1,
                                      digest |-> DigestAfter(st, GradClass(st))]}
                  ELSE journal
    /\ UNCHANGED <<surface, haltedAt>>

HaltRun ==
    LET st == trail[tip] IN
    /\ st.consumed < TotalTokens /\ ~Uneven(st.consumed)
    /\ RaisesHalt(st.spike, GradClass(st), st.step)
    /\ haltedAt' = tip
    /\ UNCHANGED <<surface, tip, trail, journal>>

UNext == Announce \/ Advance \/ HaltRun

USpec == UInit /\ [][UNext]_uvars
=============================================================================
