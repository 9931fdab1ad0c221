--------------------------- MODULE TrainStepProofs ---------------------------
(***************************************************************************)
(* What one training step does to each part of the state, how the ranks'   *)
(* shares put it together again, and the naturals and sequences all proofs *)
(* about runs rest on.                                                     *)
(***************************************************************************)
EXTENDS RankShares, ShardRows, WellFoundedInduction, TLAPS

IsState(st) ==
    st = [step |-> st.step, consumed |-> st.consumed, weights |-> st.weights,
          moments |-> st.moments, lr |-> st.lr, rng |-> st.rng, pos |-> st.pos,
          data |-> st.data, chain |-> st.chain, spike |-> st.spike,
          anchor |-> st.anchor]

GoodBoundary(st, s) ==
    /\ IsState(st) /\ st.step = s
    /\ st.consumed \in Nat /\ st.pos \in Nat /\ st.data \in Seq(Nat)
    /\ st.chain = NoLink \/ st.chain.link = "digest"

-----------------------------------------------------------------------------
(* Naturals and sequences *)

\* Every non-empty set of naturals has a least member: what an induction over
\* data rests on.
LEMMA LeastNat ==
    ASSUME NEW T \in SUBSET Nat, T # {}
    PROVE  \E m \in T : \A k \in T : m <= k
<1> DEFINE R == OpToRel(<, Nat)
<1>1. IsWellFoundedOn(R, Nat)
    BY NatLessThanWellFounded
<1>2. \A x, y \in Nat : y < x => <<y, x>> \in R
    BY DEF OpToRel
<1> HIDE DEF R
<1>3. \E x \in T : \A y \in T : ~(<<y, x>> \in R)
    BY <1>1, WFMin, Zenon
<1>4. PICK m \in T : \A y \in T : ~(<<y, m>> \in R)
    BY <1>3
<1>5. \A k \in T : ~(k < m)
    BY <1>2, <1>4
<1> QED BY <1>4, <1>5

LEMMA ConcatTail ==
    ASSUME NEW s \in Seq(Nat), NEW t \in Seq(Nat)
    PROVE  /\ s \o t \in Seq(Nat) /\ Len(s \o t) = Len(s) + Len(t)
           /\ SubSeq(s \o t, Len(s) + 1, Len(s) + Len(t)) = t
<1>1. SubSeq(s \o t, Len(s) + 1, Len(s) + Len(t)) =
         [i \in 1 .. Len(t) |-> (s \o t)[Len(s) + i]]
    OBVIOUS
<1>2. \A i \in 1 .. Len(t) : (s \o t)[Len(s) + i] = t[i]
    OBVIOUS
<1>3. t = [i \in 1 .. Len(t) |-> t[i]]
    OBVIOUS
<1>4. [i \in 1 .. Len(t) |-> (s \o t)[Len(s) + i]] = [i \in 1 .. Len(t) |-> t[i]]
    BY <1>2
<1> QED BY <1>1, <1>3, <1>4

\* A sequence of anything grows by one.
LEMMA AppendFacts ==
    ASSUME NEW s, NEW x, Len(s) \in Nat, s = [i \in 1 .. Len(s) |-> s[i]]
    PROVE  /\ Len(Append(s, x)) = Len(s) + 1
           /\ Append(s, x) =
                 [i \in 1 .. Len(s) + 1 |-> IF i = Len(s) + 1 THEN x ELSE s[i]]
           /\ \A i \in 1 .. Len(s) : Append(s, x)[i] = s[i]
           /\ Append(s, x)[Len(s) + 1] = x
<1> DEFINE S == {s[i] : i \in 1 .. Len(s)} \cup {x}
<1>1. s \in [1 .. Len(s) -> S]
    OBVIOUS
<1>2. s \in Seq(S) /\ x \in S
    BY <1>1
<1> HIDE DEF S
<1>3. Len(Append(s, x)) = Len(s) + 1 /\ Append(s, x) \in Seq(S)
    BY <1>2
<1>4. /\ \A i \in 1 .. Len(s) : Append(s, x)[i] = s[i]
      /\ Append(s, x)[Len(s) + 1] = x
    BY <1>2
<1>5. Append(s, x) = [i \in 1 .. Len(Append(s, x)) |-> Append(s, x)[i]]
    <2>1. \A q \in Seq(S) : q = [i \in 1 .. Len(q) |-> q[i]]
        OBVIOUS
    <2> QED BY <1>3, <2>1
<1>6. \A i \in 1 .. Len(s) + 1 :
         Append(s, x)[i] = IF i = Len(s) + 1 THEN x ELSE s[i]
    BY <1>4
<1> QED BY <1>3, <1>4, <1>5, <1>6

-----------------------------------------------------------------------------
(* The batch schedule and the step *)

LEMMA RoundsPositive ==
    ASSUME NEW c
    PROVE  /\ Rounds(c) \in Nat
           /\ ~Uneven(c) => Rounds(c) \in Nat \ {0}
<1>1. World \in Nat \ {0} /\ MicroTokens \in Nat \ {0}
    BY TrainAssumption, BatchScheduleAssumption
<1>2. TargetTokens(c) \in Nat \ {0}
    BY BatchScheduleAssumption DEF TargetTokens
<1>3. \A n \in Nat, d \in Nat \ {0} : RoundedUp(n, d) \in Nat \ {0}
    <2> SUFFICES ASSUME NEW n \in Nat, NEW d \in Nat \ {0}
                 PROVE  RoundedUp(n, d) \in Nat \ {0}
        OBVIOUS
    <2>1. n \div d \in Nat
        OBVIOUS
    <2> QED BY <2>1 DEF RoundedUp
<1>4. MicrobatchesPerStep(c) \in Nat \ {0}
    BY <1>1, <1>2, <1>3 DEF MicrobatchesPerStep
<1>5. \A m, w \in Nat \ {0} : m \div w \in Nat /\ (m % w = 0 => m \div w \in Nat \ {0})
    OBVIOUS
<1>6. CASE Auditable
    <2>1. /\ Rounds(c) = MicrobatchesPerStep(c) \div World
          /\ Uneven(c) = (MicrobatchesPerStep(c) % World # 0)
        BY <1>6 DEF Rounds, Uneven
    <2> QED BY <1>1, <1>4, <1>5, <2>1
<1>7. CASE ~Auditable
    <2>1. MicroTokens * World \in Nat \ {0}
        BY <1>1
    <2>2. GradAccumSteps(c, World) \in Nat \ {0}
        BY <1>2, <1>3, <2>1 DEF GradAccumSteps
    <2> QED BY <1>7, <2>2 DEF Rounds
<1> QED BY <1>6, <1>7

\* What a step takes of the stream, in micro-batches and in tokens.
Span(c) == Rounds(c) * World
Tokens(c) == Rounds(c) * World * MicroTokens

LEMMA TokensOfAStep ==
    ASSUME NEW c
    PROVE  Span(c) \in Nat /\ Tokens(c) \in Nat
<1>1. \A a, b, d \in Nat : a * b \in Nat /\ a * b * d \in Nat
    OBVIOUS
<1> QED BY <1>1, RoundsPositive, TrainAssumption, BatchScheduleAssumption DEF Span, Tokens

\* The rounds of a step: as many as the schedule says, World apart.
LEMMA BatchesType ==
    ASSUME NEW pos \in Nat, NEW c
    PROVE  /\ StepBatches(pos, c) \in Seq(Nat)
           /\ Len(StepBatches(pos, c)) = Rounds(c)
           /\ ~Uneven(c) => Rounds(c) >= 1 /\ StepBatches(pos, c)[1] = pos
           /\ ~Uneven(c) => StepBatches(pos, c) # << >>
<1>1. Rounds(c) \in Nat /\ World \in Nat
    BY RoundsPositive, TrainAssumption
<1>2. \A k \in 1 .. Rounds(c) : pos + (k - 1) * World \in Nat
    <2>1. \A a, b \in Nat : a * b \in Nat
        OBVIOUS
    <2>2. \A k \in 1 .. Rounds(c) : k - 1 \in Nat
        BY <1>1
    <2> QED BY <1>1, <2>1, <2>2
<1>3. StepBatches(pos, c) \in [1 .. Rounds(c) -> Nat]
    BY <1>2 DEF StepBatches
<1>4. StepBatches(pos, c) \in Seq(Nat) /\ Len(StepBatches(pos, c)) = Rounds(c)
    BY <1>1, <1>3
<1>5. ASSUME ~Uneven(c) PROVE Rounds(c) >= 1 /\ StepBatches(pos, c)[1] = pos
    <2>1. Rounds(c) >= 1
        BY <1>5, RoundsPositive
    <2>2. StepBatches(pos, c)[1] = pos + (1 - 1) * World
        BY <1>1, <2>1 DEF StepBatches
    <2> QED BY <1>1, <2>1, <2>2
<1> QED BY <1>4, <1>5

Updated(st, k, c, w, m, rng, g) ==
    [st EXCEPT !.weights = w, !.moments = m, !.rng = rng, !.spike = g,
               !.consumed = c, !.step = k]

\* The fields of a state that a step rewrites, and the ones it leaves alone.
LEMMA UpdatedRecord ==
    ASSUME NEW st, IsState(st), NEW k, NEW c, NEW w, NEW m, NEW rng, NEW g
    PROVE  Updated(st, k, c, w, m, rng, g) =
           [step |-> k, consumed |-> c, weights |-> w, moments |-> m, lr |-> st.lr,
            rng |-> rng, pos |-> st.pos, data |-> st.data, chain |-> st.chain, spike |-> g,
            anchor |-> st.anchor]
<1> DEFINE Of(a1, a2, a3, a4, a6, a10) ==
              [step |-> a1, consumed |-> a2, weights |-> a3, moments |-> a4, lr |-> st.lr,
               rng |-> a6, pos |-> st.pos, data |-> st.data, chain |-> st.chain,
               spike |-> a10, anchor |-> st.anchor]
           W(x) == [x EXCEPT !.weights = w]
           M(x) == [x EXCEPT !.moments = m]
           R(x) == [x EXCEPT !.rng = rng]
           G(x) == [x EXCEPT !.spike = g]
           C(x) == [x EXCEPT !.consumed = c]
           K(x) == [x EXCEPT !.step = k]
<1>1. \A a1, a2, a3, a4, a6, a10 :
         /\ W(Of(a1, a2, a3, a4, a6, a10)) = Of(a1, a2, w, a4, a6, a10)
         /\ M(Of(a1, a2, a3, a4, a6, a10)) = Of(a1, a2, a3, m, a6, a10)
         /\ R(Of(a1, a2, a3, a4, a6, a10)) = Of(a1, a2, a3, a4, rng, a10)
         /\ G(Of(a1, a2, a3, a4, a6, a10)) = Of(a1, a2, a3, a4, a6, g)
         /\ C(Of(a1, a2, a3, a4, a6, a10)) = Of(a1, c, a3, a4, a6, a10)
         /\ K(Of(a1, a2, a3, a4, a6, a10)) = Of(k, a2, a3, a4, a6, a10)
    OBVIOUS
<1>2. st = Of(st.step, st.consumed, st.weights, st.moments, st.rng, st.spike)
    BY DEF IsState
<1>3. Updated(st, k, c, w, m, rng, g) = K(C(G(R(M(W(st))))))
    BY DEF Updated
<1> HIDE DEF Of, W, M, R, G, C, K
<1>4. K(C(G(R(M(W(st)))))) = Of(k, c, w, m, rng, g)
    BY <1>1, <1>2
<1> QED BY <1>3, <1>4 DEF Of

\* What the optimizer's part of a step leaves, field by field.
LEMMA SteppedRecord ==
    ASSUME NEW st, IsState(st), NEW grads, NEW class
    PROVE  Stepped(st, grads, class) =
           [step |-> st.step + 1, consumed |-> st.consumed + Tokens(st.consumed),
            weights |-> IF ShouldSkip(st.spike, class, st.step) THEN st.weights
                        ELSE Append(st.weights, [grads |-> grads, lr |-> st.lr, rng |-> st.rng,
                                                 moments |-> Len(st.moments)]),
            moments |-> IF ShouldSkip(st.spike, class, st.step) THEN st.moments
                        ELSE Append(st.moments, grads),
            lr |-> st.lr, rng |-> st.rng + 1, pos |-> st.pos, data |-> st.data,
            chain |-> st.chain, spike |-> AfterGate(st.spike, class, st.step),
            anchor |-> st.anchor]
<1> DEFINE w == IF ShouldSkip(st.spike, class, st.step) THEN st.weights
                ELSE Append(st.weights, [grads |-> grads, lr |-> st.lr, rng |-> st.rng,
                                         moments |-> Len(st.moments)])
           m == IF ShouldSkip(st.spike, class, st.step) THEN st.moments
                ELSE Append(st.moments, grads)
           rng == st.rng + 1
           g == AfterGate(st.spike, class, st.step)
           c == st.consumed + Tokens(st.consumed)
           k == st.step + 1
<1>1. Stepped(st, grads, class) = Updated(st, k, c, w, m, rng, g)
    BY DEF Stepped, Tokens, Updated
<1> HIDE DEF w, m, rng, g, c, k
<1>2. Stepped(st, grads, class) =
         [step |-> k, consumed |-> c, weights |-> w, moments |-> m, lr |-> st.lr,
          rng |-> rng, pos |-> st.pos, data |-> st.data, chain |-> st.chain, spike |-> g,
          anchor |-> st.anchor]
    BY <1>1, UpdatedRecord
<1> QED BY <1>2 DEF w, m, rng, g, c, k

\* What one step does to each part of the state.
LEMMA BeforeHashFields ==
    ASSUME HashEvery > 0, NEW st, NEW s \in Nat, GoodBoundary(st, s), NEW class
    PROVE  /\ IsState(BeforeHash(st, class))
           /\ BeforeHash(st, class).step = s + 1
           /\ BeforeHash(st, class).consumed = st.consumed + Tokens(st.consumed)
           /\ BeforeHash(st, class).pos = st.pos + Span(st.consumed)
           /\ BeforeHash(st, class).rng = st.rng + 1
           /\ BeforeHash(st, class).spike = AfterGate(st.spike, class, s)
           /\ BeforeHash(st, class).data = st.data \o StepBatches(st.pos, st.consumed)
           /\ BeforeHash(st, class).chain = st.chain
           /\ BeforeHash(st, class).anchor = st.anchor
<1> DEFINE begun == Begun(st, st.consumed)
           new == StepBatches(st.pos, st.consumed)
           b == BeforeHash(st, class)
<1>1. begun = [st EXCEPT !.lr = LR(st.consumed, st.anchor),
                         !.pos = st.pos + Span(st.consumed), !.data = st.data \o new]
    BY DEF Begun, Span
<1>2. st.step = s /\ IsState(st)
    BY DEF GoodBoundary
<1>3. begun = [step |-> s, consumed |-> st.consumed, weights |-> st.weights,
               moments |-> st.moments, lr |-> LR(st.consumed, st.anchor),
               rng |-> st.rng, pos |-> st.pos + Span(st.consumed),
               data |-> st.data \o new, chain |-> st.chain, spike |-> st.spike,
               anchor |-> st.anchor]
    BY <1>1, <1>2 DEF IsState
<1>4. b = Stepped(begun, new, class)
    BY DEF BeforeHash
<1> HIDE DEF begun, new, b
<1>5. IsState(begun)
    BY <1>3 DEF IsState
<1>6. /\ begun.step = s /\ begun.consumed = st.consumed /\ begun.rng = st.rng
      /\ begun.pos = st.pos + Span(st.consumed) /\ begun.data = st.data \o new
      /\ begun.chain = st.chain /\ begun.spike = st.spike /\ begun.anchor = st.anchor
    BY <1>3
<1> DEFINE w == IF ShouldSkip(begun.spike, class, begun.step) THEN begun.weights
                ELSE Append(begun.weights, [grads |-> new, lr |-> begun.lr, rng |-> begun.rng,
                                            moments |-> Len(begun.moments)])
           m == IF ShouldSkip(begun.spike, class, begun.step) THEN begun.moments
                ELSE Append(begun.moments, new)
<1>7. Stepped(begun, new, class) =
         [step |-> begun.step + 1, consumed |-> begun.consumed + Tokens(begun.consumed),
          weights |-> w, moments |-> m, lr |-> begun.lr, rng |-> begun.rng + 1,
          pos |-> begun.pos, data |-> begun.data, chain |-> begun.chain,
          spike |-> AfterGate(begun.spike, class, begun.step), anchor |-> begun.anchor]
    BY <1>5, SteppedRecord
<1> HIDE DEF w, m
<1>8. /\ IsState(b) /\ b.step = begun.step + 1
      /\ b.consumed = begun.consumed + Tokens(begun.consumed)
      /\ b.pos = begun.pos /\ b.rng = begun.rng + 1
      /\ b.spike = AfterGate(begun.spike, class, begun.step)
      /\ b.data = begun.data /\ b.chain = begun.chain /\ b.anchor = begun.anchor
    BY <1>4, <1>7 DEF IsState
<1>9. IsState(b) /\ b.step = s + 1 /\ b.consumed = st.consumed + Tokens(st.consumed)
      /\ b.pos = st.pos + Span(st.consumed) /\ b.rng = st.rng + 1
      /\ b.spike = AfterGate(st.spike, class, s) /\ b.data = st.data \o new
      /\ b.chain = st.chain /\ b.anchor = st.anchor
    BY <1>6, <1>8
<1> QED BY <1>9 DEF b, new

LEMMA AfterFields ==
    ASSUME HashEvery > 0, NEW st, NEW s \in Nat, GoodBoundary(st, s), NEW class
    PROVE  /\ IsState(After(st, class)) /\ After(st, class).step = s + 1
           /\ After(st, class).consumed = BeforeHash(st, class).consumed
           /\ After(st, class).pos = BeforeHash(st, class).pos
           /\ After(st, class).rng = BeforeHash(st, class).rng
           /\ After(st, class).spike = BeforeHash(st, class).spike
           /\ After(st, class).data = BeforeHash(st, class).data
           /\ After(st, class).anchor = BeforeHash(st, class).anchor
           /\ After(st, class).lr = BeforeHash(st, class).lr
           /\ After(st, class).weights = BeforeHash(st, class).weights
           /\ After(st, class).moments = BeforeHash(st, class).moments
           /\ After(st, class).chain = IF HashDue(s + 1) THEN DigestAfter(st, class)
                                                        ELSE st.chain
<1> DEFINE b == BeforeHash(st, class)
           d == DigestAfter(st, class)
<1>1. IsState(b) /\ b.step = s + 1 /\ b.chain = st.chain
    BY BeforeHashFields
<1>2. After(st, class) = IF HashDue(b.step) THEN [b EXCEPT !.chain = d] ELSE b
    BY DEF After, Linked, DigestAfter
<1> HIDE DEF b, d
<1>3. CASE HashDue(s + 1)
    <2>1. After(st, class) = [b EXCEPT !.chain = d]
        BY <1>1, <1>2, <1>3
    <2>2. After(st, class) =
            [step |-> b.step, consumed |-> b.consumed, weights |-> b.weights,
             moments |-> b.moments, lr |-> b.lr, rng |-> b.rng, pos |-> b.pos,
             data |-> b.data, chain |-> d, spike |-> b.spike, anchor |-> b.anchor]
        BY <1>1, <2>1 DEF IsState
    <2> QED BY <1>1, <1>3, <2>2 DEF IsState, b, d
<1>4. CASE ~HashDue(s + 1)
    BY <1>1, <1>2, <1>4 DEF b, d
<1> QED BY <1>3, <1>4

LEMMA AfterCourse ==
    ASSUME HashEvery > 0, NEW st, NEW s \in Nat, GoodBoundary(st, s), NEW class
    PROVE  /\ After(st, class).step = s + 1
           /\ After(st, class).consumed = st.consumed + Tokens(st.consumed)
           /\ After(st, class).pos = st.pos + Span(st.consumed)
           /\ After(st, class).rng = st.rng + 1
           /\ After(st, class).spike = AfterGate(st.spike, class, s)
           /\ After(st, class).data = st.data \o StepBatches(st.pos, st.consumed)
           /\ After(st, class).anchor = st.anchor
<1> DEFINE a == After(st, class)
           b == BeforeHash(st, class)
           new == StepBatches(st.pos, st.consumed)
<1>1. /\ a.step = s + 1 /\ a.consumed = b.consumed /\ a.pos = b.pos /\ a.rng = b.rng
      /\ a.spike = b.spike /\ a.data = b.data /\ a.anchor = b.anchor
    BY AfterFields
<1>2. /\ b.consumed = st.consumed + Tokens(st.consumed)
      /\ b.pos = st.pos + Span(st.consumed) /\ b.rng = st.rng + 1
      /\ b.spike = AfterGate(st.spike, class, s) /\ b.data = st.data \o new
      /\ b.anchor = st.anchor
    BY BeforeHashFields
<1> HIDE DEF a, b, new
<1>3. /\ a.step = s + 1 /\ a.consumed = st.consumed + Tokens(st.consumed)
      /\ a.pos = st.pos + Span(st.consumed) /\ a.rng = st.rng + 1
      /\ a.spike = AfterGate(st.spike, class, s) /\ a.data = st.data \o new
      /\ a.anchor = st.anchor
    BY <1>1, <1>2
<1> QED BY <1>3 DEF a, new

LEMMA AfterGood ==
    ASSUME HashEvery > 0, NEW st, NEW s \in Nat, GoodBoundary(st, s), ~Uneven(st.consumed), NEW class
    PROVE  /\ GoodBoundary(After(st, class), s + 1)
           /\ Len(After(st, class).data) > Len(st.data)
<1> DEFINE a == After(st, class)
           new == StepBatches(st.pos, st.consumed)
<1>1. /\ a.step = s + 1 /\ a.consumed = st.consumed + Tokens(st.consumed)
      /\ a.pos = st.pos + Span(st.consumed) /\ a.data = st.data \o new
    BY AfterCourse
<1>0. IsState(a) /\ a.chain = IF HashDue(s + 1) THEN DigestAfter(st, class) ELSE st.chain
    BY AfterFields
<1>2. st.consumed \in Nat /\ st.pos \in Nat /\ st.data \in Seq(Nat)
    BY DEF GoodBoundary
<1>3. a.consumed \in Nat /\ a.pos \in Nat
    BY <1>1, <1>2, TokensOfAStep
<1>4. new \in Seq(Nat) /\ Len(new) >= 1
    BY <1>2, BatchesType
<1>5. a.data \in Seq(Nat) /\ Len(a.data) > Len(st.data)
    <2> HIDE DEF a, new
    <2>1. Len(a.data) = Len(st.data) + Len(new) /\ a.data \in Seq(Nat)
        BY <1>1, <1>2, <1>4, ConcatTail
    <2> QED BY <1>2, <1>4, <2>1
<1>6. DigestAfter(st, class).link = "digest"
    BY DEF DigestAfter, StepDigest
<1>7. a.chain = NoLink \/ a.chain.link = "digest"
    BY <1>0, <1>6 DEF GoodBoundary
<1> QED BY <1>0, <1>1, <1>3, <1>5, <1>7 DEF GoodBoundary

-----------------------------------------------------------------------------
(* Ranks and shares *)

LEMMA RanksFacts == 0 \in Ranks /\ World \in Nat \ {0} /\ \A r \in Ranks : r \in Nat
BY TrainAssumption DEF Ranks

LEMMA SameMembers ==
    ASSUME NEW v \in Seq(Nat), NEW w \in Seq(Nat), Len(v) = Len(w),
           \A k \in 1 .. Len(v) : v[k] = w[k]
    PROVE  v = w
<1>1. v = [k \in 1 .. Len(v) |-> v[k]] /\ w = [k \in 1 .. Len(w) |-> w[k]]
    OBVIOUS
<1> QED BY <1>1

LEMMA MembersOfConcat ==
    ASSUME NEW u \in Seq(Nat), NEW v \in Seq(Nat)
    PROVE  /\ u \o v \in Seq(Nat) /\ Len(u \o v) = Len(u) + Len(v)
           /\ \A k \in 1 .. Len(u) + Len(v) :
                 (u \o v)[k] = IF k <= Len(u) THEN u[k] ELSE v[k - Len(u)]
    OBVIOUS

\* Adding r to every member goes through concatenation.
LEMMA ShiftedConcat ==
    ASSUME NEW a \in Seq(Nat), NEW b \in Seq(Nat), NEW r \in Nat,
           NEW p \in Seq(Nat), NEW q \in Seq(Nat), NEW both \in Seq(Nat),
           Len(p) = Len(a), Len(q) = Len(b), Len(both) = Len(a) + Len(b)
    PROVE  (/\ \A k \in 1 .. Len(a) : p[k] = a[k] + r
            /\ \A k \in 1 .. Len(b) : q[k] = b[k] + r
            /\ \A k \in 1 .. Len(a) + Len(b) : both[k] = (a \o b)[k] + r)
           => both = p \o q
<1> DEFINE ab == a \o b
           pq == p \o q
<1>1. \A k \in 1 .. Len(a) + Len(b) : ab[k] = IF k <= Len(a) THEN a[k] ELSE b[k - Len(a)]
    BY MembersOfConcat, Zenon
<1>2. \A k \in 1 .. Len(p) + Len(q) : pq[k] = IF k <= Len(p) THEN p[k] ELSE q[k - Len(p)]
    BY MembersOfConcat, Zenon
<1>3. pq \in Seq(Nat) /\ Len(pq) = Len(a) + Len(b)
    <2>1. pq \in Seq(Nat) /\ Len(pq) = Len(p) + Len(q)
        BY MembersOfConcat, Zenon
    <2> QED BY <2>1
<1> HIDE DEF ab, pq
<1>5. SUFFICES ASSUME \A k \in 1 .. Len(a) : p[k] = a[k] + r,
                      \A k \in 1 .. Len(b) : q[k] = b[k] + r,
                      \A k \in 1 .. Len(a) + Len(b) : both[k] = ab[k] + r
               PROVE  both = pq
    BY DEF ab, pq
<1>6. ASSUME NEW k \in 1 .. Len(a) + Len(b) PROVE both[k] = pq[k]
    <2>1. CASE k <= Len(a)
        <3>1. k \in 1 .. Len(a)
            BY <2>1
        <3> QED BY <1>1, <1>2, <1>5, <2>1, <3>1
    <2>2. CASE ~(k <= Len(a))
        <3> DEFINE j == k - Len(a)
        <3>1. j \in 1 .. Len(b)
            BY <2>2
        <3>2. ab[k] = b[j] /\ pq[k] = q[j]
            BY <1>1, <1>2, <2>2
        <3>3. q[j] = b[j] + r /\ both[k] = ab[k] + r
            BY <1>5, <3>1
        <3> QED BY <3>2, <3>3
    <2> QED BY <2>1, <2>2
<1> QED BY <1>3, <1>6, SameMembers

\* A rank's share of rounds, and of rounds put together.
LEMMA ShareFacts ==
    ASSUME NEW a \in Seq(Nat), NEW b \in Seq(Nat), NEW r \in Nat
    PROVE  /\ RankShare(a, r) \in Seq(Nat) /\ Len(RankShare(a, r)) = Len(a)
           /\ RankShare(a, 0) = a
           /\ RankShare(a \o b, r) = RankShare(a, r) \o RankShare(b, r)
<1>1. \A q \in Seq(Nat) :
         /\ RankShare(q, r) = [k \in 1 .. Len(q) |-> q[k] + r]
         /\ RankShare(q, r) \in Seq(Nat) /\ Len(RankShare(q, r)) = Len(q)
    <2> SUFFICES ASSUME NEW q \in Seq(Nat)
                 PROVE  /\ RankShare(q, r) = [k \in 1 .. Len(q) |-> q[k] + r]
                        /\ RankShare(q, r) \in Seq(Nat)
                        /\ Len(RankShare(q, r)) = Len(q)
        OBVIOUS
    <2>1. RankShare(q, r) = [k \in 1 .. Len(q) |-> q[k] + r]
        BY DEF RankShare
    <2>2. [k \in 1 .. Len(q) |-> q[k] + r] \in [1 .. Len(q) -> Nat]
        OBVIOUS
    <2>3. RankShare(q, r) \in [1 .. Len(q) -> Nat] /\ Len(q) \in Nat
        BY <2>1, <2>2
    <2> QED BY <2>1, <2>3
<1>2. RankShare(a, 0) = a
    <2>1. RankShare(a, 0) = [k \in 1 .. Len(a) |-> a[k] + 0]
        BY DEF RankShare
    <2>2. \A k \in 1 .. Len(a) : a[k] + 0 = a[k]
        OBVIOUS
    <2>3. a = [k \in 1 .. Len(a) |-> a[k]]
        OBVIOUS
    <2> QED BY <2>1, <2>2, <2>3
<1>3. RankShare(a \o b, r) = RankShare(a, r) \o RankShare(b, r)
    <2> DEFINE p == RankShare(a, r)
               q == RankShare(b, r)
               both == RankShare(a \o b, r)
    <2>0. a \o b \in Seq(Nat) /\ Len(a \o b) = Len(a) + Len(b)
        OBVIOUS
    <2>1. /\ p \in Seq(Nat) /\ Len(p) = Len(a) /\ q \in Seq(Nat) /\ Len(q) = Len(b)
          /\ both \in Seq(Nat) /\ Len(both) = Len(a) + Len(b)
        BY <1>1, <2>0
    <2>5. /\ \A k \in 1 .. Len(a) : p[k] = a[k] + r
          /\ \A k \in 1 .. Len(b) : q[k] = b[k] + r
          /\ \A k \in 1 .. Len(a) + Len(b) : both[k] = (a \o b)[k] + r
        BY <1>1, <2>0
    <2> HIDE DEF p, q, both
    <2>6. both = p \o q
        BY <2>1, <2>5, ShiftedConcat
    <2> QED BY <2>6 DEF p, q, both
<1> QED BY <1>1, <1>2, <1>3

LEMMA ShareOfConcat ==
    ASSUME NEW a \in Seq(Nat), NEW b \in Seq(Nat), NEW r \in Nat
    PROVE  RankShare(a \o b, r) = RankShare(a, r) \o RankShare(b, r)
BY ShareFacts

-----------------------------------------------------------------------------
(* The rows of the shards *)


\* Enough chunks to cover the tensor.
LEMMA ChunksCover ==
    ASSUME NEW dim0 \in Nat, NEW world \in Nat \ {0}
    PROVE  /\ ChunkSize(dim0, world) \in Nat
           /\ dim0 <= world * ChunkSize(dim0, world)
<1> DEFINE a == dim0 + world - 1
           q == a \div world
<1>1. a \in Nat
  OBVIOUS
<1>2. q \in Nat /\ a < world * (q + 1)
  BY <1>1, Z3
<1>3. world * (q + 1) = world * q + world /\ world * q \in Int
  BY <1>2, Z3
<1>4. ChunkSize(dim0, world) = q
  BY DEF ChunkSize, Larger
<1> HIDE DEF q
<1> QED
  BY <1>2, <1>3, <1>4

\* The rows rank s cuts out of the whole tensor.
LEMMA LogicalRows ==
    ASSUME NEW dim0 \in Nat, NEW world \in Nat \ {0}, NEW s \in Nat
    PROVE  LET fcs == ChunkSize(dim0, world) IN
           LogicalChunk(dim0, s, world) =
             [i \in 0 .. Smaller(s * fcs + fcs, dim0) - s * fcs - 1 |-> s * fcs + i]
<1> DEFINE fcs == ChunkSize(dim0, world)
<1>1. fcs \in Nat
  BY ChunksCover
<1>2. s * fcs \in Nat
  BY <1>1, Z3
<1> HIDE DEF fcs
<1>3. Smaller(Smaller(s * fcs + fcs, dim0), dim0) = Smaller(s * fcs + fcs, dim0)
  BY <1>1, <1>2 DEF Smaller
<1> QED
  BY <1>3 DEF LogicalChunk, Slice, fcs

\* "The exact rows shard0_logical_chunk reproduces on the audit's full
\* master" (_local_logical): the unpadded local shard is the audit's cut, so
\* no byte of padding is ever hashed, however the sizes divide.
THEOREM LocalLogicalIsTheAuditsChunk ==
    ASSUME NEW dim0 \in Nat, NEW world \in Nat \ {0}, NEW coord \in Nat
    PROVE  LocalLogical(dim0, coord, world) = LogicalChunk(dim0, coord, world)
<1> DEFINE fcs == ChunkSize(dim0, world)
           start == coord * fcs
           real == Larger(0, Smaller(fcs, dim0 - start))
           cut == Smaller(start + fcs, dim0) - start
<1>1. fcs \in Nat
  BY ChunksCover
<1>2. start \in Nat
  BY <1>1, Z3
<1>3. LogicalChunk(dim0, coord, world) = [i \in 0 .. cut - 1 |-> start + i]
  BY LogicalRows
<1>4. LocalLogical(dim0, coord, world) =
        [i \in 0 .. real - 1 |-> LocalShard(dim0, coord, world)[i]]
  BY DEF LocalLogical
<1>5. LocalShard(dim0, coord, world) =
        [i \in 0 .. fcs - 1 |-> IF start + i < dim0 THEN start + i ELSE Pad]
  BY DEF LocalShard
<1> HIDE DEF fcs, start
<1>6. 0 .. real - 1 = 0 .. cut - 1
  BY <1>1, <1>2 DEF Larger, Smaller
<1>7. ASSUME NEW i \in 0 .. real - 1
      PROVE  LocalShard(dim0, coord, world)[i] = start + i
  <2>1. i \in 0 .. fcs - 1 /\ start + i < dim0
    BY <1>1, <1>2 DEF Larger, Smaller
  <2> QED
    BY <1>5, <2>1
<1> HIDE DEF real, cut
<1> QED
  BY <1>3, <1>4, <1>6, <1>7

\* The norm folds over padded shards: the audit pads to the cluster's layout,
\* so both reduce over the same shape (shard0_chunk).
THEOREM PaddedChunkIsTheLocalShard ==
    ASSUME NEW dim0 \in Nat, NEW world \in Nat \ {0}, NEW coord \in Nat
    PROVE  PaddedChunk(dim0, coord, world) = LocalShard(dim0, coord, world)
<1> DEFINE fcs == ChunkSize(dim0, world)
           start == coord * fcs
           chunk == Slice(dim0, start, start + fcs)
<1>1. fcs \in Nat
  BY ChunksCover
<1>2. start \in Nat
  BY <1>1, Z3
<1>3. PaddedChunk(dim0, coord, world) =
        [i \in 0 .. fcs - 1 |-> IF i \in DOMAIN chunk THEN chunk[i] ELSE Pad]
  BY DEF PaddedChunk
<1>4. LocalShard(dim0, coord, world) =
        [i \in 0 .. fcs - 1 |-> IF start + i < dim0 THEN start + i ELSE Pad]
  BY DEF LocalShard
<1> HIDE DEF fcs, start
<1>5. ASSUME NEW i \in 0 .. fcs - 1
      PROVE  /\ i \in DOMAIN chunk <=> start + i < dim0
             /\ i \in DOMAIN chunk => chunk[i] = start + i
  BY <1>1, <1>2 DEF Slice, Smaller
<1> HIDE DEF chunk
<1> QED
  BY <1>3, <1>4, <1>5

\* The audit hashes, in the order of the cluster's gathered digests, the rows
\* each rank of the cluster hashed (audit_shard_state_digest against
\* combine_shard_state), for every size, shard degree and number of ranks.
THEOREM AuditHashesTheClustersRows ==
    ASSUME NEW dim0 \in Nat, NEW shards \in Nat \ {0}, NEW world \in Nat
    PROVE  ClusterRows(dim0, shards, world) = AuditRows(dim0, shards, world)
<1>1. ASSUME NEW r \in 0 .. world - 1
      PROVE  LocalLogical(dim0, Coordinate(r, shards), shards) =
             LogicalChunk(dim0, r % shards, shards)
  <2>1. r % shards \in Nat
    OBVIOUS
  <2> QED
    BY <2>1, LocalLogicalIsTheAuditsChunk DEF Coordinate
<1>2. ASSUME NEW r \in 0 .. world - 1
      PROVE  r % shards \in 0 .. shards - 1
  OBVIOUS
<1> QED
  BY <1>1, <1>2 DEF ClusterRows, AuditRows

\* Products of naturals are monotone.
LEMMA ChunkMonotone ==
    ASSUME NEW n \in Nat, NEW a \in Int, NEW b \in Int, a <= b
    PROVE  n * a <= n * b
  BY Z3

\* Every row of every tensor is hashed by exactly one shard, also when the
\* shards outnumber the rows.
THEOREM EveryRowInOneShard ==
    ASSUME NEW dim0 \in Nat, NEW world \in Nat \ {0}, NEW row \in 0 .. dim0 - 1
    PROVE  \E s \in 0 .. world - 1 :
             /\ \E i \in DOMAIN LogicalChunk(dim0, s, world) :
                    LogicalChunk(dim0, s, world)[i] = row
             /\ \A t \in 0 .. world - 1 :
                    (\E i \in DOMAIN LogicalChunk(dim0, t, world) :
                        LogicalChunk(dim0, t, world)[i] = row) => t = s
<1> DEFINE fcs == ChunkSize(dim0, world)
           s == row \div fcs
<1>1. fcs \in Nat /\ dim0 <= world * fcs
  BY ChunksCover
<1>2. dim0 \in Nat /\ row \in Nat /\ row < dim0
  OBVIOUS
<1>3. fcs \in Nat \ {0}
  <2>1. CASE fcs = 0
    <3>1. world * fcs = 0
      BY <2>1, Z3
    <3> QED
      BY <1>1, <1>2, <3>1
  <2> QED
    BY <1>1, <2>1
<1> HIDE DEF fcs
<1>4. s \in Nat /\ fcs * s <= row /\ row < fcs * (s + 1)
  BY <1>2, <1>3, Z3
<1> HIDE DEF s
<1>5. s < world
  <2>1. CASE world <= s
    <3>1. fcs * world <= fcs * s
      BY <1>3, <1>4, <2>1, ChunkMonotone
    <3>2. fcs * world = world * fcs /\ fcs * world \in Int /\ fcs * s \in Int
      BY <1>3, <1>4, Z3
    <3> QED
      BY <1>1, <1>2, <1>4, <3>1, <3>2
  <2> QED
    BY <1>4, <2>1
<1>6. ASSUME NEW t \in Nat
      PROVE  (\E i \in DOMAIN LogicalChunk(dim0, t, world) :
                  LogicalChunk(dim0, t, world)[i] = row)
              <=> fcs * t <= row /\ row < fcs * (t + 1)
  <2> DEFINE first == t * fcs
             cut == Smaller(first + fcs, dim0) - first
  <2>1. first \in Nat /\ first = fcs * t /\ fcs * (t + 1) = first + fcs
    BY <1>3, Z3
  <2>2. LogicalChunk(dim0, t, world) = [i \in 0 .. cut - 1 |-> first + i]
    BY LogicalRows DEF fcs
  <2> HIDE DEF first
  <2>3. ASSUME fcs * t <= row, row < fcs * (t + 1)
        PROVE  row - first \in 0 .. cut - 1 /\ first + (row - first) = row
    BY <1>2, <1>3, <2>1, <2>3 DEF Smaller
  <2>4. ASSUME NEW i \in 0 .. cut - 1, first + i = row
        PROVE  fcs * t <= row /\ row < fcs * (t + 1)
    BY <1>2, <1>3, <2>1, <2>4 DEF Smaller
  <2> HIDE DEF cut
  <2> QED
    BY <2>2, <2>3, <2>4
<1>7. ASSUME NEW t \in 0 .. world - 1, fcs * t <= row, row < fcs * (t + 1)
      PROVE  t = s
  <2>1. fcs * t \in Int /\ fcs * (t + 1) \in Int /\ fcs * s \in Int /\ fcs * (s + 1) \in Int
    BY <1>3, <1>4, Z3
  <2>2. CASE t < s
    <3>1. fcs * (t + 1) <= fcs * s
      BY <1>3, <1>4, <2>2, ChunkMonotone
    <3> QED
      BY <1>2, <1>4, <1>7, <2>1, <3>1
  <2>3. CASE s < t
    <3>1. fcs * (s + 1) <= fcs * t
      BY <1>3, <1>4, <2>3, ChunkMonotone
    <3> QED
      BY <1>2, <1>4, <1>7, <2>1, <3>1
  <2> QED
    BY <1>4, <2>2, <2>3
<1>8. s \in 0 .. world - 1
  BY <1>4, <1>5
<1> QED
  BY <1>4, <1>6, <1>7, <1>8
=============================================================================
